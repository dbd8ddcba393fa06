----------------------------- MODULE FilesProofs -----------------------------
(***************************************************************************)
(* Theorems about the components of MCFiles: the relay of the file pane,   *)
(* for any number of appservers and messages, and the requests on files,   *)
(* for any number of requests and any paths; with those of the pane and    *)
(* the shell, that the parts keep their types together.                    *)
(***************************************************************************)
EXTENDS MCFiles, ShellSessionProofs, PaneProofs, WellFoundedInduction, FiniteSetTheorems

(* The relay *)

HasLeft == Contains(inbox, Leave)

(* The messages in the inbox, before the disconnect event if it is there;  *)
(* those dispatched; and those a monitor must have been sent.              *)
NumWaiting == IF HasLeft THEN Len(inbox) - 1 ELSE Len(inbox)
Handled == sent - NumWaiting
Accepted == IF initialized THEN Handled ELSE Len(pending)

RelayTypes ==
  /\ sent \in 0..MaxMessages /\ inbox \in Seq(0..MaxMessages) /\ pending \in Seq(1..MaxMessages)
  /\ receiving \in Seq(Monitored) /\ monitors \in Seq(Monitored)
  /\ monitor_websock \in [Monitored -> {"none", "open", "closed"}]
  /\ opener \in 0 .. NumMonitors + 1 /\ replay \in Nat
  /\ mainloop \subseteq {a \in Monitored : monitor_websock[a] # "none"}
  /\ got \in [Monitored -> Seq(Nat)]
  /\ \A b \in {connected, initialized, closing, gone, early} : b \in BOOLEAN

(* The browser's messages come in order, and nothing after it has left.    *)
InboxInOrder ==
  /\ NumWaiting <= sent /\ \A i \in 1..NumWaiting : inbox[i] = Handled + i
  /\ HasLeft => inbox[Len(inbox)] = Leave
  /\ gone => ~HasLeft

(* The list of websockets while it grows and shrinks.                      *)
ListInv ==
  /\ \A i \in 1..Len(monitors) : monitors[i] < opener \/ (monitors[i] = opener /\ replay > 0)
  /\ \A i, j \in 1..Len(monitors) : monitors[i] = monitors[j] => i = j
  /\ \A a \in Monitored : monitor_websock[a] = "open" => Contains(monitors, a)
  /\ ~closing => \A i \in 1..Len(monitors) : monitors[i] \in mainloop

ConnectionInv ==
  /\ gone => ~connected
  /\ gone /\ ~early => monitors = <<>> /\ opener \notin Monitored
  /\ ~connected => gone \/ HasLeft \/ closing
  /\ opener > NumMonitors /\ ~closing /\ ~gone /\ ~HasLeft => monitors # <<>>
  /\ replay > 0 => opener \in Monitored /\ replay <= Len(pending) + 1

(* What is kept for the monitors that are not open yet.                    *)
PendingInv ==
  /\ \A i \in 1..Len(pending) : pending[i] = i
  /\ Len(pending) <= Handled /\ (connected /\ ~initialized => Len(pending) = Handled)
  /\ initialized => pending = <<>> /\ opener = NumMonitors + 1
  /\ initialized /\ ~connected => NumWaiting = 0 /\ (gone \/ HasLeft)
  /\ ~Idle => receivedMsg = Accepted /\ Accepted > 0

(* After each copy of a message there is one of each newer message that    *)
(* is in s and not newer than n.                                           *)
OrderedTo(s, n) ==
  \A i, j \in 1..Len(s) : s[i] < s[j] /\ s[j] <= n => \E l \in 1..Len(s) : i < l /\ s[l] = s[j]

(* How far a monitor has got, and what it has.                             *)
Reached(a) == IF a = opener /\ replay > 0 THEN replay - 1 ELSE Accepted

GotInv(a) ==
  /\ \A i \in 1..Len(got[a]) : got[a][i] \in 1..Accepted
  /\ monitor_websock[a] = "open" =>
       /\ OrderedTo(got[a], Reached(a))
       /\ ~closing => \A m \in 1..Reached(a) :
                        Contains(got[a], m) \/ (m = receivedMsg /\ Contains(receiving, a))

RInv ==
  /\ RelayTypes /\ InboxInOrder /\ ListInv /\ ConnectionInv /\ PendingInv
  /\ \A a \in Monitored : GotInv(a)

-----------------------------------------------------------------------------
(* Sequences *)

LEMMA ContainsAppend ==
  ASSUME NEW S, NEW s \in Seq(S), NEW e \in S, NEW x
  PROVE  Contains(Append(s, e), x) <=> Contains(s, x) \/ x = e
  <1>1. /\ Len(Append(s, e)) = Len(s) + 1 /\ Append(s, e)[Len(s) + 1] = e /\ Len(s) \in Nat
        /\ \A i \in 1..Len(s) : Append(s, e)[i] = s[i]
    BY AppendProperties, LenProperties
  <1>2. Contains(s, x) \/ x = e => Contains(Append(s, e), x)
    BY <1>1 DEF Contains
  <1>3. ASSUME NEW i \in 1 .. Len(s) + 1, Append(s, e)[i] = x PROVE Contains(s, x) \/ x = e
    <2>1. i \in 1..Len(s) \/ i = Len(s) + 1
      BY <1>1
    <2> QED
      BY <1>1, <1>3, <2>1 DEF Contains
  <1> QED
    BY <1>1, <1>2, <1>3 DEF Contains

LEMMA ContainsTail ==
  ASSUME NEW S, NEW s \in Seq(S), s # <<>>, NEW x
  PROVE  /\ Tail(s) \in Seq(S) /\ Head(s) \in S /\ Head(s) = s[1]
         /\ Len(s) \in Nat \ {0} /\ Len(Tail(s)) = Len(s) - 1
         /\ \A i \in 1 .. Len(s) - 1 : Tail(s)[i] = s[i + 1]
         /\ Contains(s, x) <=> Contains(Tail(s), x) \/ x = Head(s)
  <1>1. /\ Tail(s) \in Seq(S) /\ Len(Tail(s)) = Len(s) - 1 /\ Len(s) \in Nat \ {0}
        /\ \A i \in 1 .. Len(s) - 1 : Tail(s)[i] = s[i + 1]
    BY HeadTailProperties, EmptySeq, LenProperties
  <1>2. Head(s) = s[1] /\ Head(s) \in S
    BY <1>1, HeadTailProperties
  <1>3. Contains(Tail(s), x) \/ x = Head(s) => Contains(s, x)
    <2>1. ASSUME NEW i \in 1 .. Len(s) - 1, Tail(s)[i] = x PROVE Contains(s, x)
      <3>1. i + 1 \in 1..Len(s) /\ s[i + 1] = x
        BY <1>1, <2>1
      <3> QED
        BY <3>1 DEF Contains
    <2>2. 1 \in 1..Len(s)
      BY <1>1
    <2> QED
      BY <1>1, <1>2, <2>1, <2>2 DEF Contains
  <1>4. ASSUME NEW i \in 1..Len(s), s[i] = x PROVE Contains(Tail(s), x) \/ x = Head(s)
    <2>1. CASE i = 1
      BY <1>2, <1>4, <2>1
    <2>2. CASE i # 1
      <3>1. i - 1 \in 1 .. Len(s) - 1 /\ (i - 1) + 1 = i
        BY <1>1, <2>2
      <3>2. Tail(s)[i - 1] = x
        BY <1>1, <1>4, <3>1
      <3> QED
        BY <1>1, <3>1, <3>2 DEF Contains
    <2> QED
      BY <2>1, <2>2
  <1> QED
    BY <1>1, <1>2, <1>3, <1>4 DEF Contains

(* The front of a sequence, and what it has.                               *)
LEMMA ContainsFront ==
  ASSUME NEW S, NEW s \in Seq(S), s # <<>>
  PROVE  LET t == SubSeq(s, 1, Len(s) - 1)
         IN  /\ t \in Seq(S) /\ Len(t) = Len(s) - 1 /\ Len(s) \in Nat \ {0}
             /\ \A i \in 1 .. Len(s) - 1 : t[i] = s[i]
             /\ \A x : Contains(s, x) => Contains(t, x) \/ x = Last(s)
  <1> DEFINE t == SubSeq(s, 1, Len(s) - 1)
  <1>1. Len(s) \in Nat \ {0} /\ \A i \in 1..Len(s) : s[i] \in S
    BY LenProperties, ElementOfSeq, EmptySeq
  <1>2. \A i \in 1 .. Len(s) - 1 : s[i] \in S
    BY <1>1
  <1>3. /\ t \in Seq(S) /\ Len(t) = IF 1 <= Len(s) - 1 THEN (Len(s) - 1) - 1 + 1 ELSE 0
        /\ \A i \in 1 .. (Len(s) - 1) - 1 + 1 : t[i] = s[1 + i - 1]
    <2>1. 1 \in Int /\ Len(s) - 1 \in Int
      BY <1>1
    <2> QED
      BY ONLY <1>2, <2>1, SubSeqProperties
  <1> HIDE DEF t
  <1>4. Len(t) = Len(s) - 1 /\ \A i \in 1 .. Len(s) - 1 : t[i] = s[i]
    <2>1. Len(t) = Len(s) - 1 /\ (Len(s) - 1) - 1 + 1 = Len(s) - 1
      <3>1. CASE Len(s) = 1
        <4>1. ~ (1 <= Len(s) - 1)
          BY <3>1
        <4> QED
          BY <1>3, <3>1, <4>1
      <3>2. CASE Len(s) # 1
        <4>1. Len(s) \in Nat /\ Len(s) # 0
          BY <1>1
        <4>2. 1 <= Len(s) - 1 /\ (Len(s) - 1) - 1 + 1 = Len(s) - 1
          <5>1. \A n \in Nat : n # 0 /\ n # 1 => 1 <= n - 1 /\ (n - 1) - 1 + 1 = n - 1
            OBVIOUS
          <5> QED
            BY ONLY <3>2, <4>1, <5>1
        <4> QED
          BY <1>3, <4>2
      <3> QED
        BY <3>1, <3>2
    <2>2. \A i \in 1 .. Len(s) - 1 : 1 + i - 1 = i
      BY <1>1
    <2> QED
      BY <1>3, <2>1, <2>2
  <1>5. ASSUME NEW x, NEW i \in 1..Len(s), s[i] = x PROVE Contains(t, x) \/ x = Last(s)
    <2>1. i = Len(s) \/ i \in 1 .. Len(s) - 1
      BY <1>1
    <2> QED
      BY <1>4, <1>5, <2>1 DEF Contains, Last
  <1> QED
    BY <1>1, <1>3, <1>4, <1>5 DEF t, Contains

(* One element less, if the others are different.                          *)
LEMMA WithoutIndex ==
  ASSUME NEW S, NEW s \in Seq(S), NEW k \in 1..Len(s)
  PROVE  LET t == RemoveAt(s, k)
         IN  /\ t \in Seq(S) /\ Len(t) = Len(s) - 1 /\ Len(s) \in Nat
             /\ \A i \in 1 .. Len(s) - 1 : t[i] = IF i < k THEN s[i] ELSE s[i + 1]
  <1>1. Len(s) \in Nat /\ k \in Nat /\ k <= Len(s) /\ k > 0 /\ \A i \in 1..Len(s) : s[i] \in S
    BY LenProperties, ElementOfSeq
  <1> DEFINE u == SubSeq(s, 1, k - 1)
             v == SubSeq(s, k + 1, Len(s))
  <1>2. /\ u \in Seq(S) /\ Len(u) = IF 1 <= k - 1 THEN (k - 1) - 1 + 1 ELSE 0
        /\ \A i \in 1 .. (k - 1) - 1 + 1 : u[i] = s[1 + i - 1]
    <2>1. 1 \in Int /\ k - 1 \in Int /\ \A i \in 1 .. k - 1 : s[i] \in S
      BY <1>1
    <2> QED
      BY ONLY <2>1, SubSeqProperties
  <1>3. /\ v \in Seq(S) /\ Len(v) = IF k + 1 <= Len(s) THEN Len(s) - (k + 1) + 1 ELSE 0
        /\ \A i \in 1 .. Len(s) - (k + 1) + 1 : v[i] = s[(k + 1) + i - 1]
    <2>1. k + 1 \in Int /\ Len(s) \in Int /\ \A i \in k + 1 .. Len(s) : s[i] \in S
      BY <1>1
    <2> QED
      BY ONLY <2>1, SubSeqProperties
  <1> HIDE DEF u, v
  <1>4. Len(u) = k - 1 /\ \A i \in 1 .. k - 1 : u[i] = s[i]
    <2>1. Len(u) = k - 1 /\ (k - 1) - 1 + 1 = k - 1 /\ \A i \in 1 .. k - 1 : 1 + i - 1 = i
      BY <1>1, <1>2
    <2> QED
      BY <1>2, <2>1
  <1>5. Len(v) = Len(s) - k /\ \A i \in 1 .. Len(s) - k : v[i] = s[k + i]
    <2>1. Len(v) = Len(s) - k /\ Len(s) - (k + 1) + 1 = Len(s) - k
          /\ \A i \in 1 .. Len(s) - k : (k + 1) + i - 1 = k + i
      BY <1>1, <1>3
    <2> QED
      BY <1>3, <2>1
  <1>6. /\ u \o v \in Seq(S) /\ Len(u \o v) = Len(u) + Len(v)
        /\ \A i \in 1 .. Len(u) + Len(v) : (u \o v)[i] = IF i <= Len(u) THEN u[i] ELSE v[i - Len(u)]
    BY <1>2, <1>3, ConcatProperties
  <1>7. Len(u) + Len(v) = Len(s) - 1
    BY <1>1, <1>4, <1>5
  <1>8. ASSUME NEW i \in 1 .. Len(s) - 1 PROVE (u \o v)[i] = IF i < k THEN s[i] ELSE s[i + 1]
    <2>1. CASE i < k
      <3>1. i \in 1 .. k - 1 /\ i <= Len(u)
        BY <1>1, <1>4, <2>1
      <3> QED
        BY <1>4, <1>6, <1>7, <2>1, <3>1
    <2>2. CASE ~ (i < k)
      <3>1. i - Len(u) \in 1 .. Len(s) - k /\ ~ (i <= Len(u)) /\ k + (i - Len(u)) = i + 1
        BY <1>1, <1>4, <2>2
      <3>2. v[i - Len(u)] = s[i + 1]
        BY <1>5, <3>1
      <3> QED
        BY <1>6, <1>7, <2>2, <3>1, <3>2
    <2> QED
      BY <2>1, <2>2
  <1> QED
    BY <1>1, <1>6, <1>7, <1>8 DEF RemoveAt, u, v

(* A message that is not older than any of those told apart comes last.    *)
LEMMA AppendKeepsOrder ==
  ASSUME NEW s \in Seq(Nat), NEW n \in Nat, NEW m \in Nat, OrderedTo(s, n),
         \A i \in 1..Len(s) : s[i] <= n => s[i] <= m
  PROVE  OrderedTo(Append(s, m), n)
  <1> DEFINE t == Append(s, m)
  <1>1. /\ Len(t) = Len(s) + 1 /\ t[Len(s) + 1] = m /\ Len(s) \in Nat
        /\ \A i \in 1..Len(s) : t[i] = s[i] /\ s[i] \in Nat
    BY AppendProperties, LenProperties, ElementOfSeq
  <1> HIDE DEF t
  <1> SUFFICES ASSUME NEW i \in 1..Len(t), NEW j \in 1..Len(t), t[i] < t[j], t[j] <= n
               PROVE  \E l \in 1..Len(t) : i < l /\ t[l] = t[j]
    BY DEF OrderedTo, t
  <1>2. (i \in 1..Len(s) \/ i = Len(s) + 1) /\ (j \in 1..Len(s) \/ j = Len(s) + 1)
    BY <1>1
  <1>3. CASE j = Len(s) + 1
    <2>1. i \in 1..Len(s) /\ i < Len(s) + 1
      BY <1>1, <1>2, <1>3
    <2> QED
      BY <1>1, <1>3, <2>1
  <1>4. CASE j \in 1..Len(s) /\ i \in 1..Len(s)
    <2>1. PICK l \in 1..Len(s) : i < l /\ s[l] = s[j]
      BY <1>1, <1>4 DEF OrderedTo
    <2>2. l \in 1..Len(t)
      BY <1>1
    <2> QED
      BY <1>1, <1>4, <2>1, <2>2
  <1>5. CASE j \in 1..Len(s) /\ i = Len(s) + 1
    <2>1. s[j] <= n /\ m < s[j] /\ s[j] <= m /\ s[j] \in Nat
      BY <1>1, <1>5
    <2> QED
      BY ONLY <2>1, m \in Nat
  <1> QED
    BY <1>2, <1>3, <1>4, <1>5

LEMMA AppendNext ==
  ASSUME NEW s \in Seq(Nat), NEW n \in Nat, OrderedTo(s, n)
  PROVE  OrderedTo(Append(s, n + 1), n + 1)
  <1> DEFINE t == Append(s, n + 1)
  <1>1. /\ Len(t) = Len(s) + 1 /\ t[Len(s) + 1] = n + 1 /\ Len(s) \in Nat
        /\ \A i \in 1..Len(s) : t[i] = s[i] /\ s[i] \in Nat
    BY AppendProperties, LenProperties, ElementOfSeq
  <1> HIDE DEF t
  <1> SUFFICES ASSUME NEW i \in 1..Len(t), NEW j \in 1..Len(t), t[i] < t[j], t[j] <= n + 1
               PROVE  \E l \in 1..Len(t) : i < l /\ t[l] = t[j]
    BY DEF OrderedTo, t
  <1>2. (i \in 1..Len(s) \/ i = Len(s) + 1) /\ (j \in 1..Len(s) \/ j = Len(s) + 1)
    BY <1>1
  <1>3. t[i] \in Nat /\ t[j] \in Nat
    <2>1. \A k \in 1..Len(t) : t[k] \in Nat
      <3>1. ASSUME NEW k \in 1..Len(t) PROVE k \in 1..Len(s) \/ k = Len(s) + 1
        BY ONLY <1>1, <3>1
      <3>2. n + 1 \in Nat
        OBVIOUS
      <3> QED
        BY ONLY <1>1, <3>1, <3>2
    <2> QED
      BY ONLY <2>1, i \in 1..Len(t), j \in 1..Len(t)
  <1>4. i \in 1..Len(s) /\ i < Len(s) + 1
    <2>1. t[i] # n + 1
      BY ONLY <1>3, n \in Nat, t[i] < t[j], t[j] <= n + 1
    <2> QED
      BY <1>1, <1>2, <2>1
  <1>5. CASE t[j] = n + 1
    BY <1>1, <1>4, <1>5
  <1>6. CASE t[j] # n + 1
    <2>1. j \in 1..Len(s)
      BY <1>1, <1>2, <1>6
    <2>2. t[j] <= n
      BY ONLY <1>3, <1>6, n \in Nat, t[j] <= n + 1
    <2>3. PICK l \in 1..Len(s) : i < l /\ s[l] = s[j]
      BY <1>1, <1>4, <2>1, <2>2 DEF OrderedTo
    <2>4. l \in 1..Len(t)
      BY <1>1
    <2> QED
      BY <1>1, <2>1, <2>3, <2>4
  <1> QED
    BY <1>5, <1>6

(* A set of numbers with a bound has a greatest one.                       *)
LEMMA HasGreatest ==
  ASSUME NEW n \in Nat, NEW T, T \subseteq 1..n, T # {}
  PROVE  \E x \in T : \A y \in T : y <= x
  <1> DEFINE U == {n - x : x \in T}
             R == OpToRel(<, Nat)
  <1>1. IsWellFoundedOn(R, Nat)
    BY NatLessThanWellFounded
  <1>2. U \subseteq Nat /\ U # {}
    <2>1. \A x \in T : n - x \in Nat
      OBVIOUS
    <2> QED
      BY <2>1
  <1>3. \A x, y \in Nat : <<y, x>> \in R <=> y < x
    BY DEF OpToRel
  <1> HIDE DEF R
  <1>4. \E x \in U : \A y \in U : ~ (<<y, x>> \in R)
    BY <1>1, <1>2, WFMin
  <1>5. PICK x \in T : \A y \in T : ~ (<<n - y, n - x>> \in R)
    BY <1>4
  <1>6. ASSUME NEW y \in T PROVE y <= x
    <2>1. n - y \in Nat /\ n - x \in Nat /\ x \in Nat /\ y \in Nat
      OBVIOUS
    <2>2. ~ (n - y < n - x)
      BY <1>3, <1>5, <2>1
    <2> QED
      BY ONLY <2>1, <2>2, n \in Nat
  <1> QED
    BY <1>6

LEMMA LastCopyIsLast ==
  ASSUME NEW s \in Seq(Nat), NEW m, Contains(s, m)
  PROVE  /\ LastCopy(s, m) \in 1..Len(s) /\ s[LastCopy(s, m)] = m
         /\ \A j \in 1..Len(s) : s[j] = m => j <= LastCopy(s, m)
  <1>1. Len(s) \in Nat /\ DOMAIN s = 1..Len(s)
    BY LenProperties
  <1> DEFINE T == {i \in 1..Len(s) : s[i] = m}
  <1>2. T \subseteq 1..Len(s) /\ T # {}
    BY DEF Contains
  <1>3. PICK i \in T : \A j \in T : j <= i
    BY <1>1, <1>2, HasGreatest
  <1>4. \E k \in DOMAIN s : s[k] = m /\ \A j \in DOMAIN s : s[j] = m => j <= k
    BY <1>1, <1>3
  <1> QED
    BY <1>1, <1>4 DEF LastCopy

-----------------------------------------------------------------------------
LEMMA RelayInitial == RelayInit => RInv
  <1> SUFFICES ASSUME RelayInit PROVE RInv
    OBVIOUS
  <1>1. \A S : <<>> \in Seq(S)
    BY EmptySeq
  <1>2. Len(<<>>) = 0
    OBVIOUS
  <1>3. RelayTypes
    <2>1. 0 \in 0..MaxMessages /\ 0 \in 0 .. NumMonitors + 1 /\ 0 \in Nat
      BY RelayAssumption
    <2>2. got \in [Monitored -> Seq(Nat)]
      BY <1>1 DEF RelayInit
    <2> QED
      BY <1>1, <2>1, <2>2 DEF RelayInit, RelayTypes
  <1>4. ~ HasLeft /\ NumWaiting = 0 /\ Handled = 0 /\ Accepted = 0
    <2>1. ~ HasLeft
      BY <1>2 DEF RelayInit, HasLeft, Contains
    <2>2. NumWaiting = 0
      BY <1>2, <2>1 DEF RelayInit, NumWaiting
    <2> QED
      BY <1>2, <2>1, <2>2 DEF RelayInit, Handled, Accepted
  <1>5. InboxInOrder /\ PendingInv
    BY <1>2, <1>4 DEF RelayInit, InboxInOrder, PendingInv, Idle
  <1>6. ListInv
    BY <1>2 DEF RelayInit, ListInv
  <1>7. ConnectionInv
    BY RelayAssumption DEF RelayInit, ConnectionInv
  <1>8. ASSUME NEW a \in Monitored PROVE GotInv(a)
    BY <1>2 DEF RelayInit, GotInv
  <1> QED
    BY <1>3, <1>5, <1>6, <1>7, <1>8 DEF RInv

LEMMA RelayParts ==
  ASSUME RInv
  PROVE  /\ RelayTypes /\ InboxInOrder /\ ListInv /\ ConnectionInv /\ PendingInv
         /\ sent \in Nat /\ Len(inbox) \in Nat /\ Len(pending) \in Nat /\ Len(monitors) \in Nat
         /\ NumWaiting \in Nat /\ Handled \in Nat /\ Accepted \in Nat /\ Accepted <= Handled
         /\ \A i \in 1..Len(inbox) : inbox[i] \in Nat
         /\ \A i \in 1..Len(monitors) : monitors[i] \in Monitored
         /\ opener \in Nat /\ replay \in Nat /\ Monitored \subseteq Nat
         /\ \A a \in Monitored : GotInv(a) /\ got[a] \in Seq(Nat) /\ Reached(a) \in Nat
  <1>1. RelayTypes /\ InboxInOrder /\ ListInv /\ ConnectionInv /\ PendingInv
        /\ \A a \in Monitored : GotInv(a)
    BY DEF RInv
  <1>2. sent \in Nat /\ opener \in Nat /\ replay \in Nat /\ Monitored \subseteq Nat
        /\ \A a \in Monitored : got[a] \in Seq(Nat)
    <2>1. sent \in 0..MaxMessages /\ opener \in 0 .. NumMonitors + 1 /\ replay \in Nat
      BY <1>1 DEF RelayTypes
    <2>2. got \in [Monitored -> Seq(Nat)]
      BY <1>1 DEF RelayTypes
    <2>3. Monitored \subseteq Nat
      BY RelayAssumption DEF Monitored
    <2> QED
      BY <2>1, <2>2, <2>3, RelayAssumption
  <1>3. inbox \in Seq(0..MaxMessages) /\ pending \in Seq(1..MaxMessages) /\ monitors \in Seq(Monitored)
    BY <1>1 DEF RelayTypes
  <1>4. /\ Len(inbox) \in Nat /\ Len(pending) \in Nat /\ Len(monitors) \in Nat
        /\ \A i \in 1..Len(inbox) : inbox[i] \in 0..MaxMessages
        /\ \A i \in 1..Len(monitors) : monitors[i] \in Monitored
    BY <1>3, LenProperties, ElementOfSeq
  <1>5. \A i \in 1..Len(inbox) : inbox[i] \in Nat
    BY <1>4, RelayAssumption
  <1>6. NumWaiting \in Nat
    BY <1>4 DEF NumWaiting, HasLeft, Contains
  <1>7. Handled \in Nat
    BY <1>1, <1>2, <1>6 DEF Handled, InboxInOrder
  <1>8. Accepted \in Nat /\ Accepted <= Handled
    BY <1>1, <1>4, <1>7 DEF Accepted, PendingInv
  <1>9. \A a \in Monitored : Reached(a) \in Nat
    BY <1>2, <1>8 DEF Reached
  <1> QED
    BY <1>1, <1>2, <1>4, <1>5, <1>6, <1>7, <1>8, <1>9

LEMMA InboxFrame ==
  ASSUME RInv, UNCHANGED <<sent, inbox>>
  PROVE  /\ HasLeft' <=> HasLeft
         /\ NumWaiting' = NumWaiting /\ Handled' = Handled
         /\ UNCHANGED gone => InboxInOrder'
         /\ UNCHANGED <<initialized, pending>> => Accepted' = Accepted
  BY DEF RInv, HasLeft, NumWaiting, Handled, Accepted, InboxInOrder

(* What comes next in the inbox.                                           *)
LEMMA HeadOfInbox ==
  ASSUME RInv, inbox # <<>>
  PROVE  /\ Tail(inbox) \in Seq(0..MaxMessages) /\ Len(inbox) \in Nat \ {0}
         /\ Len(Tail(inbox)) = Len(inbox) - 1
         /\ \A i \in 1 .. Len(inbox) - 1 : Tail(inbox)[i] = inbox[i + 1]
         /\ HasLeft <=> Contains(Tail(inbox), Leave) \/ Head(inbox) = Leave
         /\ Head(inbox) = Leave => HasLeft /\ NumWaiting = 0 /\ Len(inbox) = 1 /\ ~Contains(Tail(inbox), Leave)
         /\ Head(inbox) # Leave => NumWaiting > 0 /\ Head(inbox) = Handled + 1
  <1> DEFINE S == 0..MaxMessages
  <1>1. inbox \in Seq(S) /\ Leave = 0
    BY RelayParts DEF RelayTypes, Leave
  <1> HIDE DEF S
  <1>2. /\ Tail(inbox) \in Seq(S) /\ Head(inbox) = inbox[1] /\ Len(inbox) \in Nat \ {0}
        /\ Len(Tail(inbox)) = Len(inbox) - 1
        /\ \A i \in 1 .. Len(inbox) - 1 : Tail(inbox)[i] = inbox[i + 1]
        /\ Contains(inbox, Leave) <=> Contains(Tail(inbox), Leave) \/ Leave = Head(inbox)
    BY ONLY <1>1, inbox # <<>>, ContainsTail
  <1>3. \A i \in 1..NumWaiting : inbox[i] = Handled + i /\ inbox[i] # Leave
    BY <1>1, RelayParts DEF InboxInOrder
  <1>4. 1 \in 1..Len(inbox)
    BY <1>2
  <1>5. ASSUME Head(inbox) = Leave
        PROVE  HasLeft /\ NumWaiting = 0 /\ Len(inbox) = 1 /\ ~Contains(Tail(inbox), Leave)
    <2>1. HasLeft
      BY <1>2, <1>5 DEF HasLeft
    <2>2. ~ (1 \in 1..NumWaiting)
      BY <1>2, <1>3, <1>5
    <2>3. NumWaiting = 0
      BY <2>2, RelayParts
    <2>4. Len(inbox) = 1
      <3>1. Len(inbox) - 1 = 0 /\ Len(inbox) \in Nat
        BY <1>2, <2>1, <2>3 DEF NumWaiting
      <3> QED
        BY ONLY <3>1
    <2> QED
      BY <1>2, <2>1, <2>3, <2>4 DEF Contains
  <1>6. ASSUME Head(inbox) # Leave PROVE NumWaiting > 0 /\ Head(inbox) = Handled + 1
    <2>1. NumWaiting > 0
      <3>1. CASE HasLeft
        <4>1. inbox[Len(inbox)] = Leave
          BY <3>1, RelayParts DEF InboxInOrder
        <4>2. Len(inbox) # 1
          BY <1>2, <1>6, <4>1
        <4> QED
          BY <1>2, <3>1, <4>2 DEF NumWaiting
      <3>2. CASE ~HasLeft
        BY <1>2, <3>2 DEF NumWaiting
      <3> QED
        BY <3>1, <3>2
    <2>2. 1 \in 1..NumWaiting
      BY <2>1, RelayParts
    <2> QED
      BY <1>2, <1>3, <2>1, <2>2
  <1> QED
    BY <1>2, <1>5, <1>6 DEF S, HasLeft

LEMMA BrowserKeeps == ASSUME RInv, BrowserSends \/ BrowserLeaves PROVE RInv'
  <1> DEFINE m == IF sent' = sent THEN Leave ELSE sent + 1
  <1>1. /\ ~HasLeft /\ ~gone /\ inbox' = Append(inbox, m)
        /\ \/ sent' = sent /\ m = Leave
           \/ sent < MaxMessages /\ sent' = sent + 1 /\ m = sent + 1 /\ m # Leave
        /\ UNCHANGED <<receiving, receivedMsg, connected, initialized, pending, monitors, monitor_websock,
                       mainloop, opener, replay, got, closing, gone, early>>
    BY RelayParts DEF BrowserSends, BrowserLeaves, HasLeft, Leave
  <1>2. m \in 0..MaxMessages /\ inbox \in Seq(0..MaxMessages) /\ sent' \in 0..MaxMessages
    <2>1. sent \in 0..MaxMessages /\ inbox \in Seq(0..MaxMessages)
      BY RelayParts DEF RelayTypes
    <2> HIDE DEF m
    <2>2. MaxMessages \in Nat /\ Leave = 0
      BY RelayAssumption DEF Leave
    <2> QED
      BY <1>1, <2>1, <2>2
  <1> DEFINE S == 0..MaxMessages
  <1> HIDE DEF m, S
  <1>3. /\ inbox' \in Seq(S) /\ Len(inbox') = Len(inbox) + 1 /\ inbox'[Len(inbox) + 1] = m
        /\ \A i \in 1..Len(inbox) : inbox'[i] = inbox[i]
        /\ Contains(inbox', Leave) <=> Contains(inbox, Leave) \/ Leave = m
    <2>1. m \in S /\ inbox \in Seq(S) /\ inbox' = Append(inbox, m)
      BY <1>1, <1>2 DEF S
    <2> QED
      BY ONLY <2>1, AppendProperties, ContainsAppend
  <1>4. NumWaiting = Len(inbox) /\ Len(inbox) \in Nat /\ sent \in Nat /\ NumWaiting <= sent
    BY <1>1, RelayParts DEF NumWaiting, InboxInOrder
  <1>5. HasLeft' <=> m = Leave
    BY <1>1, <1>3 DEF HasLeft
  <1>6. Handled' = Handled /\ NumWaiting' <= sent'
    BY <1>1, <1>3, <1>4, <1>5 DEF NumWaiting, Handled
  <1>7. InboxInOrder'
    <2>1. ASSUME NEW i \in 1..NumWaiting' PROVE inbox'[i] = Handled' + i
      <3>1. CASE i \in 1..Len(inbox)
        BY <1>3, <1>4, <1>6, <3>1, RelayParts DEF InboxInOrder
      <3>2. CASE i \notin 1..Len(inbox)
        <4>1. i = Len(inbox) + 1 /\ ~HasLeft'
          BY <1>3, <1>4, <3>2 DEF NumWaiting
        <4>2. m = sent + 1
          BY <1>1, <1>5, <4>1
        <4>3. Handled + i = sent + 1
          BY <1>4, <4>1 DEF Handled
        <4> QED
          BY <1>3, <1>6, <4>1, <4>2, <4>3
      <3> QED
        BY <3>1, <3>2
    <2> QED
      BY <1>1, <1>3, <1>5, <1>6, <2>1 DEF InboxInOrder
  <1>8. Accepted' = Accepted
    BY <1>1, <1>6 DEF Accepted
  <1>9. RelayTypes'
    BY <1>1, <1>2, <1>3, RelayParts DEF RelayTypes, S
  <1>10. ListInv' /\ ConnectionInv'
    BY <1>1, RelayParts DEF ListInv, ConnectionInv
  <1>11. PendingInv'
    BY <1>1, <1>6, <1>8, RelayParts DEF PendingInv, Idle
  <1>12. ASSUME NEW a \in Monitored PROVE GotInv(a)'
    BY <1>1, <1>8, RelayParts DEF GotInv, Reached
  <1> QED
    BY <1>7, <1>9, <1>10, <1>11, <1>12 DEF RInv

LEMMA MonitorFailsKeeps == ASSUME RInv, NEW a \in Monitored, MonitorFails(a) PROVE RInv'
  <1>1. /\ monitor_websock[a] = "open" /\ monitor_websock' = [monitor_websock EXCEPT ![a] = "closed"]
        /\ UNCHANGED <<sent, inbox, receiving, receivedMsg, connected, initialized, pending,
                       monitors, mainloop, opener, replay, got, closing, gone, early>>
    BY DEF MonitorFails
  <1>2. /\ monitor_websock' \in [Monitored -> {"none", "open", "closed"}]
        /\ \A b \in Monitored : monitor_websock'[b] = "open" => monitor_websock[b] = "open"
        /\ \A b \in Monitored : monitor_websock'[b] = "none" => monitor_websock[b] = "none"
    BY <1>1, RelayParts DEF RelayTypes
  <1>3. RelayTypes'
    BY <1>1, <1>2, RelayParts DEF RelayTypes
  <1>4. InboxInOrder' /\ Accepted' = Accepted /\ Handled' = Handled /\ NumWaiting' = NumWaiting
        /\ (HasLeft' <=> HasLeft)
    BY <1>1, InboxFrame
  <1>5. ListInv' /\ ConnectionInv'
    BY <1>1, <1>2, <1>4, RelayParts DEF ListInv, ConnectionInv
  <1>6. PendingInv'
    BY <1>1, <1>4, RelayParts DEF PendingInv, Idle
  <1>7. ASSUME NEW b \in Monitored PROVE GotInv(b)'
    BY <1>1, <1>2, <1>4, RelayParts DEF GotInv, Reached
  <1> QED
    BY <1>3, <1>4, <1>5, <1>6, <1>7 DEF RInv

(* A message that is accepted goes to all that are open, and is kept for   *)
(* the others.                                                             *)
LEMMA ReceiveKeeps == ASSUME RInv, receive PROVE RInv'
  <1>1. /\ Idle /\ ~gone /\ inbox # <<>> /\ Head(inbox) # Leave /\ inbox' = Tail(inbox)
        /\ UNCHANGED <<sent, connected, initialized, monitors, monitor_websock, mainloop, opener, replay,
                       got, closing, gone, early>>
    BY DEF receive
  <1>2. /\ inbox' \in Seq(0..MaxMessages) /\ Len(inbox) \in Nat \ {0} /\ Len(inbox') = Len(inbox) - 1
        /\ \A i \in 1 .. Len(inbox) - 1 : inbox'[i] = inbox[i + 1]
        /\ HasLeft' <=> HasLeft
        /\ NumWaiting > 0 /\ Head(inbox) = Handled + 1
    BY <1>1, HeadOfInbox DEF HasLeft
  <1>3. NumWaiting \in Nat /\ sent \in Nat /\ Handled \in Nat /\ NumWaiting <= sent
    BY RelayParts DEF InboxInOrder
  <1>4. NumWaiting' = NumWaiting - 1 /\ Handled' = Handled + 1
    <2>1. NumWaiting' = NumWaiting - 1
      BY <1>2 DEF NumWaiting
    <2> QED
      BY <1>1, <1>3, <2>1 DEF Handled
  <1>5. InboxInOrder'
    <2>1. ASSUME NEW i \in 1..NumWaiting' PROVE inbox'[i] = Handled' + i
      <3>1. i + 1 \in 1..NumWaiting /\ i \in 1 .. Len(inbox) - 1
        BY <1>2, <1>3, <1>4, <2>1 DEF NumWaiting
      <3>2. inbox[i + 1] = Handled + (i + 1)
        BY <3>1, RelayParts DEF InboxInOrder
      <3> QED
        BY <1>2, <1>3, <1>4, <3>1, <3>2
    <2>2. ASSUME HasLeft' PROVE inbox'[Len(inbox')] = Leave
      <3>1. HasLeft /\ inbox[Len(inbox)] = Leave
        BY <1>2, <2>2, RelayParts DEF InboxInOrder
      <3>2. Len(inbox) # 1
        BY <1>2, <3>1 DEF NumWaiting
      <3>3. Len(inbox') \in 1 .. Len(inbox) - 1 /\ Len(inbox') + 1 = Len(inbox)
        BY <1>2, <3>2
      <3> QED
        BY <1>2, <3>1, <3>3
    <2>3. NumWaiting' <= sent' /\ ~ gone'
      BY <1>1, <1>3, <1>4
    <2> QED
      BY <2>1, <2>2, <2>3 DEF InboxInOrder
  <1>6. ListInv'
    BY <1>1, RelayParts DEF ListInv
  <1>7. CASE connected
    <2>1. /\ receivedMsg' = Handled + 1 /\ receiving' = monitors
          /\ pending' = IF initialized THEN pending ELSE Append(pending, Handled + 1)
      BY <1>1, <1>2, <1>7 DEF receive
    <2>2. /\ pending \in Seq(1..MaxMessages) /\ Len(pending) \in Nat
          /\ ~initialized => Len(pending) = Handled
          /\ \A i \in 1..Len(pending) : pending[i] = i
          /\ sent <= MaxMessages
      BY <1>7, RelayParts, RelayAssumption DEF RelayTypes, PendingInv
    <2>3. /\ pending' \in Seq(1..MaxMessages) /\ Len(pending') \in Nat
          /\ Len(pending) <= Len(pending')
          /\ \A i \in 1..Len(pending') : pending'[i] = i
          /\ ~initialized => Len(pending') = Handled'
          /\ initialized => pending' = pending
      <3>1. CASE initialized
        BY <2>1, <2>2, <3>1
      <3>2. CASE ~initialized
        <4>1. Handled + 1 \in 1..MaxMessages
          BY <1>2, <1>3, <2>2, RelayAssumption DEF Handled
        <4>2. pending' = Append(pending, Handled + 1)
          BY <2>1, <3>2
        <4>3. /\ pending' \in Seq(1..MaxMessages) /\ Len(pending') = Len(pending) + 1
              /\ pending'[Len(pending) + 1] = Handled + 1
              /\ \A i \in 1..Len(pending) : pending'[i] = pending[i]
          BY <2>2, <4>1, <4>2, AppendProperties
        <4>4. ASSUME NEW i \in 1..Len(pending') PROVE pending'[i] = i
          <5>1. i \in 1..Len(pending) \/ i = Len(pending) + 1
            BY <2>2, <4>3
          <5> QED
            BY <2>2, <3>2, <4>3, <5>1
        <4> QED
          BY <1>3, <1>4, <2>2, <3>2, <4>3, <4>4
      <3> QED
        BY <3>1, <3>2
    <2>4. Accepted = Handled /\ Accepted' = Accepted + 1 /\ receivedMsg' = Accepted' /\ Accepted \in Nat
      <3>1. Accepted = Handled
        BY <2>2 DEF Accepted
      <3>2. Accepted' = Handled'
        BY <1>1, <2>3 DEF Accepted
      <3> QED
        BY <1>3, <1>4, <2>1, <3>1, <3>2
    <2>5. RelayTypes'
      BY <1>1, <1>2, <2>1, <2>3, RelayParts DEF RelayTypes
    <2>6. ConnectionInv'
      BY <1>1, <1>2, <2>2, <2>3, RelayParts DEF ConnectionInv
    <2>7. PendingInv'
      <3>1. Len(pending') <= Handled'
        BY <1>3, <1>4, <2>2, <2>3, RelayParts DEF PendingInv
      <3> QED
        BY <1>1, <1>7, <2>3, <2>4, <3>1, RelayParts DEF PendingInv
    <2>8. ASSUME NEW a \in Monitored PROVE GotInv(a)'
      <3>1. GotInv(a) /\ got[a] \in Seq(Nat) /\ ~Contains(receiving, a)
        BY <1>1, RelayParts DEF Idle, Contains
      <3>2. \A i \in 1..Len(got[a]) : got[a][i] \in 1..Accepted /\ got[a][i] \in 1..Accepted'
        BY <2>4, <3>1 DEF GotInv
      <3>3. ASSUME monitor_websock[a] = "open" PROVE OrderedTo(got[a], Reached(a)')
        <4>1. OrderedTo(got[a], Reached(a))
          BY <3>1, <3>3 DEF GotInv
        <4>2. CASE a = opener /\ replay > 0
          BY <1>1, <4>1, <4>2 DEF Reached
        <4>3. CASE ~ (a = opener /\ replay > 0)
          <5>1. OrderedTo(got[a], Accepted) /\ Reached(a)' = Accepted'
            BY <1>1, <4>1, <4>3 DEF Reached
          <5>2. \A j \in 1..Len(got[a]) : got[a][j] <= Accepted
            BY <2>4, <3>2
          <5> QED
            BY <5>1, <5>2 DEF OrderedTo
        <4> QED
          BY <4>2, <4>3
      <3>4. ASSUME monitor_websock[a] = "open", ~closing, NEW k \in 1..Reached(a)'
            PROVE  Contains(got[a], k) \/ (k = receivedMsg' /\ Contains(receiving', a))
        <4>1. \A j \in 1..Reached(a) : Contains(got[a], j)
          BY <3>1, <3>4 DEF GotInv
        <4>2. Contains(monitors, a)
          BY <3>4, RelayParts DEF ListInv
        <4>3. CASE a = opener /\ replay > 0
          BY <1>1, <4>1, <4>3 DEF Reached
        <4>4. CASE ~ (a = opener /\ replay > 0)
          <5>1. Reached(a) = Accepted /\ k \in 1 .. Accepted + 1
            BY <1>1, <2>4, <4>4 DEF Reached
          <5>2. k \in 1..Accepted \/ k = Accepted + 1
            BY <2>4, <5>1
          <5> QED
            BY <2>1, <2>4, <4>1, <4>2, <5>1, <5>2
        <4> QED
          BY <4>3, <4>4
      <3> QED
        BY <1>1, <3>2, <3>3, <3>4 DEF GotInv
    <2> QED
      BY <1>5, <1>6, <2>5, <2>6, <2>7, <2>8 DEF RInv
  <1>8. CASE ~connected
    <2>1. UNCHANGED <<receivedMsg, receiving, pending>>
      BY <1>8 DEF receive
    <2>2. ~initialized
      BY <1>2, <1>8, RelayParts DEF PendingInv
    <2>3. Accepted' = Accepted
      BY <1>1, <2>1, <2>2 DEF Accepted
    <2>4. RelayTypes'
      BY <1>1, <1>2, <2>1, RelayParts DEF RelayTypes
    <2>5. ConnectionInv'
      BY <1>1, <1>2, <2>1, RelayParts DEF ConnectionInv
    <2>6. PendingInv'
      <3>1. Len(pending') <= Handled'
        BY <1>3, <1>4, <2>1, RelayParts DEF PendingInv
      <3> QED
        BY <1>1, <1>8, <2>1, <2>2, <2>3, <3>1, RelayParts DEF PendingInv, Idle
    <2>7. ASSUME NEW a \in Monitored PROVE GotInv(a)'
      BY <1>1, <2>1, <2>3, RelayParts DEF GotInv, Reached
    <2> QED
      BY <1>5, <1>6, <2>4, <2>5, <2>6, <2>7 DEF RInv
  <1> QED
    BY <1>7, <1>8

(* The message that is forwarded is the newest one.                        *)
LEMMA ForwardKeeps == ASSUME RInv, Forward PROVE RInv'
  <1>1. /\ ~Idle
        /\ UNCHANGED <<sent, inbox, receivedMsg, connected, initialized, pending, monitors, monitor_websock,
                       mainloop, opener, replay, gone, early>>
    BY DEF Forward
  <1>2. /\ Tail(receiving) \in Seq(Monitored) /\ Head(receiving) \in Monitored
        /\ \A x : Contains(receiving, x) <=> Contains(Tail(receiving), x) \/ x = Head(receiving)
    <2>1. receiving \in Seq(Monitored) /\ receiving # <<>>
      BY <1>1, RelayParts DEF RelayTypes, Idle
    <2> QED
      BY ONLY <2>1, ContainsTail
  <1>9. PICK a \in Monitored : a = Head(receiving)
    BY <1>2
  <1>3. /\ InboxInOrder' /\ Accepted' = Accepted /\ Handled' = Handled /\ NumWaiting' = NumWaiting
        /\ (HasLeft' <=> HasLeft)
    BY <1>1, InboxFrame
  <1>4. receivedMsg = Accepted /\ Accepted > 0 /\ Accepted \in Nat
    BY <1>1, RelayParts DEF PendingInv
  <1>5. PendingInv'
    BY <1>1, <1>3, <1>4, RelayParts DEF PendingInv
  <1>6. \A b \in Monitored : Reached(b)' = Reached(b)
    BY <1>1, <1>3 DEF Reached
  <1>7. CASE monitor_websock[a] = "open"
    <2>1. got' = [got EXCEPT ![a] = Append(got[a], receivedMsg)] /\ receiving' = Tail(receiving)
          /\ UNCHANGED closing
      BY <1>7, <1>9 DEF Forward, Deliver
    <2>2. got[a] \in Seq(Nat) /\ Append(got[a], receivedMsg) \in Seq(Nat)
      BY <1>2, <1>4, RelayParts, AppendProperties
    <2>3. got' \in [Monitored -> Seq(Nat)] /\ got'[a] = Append(got[a], receivedMsg)
          /\ \A b \in Monitored \ {a} : got'[b] = got[b]
      BY <1>2, <2>1, <2>2, RelayParts DEF RelayTypes
    <2>4. RelayTypes'
      BY <1>1, <1>2, <2>1, <2>3, RelayParts DEF RelayTypes
    <2>5. ListInv' /\ ConnectionInv'
      BY <1>1, <1>3, <2>1, RelayParts DEF ListInv, ConnectionInv
    <2>6. ASSUME NEW b \in Monitored \ {a} PROVE GotInv(b)'
      <3>1. got'[b] = got[b] /\ Reached(b)' = Reached(b) /\ GotInv(b)
        BY <1>6, <2>3, RelayParts
      <3>2. Contains(receiving, b) => Contains(receiving', b)
        BY <1>2, <1>9, <2>1
      <3> QED
        BY <1>1, <1>3, <2>1, <3>1, <3>2 DEF GotInv
    <2>7. GotInv(a)'
      <3>1. /\ \A i \in 1..Len(got[a]) : got[a][i] \in 1..Accepted
            /\ OrderedTo(got[a], Reached(a)) /\ Reached(a) \in Nat
            /\ ~closing => \A m \in 1..Reached(a) : Contains(got[a], m) \/ m = receivedMsg
        BY <1>2, <1>7, RelayParts DEF GotInv
      <3>2. OrderedTo(got'[a], Reached(a))
        <4>1. \A i \in 1..Len(got[a]) : got[a][i] <= receivedMsg
          BY <1>4, <3>1
        <4>2. receivedMsg \in Nat
          BY <1>4
        <4> QED
          BY <2>2, <2>3, <3>1, <4>1, <4>2, AppendKeepsOrder
      <3>3. \A i \in 1..Len(got'[a]) : got'[a][i] \in 1..Accepted
        <4>1. /\ Len(got'[a]) = Len(got[a]) + 1 /\ got'[a][Len(got[a]) + 1] = receivedMsg
              /\ \A i \in 1..Len(got[a]) : got'[a][i] = got[a][i]
              /\ Len(got[a]) \in Nat
          BY <1>4, <2>2, <2>3, AppendProperties, LenProperties
        <4> SUFFICES ASSUME NEW i \in 1..Len(got'[a]) PROVE got'[a][i] \in 1..Accepted
          OBVIOUS
        <4>2. i \in 1..Len(got[a]) \/ i = Len(got[a]) + 1
          BY <4>1
        <4>3. receivedMsg \in 1..Accepted
          BY <1>4
        <4>4. CASE i \in 1..Len(got[a])
          BY ONLY <3>1, <4>1, <4>4
        <4>5. CASE i = Len(got[a]) + 1
          BY ONLY <4>1, <4>3, <4>5
        <4> QED
          BY <4>2, <4>4, <4>5
      <3>4. ASSUME ~closing, NEW m \in 1..Reached(a) PROVE Contains(got'[a], m)
        <4>1. Contains(got[a], m) \/ m = receivedMsg
          BY <3>1, <3>4
        <4>2. receivedMsg \in Nat
          BY <1>4
        <4> QED
          BY <2>2, <2>3, <4>1, <4>2, ContainsAppend
      <3> QED
        BY <1>2, <1>3, <1>6, <2>1, <3>2, <3>3, <3>4 DEF GotInv
    <2> QED
      BY <1>3, <1>5, <2>4, <2>5, <2>6, <2>7 DEF RInv
  <1>8. CASE monitor_websock[a] # "open"
    <2>1. closing' = TRUE /\ receiving' = <<>> /\ UNCHANGED got /\ <<>> \in Seq(Monitored)
      BY <1>8, <1>9, EmptySeq DEF Forward
    <2>2. RelayTypes'
      BY <1>1, <2>1, RelayParts DEF RelayTypes
    <2>3. ListInv' /\ ConnectionInv'
      BY <1>1, <1>3, <2>1, RelayParts DEF ListInv, ConnectionInv
    <2>4. ASSUME NEW b \in Monitored PROVE GotInv(b)'
      BY <1>1, <1>3, <1>6, <2>1, RelayParts DEF GotInv
    <2> QED
      BY <1>3, <1>5, <2>2, <2>3, <2>4 DEF RInv
  <1> QED
    BY <1>7, <1>8

(* The browser has left: the websockets are closed one after the other.    *)
LEMMA DisconnectKeeps == ASSUME RInv, disconnect PROVE RInv'
  <1>1. /\ Idle /\ inbox # <<>> /\ Head(inbox) = Leave /\ connected' = FALSE
        /\ UNCHANGED <<sent, receiving, receivedMsg, initialized, pending, mainloop, opener, replay,
                       got, closing>>
    BY DEF disconnect
  <1>2. HasLeft /\ NumWaiting = 0 /\ ~gone
    BY <1>1, HeadOfInbox, RelayParts DEF InboxInOrder
  <1>3. CASE monitors # <<>>
    <2>1. /\ monitor_websock' = [monitor_websock EXCEPT ![Last(monitors)] = "closed"]
          /\ monitors' = SubSeq(monitors, 1, Len(monitors) - 1)
          /\ UNCHANGED <<inbox, gone, early>>
      BY <1>3 DEF disconnect
    <2>2. /\ monitors' \in Seq(Monitored) /\ Len(monitors') = Len(monitors) - 1
          /\ Len(monitors) \in Nat \ {0}
          /\ \A i \in 1 .. Len(monitors) - 1 : monitors'[i] = monitors[i]
          /\ \A x : Contains(monitors, x) => Contains(monitors', x) \/ x = Last(monitors)
      <3>1. monitors \in Seq(Monitored) /\ monitors # <<>>
        BY <1>3, RelayParts DEF RelayTypes
      <3> QED
        BY ONLY <2>1, <3>1, ContainsFront
    <2>3. Last(monitors) \in Monitored
      BY <2>2, RelayParts DEF Last
    <2>4. /\ monitor_websock' \in [Monitored -> {"none", "open", "closed"}]
          /\ monitor_websock'[Last(monitors)] = "closed"
          /\ \A b \in Monitored : monitor_websock'[b] = "open" =>
               monitor_websock[b] = "open" /\ b # Last(monitors)
          /\ \A b \in Monitored : monitor_websock'[b] = "none" => monitor_websock[b] = "none"
      BY <2>1, <2>3, RelayParts DEF RelayTypes
    <2>5. /\ InboxInOrder' /\ Accepted' = Accepted /\ Handled' = Handled /\ NumWaiting' = NumWaiting
          /\ HasLeft'
      BY <1>1, <1>2, <2>1, InboxFrame
    <2>6. RelayTypes'
      BY <1>1, <2>1, <2>2, <2>4, RelayParts DEF RelayTypes
    <2>7. ListInv'
      <3>1. \A i \in 1..Len(monitors') : i \in 1..Len(monitors) /\ monitors'[i] = monitors[i]
        BY <2>2
      <3>2. \A b \in Monitored : monitor_websock'[b] = "open" => Contains(monitors', b)
        BY <2>2, <2>4, RelayParts DEF ListInv
      <3> QED
        BY <1>1, <3>1, <3>2, RelayParts DEF ListInv
    <2>8. ConnectionInv'
      BY <1>1, <1>2, <2>1, <2>5, RelayParts DEF ConnectionInv
    <2>9. PendingInv'
      BY <1>1, <1>2, <2>1, <2>5, RelayParts DEF PendingInv, Idle
    <2>10. ASSUME NEW b \in Monitored PROVE GotInv(b)'
      BY <1>1, <2>1, <2>4, <2>5, RelayParts DEF GotInv, Reached
    <2> QED
      BY <2>5, <2>6, <2>7, <2>8, <2>9, <2>10 DEF RInv
  <1>4. CASE monitors = <<>>
    <2>1. inbox' = Tail(inbox) /\ gone' = TRUE /\ early' = (opener \in Monitored)
          /\ UNCHANGED <<monitor_websock, monitors>>
      BY <1>4 DEF disconnect
    <2>2. /\ inbox' \in Seq(0..MaxMessages) /\ Len(inbox') = 0 /\ ~HasLeft'
      BY <1>1, <2>1, HeadOfInbox DEF HasLeft
    <2>3. NumWaiting' = 0 /\ Handled' = Handled
      BY <1>1, <1>2, <2>2, RelayParts DEF NumWaiting, Handled
    <2>4. Accepted' = Accepted
      BY <1>1, <2>3 DEF Accepted
    <2>5. InboxInOrder'
      BY <1>1, <2>2, <2>3, RelayParts DEF InboxInOrder
    <2>6. RelayTypes'
      <3>1. early' \in BOOLEAN
        BY <2>1
      <3> QED
        BY <1>1, <2>1, <2>2, <3>1, RelayParts DEF RelayTypes
    <2>7. ListInv' /\ ConnectionInv'
      <3>1. ~early' => opener \notin Monitored
        BY <2>1
      <3>2. replay > 0 => opener \in Monitored /\ replay <= Len(pending) + 1
        BY RelayParts DEF ConnectionInv
      <3>3. ConnectionInv'
        BY <1>1, <1>4, <2>1, <3>1, <3>2 DEF ConnectionInv
      <3>4. ListInv'
        BY <1>1, <2>1, RelayParts DEF ListInv
      <3> QED
        BY <3>3, <3>4
    <2>8. PendingInv'
      BY <1>1, <2>1, <2>3, <2>4, RelayParts DEF PendingInv, Idle
    <2>9. ASSUME NEW b \in Monitored PROVE GotInv(b)'
      BY <1>1, <2>1, <2>4, RelayParts DEF GotInv, Reached
    <2> QED
      BY <2>5, <2>6, <2>7, <2>8, <2>9 DEF RInv
  <1> QED
    BY <1>3, <1>4

(* A monitor that is opened has got nothing of what is replayed to it.     *)
LEMMA OpenMonitorKeeps == ASSUME RInv, OpenMonitor PROVE RInv'
  <1>1. /\ opener \in Monitored /\ replay = 0
        /\ UNCHANGED <<sent, inbox, receiving, receivedMsg, connected, initialized, pending, got,
                       closing, gone, early>>
    BY DEF OpenMonitor
  <1>2. opener \in Nat /\ opener < NumMonitors /\ NumMonitors \in Nat /\ ~initialized
        /\ opener + 1 \in 0 .. NumMonitors + 1
    BY <1>1, RelayParts, RelayAssumption DEF Monitored, PendingInv
  <1>3. /\ InboxInOrder' /\ Accepted' = Accepted /\ Handled' = Handled /\ NumWaiting' = NumWaiting
        /\ (HasLeft' <=> HasLeft)
    BY <1>1, InboxFrame
  <1>4. PendingInv'
    BY <1>1, <1>2, <1>3, RelayParts DEF PendingInv, Idle
  <1>5. CASE /\ monitor_websock' = [monitor_websock EXCEPT ![opener] = "open"]
             /\ monitors' = Append(monitors, opener)
             /\ mainloop' = mainloop \union {opener}
             /\ replay' = 1 /\ UNCHANGED opener
    <2>1. /\ monitor_websock' \in [Monitored -> {"none", "open", "closed"}]
          /\ monitor_websock'[opener] = "open"
          /\ \A b \in Monitored \ {opener} : monitor_websock'[b] = monitor_websock[b]
      BY <1>1, <1>5, RelayParts DEF RelayTypes
    <2>2. /\ monitors' \in Seq(Monitored) /\ Len(monitors') = Len(monitors) + 1
          /\ Len(monitors) \in Nat /\ monitors'[Len(monitors) + 1] = opener
          /\ \A i \in 1..Len(monitors) : monitors'[i] = monitors[i]
          /\ \A x : Contains(monitors', x) <=> Contains(monitors, x) \/ x = opener
      <3>1. monitors \in Seq(Monitored) /\ opener \in Monitored /\ monitors' = Append(monitors, opener)
        BY <1>1, <1>5, RelayParts DEF RelayTypes
      <3> QED
        BY ONLY <3>1, AppendProperties, LenProperties, ContainsAppend
    <2>3. RelayTypes'
      BY <1>1, <1>5, <2>1, <2>2, RelayParts DEF RelayTypes
    <2>4. ListInv'
      <3>1. \A i \in 1..Len(monitors') : i \in 1..Len(monitors) \/ i = Len(monitors) + 1
        BY <2>2
      <3>2. \A i \in 1..Len(monitors) : monitors[i] < opener
        BY <1>1, RelayParts DEF ListInv
      <3>3. \A i \in 1..Len(monitors) : monitors'[i] # opener /\ monitors'[i] < opener
        <4>1. \A i \in 1..Len(monitors) : monitors[i] \in Nat
          BY RelayParts
        <4> QED
          BY <1>2, <2>2, <3>2, <4>1
      <3>4. \A i \in 1..Len(monitors') : monitors'[i] < opener' \/ (monitors'[i] = opener' /\ replay' > 0)
        BY <1>5, <2>2, <3>1, <3>3
      <3>5. \A i, j \in 1..Len(monitors') : monitors'[i] = monitors'[j] => i = j
        BY <2>2, <3>1, <3>3, RelayParts DEF ListInv
      <3>6. \A b \in Monitored : monitor_websock'[b] = "open" => Contains(monitors', b)
        BY <2>1, <2>2, RelayParts DEF ListInv
      <3>7. ~closing' => \A i \in 1..Len(monitors') : monitors'[i] \in mainloop'
        BY <1>1, <1>5, <2>2, <3>1, RelayParts DEF ListInv
      <3> QED
        BY <3>4, <3>5, <3>6, <3>7 DEF ListInv
    <2>5. ConnectionInv'
      <3>1. ~ (opener > NumMonitors) /\ 1 <= Len(pending) + 1
        BY <1>2, RelayParts
      <3> QED
        BY <1>1, <1>3, <1>5, <3>1, RelayParts DEF ConnectionInv
    <2>6. ASSUME NEW b \in Monitored PROVE GotInv(b)'
      <3>1. CASE b # opener
        <4>1. Reached(b)' = Reached(b) /\ GotInv(b) /\ monitor_websock'[b] = monitor_websock[b]
          BY <1>3, <1>5, <2>1, <3>1, RelayParts DEF Reached
        <4>2. /\ got' = got /\ closing' = closing /\ receiving' = receiving /\ receivedMsg' = receivedMsg
              /\ Accepted' = Accepted
          BY <1>1, <1>3
        <4> QED
          BY ONLY <4>1, <4>2 DEF GotInv
      <3>2. CASE b = opener
        <4>0. Reached(b)' = 0
          BY <1>5, <3>2 DEF Reached
        <4>1. \A i \in 1..Len(got[b]) : got[b][i] \in 1..Accepted
          BY RelayParts DEF GotInv
        <4>2. \A i \in 1..Len(got[b]) : ~ (got[b][i] <= 0)
          <5>1. Accepted \in Nat
            BY RelayParts
          <5> QED
            BY <4>1, <5>1
        <4> QED
          BY <1>1, <1>3, <4>0, <4>1, <4>2 DEF GotInv, OrderedTo
      <3> QED
        BY <3>1, <3>2
    <2> QED
      BY <1>3, <1>4, <2>3, <2>4, <2>5, <2>6 DEF RInv
  <1>6. CASE opener' = opener + 1 /\ UNCHANGED <<monitor_websock, monitors, mainloop, replay>>
    <2>1. RelayTypes'
      BY <1>1, <1>2, <1>6, RelayParts DEF RelayTypes
    <2>2. ListInv'
      <3>1. \A i \in 1..Len(monitors) : monitors[i] < opener + 1
        BY <1>1, RelayParts DEF ListInv
      <3> QED
        BY <1>1, <1>6, <3>1, RelayParts DEF ListInv
    <2>3. ConnectionInv'
      <3>1. ~ (opener + 1 > NumMonitors)
        BY <1>2
      <3>2. gone => early
        BY <1>1, RelayParts DEF ConnectionInv
      <3> QED
        BY <1>1, <1>3, <1>6, <3>1, <3>2, RelayParts DEF ConnectionInv
    <2>4. ASSUME NEW b \in Monitored PROVE GotInv(b)'
      BY <1>1, <1>3, <1>6, RelayParts DEF GotInv, Reached
    <2> QED
      BY <1>3, <1>4, <2>1, <2>2, <2>3, <2>4 DEF RInv
  <1> QED
    BY <1>5, <1>6 DEF OpenMonitor

(* The messages that were kept are replayed in their order.                *)
LEMMA ReplayKeeps == ASSUME RInv, Replay PROVE RInv'
  <1>1. /\ opener \in Monitored /\ replay > 0
        /\ UNCHANGED <<sent, inbox, receiving, receivedMsg, connected, initialized, pending,
                       monitors, monitor_websock, mainloop, closing, gone, early>>
    BY DEF Replay
  <1>2. opener \in Nat /\ opener < NumMonitors /\ NumMonitors \in Nat /\ ~initialized
        /\ opener + 1 \in 0 .. NumMonitors + 1 /\ replay \in Nat /\ replay - 1 \in Nat
        /\ Len(pending) \in Nat /\ replay <= Len(pending) + 1
    BY <1>1, RelayParts, RelayAssumption DEF Monitored, PendingInv, ConnectionInv
  <1>3. /\ InboxInOrder' /\ Accepted' = Accepted /\ Handled' = Handled /\ NumWaiting' = NumWaiting
        /\ (HasLeft' <=> HasLeft) /\ Accepted = Len(pending)
    BY <1>1, <1>2, InboxFrame DEF Accepted
  <1>4. CASE replay <= Len(pending) /\ monitor_websock[opener] = "open"
    <2>1. got' = [got EXCEPT ![opener] = Append(got[opener], replay)] /\ replay' = replay + 1
          /\ UNCHANGED opener
      <3>1. pending[replay] = replay
        BY <1>1, <1>2, <1>4, RelayParts DEF PendingInv
      <3> QED
        BY <1>4, <3>1 DEF Replay, Deliver
    <2>2. got[opener] \in Seq(Nat) /\ Append(got[opener], replay) \in Seq(Nat)
      BY <1>1, <1>2, RelayParts, AppendProperties
    <2>3. got' \in [Monitored -> Seq(Nat)] /\ got'[opener] = Append(got[opener], replay)
          /\ \A b \in Monitored \ {opener} : got'[b] = got[b]
      BY <1>1, <2>1, <2>2, RelayParts DEF RelayTypes
    <2>4. RelayTypes'
      BY <1>1, <1>2, <2>1, <2>3, RelayParts DEF RelayTypes
    <2>5. ListInv'
      BY <1>1, <1>2, <2>1, RelayParts DEF ListInv
    <2>6. ConnectionInv'
      BY <1>1, <1>2, <1>3, <1>4, <2>1, RelayParts DEF ConnectionInv
    <2>7. PendingInv'
      BY <1>1, <1>3, <2>1, RelayParts DEF PendingInv, Idle
    <2>8. ASSUME NEW b \in Monitored \ {opener} PROVE GotInv(b)'
      BY <1>1, <1>3, <2>1, <2>3, RelayParts DEF GotInv, Reached
    <2>9. ASSUME NEW b \in Monitored, b = opener PROVE GotInv(b)'
      <3>1. Reached(opener) = replay - 1 /\ Reached(opener)' = replay
        BY <1>1, <1>2, <2>1 DEF Reached
      <3>2. /\ \A i \in 1..Len(got[opener]) : got[opener][i] \in 1..Accepted
            /\ OrderedTo(got[opener], replay - 1)
            /\ ~closing => \A m \in 1 .. replay - 1 :
                 Contains(got[opener], m) \/ (m = receivedMsg /\ Contains(receiving, opener))
        BY <1>1, <1>4, <3>1, RelayParts DEF GotInv
      <3>3. OrderedTo(got'[opener], replay)
        <4>1. OrderedTo(Append(got[opener], (replay - 1) + 1), (replay - 1) + 1)
          BY <1>2, <2>2, <3>2, AppendNext
        <4>2. (replay - 1) + 1 = replay
          BY <1>2
        <4> QED
          BY <2>3, <4>1, <4>2
      <3>4. \A i \in 1..Len(got'[opener]) : got'[opener][i] \in 1..Accepted
        <4>0. got[opener] \in Seq(Nat) /\ replay \in Nat /\ got'[opener] = Append(got[opener], replay)
          BY <1>2, <2>2, <2>3
        <4>1. /\ Len(got'[opener]) = Len(got[opener]) + 1 /\ got'[opener][Len(got[opener]) + 1] = replay
              /\ \A i \in 1..Len(got[opener]) : got'[opener][i] = got[opener][i]
              /\ Len(got[opener]) \in Nat
          BY ONLY <4>0, AppendProperties, LenProperties
        <4> SUFFICES ASSUME NEW i \in 1..Len(got'[opener]) PROVE got'[opener][i] \in 1..Accepted
          OBVIOUS
        <4>2. i \in 1..Len(got[opener]) \/ i = Len(got[opener]) + 1
          BY <4>1
        <4>3. replay \in 1..Accepted
          BY <1>1, <1>2, <1>3, <1>4
        <4>4. CASE i \in 1..Len(got[opener])
          BY ONLY <3>2, <4>1, <4>4
        <4>5. CASE i = Len(got[opener]) + 1
          BY ONLY <4>1, <4>3, <4>5
        <4> QED
          BY <4>2, <4>4, <4>5
      <3>5. ASSUME ~closing, NEW m \in 1..replay
            PROVE  Contains(got'[opener], m) \/ (m = receivedMsg /\ Contains(receiving, opener))
        <4>1. m = replay \/ m \in 1 .. replay - 1
          BY <1>2
        <4>0. got[opener] \in Seq(Nat) /\ replay \in Nat /\ got'[opener] = Append(got[opener], replay)
          BY <1>2, <2>2, <2>3
        <4>2. \A x : Contains(got'[opener], x) <=> Contains(got[opener], x) \/ x = replay
          BY ONLY <4>0, ContainsAppend
        <4> QED
          BY <3>2, <3>5, <4>1, <4>2
      <3>6. Reached(b)' = replay
        BY <1>1, <1>2, <2>1, <2>9 DEF Reached
      <3> QED
        BY <1>1, <1>3, <2>1, <2>9, <3>3, <3>4, <3>5, <3>6 DEF GotInv
    <2> QED
      BY <1>3, <2>4, <2>5, <2>6, <2>7, <2>8, <2>9 DEF RInv
  <1>5. CASE ~ (replay <= Len(pending) /\ monitor_websock[opener] = "open")
    <2>1. replay' = 0 /\ opener' = opener + 1 /\ UNCHANGED got
      BY <1>5 DEF Replay
    <2>2. RelayTypes'
      BY <1>1, <1>2, <2>1, RelayParts DEF RelayTypes
    <2>3. ListInv'
      <3>1. \A i \in 1..Len(monitors) : monitors[i] < opener + 1
        <4>1. \A i \in 1..Len(monitors) : monitors[i] \in Nat /\ (monitors[i] < opener \/ monitors[i] = opener)
          BY RelayParts DEF ListInv
        <4> QED
          BY <1>2, <4>1
      <3> QED
        BY <1>1, <2>1, <3>1, RelayParts DEF ListInv
    <2>4. ConnectionInv'
      <3>1. ~ (opener + 1 > NumMonitors)
        BY <1>2
      <3>2. gone => early
        BY <1>1, RelayParts DEF ConnectionInv
      <3> QED
        BY <1>1, <1>3, <2>1, <3>1, <3>2, RelayParts DEF ConnectionInv
    <2>5. PendingInv'
      BY <1>1, <1>2, <1>3, <2>1, RelayParts DEF PendingInv, Idle
    <2>6. ASSUME NEW b \in Monitored, monitor_websock[b] = "open" PROVE Reached(b)' = Reached(b)
      <3>1. Reached(b)' = Accepted
        BY <1>3, <2>1 DEF Reached
      <3>2. CASE b = opener
        <4>1. replay - 1 = Len(pending)
          BY <1>2, <1>5, <2>6, <3>2
        <4> QED
          BY <1>1, <1>3, <3>1, <3>2, <4>1 DEF Reached
      <3>3. CASE b # opener
        BY <3>1, <3>3 DEF Reached
      <3> QED
        BY <3>2, <3>3
    <2>7. ASSUME NEW b \in Monitored PROVE GotInv(b)'
      BY <1>1, <1>3, <2>1, <2>6, RelayParts DEF GotInv
    <2> QED
      BY <1>3, <2>2, <2>3, <2>4, <2>5, <2>7 DEF RInv
  <1> QED
    BY <1>4, <1>5

LEMMA InitializedKeeps == ASSUME RInv, Initialized PROVE RInv'
  <1>1. /\ opener = NumMonitors /\ opener' = NumMonitors + 1
        /\ UNCHANGED <<sent, inbox, receiving, receivedMsg, monitors, monitor_websock, mainloop, replay, got,
                       gone, early>>
    BY DEF Initialized
  <1>2. NumMonitors \in Nat /\ opener \notin Monitored /\ replay = 0 /\ ~initialized
        /\ opener' \notin Monitored /\ opener' \in 0 .. NumMonitors + 1
    BY <1>1, RelayParts, RelayAssumption DEF Monitored, PendingInv, ConnectionInv
  <1>3. InboxInOrder' /\ Handled' = Handled /\ NumWaiting' = NumWaiting /\ (HasLeft' <=> HasLeft)
    BY <1>1, InboxFrame
  <1>4. \/ ~connected /\ UNCHANGED <<connected, initialized, pending, closing>>
        \/ /\ connected /\ monitors # <<>>
           /\ initialized' = TRUE /\ pending' = <<>> /\ UNCHANGED <<connected, closing>>
        \/ /\ connected /\ monitors = <<>>
           /\ connected' = FALSE /\ closing' = TRUE /\ UNCHANGED <<initialized, pending>>
    BY DEF Initialized
  <1>5. Accepted' = Accepted
    BY <1>2, <1>3, <1>4, RelayParts DEF Accepted, PendingInv
  <1>6. RelayTypes'
    <2>1. <<>> \in Seq(1..MaxMessages)
      BY EmptySeq
    <2> QED
      BY <1>1, <1>2, <1>4, <2>1, RelayParts DEF RelayTypes
  <1>7. ListInv'
    <2>1. \A i \in 1..Len(monitors) : monitors[i] < NumMonitors + 1
      BY <1>1, <1>2, RelayParts DEF ListInv
    <2>2. ~closing' => ~closing
      BY <1>4
    <2> QED
      BY <1>1, <2>1, <2>2, RelayParts DEF ListInv
  <1>8. ConnectionInv'
    BY <1>1, <1>2, <1>3, <1>4, RelayParts DEF ConnectionInv
  <1>9. PendingInv'
    <2>1. Len(<<>>) = 0 /\ Handled \in Nat
      BY RelayParts
    <2>2. ~Idle' => receivedMsg' = Accepted' /\ Accepted' > 0
      BY <1>1, <1>5, RelayParts DEF PendingInv, Idle
    <2>3. CASE ~connected
      BY <1>1, <1>2, <1>3, <1>4, <2>2, <2>3, RelayParts DEF PendingInv
    <2>4. CASE connected /\ monitors # <<>>
      <3>1. initialized' /\ connected' /\ pending' = <<>> /\ opener' = NumMonitors + 1
        BY <1>1, <1>4, <2>4
      <3>2. Len(pending') <= Handled' /\ \A i \in 1..Len(pending') : pending'[i] = i
        <4>1. Len(pending') = 0 /\ Handled \in Nat
          BY <2>1, <3>1
        <4>2. Handled' = Handled
          BY <1>3
        <4> QED
          BY ONLY <4>1, <4>2
      <3> QED
        BY <2>2, <3>1, <3>2 DEF PendingInv
    <2>5. CASE connected /\ monitors = <<>>
      <3>1. \A i \in 1..Len(pending) : pending[i] = i
        BY RelayParts DEF PendingInv
      <3>2. Len(pending) <= Handled
        BY RelayParts DEF PendingInv
      <3> QED
        BY <1>1, <1>2, <1>3, <1>4, <2>2, <2>5, <3>1, <3>2 DEF PendingInv
    <2> QED
      BY <2>3, <2>4, <2>5
  <1>10. ASSUME NEW b \in Monitored PROVE GotInv(b)'
    <2>1. Reached(b)' = Reached(b) /\ (~closing' => ~closing)
      BY <1>1, <1>2, <1>4, <1>5 DEF Reached
    <2> QED
      BY <1>1, <1>5, <2>1, RelayParts DEF GotInv
  <1> QED
    BY <1>3, <1>6, <1>7, <1>8, <1>9, <1>10 DEF RInv

LEMMA CloseMonitorKeeps == ASSUME RInv, close_monitor PROVE RInv'
  <1>1. /\ closing' = TRUE
        /\ UNCHANGED <<sent, inbox, receiving, receivedMsg, connected, initialized, pending, monitors,
                       monitor_websock, mainloop, opener, replay, got, gone, early>>
    BY DEF close_monitor
  <1>2. /\ InboxInOrder' /\ Accepted' = Accepted /\ Handled' = Handled /\ NumWaiting' = NumWaiting
        /\ (HasLeft' <=> HasLeft)
    BY <1>1, InboxFrame
  <1>3. RelayTypes'
    BY <1>1, RelayParts DEF RelayTypes
  <1>4. ListInv' /\ ConnectionInv'
    BY <1>1, <1>2, RelayParts DEF ListInv, ConnectionInv
  <1>5. PendingInv'
    BY <1>1, <1>2, RelayParts DEF PendingInv, Idle
  <1>6. ASSUME NEW b \in Monitored PROVE GotInv(b)'
    BY <1>1, <1>2, RelayParts DEF GotInv, Reached
  <1> QED
    BY <1>2, <1>3, <1>4, <1>5, <1>6 DEF RInv

(* A task that ends takes its websocket off the list, or closes.           *)
LEMMA MainloopKeeps == ASSUME RInv, NEW a \in Monitored, monitor_mainloop(a) PROVE RInv'
  <1>1. /\ a \in mainloop /\ mainloop' = mainloop \ {a}
        /\ UNCHANGED <<sent, inbox, receiving, receivedMsg, connected, initialized, pending, monitor_websock,
                       opener, replay, got, gone, early>>
        /\ \/ monitor_websock[a] = "closed" /\ remove_monitor(a) /\ closing' = (closing \/ monitors' = <<>>)
           \/ closing' = TRUE /\ UNCHANGED monitors
    BY DEF monitor_mainloop
  <1>2. /\ InboxInOrder' /\ Accepted' = Accepted /\ Handled' = Handled /\ NumWaiting' = NumWaiting
        /\ (HasLeft' <=> HasLeft)
    BY <1>1, InboxFrame
  <1>3. PendingInv'
    BY <1>1, <1>2, RelayParts DEF PendingInv, Idle
  <1>4. closing' \in BOOLEAN /\ (~closing' => ~closing)
    BY <1>1, RelayParts DEF RelayTypes
  <1>5. ASSUME NEW b \in Monitored PROVE GotInv(b)'
    BY <1>1, <1>2, <1>4, RelayParts DEF GotInv, Reached
  <1>6. CASE closing' = TRUE /\ UNCHANGED monitors
    <2>1. RelayTypes'
      BY <1>1, <1>6, RelayParts DEF RelayTypes
    <2>2. ListInv' /\ ConnectionInv'
      BY <1>1, <1>2, <1>6, RelayParts DEF ListInv, ConnectionInv
    <2> QED
      BY <1>2, <1>3, <1>5, <2>1, <2>2 DEF RInv
  <1>7. CASE /\ monitor_websock[a] = "closed" /\ remove_monitor(a)
             /\ closing' = (closing \/ monitors' = <<>>)
    <2>1. /\ monitors' \in Seq(Monitored)
          /\ \A i \in 1..Len(monitors') : \E j \in 1..Len(monitors) : monitors'[i] = monitors[j]
          /\ \A i, j \in 1..Len(monitors') : monitors'[i] = monitors'[j] => i = j
          /\ \A i \in 1..Len(monitors') : monitors'[i] # a
          /\ \A x : x # a /\ Contains(monitors, x) => Contains(monitors', x)
          /\ monitors = <<>> => monitors' = <<>>
      <3>1. monitors \in Seq(Monitored) /\ DOMAIN monitors = 1..Len(monitors) /\ Len(monitors) \in Nat
            /\ \A i, j \in 1..Len(monitors) : monitors[i] = monitors[j] => i = j
        BY RelayParts, LenProperties DEF RelayTypes, ListInv
      <3>2. CASE ~Contains(monitors, a)
        <4>1. monitors' = monitors
          BY <1>7, <3>2 DEF remove_monitor
        <4> QED
          BY <3>1, <3>2, <4>1 DEF Contains
      <3>3. CASE Contains(monitors, a)
        <4> DEFINE k == CHOOSE i \in DOMAIN monitors : monitors[i] = a
                   n == Len(monitors)
        <4>1. k \in 1..n /\ monitors[k] = a
          BY <3>1, <3>3 DEF Contains
        <4>2. monitors' = RemoveAt(monitors, k)
          BY <1>7, <3>3 DEF remove_monitor
        <4> HIDE DEF k
        <4>3. /\ monitors' \in Seq(Monitored) /\ Len(monitors') = n - 1 /\ n \in Nat
              /\ \A i \in 1 .. n - 1 : monitors'[i] = IF i < k THEN monitors[i] ELSE monitors[i + 1]
          BY <3>1, <4>1, <4>2, WithoutIndex
        <4> HIDE DEF n
        <4>4. \A i, j \in 1..n : monitors[i] = monitors[j] => i = j
          BY <3>1 DEF n
        <4> DEFINE old(i) == IF i < k THEN i ELSE i + 1
        <4>5. k \in Nat /\ k <= n /\ \A i \in 1 .. n - 1 : old(i) \in 1..n /\ old(i) # k
          BY <4>1, <4>3
        <4>6. \A i, j \in 1 .. n - 1 : old(i) = old(j) => i = j
          BY <4>1, <4>3
        <4>7. \A i \in 1 .. n - 1 : monitors'[i] = monitors[old(i)]
          BY <4>3
        <4>8. ASSUME NEW j \in 1..n, j # k PROVE \E i \in 1 .. n - 1 : old(i) = j
          <5>1. CASE j < k
            <6>1. j \in 1 .. n - 1 /\ old(j) = j
              BY <4>3, <4>5, <5>1
            <6> QED
              BY <6>1
          <5>2. CASE ~ (j < k)
            <6>1. j - 1 \in 1 .. n - 1 /\ old(j - 1) = j
              BY <4>1, <4>3, <4>5, <4>8, <5>2
            <6> QED
              BY <6>1
          <5> QED
            BY <5>1, <5>2
        <4> HIDE DEF old
        <4>9. ASSUME NEW x, x # a, Contains(monitors, x) PROVE Contains(monitors', x)
          <5>1. PICK j \in 1..n : monitors[j] = x
            BY <4>9 DEF Contains, n
          <5>2. PICK i \in 1 .. n - 1 : old(i) = j
            BY <4>1, <4>8, <4>9, <5>1
          <5> QED
            BY <4>3, <4>7, <5>1, <5>2 DEF Contains
        <4>10. \A i \in 1 .. n - 1 : monitors'[i] # a
          BY <4>1, <4>4, <4>5, <4>7
        <4>11. \A i, j \in 1 .. n - 1 : monitors'[i] = monitors'[j] => i = j
          BY <4>4, <4>5, <4>6, <4>7
        <4>12. monitors # <<>>
          BY <3>1, <3>3 DEF Contains
        <4> QED
          BY <4>3, <4>5, <4>7, <4>9, <4>10, <4>11, <4>12 DEF n
      <3> QED
        BY <3>2, <3>3
    <2>2. RelayTypes'
      BY <1>1, <1>4, <2>1, RelayParts DEF RelayTypes
    <2>3. ListInv'
      <3>1. \A i \in 1..Len(monitors') : monitors'[i] < opener' \/ (monitors'[i] = opener' /\ replay' > 0)
        BY <1>1, <2>1, RelayParts DEF ListInv
      <3>2. \A b \in Monitored : monitor_websock'[b] = "open" => Contains(monitors', b)
        BY <1>1, <1>7, <2>1, RelayParts DEF ListInv
      <3>3. ~closing' => \A i \in 1..Len(monitors') : monitors'[i] \in mainloop'
        BY <1>1, <1>4, <2>1, RelayParts DEF ListInv
      <3> QED
        BY <2>1, <3>1, <3>2, <3>3 DEF ListInv
    <2>4. ConnectionInv'
      BY <1>1, <1>2, <1>4, <1>7, <2>1, RelayParts DEF ConnectionInv
    <2> QED
      BY <1>2, <1>3, <1>5, <2>2, <2>3, <2>4 DEF RInv
  <1> QED
    BY <1>1, <1>6, <1>7

LEMMA RelayStep == RInv /\ [RelayNext]_relayvars => RInv'
  <1> SUFFICES ASSUME RInv, [RelayNext]_relayvars PROVE RInv'
    OBVIOUS
  <1>1. CASE RelayNext
    BY <1>1, BrowserKeeps, MonitorFailsKeeps, ReceiveKeeps, ForwardKeeps, DisconnectKeeps, OpenMonitorKeeps,
       ReplayKeeps, InitializedKeeps, CloseMonitorKeeps, MainloopKeeps DEF RelayNext
  <1>2. CASE UNCHANGED relayvars
    <2>1. UNCHANGED <<sent, inbox, receiving, receivedMsg, connected, initialized, pending,
                      monitors, monitor_websock, mainloop, opener, replay, got, closing, gone, early>>
      BY <1>2 DEF relayvars
    <2>2. /\ InboxInOrder' /\ Accepted' = Accepted /\ Handled' = Handled /\ NumWaiting' = NumWaiting
          /\ (HasLeft' <=> HasLeft)
      BY <2>1, InboxFrame
    <2>3. RelayTypes' /\ ListInv'
      BY <2>1, RelayParts DEF RelayTypes, ListInv
    <2>4. ConnectionInv' /\ PendingInv'
      BY <2>1, <2>2, RelayParts DEF ConnectionInv, PendingInv, Idle
    <2>5. ASSUME NEW b \in Monitored PROVE GotInv(b)'
      BY <2>1, <2>2, RelayParts DEF GotInv, Reached
    <2> QED
      BY <2>2, <2>3, <2>4, <2>5 DEF RInv
  <1> QED
    BY <1>1, <1>2

(* The relay keeps its invariant, whatever browser and appservers do.     *)
THEOREM RelayInvariant == RelaySpec => []RInv
  BY RelayInitial, RelayStep, PTL DEF RelaySpec

(* A browser that left leaves no websocket to a monitor once they were     *)
(* opened, and one whose monitors are all lost is told to connect again.   *)
THEOREM RelayEndsTogether == RelaySpec => []EndsTogether
  <1>1. RInv => EndsTogether
    <2> SUFFICES ASSUME RInv PROVE EndsTogether
      OBVIOUS
    <2>1. NoMonitorLeft
      <3> SUFFICES ASSUME gone, ~early, NEW a \in Monitored, monitor_websock[a] = "open" PROVE FALSE
        BY DEF NoMonitorLeft
      <3>1. monitors = <<>> /\ Contains(monitors, a)
        BY RelayParts DEF ConnectionInv, ListInv
      <3> QED
        BY <3>1 DEF Contains
    <2>2. LostMonitorsClose
      <3> SUFFICES ASSUME opener > NumMonitors, mainloop = {}, ~closing, ~gone, ~HasLeft PROVE FALSE
        BY DEF LostMonitorsClose, HasLeft
      <3>1. monitors # <<>> /\ monitors \in Seq(Monitored)
        BY RelayParts DEF ConnectionInv, RelayTypes
      <3>2. Len(monitors) \in Nat /\ Len(monitors) # 0
        BY <3>1, LenProperties, EmptySeq
      <3>3. 1 \in 1..Len(monitors)
        BY <3>2
      <3> QED
        BY <3>3, RelayParts DEF ListInv
    <2> QED
      BY <2>1, <2>2 DEF EndsTogether
  <1> QED
    BY <1>1, RelayInvariant, PTL

(* What the browser sends reaches every monitor, also one that is opened   *)
(* late, and what it sent last is what each gets last.                     *)
THEOREM RelayForwards == RelaySpec => []ForwardedInOrder
  <1>1. RInv => ForwardedInOrder
    <2> SUFFICES ASSUME RInv PROVE ForwardedInOrder
      OBVIOUS
    <2>1. LastCopiesInOrder
      <3> SUFFICES ASSUME NEW a \in Monitored, monitor_websock[a] = "open", ~ (a = opener /\ replay > 0),
                          NEW m \in 1..sent, NEW n \in 1..sent,
                          m < n, Contains(got[a], m), Contains(got[a], n)
                   PROVE  LastCopy(got[a], m) < LastCopy(got[a], n)
        BY DEF LastCopiesInOrder
      <3>1. /\ got[a] \in Seq(Nat) /\ OrderedTo(got[a], Accepted)
            /\ \A i \in 1..Len(got[a]) : got[a][i] \in 1..Accepted
        BY RelayParts DEF GotInv, Reached
      <3> DEFINE i == LastCopy(got[a], m)
                 j == LastCopy(got[a], n)
      <3>2. /\ i \in 1..Len(got[a]) /\ got[a][i] = m
            /\ j \in 1..Len(got[a]) /\ got[a][j] = n
            /\ \A l \in 1..Len(got[a]) : got[a][l] = n => l <= j
        BY <3>1, LastCopyIsLast
      <3> HIDE DEF i, j
      <3>3. n <= Accepted
        <4>1. Accepted \in Nat
          BY RelayParts
        <4> QED
          BY <3>1, <3>2, <4>1
      <3>4. PICK l \in 1..Len(got[a]) : i < l /\ got[a][l] = n
        BY <3>1, <3>2, <3>3 DEF OrderedTo
      <3>5. l <= j /\ i \in Int /\ l \in Int /\ j \in Int
        BY <3>1, <3>2, <3>4, LenProperties
      <3>6. i < j
        BY ONLY <3>4, <3>5
      <3> QED
        BY <3>6 DEF i, j
    <2>2. EverythingForwarded
      <3> SUFFICES ASSUME initialized, Idle, inbox = <<>>, ~closing, NEW i \in DOMAIN monitors,
                          monitor_websock[monitors[i]] = "open", NEW m \in 1..sent
                   PROVE  Contains(got[monitors[i]], m)
        BY DEF EverythingForwarded
      <3>1. monitors[i] \in Monitored
        BY RelayParts, LenProperties DEF RelayTypes
      <3>2. Accepted = sent
        <4>1. Len(inbox) = 0
          OBVIOUS
        <4>2. NumWaiting = 0
          BY <4>1 DEF NumWaiting, HasLeft, Contains
        <4> QED
          BY <4>2, RelayParts DEF Accepted, Handled
      <3>3. Reached(monitors[i]) = sent
        <4>1. opener \notin Monitored
          BY RelayParts, RelayAssumption DEF PendingInv, Monitored
        <4> QED
          BY <3>1, <3>2, <4>1 DEF Reached
      <3>4. ~Contains(receiving, monitors[i])
        BY DEF Idle, Contains
      <3> QED
        BY <3>1, <3>3, <3>4, RelayParts DEF GotInv
    <2> QED
      BY <2>1, <2>2 DEF ForwardedInOrder
  <1> QED
    BY <1>1, RelayInvariant, PTL

-----------------------------------------------------------------------------
(* The requests on files *)

Commands == {"get", "zip", "write", "create", "mkdir", "rm", "rmdir", "rename"}
CommandTypes ==
  /\ entry \in [Entries -> Files \union {Nothing, Directory}]
  /\ contents \in [Files -> Seq(Files \union {Hole})]
  /\ command \in [FileRequests -> Commands \union {Nothing}]
  /\ path \in [FileRequests -> Entries \union {<<>>}] /\ newpath \in [FileRequests -> Entries \union {<<>>}]
  /\ view \in [FileRequests -> {"idle", "waiting", "success", "error"}]
  /\ step \in [FileRequests -> {"idle", "start", "writing", "checked", "streaming", "exited"}]
  /\ fd \in [FileRequests -> Files \union {Nothing}]
  /\ offset \in [FileRequests -> Nat] /\ todo \in [FileRequests -> SUBSET Entries]
  /\ exitcode \in [FileRequests -> {"none", "zero", "special"}]
  /\ late \in [FileRequests -> BOOLEAN] /\ shared \in [FileRequests -> BOOLEAN]
  /\ changed \in [FileRequests -> BOOLEAN]

Tree == \A p \in Entries : exists(p) => isdir(dirname(p))

(* How far a request has got.                                              *)
ProgressInv(r) ==
  /\ (view[r] = "idle" <=> step[r] = "idle") /\ (step[r] = "idle" <=> command[r] = Nothing)
  /\ step[r] # "idle" => path[r] \in Entries
  /\ step[r] # "idle" /\ command[r] = "rename" => newpath[r] \in Entries
  /\ step[r] \in {"idle", "start"} => offset[r] = 0
  /\ step[r] = "writing" => command[r] = "write"
  /\ step[r] = "checked" => command[r] = "rename"
  /\ step[r] = "streaming" => command[r] \in {"get", "zip"}
  /\ fd[r] \in Files <=> step[r] = "writing" \/ (step[r] = "streaming" /\ command[r] = "get")
  /\ exitcode[r] = "none" <=> step[r] # "exited"

AnswerInv(r) ==
  /\ late[r] => view[r] = "error"
  /\ view[r] = "success" /\ command[r] \notin {"get", "zip"} => exitcode[r] = "zero"
  /\ view[r] = "error" /\ ~late[r] => exitcode[r] = "special"
  /\ command[r] \in {Nothing, "create", "rename"} /\ exitcode[r] # "zero" => ~changed[r]

WriteInv(r) ==
  command[r] = "write" /\ ~shared[r] =>
    /\ step[r] = "writing" =>
         offset[r] \in 0..Chunks /\ contents[fd[r]] = [i \in 1..offset[r] |-> r]
    /\ exitcode[r] = "zero" /\ ~late[r] =>
         \E f \in Files : contents[f] = [i \in 1..Chunks |-> r]

DownloadInv(r) ==
  command[r] = "get" /\ ~shared[r] =>
    /\ offset[r] <= MaxSize
    /\ step[r] = "streaming" => offset[r] <= Len(contents[fd[r]]) /\ Len(contents[fd[r]]) <= MaxSize

(* What is below a directory, and what of it is not archived yet.          *)
Beneath(d) == {p \in Entries : p # d /\ IsPrefix(d, p) /\ exists(p)}
Remaining(r) == {p \in Entries : exists(p) /\ \E q \in todo[r] : IsPrefix(q, p)}
Archived(r) == Beneath(path[r]) \ Remaining(r)

ArchiveInv(r) ==
  command[r] = "zip" /\ (\A s \in FileRequests : ~changed[s]) =>
    /\ step[r] = "streaming" =>
         /\ todo[r] \subseteq Beneath(path[r])
         /\ \A p, q \in todo[r] : IsPrefix(p, q) => p = q
         /\ IsFiniteSet(Archived(r)) /\ offset[r] = Cardinality(Archived(r))
    /\ exitcode[r] = "zero" => offset[r] = Cardinality(Beneath(path[r]))

Harmless ==
  /\ \A r \in FileRequests : command[r] \notin {"write", "rm", "rmdir"}
  /\ Cardinality({r \in FileRequests : command[r] = "rename"}) <= 1

OldInv ==
  /\ IsFiniteSet({r \in FileRequests : command[r] = "rename"})
  /\ Harmless =>
       /\ \E p \in Entries : entry[p] = Old
       /\ \A r \in FileRequests : step[r] = "checked" => entry[newpath[r]] # Old

Own(r) == ProgressInv(r) /\ AnswerInv(r) /\ WriteInv(r) /\ DownloadInv(r) /\ ArchiveInv(r)

CInv == CommandTypes /\ Tree /\ (\A r \in FileRequests : Own(r)) /\ OldInv

(* What a step of s does to the other requests, to the entries, and to     *)
(* the file that was there before.                                         *)
Others(s) ==
  \A r \in FileRequests \ {s} :
    /\ command'[r] = command[r] /\ path'[r] = path[r] /\ newpath'[r] = newpath[r]
    /\ view'[r] = view[r] /\ step'[r] = step[r] /\ fd'[r] = fd[r] /\ offset'[r] = offset[r]
    /\ todo'[r] = todo[r] /\ exitcode'[r] = exitcode[r] /\ late'[r] = late[r]
    /\ changed'[r] = changed[r] /\ (shared[r] => shared'[r])
    /\ \A f \in Files : \/ contents'[f] = contents[f] \/ shared'[r]
                        \/ fd[r] # f /\ ~Contains(contents[f], r)

EntryStep(s) == changed'[s] \/ (entry' = entry /\ ~changed[s])

OldStep(s) ==
  /\ command'[s] = command[s] \/ command[s] = Nothing
  /\ \/ command'[s] \in {"write", "rm", "rmdir"}
     \/ /\ \A p \in Entries : entry'[p] = Old <=> entry[p] = Old
        /\ step'[s] = "checked" => \/ step[s] = "checked" /\ newpath'[s] = newpath[s]
                                   \/ entry'[newpath'[s]] # Old
     \/ /\ command[s] = "rename" /\ step[s] = "checked" /\ step'[s] = "exited"
        /\ \E p, q \in Entries :
             q = newpath[s] /\ entry' = [entry EXCEPT ![p] = Nothing, ![q] = entry[p]]

Keeps(s) == CommandTypes' /\ Tree' /\ Others(s) /\ EntryStep(s) /\ OldStep(s) /\ Own(s)'

-----------------------------------------------------------------------------
(* Paths *)

LEMMA PathTypes ==
  ASSUME NEW p \in Entries
  PROVE  /\ p \in Seq(STRING) /\ Len(p) \in Nat \ {0}
         /\ dirname(p) \in Entries \union {<<>>} /\ dirname(p) \in Seq(STRING)
         /\ Len(dirname(p)) = Len(p) - 1 /\ \A i \in 1 .. Len(p) - 1 : dirname(p)[i] = p[i]
  <1>1. p \in Seq(STRING) /\ p # <<>> /\ dirname(p) \in Entries \union {<<>>}
    BY CommandAssumption DEF dirname
  <1>2. dirname(p) = parent(p)
    BY DEF dirname, parent
  <1> QED
    BY <1>1, <1>2, ParentIs

LEMMA DirnameOfPath ==
  ASSUME NEW p \in Entries, NEW q \in Seq(STRING)
  PROVE  /\ IsPrefix(dirname(p), p) /\ dirname(p) # p
         /\ IsPrefix(q, p) /\ q # p => IsPrefix(q, dirname(p))
  <1>1. p \in Seq(STRING) /\ p # <<>>
    BY CommandAssumption
  <1>2. dirname(p) = parent(p)
    BY DEF dirname, parent
  <1> QED
    BY <1>1, <1>2, ParentOrder

(* What is below a path is below an entry of it, which is a directory.     *)
LEMMA ChildBetween ==
  ASSUME CommandTypes, Tree, NEW q \in Entries, NEW p \in Entries, exists(p), IsPrefix(q, p), p # q
  PROVE  entry[q] = Directory /\ \E c \in Inside(q) : IsPrefix(c, p)
  <1>1. p \in Seq(STRING) /\ q \in Seq(STRING) /\ Len(p) \in Nat /\ Len(q) \in Nat /\ Len(q) # 0
    BY PathTypes
  <1> DEFINE T == {Len(c) : c \in {x \in Entries : exists(x) /\ IsPrefix(x, p) /\ Len(x) > Len(q)}}
  <1>2. Len(p) \in T
    <2>1. IsPrefix(p, p) /\ Len(q) <= Len(p) /\ Len(q) # Len(p)
      BY <1>1, PrefixOrder
    <2>2. Len(p) > Len(q)
      BY <1>1, <2>1
    <2> QED
      BY <2>1, <2>2
  <1>3. T \subseteq Nat
    BY PathTypes
  <1>4. PICK n \in T : \A m \in T : n <= m
    BY <1>2, <1>3, HasLeast
  <1>5. PICK c \in Entries : exists(c) /\ IsPrefix(c, p) /\ Len(c) > Len(q) /\ n = Len(c)
    BY <1>4
  <1>6. \A x \in Entries : exists(x) /\ IsPrefix(x, p) /\ Len(x) > Len(q) => Len(c) <= Len(x)
    BY <1>4, <1>5
  <1> HIDE DEF T
  <1> DEFINE d == dirname(c)
  <1>7. /\ c \in Seq(STRING) /\ Len(c) \in Nat \ {0} /\ d \in Entries \union {<<>>} /\ d \in Seq(STRING)
        /\ Len(d) = Len(c) - 1 /\ IsPrefix(d, c)
    BY PathTypes, DirnameOfPath
  <1>8. isdir(d)
    BY <1>5 DEF Tree
  <1>9. IsPrefix(q, c) /\ q # c
    BY <1>1, <1>5, <1>7, PrefixOrder
  <1>10. IsPrefix(q, d)
    BY <1>1, <1>9, DirnameOfPath
  <1> HIDE DEF d
  <1>11. d # <<>>
    <2>1. Len(q) <= Len(d)
      BY <1>1, <1>7, <1>10, PrefixOrder
    <2>2. Len(<<>>) = 0
      OBVIOUS
    <2> QED
      BY <1>1, <2>1, <2>2
  <1>12. d \in Entries /\ entry[d] = Directory
    BY <1>7, <1>8, <1>11 DEF isdir
  <1>13. d = q
    <2> SUFFICES ASSUME d # q PROVE FALSE
      OBVIOUS
    <2>1. Len(q) <= Len(d) /\ Len(q) # Len(d)
      BY <1>1, <1>7, <1>10, PrefixOrder
    <2>2. Len(d) > Len(q) /\ ~ (Len(c) <= Len(d))
      BY <1>1, <1>7, <2>1
    <2>3. IsPrefix(d, p)
      BY <1>1, <1>5, <1>7, PrefixOrder
    <2>4. exists(d)
      BY <1>12 DEF exists, Directory, Nothing
    <2> QED
      BY <1>6, <1>12, <2>2, <2>3, <2>4
  <1>14. c \in Inside(q)
    <2>1. Len(c) = Len(q) + 1
      BY <1>7, <1>13
    <2> QED
      BY <1>5, <1>13, <2>1 DEF Inside, d
  <1> QED
    BY <1>5, <1>12, <1>13, <1>14

-----------------------------------------------------------------------------
(* The steps of a request *)

LEMMA NamesDiffer ==
  /\ \A r \in FileRequests : r # Old /\ r # Directory /\ r # Nothing /\ r # Hole /\ r \in Files
  /\ Old \in Files /\ Nothing \notin Files /\ Directory \notin Files /\ Hole \notin Files
  /\ Old # Nothing /\ Old # Directory /\ Nothing # Directory
  /\ \A c \in Commands : c # Nothing
  BY RequestsAssumption DEF Files, Old, Directory, Nothing, Hole, Commands

LEMMA SameEntries ==
  ASSUME CommandTypes, Tree, UNCHANGED entry
  PROVE  Tree' /\ \A p \in Entries : entry'[p] = Old <=> entry[p] = Old
  BY DEF Tree, exists, isdir

(* A view starts a helper.                                                 *)
LEMMA ViewKeeps ==
  ASSUME CInv, NEW s \in FileRequests, NEW c \in Commands, NEW p \in Entries,
         NEW q \in Entries \union {<<>>}, c = "rename" => q \in Entries, run_helper(s, c, p, q)
  PROVE  Keeps(s)
  <1>1. /\ view[s] = "idle" /\ view' = [view EXCEPT ![s] = "waiting"]
        /\ step' = [step EXCEPT ![s] = "start"] /\ command' = [command EXCEPT ![s] = c]
        /\ path' = [path EXCEPT ![s] = p] /\ newpath' = [newpath EXCEPT ![s] = q]
        /\ UNCHANGED <<entry, contents, fd, offset, todo, exitcode, late, shared, changed>>
    BY DEF run_helper
  <1>2. CommandTypes /\ Tree /\ Own(s)
    BY DEF CInv
  <1>3. /\ view'[s] = "waiting" /\ step'[s] = "start" /\ command'[s] = c /\ path'[s] = p /\ newpath'[s] = q
        /\ step[s] = "idle" /\ command[s] = Nothing
    BY <1>1, <1>2 DEF CommandTypes, Own, ProgressInv
  <1>4. CommandTypes'
    BY <1>1, <1>2 DEF CommandTypes
  <1>5. Tree' /\ EntryStep(s) /\ OldStep(s)
    <2>1. changed[s] = FALSE
      BY <1>2, <1>3 DEF Own, AnswerInv, ProgressInv, CommandTypes
    <2> QED
      BY <1>1, <1>2, <1>3, <2>1, SameEntries DEF EntryStep, OldStep
  <1>6. Others(s)
    <2>1. ASSUME NEW r \in FileRequests \ {s}
          PROVE  /\ command'[r] = command[r] /\ path'[r] = path[r] /\ newpath'[r] = newpath[r]
                 /\ view'[r] = view[r] /\ step'[r] = step[r]
      BY <1>1, <1>2 DEF CommandTypes
    <2>2. /\ fd' = fd /\ offset' = offset /\ todo' = todo /\ exitcode' = exitcode /\ late' = late
          /\ changed' = changed /\ shared' = shared /\ contents' = contents
      BY <1>1
    <2> QED
      BY ONLY <2>1, <2>2 DEF Others
  <1>7. ProgressInv(s)'
    BY <1>1, <1>2, <1>3, NamesDiffer DEF Own, ProgressInv
  <1>8. AnswerInv(s)'
    BY <1>1, <1>2, <1>3, NamesDiffer DEF Own, ProgressInv, AnswerInv
  <1>9. WriteInv(s)' /\ DownloadInv(s)' /\ ArchiveInv(s)'
    <2>1. exitcode'[s] = "none" /\ step'[s] = "start" /\ offset'[s] = 0
      BY <1>1, <1>2, <1>3 DEF Own, ProgressInv
    <2> QED
      BY <2>1, CommandAssumption DEF WriteInv, DownloadInv, ArchiveInv
  <1> QED
    BY <1>4, <1>5, <1>6, <1>7, <1>8, <1>9 DEF Keeps, Own

(* The manager answers.                                                    *)
LEMMA AnswerKeeps ==
  ASSUME CInv, NEW s \in FileRequests, NEW a \in {"success", "error"}, Answer(s, a),
         view[s] = "waiting", late' \in [FileRequests -> BOOLEAN],
         \A r \in FileRequests \ {s} : late'[r] = late[r],
         \/ late'[s] /\ a = "error"
         \/ /\ late'[s] = late[s]
            /\ a = "success" => exitcode[s] = "zero" \/ command[s] \in {"get", "zip"}
            /\ a = "error" => exitcode[s] = "special"
  PROVE  Keeps(s)
  <1>1. /\ view' = [view EXCEPT ![s] = a]
        /\ UNCHANGED <<entry, contents, command, path, newpath, step, fd, offset, todo, exitcode,
                       shared, changed>>
    BY DEF Answer
  <1>2. CommandTypes /\ Tree /\ Own(s) /\ OldInv
    BY DEF CInv
  <1>3. view'[s] = a /\ step[s] # "idle" /\ late[s] = FALSE
    BY <1>1, <1>2 DEF CommandTypes, Own, ProgressInv, AnswerInv
  <1>4. CommandTypes'
    BY <1>1, <1>2 DEF CommandTypes
  <1>5. Tree' /\ EntryStep(s) /\ OldStep(s)
    BY <1>1, <1>2, SameEntries DEF EntryStep, OldStep, CommandTypes
  <1>6. Others(s)
    <2>1. ASSUME NEW r \in FileRequests \ {s} PROVE view'[r] = view[r] /\ late'[r] = late[r]
      BY <1>1, <1>2 DEF CommandTypes
    <2>2. /\ fd' = fd /\ offset' = offset /\ todo' = todo /\ exitcode' = exitcode
          /\ command' = command /\ path' = path /\ newpath' = newpath /\ step' = step
          /\ changed' = changed /\ shared' = shared /\ contents' = contents
      BY <1>1
    <2> QED
      BY ONLY <2>1, <2>2 DEF Others
  <1>7. ProgressInv(s)'
    BY <1>1, <1>2, <1>3 DEF Own, ProgressInv
  <1>8. AnswerInv(s)'
    BY <1>1, <1>2, <1>3 DEF Own, AnswerInv
  <1>9. WriteInv(s)' /\ DownloadInv(s)'
    BY <1>1, <1>2, <1>3 DEF Own, WriteInv, DownloadInv
  <1>10. ArchiveInv(s)'
    BY <1>1, <1>2 DEF Own, ArchiveInv, Archived, Remaining, Beneath, exists
  <1> QED
    BY <1>4, <1>5, <1>6, <1>7, <1>8, <1>9, <1>10 DEF Keeps, Own

(* A step of a helper that changes no data: it may change one entry or     *)
(* more, check, or exit.                                                   *)
EntryOnly(s) ==
  /\ UNCHANGED <<command, path, newpath, view, late, contents, fd, offset, todo, shared>>
  /\ \/ UNCHANGED <<entry, changed>>
     \/ changed' = [changed EXCEPT ![s] = TRUE]
  /\ \/ UNCHANGED <<step, exitcode>>
     \/ /\ step' = [step EXCEPT ![s] = "checked"] /\ UNCHANGED exitcode
        /\ command[s] = "rename" /\ step[s] = "start"
     \/ /\ step' = [step EXCEPT ![s] = "exited"]
        /\ \E code \in {"zero", "special"} : exitcode' = [exitcode EXCEPT ![s] = code]

LEMMA EntryOnlyKeeps ==
  ASSUME CInv, NEW s \in FileRequests, EntryOnly(s), Tree', OldStep(s),
         command[s] \in {"create", "mkdir", "rm", "rmdir", "rename"}, step[s] \in {"start", "checked"},
         entry' \in [Entries -> Files \union {Nothing, Directory}],
         command[s] \in {"create", "rename"} => exitcode'[s] = "zero" \/ UNCHANGED changed
  PROVE  Keeps(s)
  <1>1. CommandTypes /\ Own(s) /\ exitcode[s] = "none" /\ fd[s] \notin Files
        /\ (step[s] = "start" => offset[s] = 0)
    BY DEF CInv, Own, ProgressInv
  <1>2. /\ command' = command /\ path' = path /\ newpath' = newpath /\ view' = view /\ late' = late
        /\ contents' = contents /\ fd' = fd /\ offset' = offset /\ todo' = todo /\ shared' = shared
    BY DEF EntryOnly
  <1>3. /\ changed' \in [FileRequests -> BOOLEAN]
        /\ \A r \in FileRequests \ {s} : changed'[r] = changed[r]
        /\ changed'[s] \/ (entry' = entry /\ changed'[s] = changed[s])
    BY <1>1 DEF EntryOnly, CommandTypes
  <1>4. /\ step' \in [FileRequests -> {"idle", "start", "writing", "checked", "streaming", "exited"}]
        /\ exitcode' \in [FileRequests -> {"none", "zero", "special"}]
        /\ \A r \in FileRequests \ {s} : step'[r] = step[r] /\ exitcode'[r] = exitcode[r]
    <2>1. /\ step \in [FileRequests -> {"idle", "start", "writing", "checked", "streaming", "exited"}]
          /\ exitcode \in [FileRequests -> {"none", "zero", "special"}]
      BY <1>1 DEF CommandTypes
    <2>2. \/ step' = step /\ exitcode' = exitcode
          \/ step' = [step EXCEPT ![s] = "checked"] /\ exitcode' = exitcode
          \/ /\ step' = [step EXCEPT ![s] = "exited"]
             /\ \E code \in {"zero", "special"} : exitcode' = [exitcode EXCEPT ![s] = code]
      BY DEF EntryOnly
    <2> QED
      BY ONLY <2>1, <2>2
  <1>5. \/ step'[s] = step[s] /\ exitcode'[s] = "none"
        \/ step'[s] = "checked" /\ exitcode'[s] = "none" /\ command[s] = "rename"
        \/ step'[s] = "exited" /\ exitcode'[s] \in {"zero", "special"}
    BY <1>1 DEF EntryOnly, CommandTypes
  <1>6. CommandTypes'
    BY <1>1, <1>2, <1>3, <1>4 DEF CommandTypes
  <1>7. Others(s)
    BY ONLY <1>2, <1>3, <1>4 DEF Others
  <1>8. EntryStep(s)
    BY <1>1, <1>3 DEF EntryStep, CommandTypes
  <1>9. ProgressInv(s)'
    BY <1>1, <1>2, <1>5 DEF Own, ProgressInv
  <1>10. AnswerInv(s)'
    <2>1. command[s] \in {"create", "rename"} /\ exitcode'[s] # "zero" => ~changed'[s]
      BY <1>1 DEF Own, AnswerInv
    <2>2. ~ (view[s] = "success") /\ (view[s] = "error" => late[s])
      BY <1>1 DEF Own, AnswerInv
    <2> QED
      BY ONLY <1>1, <1>2, <2>1, <2>2, command[s] \in {"create", "mkdir", "rm", "rmdir", "rename"}
      DEF Own, AnswerInv, Nothing
  <1>11. WriteInv(s)' /\ DownloadInv(s)' /\ ArchiveInv(s)'
    BY <1>2 DEF WriteInv, DownloadInv, ArchiveInv
  <1> QED
    BY <1>6, <1>7, <1>8, <1>9, <1>10, <1>11 DEF Keeps, Own

(* An entry that changes keeps the tree: what is new is in a directory,    *)
(* and nothing is below what was removed.                                  *)
LEMMA AddKeepsTree ==
  ASSUME CommandTypes, Tree, NEW p \in Entries, NEW e \in Files \union {Directory},
         entry[p] # Directory \/ e = Directory, isdir(dirname(p)), entry' = [entry EXCEPT ![p] = e]
  PROVE  Tree' /\ entry' \in [Entries -> Files \union {Nothing, Directory}]
  <1>1. /\ entry' \in [Entries -> Files \union {Nothing, Directory}] /\ entry'[p] = e
        /\ \A x \in Entries \ {p} : entry'[x] = entry[x]
    BY DEF CommandTypes
  <1>2. ASSUME NEW x, isdir(x) PROVE isdir(x)'
    BY <1>1, <1>2, NamesDiffer DEF isdir
  <1>3. ASSUME NEW x \in Entries, exists(x)' PROVE isdir(dirname(x))
    <2>1. CASE x = p
      BY <2>1
    <2>2. CASE x # p
      BY <1>1, <1>3, <2>2 DEF Tree, exists
    <2> QED
      BY <2>1, <2>2
  <1>4. ASSUME NEW x \in Entries, exists(x)' PROVE isdir(dirname(x))'
    BY <1>2, <1>3, <1>4 DEF isdir, dirname
  <1> QED
    BY <1>1, <1>4 DEF Tree

LEMMA RemoveKeepsTree ==
  ASSUME CommandTypes, Tree, NEW p \in Entries, Inside(p) = {}, entry' = [entry EXCEPT ![p] = Nothing]
  PROVE  Tree' /\ entry' \in [Entries -> Files \union {Nothing, Directory}]
  <1>1. /\ entry' \in [Entries -> Files \union {Nothing, Directory}] /\ entry'[p] = Nothing
        /\ \A x \in Entries \ {p} : entry'[x] = entry[x]
    BY DEF CommandTypes
  <1>2. ASSUME NEW x \in Entries, exists(x)' PROVE isdir(dirname(x))'
    <2>1. exists(x) /\ x # p
      BY <1>1, <1>2 DEF exists
    <2>2. isdir(dirname(x))
      BY <2>1 DEF Tree
    <2>3. dirname(x) # p
      <3>1. Len(dirname(x)) = Len(x) - 1 /\ Len(x) \in Nat \ {0}
        BY PathTypes
      <3>2. dirname(x) = p => Len(x) = Len(p) + 1
        BY <3>1
      <3> QED
        BY <2>1, <3>2 DEF Inside
    <2> QED
      BY <1>1, <2>2, <2>3 DEF isdir, dirname
  <1> QED
    BY <1>1, <1>2 DEF Tree

LEMMA CreateKeeps == ASSUME CInv, NEW s \in FileRequests, create_cmd(s) PROVE Keeps(s)
  <1> DEFINE p == path[s]
  <1>1. /\ command[s] = "create" /\ step[s] = "start" /\ p \in Entries
        /\ UNCHANGED <<command, path, newpath, view, late, contents, fd, offset, todo, shared>>
        /\ CommandTypes /\ Tree
    BY DEF CInv, Own, ProgressInv, create_cmd, Run, SameData
  <1>2. CASE exists(p) \/ ~isdir(dirname(p))
    <2>1. /\ step' = [step EXCEPT ![s] = "exited"] /\ exitcode' = [exitcode EXCEPT ![s] = "special"]
          /\ UNCHANGED <<entry, changed>>
      BY <1>2 DEF create_cmd, Exit, Same
    <2>2. Tree' /\ OldStep(s) /\ entry' \in [Entries -> Files \union {Nothing, Directory}]
      BY <1>1, <2>1, SameEntries DEF OldStep, CommandTypes
    <2> QED
      BY <1>1, <2>1, <2>2, EntryOnlyKeeps DEF EntryOnly
  <1>3. CASE ~exists(p) /\ isdir(dirname(p))
    <2>1. /\ step' = [step EXCEPT ![s] = "exited"] /\ exitcode' = [exitcode EXCEPT ![s] = "zero"]
          /\ entry' = [entry EXCEPT ![p] = s] /\ changed' = [changed EXCEPT ![s] = TRUE]
      BY <1>3 DEF create_cmd, Exit, SetEntry
    <2>2. Tree' /\ entry' \in [Entries -> Files \union {Nothing, Directory}]
      <3>1. entry[p] # Directory
        BY <1>3, NamesDiffer DEF exists
      <3> QED
        BY <1>1, <1>3, <2>1, <3>1, AddKeepsTree, NamesDiffer
    <2>3. exitcode'[s] = "zero" /\ step'[s] = "exited"
      BY <1>1, <2>1 DEF CommandTypes
    <2>4. \A x \in Entries : entry'[x] = Old <=> entry[x] = Old
      BY <1>1, <1>3, <2>1, NamesDiffer DEF CommandTypes, exists
    <2>5. OldStep(s)
      BY <1>1, <2>3, <2>4 DEF OldStep
    <2> QED
      BY <1>1, <2>1, <2>2, <2>3, <2>5, EntryOnlyKeeps DEF EntryOnly
  <1> QED
    BY <1>2, <1>3

LEMMA MkdirKeeps == ASSUME CInv, NEW s \in FileRequests, mkdir_cmd(s) PROVE Keeps(s)
  <1> DEFINE p == path[s]
             missing == {x \in Entries : ~exists(x) /\ IsPrefix(x, p)}
             q == CHOOSE q \in missing : \A x \in missing : Len(q) <= Len(x)
  <1>1. /\ command[s] = "mkdir" /\ step[s] = "start" /\ p \in Entries
        /\ UNCHANGED <<command, path, newpath, view, late, contents, fd, offset, todo, shared>>
        /\ CommandTypes /\ Tree
    BY DEF CInv, Own, ProgressInv, mkdir_cmd, Run, SameData
  <1>2. CASE exists(p) \/ \E x \in Entries : IsPrefix(x, p) /\ exists(x) /\ ~isdir(x)
    <2>1. /\ step' = [step EXCEPT ![s] = "exited"] /\ exitcode' = [exitcode EXCEPT ![s] = "special"]
          /\ UNCHANGED <<entry, changed>>
      BY <1>2 DEF mkdir_cmd, Exit, Same
    <2>2. Tree' /\ OldStep(s) /\ entry' \in [Entries -> Files \union {Nothing, Directory}]
      BY <1>1, <2>1, SameEntries DEF OldStep, CommandTypes
    <2> QED
      BY <1>1, <2>1, <2>2, EntryOnlyKeeps DEF EntryOnly
  <1>3. CASE ~exists(p) /\ \A x \in Entries : IsPrefix(x, p) /\ exists(x) => isdir(x)
    <2>1. /\ entry' = [entry EXCEPT ![q] = Directory] /\ changed' = [changed EXCEPT ![s] = TRUE]
          /\ \/ step' = [step EXCEPT ![s] = "exited"] /\ exitcode' = [exitcode EXCEPT ![s] = "zero"]
             \/ UNCHANGED <<step, exitcode>>
      BY <1>3 DEF mkdir_cmd, Exit, SetEntry
    <2>2. q \in missing /\ \A x \in missing : Len(q) <= Len(x)
      <3> DEFINE T == {Len(x) : x \in missing}
      <3>1. T \subseteq Nat
        BY PathTypes
      <3>2. p \in missing
        <4>1. p \in Seq(STRING)
          BY <1>1, PathTypes
        <4>2. IsPrefix(p, p)
          BY ONLY <4>1, PrefixOrder
        <4> QED
          BY <1>1, <1>3, <4>2
      <3> HIDE DEF missing
      <3>3. T # {}
        BY <3>2
      <3>4. PICK n \in T : \A m \in T : n <= m
        BY <3>1, <3>3, HasLeast
      <3>5. \E y \in missing : \A x \in missing : Len(y) <= Len(x)
        BY <3>4
      <3> QED
        BY <3>5
    <2>3. PICK b \in Entries : b = q
      BY <2>2
    <2>4. ~exists(b) /\ IsPrefix(b, p) /\ \A x \in missing : Len(b) <= Len(x)
      BY <2>2, <2>3
    <2> HIDE DEF q
    <2>5. isdir(dirname(b))
      <3> DEFINE d == dirname(b)
      <3>1. d \in Entries \union {<<>>} /\ d \in Seq(STRING) /\ b \in Seq(STRING) /\ p \in Seq(STRING)
            /\ Len(b) \in Nat /\ Len(d) = Len(b) - 1 /\ IsPrefix(d, b)
        BY <1>1, PathTypes, DirnameOfPath
      <3> HIDE DEF d
      <3>2. CASE d = <<>>
        BY <3>2 DEF isdir, d
      <3>3. CASE d \in Entries
        <4>1. IsPrefix(d, p)
          BY <2>4, <3>1, PrefixOrder
        <4>2. ~ (Len(b) <= Len(d))
          BY <3>1
        <4>3. exists(d)
          BY <2>4, <3>3, <4>1, <4>2
        <4> QED
          BY <1>3, <3>3, <4>1, <4>3 DEF d
      <3> QED
        BY <3>1, <3>2, <3>3
    <2>6. entry' = [entry EXCEPT ![b] = Directory]
      BY <2>1, <2>3
    <2>7. Tree' /\ entry' \in [Entries -> Files \union {Nothing, Directory}]
      BY <1>1, <2>5, <2>6, AddKeepsTree
    <2>8. \A x \in Entries : entry'[x] = Old <=> entry[x] = Old
      BY <1>1, <2>4, <2>6, NamesDiffer DEF CommandTypes, exists
    <2>9. step'[s] # "checked"
      BY <1>1, <2>1 DEF CommandTypes
    <2>10. OldStep(s)
      BY <1>1, <2>8, <2>9 DEF OldStep
    <2> QED
      BY <1>1, <2>1, <2>7, <2>10, EntryOnlyKeeps DEF EntryOnly
  <1> QED
    BY <1>2, <1>3

LEMMA RmKeeps == ASSUME CInv, NEW s \in FileRequests, rm_cmd(s) PROVE Keeps(s)
  <1> DEFINE p == path[s]
  <1>1. /\ command[s] = "rm" /\ step[s] = "start" /\ p \in Entries
        /\ UNCHANGED <<command, path, newpath, view, late, contents, fd, offset, todo, shared>>
        /\ CommandTypes /\ Tree
    BY DEF CInv, Own, ProgressInv, rm_cmd, Run, SameData
  <1>2. OldStep(s)
    BY <1>1 DEF OldStep
  <1>3. CASE ~exists(p) \/ isdir(p)
    <2>1. /\ step' = [step EXCEPT ![s] = "exited"] /\ UNCHANGED <<entry, changed>>
          /\ \E code \in {"zero", "special"} : exitcode' = [exitcode EXCEPT ![s] = code]
      BY <1>3 DEF rm_cmd, Exit, Same
    <2>2. Tree' /\ entry' \in [Entries -> Files \union {Nothing, Directory}]
      BY <1>1, <2>1, SameEntries DEF CommandTypes
    <2> QED
      BY <1>1, <1>2, <2>1, <2>2, EntryOnlyKeeps DEF EntryOnly
  <1>4. CASE exists(p) /\ ~isdir(p)
    <2>1. /\ step' = [step EXCEPT ![s] = "exited"] /\ exitcode' = [exitcode EXCEPT ![s] = "zero"]
          /\ entry' = [entry EXCEPT ![p] = Nothing] /\ changed' = [changed EXCEPT ![s] = TRUE]
      BY <1>4 DEF rm_cmd, Exit, SetEntry
    <2>2. Inside(p) = {}
      BY <1>1, <1>4 DEF Inside, Tree
    <2>3. Tree' /\ entry' \in [Entries -> Files \union {Nothing, Directory}]
      BY <1>1, <2>1, <2>2, RemoveKeepsTree
    <2> QED
      BY <1>1, <1>2, <2>1, <2>3, EntryOnlyKeeps DEF EntryOnly
  <1> QED
    BY <1>3, <1>4

LEMMA RmdirKeeps ==
  ASSUME CInv, NEW s \in FileRequests, rmdir_recur_cmd(s) \/ rmdir_fails(s) PROVE Keeps(s)
  <1> DEFINE p == path[s]
  <1>1. /\ command[s] = "rmdir" /\ step[s] = "start" /\ p \in Entries
        /\ UNCHANGED <<command, path, newpath, view, late, contents, fd, offset, todo, shared>>
        /\ CommandTypes /\ Tree
    BY DEF CInv, Own, ProgressInv, rmdir_recur_cmd, rmdir_fails, Run, SameData
  <1>2. OldStep(s)
    BY <1>1 DEF OldStep
  <1>3. ASSUME /\ step' = [step EXCEPT ![s] = "exited"] /\ UNCHANGED <<entry, changed>>
               /\ \E code \in {"zero", "special"} : exitcode' = [exitcode EXCEPT ![s] = code]
        PROVE  Keeps(s)
    <2>1. Tree' /\ entry' \in [Entries -> Files \union {Nothing, Directory}]
      BY <1>1, <1>3, SameEntries DEF CommandTypes
    <2> QED
      BY <1>1, <1>2, <1>3, <2>1, EntryOnlyKeeps DEF EntryOnly
  <1>4. ASSUME NEW q \in Entries, Inside(q) = {}, entry' = [entry EXCEPT ![q] = Nothing],
               changed' = [changed EXCEPT ![s] = TRUE],
               \/ UNCHANGED <<step, exitcode>>
               \/ /\ step' = [step EXCEPT ![s] = "exited"]
                  /\ \E code \in {"zero", "special"} : exitcode' = [exitcode EXCEPT ![s] = code]
        PROVE  Keeps(s)
    <2>1. Tree' /\ entry' \in [Entries -> Files \union {Nothing, Directory}]
      BY <1>1, <1>4, RemoveKeepsTree
    <2> QED
      BY <1>1, <1>2, <1>4, <2>1, EntryOnlyKeeps DEF EntryOnly
  <1>5. CASE rmdir_fails(s)
    BY <1>3, <1>5 DEF rmdir_fails, Exit, Same
  <1>6. CASE rmdir_recur_cmd(s)
    <2>1. CASE ~isdir(p)
      BY <1>3, <1>6, <2>1 DEF rmdir_recur_cmd, Exit, Same
    <2>2. CASE isdir(p) /\ Inside(p) # {}
      <3>1. PICK q \in Inside(p) : Inside(q) = {} /\ SetEntry(s, q, Nothing) /\ UNCHANGED <<step, exitcode>>
        BY <1>6, <2>2 DEF rmdir_recur_cmd
      <3>2. q \in Entries
        BY <3>1 DEF Inside
      <3> QED
        BY <1>4, <3>1, <3>2 DEF SetEntry
    <2>3. CASE isdir(p) /\ Inside(p) = {}
      BY <1>1, <1>4, <1>6, <2>3 DEF rmdir_recur_cmd, SetEntry, Exit
    <2> QED
      BY <2>1, <2>2, <2>3
  <1> QED
    BY <1>5, <1>6

LEMMA RenameCheckKeeps == ASSUME CInv, NEW s \in FileRequests, rename_check(s) PROVE Keeps(s)
  <1>1. /\ command[s] = "rename" /\ step[s] = "start" /\ newpath[s] \in Entries
        /\ UNCHANGED <<command, path, newpath, view, late, contents, fd, offset, todo, shared>>
        /\ UNCHANGED <<entry, changed>> /\ CommandTypes /\ Tree
    BY DEF CInv, Own, ProgressInv, rename_check, Run, SameData, Same
  <1>2. Tree' /\ entry' \in [Entries -> Files \union {Nothing, Directory}]
        /\ \A x \in Entries : entry'[x] = Old <=> entry[x] = Old
    BY <1>1, SameEntries DEF CommandTypes
  <1>3. \/ /\ step' = [step EXCEPT ![s] = "exited"] /\ exitcode' = [exitcode EXCEPT ![s] = "special"]
        \/ /\ step' = [step EXCEPT ![s] = "checked"] /\ UNCHANGED exitcode /\ ~exists(newpath[s])
    BY DEF rename_check, Exit, Goto
  <1>4. step'[s] = "checked" => entry'[newpath'[s]] # Old
    BY <1>1, <1>3, NamesDiffer DEF CommandTypes, exists
  <1>5. OldStep(s)
    BY <1>1, <1>2, <1>4 DEF OldStep
  <1> QED
    BY <1>1, <1>2, <1>3, <1>5, EntryOnlyKeeps DEF EntryOnly

LEMMA RenameMoveKeeps == ASSUME CInv, NEW s \in FileRequests, rename_move(s) PROVE Keeps(s)
  <1> DEFINE p == path[s]
             q == newpath[s]
             fits == IF isdir(p) THEN ~exists(q) \/ (isdir(q) /\ Inside(q) = {}) ELSE ~isdir(q)
             fails == ~exists(p) \/ ~isdir(dirname(q)) \/ ~fits \/ IsPrefix(p, q)
  <1>1. /\ command[s] = "rename" /\ step[s] = "checked" /\ p \in Entries /\ q \in Entries /\ Inside(p) = {}
        /\ UNCHANGED <<command, path, newpath, view, late, contents, fd, offset, todo, shared>>
        /\ CommandTypes /\ Tree
    BY DEF CInv, Own, ProgressInv, rename_move, Run, SameData
  <1>2. CASE fails
    <2>1. /\ step' = [step EXCEPT ![s] = "exited"] /\ exitcode' = [exitcode EXCEPT ![s] = "special"]
          /\ UNCHANGED <<entry, changed>>
      BY <1>2 DEF rename_move, Exit, Same
    <2>2. step'[s] # "checked"
      BY <1>1, <2>1 DEF CommandTypes
    <2>3. Tree' /\ OldStep(s) /\ entry' \in [Entries -> Files \union {Nothing, Directory}]
      BY <1>1, <2>1, <2>2, SameEntries DEF OldStep, CommandTypes
    <2> QED
      BY <1>1, <2>1, <2>3, EntryOnlyKeeps DEF EntryOnly
  <1>3. CASE ~fails
    <2>1. /\ step' = [step EXCEPT ![s] = "exited"] /\ exitcode' = [exitcode EXCEPT ![s] = "zero"]
          /\ entry' = [entry EXCEPT ![p] = Nothing, ![q] = entry[p]]
          /\ changed' = [changed EXCEPT ![s] = TRUE]
      BY <1>3 DEF rename_move, Exit
    <2>2. exists(p) /\ isdir(dirname(q)) /\ fits /\ ~IsPrefix(p, q)
      BY <1>3
    <2>3. p # q /\ dirname(q) # p
      <3>1. p \in Seq(STRING) /\ IsPrefix(p, p) /\ IsPrefix(dirname(q), q)
        BY <1>1, PathTypes, PrefixOrder, DirnameOfPath
      <3> QED
        BY <2>2, <3>1
    <2>4. /\ entry' \in [Entries -> Files \union {Nothing, Directory}]
          /\ entry'[p] = Nothing /\ entry'[q] = entry[p]
          /\ \A x \in Entries \ {p, q} : entry'[x] = entry[x]
      BY <1>1, <2>1, <2>3 DEF CommandTypes
    <2>5. Tree'
      <3> SUFFICES ASSUME NEW x \in Entries, exists(x)' PROVE isdir(dirname(x))'
        BY DEF Tree
      <3>1. x # p
        BY <2>4 DEF exists
      <3>2. isdir(dirname(x))
        <4>1. CASE x = q
          BY <2>2, <4>1
        <4>2. CASE x # q
          BY <1>1, <2>4, <3>1, <4>2 DEF Tree, exists
        <4> QED
          BY <4>1, <4>2
      <3>3. dirname(x) # p
        <4>1. CASE x = q
          BY <2>3, <4>1
        <4>2. CASE x # q
          <5>1. exists(x) /\ x \notin Inside(p)
            BY <1>1, <2>4, <3>1, <4>2 DEF exists
          <5>2. dirname(x) = p => Len(x) = Len(p) + 1
            <6>1. Len(dirname(x)) = Len(x) - 1 /\ Len(x) \in Nat
              BY PathTypes
            <6> QED
              BY <6>1
          <5> QED
            BY <5>1, <5>2 DEF Inside
        <4> QED
          BY <4>1, <4>2
      <3>4. CASE dirname(x) = q
        <4>1. x # q /\ exists(x)
          <5>1. dirname(x) # x
            BY DirnameOfPath, EmptySeq
          <5> QED
            BY <2>4, <3>1, <3>4, <5>1 DEF exists
        <4>2. entry[q] = Directory
          <5>1. q # <<>>
            BY <1>1, CommandAssumption
          <5> QED
            BY <3>2, <3>4, <5>1 DEF isdir
        <4>3. x \in Inside(q)
          <5>1. Len(dirname(x)) = Len(x) - 1 /\ Len(x) \in Nat
            BY PathTypes
          <5>2. Len(x) = Len(q) + 1
            BY <3>4, <5>1
          <5> QED
            BY <3>4, <4>1, <5>2 DEF Inside
        <4>4. isdir(q) /\ exists(q)
          BY <1>1, <4>2, NamesDiffer DEF isdir, exists
        <4> QED
          BY <2>2, <4>3, <4>4
      <3>5. CASE dirname(x) # q
        BY <2>4, <3>2, <3>3, <3>5 DEF isdir, dirname
      <3> QED
        BY <3>4, <3>5
    <2>6. exitcode'[s] = "zero" /\ step'[s] = "exited"
      BY <1>1, <2>1 DEF CommandTypes
    <2>7. OldStep(s)
      BY <1>1, <2>1, <2>6 DEF OldStep
    <2> QED
      BY <1>1, <2>1, <2>4, <2>5, <2>6, <2>7, EntryOnlyKeeps DEF EntryOnly
  <1> QED
    BY <1>2, <1>3

(* Who reads or has written the file that is written is told.              *)
LEMMA ShareTells ==
  ASSUME CommandTypes, NEW s \in FileRequests, NEW f, Share(s, f)
  PROVE  /\ shared' \in [FileRequests -> BOOLEAN]
         /\ \A r \in FileRequests : shared[r] => shared'[r]
         /\ \A r \in FileRequests \ {s} : fd[r] = f \/ Contains(contents[f], r) => shared'[r]
  <1> DEFINE others == {x \in FileRequests \ {s} : fd[x] = f \/ Contains(contents[f], x)}
             writers == {x \in others : command[x] = "write" /\ fd[x] = f}
  <1>1. shared' = [r \in FileRequests |-> shared[r] \/ r \in others \/ (r = s /\ writers # {})]
    BY DEF Share
  <1>2. shared \in [FileRequests -> BOOLEAN]
    BY DEF CommandTypes
  <1> HIDE DEF writers, others
  <1>3. \A r \in FileRequests : shared'[r] = (shared[r] \/ r \in others \/ (r = s /\ writers # {}))
    BY <1>1
  <1>4. \A r \in FileRequests : shared'[r] \in BOOLEAN
    BY ONLY <1>2, <1>3
  <1>5. shared' = [r \in FileRequests |-> shared'[r]]
    BY <1>1
  <1>6. shared' \in [FileRequests -> BOOLEAN]
    BY ONLY <1>4, <1>5
  <1>7. \A r \in FileRequests \ {s} : fd[r] = f \/ Contains(contents[f], r) => r \in others
    BY DEF others
  <1> QED
    BY <1>3, <1>6, <1>7

LEMMA WriteOpenKeeps == ASSUME CInv, NEW s \in FileRequests, write_open(s) PROVE Keeps(s)
  <1> DEFINE p == path[s]
             g == IF exists(p) THEN entry[p] ELSE s
  <1>1. /\ command[s] = "write" /\ step[s] = "start" /\ p \in Entries
        /\ UNCHANGED <<command, path, newpath, view, late>>
        /\ CommandTypes /\ Tree /\ Own(s) /\ offset[s] = 0 /\ exitcode[s] = "none"
    BY DEF CInv, Own, ProgressInv, write_open, Run
  <1>2. OldStep(s)
    BY <1>1 DEF OldStep
  <1>3. ~ (view[s] = "success") /\ (view[s] = "error" => late[s])
    BY <1>1 DEF Own, AnswerInv
  <1>4. CASE isdir(p) \/ ~isdir(dirname(p))
    <2>1. /\ step' = [step EXCEPT ![s] = "exited"] /\ exitcode' = [exitcode EXCEPT ![s] = "special"]
          /\ UNCHANGED <<entry, changed, contents, fd, offset, todo, shared>>
      BY <1>4 DEF write_open, Exit, Same, SameData
    <2>2. step'[s] = "exited" /\ exitcode'[s] = "special"
          /\ \A r \in FileRequests \ {s} : step'[r] = step[r] /\ exitcode'[r] = exitcode[r]
      BY <1>1, <2>1 DEF CommandTypes
    <2>3. CommandTypes'
      BY <1>1, <2>1 DEF CommandTypes
    <2>4. Tree'
      BY <1>1, <2>1, SameEntries
    <2>5. Others(s)
      BY <1>1, <2>1, <2>2 DEF Others
    <2>6. EntryStep(s)
      BY <1>1, <2>1 DEF EntryStep
    <2>7. ProgressInv(s)' /\ AnswerInv(s)'
      BY <1>1, <1>3, <2>1, <2>2 DEF Own, ProgressInv, AnswerInv, Nothing
    <2>8. WriteInv(s)' /\ DownloadInv(s)' /\ ArchiveInv(s)'
      BY <1>1, <2>2 DEF WriteInv, DownloadInv, ArchiveInv
    <2> QED
      BY <1>2, <2>3, <2>4, <2>5, <2>6, <2>7, <2>8 DEF Keeps, Own
  <1>5. CASE ~isdir(p) /\ isdir(dirname(p))
    <2>1. PICK f \in Files : f = g
      <3>1. exists(p) => entry[p] \in Files
        BY <1>1, <1>5 DEF CommandTypes, exists, isdir
      <3> QED
        BY <3>1, NamesDiffer
    <2> HIDE DEF g
    <2>2. /\ entry' = [entry EXCEPT ![p] = f] /\ changed' = [changed EXCEPT ![s] = TRUE]
          /\ step' = [step EXCEPT ![s] = "writing"] /\ UNCHANGED exitcode
          /\ contents' = [contents EXCEPT ![f] = <<>>] /\ fd' = [fd EXCEPT ![s] = f]
          /\ Share(s, f) /\ UNCHANGED <<offset, todo>>
      BY <1>5, <2>1 DEF write_open, SetEntry, Goto, g
    <2>3. /\ contents' \in [Files -> Seq(Files \union {Hole})] /\ contents'[f] = <<>>
          /\ \A x \in Files \ {f} : contents'[x] = contents[x]
      <3>1. <<>> \in Seq(Files \union {Hole})
        BY EmptySeq
      <3> QED
        BY <1>1, <2>2, <3>1 DEF CommandTypes
    <2>4. Tree' /\ entry' \in [Entries -> Files \union {Nothing, Directory}]
      <3>1. entry[p] # Directory
        BY <1>1, <1>5 DEF isdir
      <3> QED
        BY <1>1, <1>5, <2>2, <3>1, AddKeepsTree
    <2>5. /\ step' \in [FileRequests -> {"idle", "start", "writing", "checked", "streaming", "exited"}]
          /\ changed' \in [FileRequests -> BOOLEAN] /\ fd' \in [FileRequests -> Files \union {Nothing}]
          /\ step'[s] = "writing" /\ changed'[s] = TRUE /\ fd'[s] = f
          /\ \A r \in FileRequests \ {s} : step'[r] = step[r] /\ changed'[r] = changed[r] /\ fd'[r] = fd[r]
      BY <1>1, <2>2 DEF CommandTypes
    <2>6. /\ shared' \in [FileRequests -> BOOLEAN] /\ \A r \in FileRequests : shared[r] => shared'[r]
          /\ \A r \in FileRequests \ {s} : fd[r] = f \/ Contains(contents[f], r) => shared'[r]
      BY <1>1, <2>2, ShareTells
    <2>7. CommandTypes'
      BY <1>1, <2>2, <2>3, <2>4, <2>5, <2>6 DEF CommandTypes
    <2>8. Others(s)
      <3>1. \A r \in FileRequests \ {s}, x \in Files :
              contents'[x] = contents[x] \/ shared'[r] \/ (fd[r] # x /\ ~Contains(contents[x], r))
        BY ONLY <2>3, <2>6
      <3> QED
        BY <1>1, <2>2, <2>5, <2>6, <3>1 DEF Others
    <2>9. EntryStep(s)
      BY <2>5 DEF EntryStep
    <2>10. ProgressInv(s)' /\ AnswerInv(s)'
      BY <1>1, <1>3, <2>2, <2>5 DEF Own, ProgressInv, AnswerInv, Nothing
    <2>11. DownloadInv(s)' /\ ArchiveInv(s)'
      BY <1>1 DEF DownloadInv, ArchiveInv
    <2>12. WriteInv(s)'
      <3>1. <<>> = [i \in 1..0 |-> s]
        OBVIOUS
      <3>2. offset'[s] = 0 /\ 0 \in 0..Chunks
        BY <1>1, <2>2, CommandAssumption
      <3>3. contents'[fd'[s]] = [i \in 1..offset'[s] |-> s]
        BY <2>3, <2>5, <3>1, <3>2
      <3>4. exitcode'[s] = "none"
        BY <1>1, <2>2
      <3> QED
        BY <3>2, <3>3, <3>4 DEF WriteInv
    <2> QED
      BY <1>2, <2>4, <2>7, <2>8, <2>9, <2>10, <2>11, <2>12 DEF Keeps, Own
  <1> QED
    BY <1>4, <1>5

LEMMA LenOfInterval == ASSUME NEW S, NEW n \in Nat, NEW c \in [1..n -> S] PROVE c \in Seq(S) /\ Len(c) = n
  <1>1. c \in Seq(S)
    BY SeqDef
  <1>2. Len(c) \in Nat /\ 1..Len(c) = 1..n
    BY <1>1, LenProperties
  <1>3. CASE n = 0
    <2>1. Len(c) \notin 1..Len(c)
      BY <1>2, <1>3
    <2> QED
      BY <1>2, <1>3, <2>1
  <1>4. CASE n # 0
    <2>1. n \in 1..Len(c)
      BY <1>2, <1>4
    <2>2. Len(c) # 0
      BY <1>2, <2>1
    <2>3. Len(c) \in 1..n
      BY <1>2, <2>2
    <2> QED
      BY <1>2, <2>1, <2>3
  <1> QED
    BY <1>1, <1>3, <1>4

LEMMA PutIs ==
  ASSUME NEW S, Hole \in S, NEW c \in Seq(S), NEW n \in Nat, NEW e \in S
  PROVE  Put(c, n, e) \in Seq(S)
  <1>1. Len(c) \in Nat /\ \A i \in 1..Len(c) : c[i] \in S
    BY LenProperties, ElementOfSeq
  <1>2. PICK m \in Nat : m = (IF n > Len(c) THEN n ELSE Len(c))
    BY <1>1
  <1>3. Put(c, n, e) = [k \in 1..m |-> IF k = n THEN e ELSE IF k <= Len(c) THEN c[k] ELSE Hole]
    BY <1>2 DEF Put
  <1>4. \A k \in 1..m : (IF k = n THEN e ELSE IF k <= Len(c) THEN c[k] ELSE Hole) \in S
    BY <1>1
  <1>5. Put(c, n, e) \in [1..m -> S]
    BY <1>3, <1>4
  <1> QED
    BY <1>5, LenOfInterval

LEMMA PutNext ==
  ASSUME NEW n \in Nat, NEW e PROVE Put([i \in 1..n |-> e], n + 1, e) = [i \in 1 .. n + 1 |-> e]
  <1> DEFINE c == [i \in 1..n |-> e]
  <1>1. Len(c) = n
    <2>1. c \in [1..n -> {e}]
      OBVIOUS
    <2> QED
      BY <2>1, LenOfInterval
  <1>2. \A k \in 1..n : c[k] = e
    OBVIOUS
  <1> HIDE DEF c
  <1>3. (IF n + 1 > Len(c) THEN n + 1 ELSE Len(c)) = n + 1
    BY <1>1
  <1>4. Put(c, n + 1, e)
          = [k \in 1 .. n + 1 |-> IF k = n + 1 THEN e ELSE IF k <= Len(c) THEN c[k] ELSE Hole]
    BY <1>3 DEF Put
  <1>5. ASSUME NEW k \in 1 .. n + 1
        PROVE  (IF k = n + 1 THEN e ELSE IF k <= Len(c) THEN c[k] ELSE Hole) = e
    <2>1. CASE k = n + 1
      BY <2>1
    <2>2. CASE k # n + 1
      <3>1. k \in 1..n /\ k <= Len(c)
        BY <1>1, <2>2
      <3> QED
        BY <1>2, <2>2, <3>1
    <2> QED
      BY <2>1, <2>2
  <1>6. Put(c, n + 1, e) = [k \in 1 .. n + 1 |-> e]
    BY <1>4, <1>5
  <1> QED
    BY <1>6 DEF c

LEMMA WriteChunkKeeps == ASSUME CInv, NEW s \in FileRequests, write_chunk(s) PROVE Keeps(s)
  <1>1. /\ command[s] = "write" /\ step[s] = "writing" /\ offset[s] < Chunks
        /\ UNCHANGED <<command, path, newpath, view, late, entry, changed, fd, todo, step, exitcode>>
        /\ CommandTypes /\ Tree /\ Own(s) /\ fd[s] \in Files /\ offset[s] \in Nat /\ exitcode[s] = "none"
        /\ Share(s, fd[s])
    BY DEF CInv, Own, ProgressInv, CommandTypes, write_chunk, Run, Same
  <1>2. /\ offset' = [offset EXCEPT ![s] = @ + 1] /\ offset' \in [FileRequests -> Nat]
        /\ offset'[s] = offset[s] + 1 /\ \A r \in FileRequests \ {s} : offset'[r] = offset[r]
    BY <1>1 DEF write_chunk, CommandTypes
  <1>3. PICK f \in Files : f = fd[s]
    BY <1>1
  <1>4. /\ contents' \in [Files -> Seq(Files \union {Hole})]
        /\ contents'[f] = Put(contents[f], offset[s] + 1, s)
        /\ \A x \in Files \ {f} : contents'[x] = contents[x]
    <2>1. contents \in [Files -> Seq(Files \union {Hole})] /\ s \in Files \union {Hole}
          /\ offset[s] + 1 \in Nat
      BY <1>1, NamesDiffer DEF CommandTypes
    <2>2. Put(contents[f], offset[s] + 1, s) \in Seq(Files \union {Hole})
      BY <2>1, PutIs
    <2>3. contents' = [contents EXCEPT ![f] = Put(contents[f], offset[s] + 1, s)]
      BY <1>2, <1>3 DEF write_chunk
    <2> QED
      BY ONLY <2>1, <2>2, <2>3, f \in Files
  <1>5. /\ shared' \in [FileRequests -> BOOLEAN] /\ \A r \in FileRequests : shared[r] => shared'[r]
        /\ \A r \in FileRequests \ {s} : fd[r] = f \/ Contains(contents[f], r) => shared'[r]
    BY <1>1, <1>3, ShareTells
  <1>6. CommandTypes'
    BY <1>1, <1>2, <1>4, <1>5 DEF CommandTypes
  <1>7. Tree' /\ EntryStep(s) /\ OldStep(s)
    BY <1>1, SameEntries DEF EntryStep, OldStep, CommandTypes
  <1>8. Others(s)
    <2>1. \A r \in FileRequests \ {s}, x \in Files :
            contents'[x] = contents[x] \/ shared'[r] \/ (fd[r] # x /\ ~Contains(contents[x], r))
      BY ONLY <1>4, <1>5
    <2> QED
      BY <1>1, <1>2, <1>5, <2>1 DEF Others
  <1>9. ProgressInv(s)' /\ AnswerInv(s)'
    BY <1>1 DEF Own, ProgressInv, AnswerInv
  <1>10. DownloadInv(s)' /\ ArchiveInv(s)'
    BY <1>1 DEF DownloadInv, ArchiveInv
  <1>11. WriteInv(s)'
    <2> SUFFICES ASSUME ~shared'[s]
                 PROVE  offset'[s] \in 0..Chunks /\ contents'[fd'[s]] = [i \in 1..offset'[s] |-> s]
      BY <1>1 DEF WriteInv
    <2>1. offset[s] \in 0..Chunks /\ contents[f] = [i \in 1..offset[s] |-> s]
      BY <1>1, <1>3, <1>5 DEF Own, WriteInv
    <2>2. offset[s] + 1 \in 0..Chunks
      BY <1>1, <2>1, CommandAssumption
    <2>3. contents'[f] = [i \in 1 .. offset[s] + 1 |-> s]
      <3>1. PICK n \in Nat : n = offset[s]
        BY <1>1
      <3>2. Put([i \in 1..n |-> s], n + 1, s) = [i \in 1 .. n + 1 |-> s]
        BY PutNext
      <3> QED
        BY ONLY <1>4, <2>1, <3>1, <3>2
    <2> QED
      BY <1>1, <1>2, <1>3, <2>2, <2>3
  <1> QED
    BY <1>6, <1>7, <1>8, <1>9, <1>10, <1>11 DEF Keeps, Own

LEMMA WriteEndKeeps == ASSUME CInv, NEW s \in FileRequests, write_end(s) PROVE Keeps(s)
  <1>1. /\ command[s] = "write" /\ step[s] = "writing" /\ exitcode[s] = "none"
        /\ UNCHANGED <<command, path, newpath, view, late, entry, changed, contents, offset, todo, shared>>
        /\ CommandTypes /\ Tree /\ Own(s)
        /\ step' = [step EXCEPT ![s] = "exited"] /\ fd' = [fd EXCEPT ![s] = Nothing]
    BY DEF CInv, Own, ProgressInv, write_end, Run, Same, Exit
  <1>2. /\ step' \in [FileRequests -> {"idle", "start", "writing", "checked", "streaming", "exited"}]
        /\ fd' \in [FileRequests -> Files \union {Nothing}] /\ step'[s] = "exited" /\ fd'[s] = Nothing
        /\ \A r \in FileRequests \ {s} : step'[r] = step[r] /\ fd'[r] = fd[r]
    BY <1>1 DEF CommandTypes
  <1>3. PICK code \in {"zero", "special"} :
          /\ exitcode' = [exitcode EXCEPT ![s] = code]
          /\ code = "zero" => offset[s] = Chunks \/ late[s]
    BY DEF write_end, Exit
  <1>4. /\ exitcode' \in [FileRequests -> {"none", "zero", "special"}] /\ exitcode'[s] = code
        /\ \A r \in FileRequests \ {s} : exitcode'[r] = exitcode[r]
    BY <1>1, <1>3 DEF CommandTypes
  <1>5. CommandTypes'
    BY <1>1, <1>2, <1>4 DEF CommandTypes
  <1>6. Tree' /\ EntryStep(s) /\ OldStep(s)
    BY <1>1, SameEntries DEF EntryStep, OldStep, CommandTypes
  <1>7. Others(s)
    BY <1>1, <1>2, <1>4 DEF Others
  <1>8. ~ (view[s] = "success") /\ (view[s] = "error" => late[s])
    BY <1>1 DEF Own, AnswerInv
  <1>9. ProgressInv(s)' /\ AnswerInv(s)'
    BY <1>1, <1>2, <1>4, <1>8, NamesDiffer DEF Own, ProgressInv, AnswerInv, Nothing
  <1>10. DownloadInv(s)' /\ ArchiveInv(s)'
    BY <1>1 DEF DownloadInv, ArchiveInv
  <1>11. WriteInv(s)'
    <2> SUFFICES ASSUME ~shared[s], code = "zero", ~late[s]
                 PROVE  \E f \in Files : contents[f] = [i \in 1..Chunks |-> s]
      BY <1>1, <1>2, <1>4 DEF WriteInv
    <2>1. offset[s] = Chunks /\ contents[fd[s]] = [i \in 1..offset[s] |-> s] /\ fd[s] \in Files
      BY <1>1, <1>3 DEF Own, WriteInv, ProgressInv
    <2> QED
      BY <2>1
  <1> QED
    BY <1>5, <1>6, <1>7, <1>9, <1>10, <1>11 DEF Keeps, Own

LEMMA GetOpenKeeps == ASSUME CInv, NEW s \in FileRequests, get_open(s) PROVE Keeps(s)
  <1> DEFINE p == path[s]
  <1>1. /\ command[s] = "get" /\ step[s] = "start" /\ exitcode[s] = "none" /\ offset[s] = 0
        /\ UNCHANGED <<command, path, newpath, view, late, entry, changed, contents, offset, todo, shared>>
        /\ CommandTypes /\ Tree /\ Own(s) /\ p \in Entries /\ fd[s] \notin Files
    BY DEF CInv, Own, ProgressInv, get_open, Run, Same
  <1>2. \/ /\ step' = [step EXCEPT ![s] = "exited"] /\ exitcode' = [exitcode EXCEPT ![s] = "special"]
           /\ UNCHANGED fd
        \/ /\ step' = [step EXCEPT ![s] = "streaming"] /\ UNCHANGED exitcode
           /\ fd' = [fd EXCEPT ![s] = entry[p]] /\ entry[p] \in Files
           /\ ~ (Len(contents[entry[p]]) > MaxSize)
    BY <1>1 DEF get_open, Exit, Goto, CommandTypes, exists, isdir
  <1>3. /\ step' \in [FileRequests -> {"idle", "start", "writing", "checked", "streaming", "exited"}]
        /\ exitcode' \in [FileRequests -> {"none", "zero", "special"}]
        /\ fd' \in [FileRequests -> Files \union {Nothing}]
        /\ \A r \in FileRequests \ {s} : step'[r] = step[r] /\ fd'[r] = fd[r] /\ exitcode'[r] = exitcode[r]
    <2>1. /\ step \in [FileRequests -> {"idle", "start", "writing", "checked", "streaming", "exited"}]
          /\ exitcode \in [FileRequests -> {"none", "zero", "special"}]
          /\ fd \in [FileRequests -> Files \union {Nothing}]
      BY <1>1 DEF CommandTypes
    <2> QED
      BY <1>1, <1>2, <2>1
  <1>4. \/ step'[s] = "exited" /\ exitcode'[s] = "special" /\ fd'[s] \notin Files
        \/ /\ step'[s] = "streaming" /\ exitcode'[s] = "none" /\ fd'[s] \in Files
           /\ ~ (Len(contents[fd'[s]]) > MaxSize)
    BY <1>1, <1>2 DEF CommandTypes
  <1>5. CommandTypes'
    BY <1>1, <1>3 DEF CommandTypes
  <1>6. Tree' /\ EntryStep(s) /\ OldStep(s)
    BY <1>1, <1>4, SameEntries DEF EntryStep, OldStep, CommandTypes
  <1>7. Others(s)
    BY <1>1, <1>3 DEF Others
  <1>8. ~ (view[s] = "error") \/ late[s]
    BY <1>1 DEF Own, AnswerInv
  <1>9. ProgressInv(s)' /\ AnswerInv(s)'
    BY <1>1, <1>4, <1>8 DEF Own, ProgressInv, AnswerInv, Nothing
  <1>10. WriteInv(s)' /\ ArchiveInv(s)'
    BY <1>1 DEF WriteInv, ArchiveInv
  <1>11. DownloadInv(s)'
    <2>1. fd'[s] \in Files => Len(contents[fd'[s]]) \in Nat
      BY <1>1, LenProperties DEF CommandTypes
    <2> QED
      BY <1>1, <1>4, <2>1, CommandAssumption DEF DownloadInv
  <1> QED
    BY <1>5, <1>6, <1>7, <1>9, <1>10, <1>11 DEF Keeps, Own

LEMMA GetChunkKeeps == ASSUME CInv, NEW s \in FileRequests, get_chunk(s) PROVE Keeps(s)
  <1>1. /\ command[s] = "get" /\ step[s] = "streaming" /\ exitcode[s] = "none" /\ offset[s] \in Nat
        /\ UNCHANGED <<command, path, newpath, view, late, entry, changed, contents, todo, shared>>
        /\ CommandTypes /\ Tree /\ Own(s) /\ fd[s] \in Files
    BY DEF CInv, Own, ProgressInv, CommandTypes, get_chunk, Run, Same
  <1>2. \/ /\ offset[s] < Len(contents[fd[s]]) /\ offset' = [offset EXCEPT ![s] = offset[s] + 1]
           /\ UNCHANGED <<fd, step, exitcode>>
        \/ /\ step' = [step EXCEPT ![s] = "exited"] /\ exitcode' = [exitcode EXCEPT ![s] = "zero"]
           /\ fd' = [fd EXCEPT ![s] = Nothing] /\ UNCHANGED offset
    BY DEF get_chunk, Exit
  <1>3. /\ step' \in [FileRequests -> {"idle", "start", "writing", "checked", "streaming", "exited"}]
        /\ exitcode' \in [FileRequests -> {"none", "zero", "special"}]
        /\ fd' \in [FileRequests -> Files \union {Nothing}] /\ offset' \in [FileRequests -> Nat]
        /\ \A r \in FileRequests \ {s} : /\ step'[r] = step[r] /\ fd'[r] = fd[r]
                                         /\ exitcode'[r] = exitcode[r] /\ offset'[r] = offset[r]
    <2>1. /\ step \in [FileRequests -> {"idle", "start", "writing", "checked", "streaming", "exited"}]
          /\ exitcode \in [FileRequests -> {"none", "zero", "special"}]
          /\ fd \in [FileRequests -> Files \union {Nothing}] /\ offset \in [FileRequests -> Nat]
          /\ offset[s] + 1 \in Nat
      BY <1>1 DEF CommandTypes
    <2>2. CASE offset' = [offset EXCEPT ![s] = offset[s] + 1] /\ UNCHANGED <<fd, step, exitcode>>
      BY ONLY <2>1, <2>2
    <2>3. CASE /\ step' = [step EXCEPT ![s] = "exited"] /\ exitcode' = [exitcode EXCEPT ![s] = "zero"]
               /\ fd' = [fd EXCEPT ![s] = Nothing] /\ UNCHANGED offset
      BY ONLY <2>1, <2>3
    <2> QED
      BY <1>2, <2>2, <2>3
  <1>4. \/ /\ step'[s] = "exited" /\ exitcode'[s] = "zero" /\ fd'[s] = Nothing /\ offset'[s] = offset[s]
        \/ /\ step'[s] = "streaming" /\ exitcode'[s] = "none" /\ fd'[s] = fd[s]
           /\ offset'[s] = offset[s] + 1 /\ offset[s] < Len(contents[fd[s]])
    BY <1>1, <1>2 DEF CommandTypes
  <1>5. CommandTypes'
    BY <1>1, <1>3 DEF CommandTypes
  <1>6. Tree' /\ EntryStep(s) /\ OldStep(s)
    BY <1>1, <1>4, SameEntries DEF EntryStep, OldStep, CommandTypes
  <1>7. Others(s)
    BY <1>1, <1>3 DEF Others
  <1>8. ~ (view[s] = "error") \/ late[s]
    BY <1>1 DEF Own, AnswerInv
  <1>9. ProgressInv(s)' /\ AnswerInv(s)'
    BY <1>1, <1>4, <1>8, NamesDiffer DEF Own, ProgressInv, AnswerInv, Nothing
  <1>10. WriteInv(s)' /\ ArchiveInv(s)'
    BY <1>1 DEF WriteInv, ArchiveInv
  <1>11. DownloadInv(s)'
    <2>1. Len(contents[fd[s]]) \in Nat /\ offset[s] + 1 \in Nat
      BY <1>1, LenProperties DEF CommandTypes
    <2>2. ~shared[s] => /\ offset[s] <= MaxSize
                        /\ offset[s] <= Len(contents[fd[s]]) /\ Len(contents[fd[s]]) <= MaxSize
      BY <1>1 DEF Own, DownloadInv
    <2>3. CASE step'[s] = "exited"
      BY <1>1, <1>4, <2>2, <2>3 DEF DownloadInv
    <2>4. CASE step'[s] = "streaming"
      <3>1. offset'[s] = offset[s] + 1 /\ offset[s] < Len(contents[fd[s]]) /\ fd'[s] = fd[s]
        BY <1>4, <2>4
      <3>2. ~shared[s] => offset'[s] <= MaxSize /\ offset'[s] <= Len(contents[fd[s]])
        BY <1>1, <2>1, <2>2, <3>1, CommandAssumption
      <3> QED
        BY <1>1, <2>2, <3>1, <3>2 DEF DownloadInv
    <2> QED
      BY <1>4, <2>3, <2>4
  <1> QED
    BY <1>5, <1>6, <1>7, <1>9, <1>10, <1>11 DEF Keeps, Own

(* The entries of a directory, and what is below it.                       *)
LEMMA InsideIs ==
  ASSUME CommandTypes, NEW q \in Entries, NEW c \in Inside(q)
  PROVE  /\ c \in Entries /\ exists(c) /\ Len(c) = Len(q) + 1 /\ IsPrefix(q, c) /\ c # q
         /\ \A x \in Inside(q) : IsPrefix(x, c) => x = c
  <1>1. c \in Entries /\ exists(c) /\ Len(c) = Len(q) + 1 /\ dirname(c) = q
    BY DEF Inside
  <1>2. IsPrefix(q, c) /\ c # q
    BY <1>1, EmptySeq, DirnameOfPath
  <1>3. ASSUME NEW x \in Inside(q), IsPrefix(x, c) PROVE x = c
    <2>1. x \in Seq(STRING) /\ c \in Seq(STRING) /\ Len(x) = Len(c)
      BY <1>1, PathTypes DEF Inside
    <2> QED
      BY <1>3, <2>1, PrefixOrder
  <1> QED
    BY <1>1, <1>2, <1>3

LEMMA NothingBelowFile ==
  ASSUME CommandTypes, Tree, NEW p \in Entries, ~isdir(p) PROVE Beneath(p) = {}
  <1> SUFFICES ASSUME NEW x \in Beneath(p) PROVE FALSE
    OBVIOUS
  <1>1. entry[p] = Directory
    BY ChildBetween DEF Beneath
  <1> QED
    BY <1>1 DEF isdir

LEMMA ZipFrame ==
  ASSUME CInv, NEW s \in FileRequests, zip_walk(s) \/ zip_entry(s) \/ zip_end(s),
         ArchiveInv(s)', NEW T \in SUBSET Entries,
         todo' = [todo EXCEPT ![s] = T],
         offset' \in [FileRequests -> Nat], \A r \in FileRequests \ {s} : offset'[r] = offset[r],
         \/ step' = [step EXCEPT ![s] = "streaming"] /\ exitcode' = exitcode
         \/ /\ step' = [step EXCEPT ![s] = "exited"]
            /\ \E code \in {"zero", "special"} : exitcode' = [exitcode EXCEPT ![s] = code]
  PROVE  Keeps(s)
  <1>1. /\ command[s] = "zip" /\ step[s] \in {"start", "streaming"} /\ exitcode[s] = "none"
        /\ UNCHANGED <<command, path, newpath, view, late, entry, changed, contents, fd, shared>>
        /\ CommandTypes /\ Tree /\ Own(s) /\ fd[s] \notin Files
    BY DEF CInv, Own, ProgressInv, zip_walk, zip_entry, zip_end, Run, Same
  <1>2. /\ step' \in [FileRequests -> {"idle", "start", "writing", "checked", "streaming", "exited"}]
        /\ exitcode' \in [FileRequests -> {"none", "zero", "special"}]
        /\ todo' \in [FileRequests -> SUBSET Entries]
        /\ \A r \in FileRequests \ {s} : /\ step'[r] = step[r] /\ todo'[r] = todo[r]
                                         /\ exitcode'[r] = exitcode[r]
    <2>1. /\ step \in [FileRequests -> {"idle", "start", "writing", "checked", "streaming", "exited"}]
          /\ exitcode \in [FileRequests -> {"none", "zero", "special"}]
          /\ todo \in [FileRequests -> SUBSET Entries]
      BY <1>1 DEF CommandTypes
    <2> QED
      BY ONLY <2>1, todo' = [todo EXCEPT ![s] = T], T \in SUBSET Entries,
              \/ step' = [step EXCEPT ![s] = "streaming"] /\ exitcode' = exitcode
              \/ /\ step' = [step EXCEPT ![s] = "exited"]
                 /\ \E code \in {"zero", "special"} : exitcode' = [exitcode EXCEPT ![s] = code]
  <1>3. \/ step'[s] = "streaming" /\ exitcode'[s] = "none"
        \/ step'[s] = "exited" /\ exitcode'[s] \in {"zero", "special"}
    BY <1>1 DEF CommandTypes
  <1>4. CommandTypes'
    BY <1>1, <1>2 DEF CommandTypes
  <1>5. Tree' /\ EntryStep(s) /\ OldStep(s)
    BY <1>1, <1>3, SameEntries DEF EntryStep, OldStep, CommandTypes
  <1>6. Others(s)
    BY <1>1, <1>2 DEF Others
  <1>7. ~ (view[s] = "error") \/ late[s]
    BY <1>1 DEF Own, AnswerInv
  <1>8. ProgressInv(s)' /\ AnswerInv(s)'
    BY <1>1, <1>3, <1>7 DEF Own, ProgressInv, AnswerInv, Nothing
  <1>9. WriteInv(s)' /\ DownloadInv(s)'
    BY <1>1 DEF WriteInv, DownloadInv
  <1> QED
    BY <1>4, <1>5, <1>6, <1>8, <1>9 DEF Keeps, Own

LEMMA ZipWalkKeeps == ASSUME CInv, NEW s \in FileRequests, zip_walk(s) PROVE Keeps(s)
  <1>1. PICK p \in Entries : p = path[s]
    BY DEF CInv, Own, ProgressInv, zip_walk, Run
  <1>2. /\ command[s] = "zip" /\ step[s] = "start" /\ exitcode[s] = "none" /\ offset[s] = 0
        /\ UNCHANGED <<command, path, entry, changed, offset>>
        /\ CommandTypes /\ Tree /\ todo[s] \in SUBSET Entries
    BY DEF CInv, Own, ProgressInv, CommandTypes, zip_walk, Run, Same
  <1>3. offset' \in [FileRequests -> Nat] /\ \A r \in FileRequests \ {s} : offset'[r] = offset[r]
    BY <1>2 DEF CommandTypes
  <1>4. CASE isdir(p)
    <2>1. /\ todo' = [todo EXCEPT ![s] = Inside(p)] /\ step' = [step EXCEPT ![s] = "streaming"]
          /\ exitcode' = exitcode
      BY <1>1, <1>4 DEF zip_walk, Goto
    <2>2. Inside(p) \in SUBSET Entries
      BY DEF Inside
    <2>3. todo'[s] = Inside(p) /\ exitcode'[s] = "none" /\ path'[s] = p /\ offset'[s] = 0
      BY <1>1, <1>2, <2>1 DEF CommandTypes
    <2>4. Inside(p) \subseteq Beneath(p)
      BY <1>2, InsideIs DEF Beneath
    <2>5. \A x, y \in Inside(p) : IsPrefix(x, y) => x = y
      BY <1>2, InsideIs
    <2>6. /\ Beneath(p)' = Beneath(p)
          /\ Remaining(s)' = {x \in Entries : exists(x) /\ \E q \in Inside(p) : IsPrefix(q, x)}
      BY <1>2, <2>3 DEF Beneath, Remaining, exists
    <2>7. Archived(s)' = {}
      <3>1. Archived(s)' = Beneath(p)' \ Remaining(s)'
        BY <2>3 DEF Archived, Beneath
      <3>2. ASSUME NEW x \in Beneath(p) PROVE x \in Remaining(s)'
        <4>1. x \in Entries /\ exists(x) /\ IsPrefix(p, x) /\ x # p
          BY DEF Beneath
        <4>2. \E c \in Inside(p) : IsPrefix(c, x)
          BY <1>2, <4>1, ChildBetween
        <4> QED
          BY <2>6, <4>1, <4>2
      <3> QED
        BY <2>6, <3>1, <3>2
    <2>8. ArchiveInv(s)'
      <3>1. todo'[s] \subseteq Beneath(path[s])'
        BY <1>2, <2>3, <2>4 DEF Beneath, exists
      <3>2. IsFiniteSet(Archived(s)') /\ offset'[s] = Cardinality(Archived(s)')
        BY <2>3, <2>7, FS_EmptySet
      <3> QED
        BY <2>3, <2>5, <3>1, <3>2 DEF ArchiveInv
    <2> QED
      BY <1>3, <2>1, <2>2, <2>8, ZipFrame
  <1>5. CASE ~isdir(p)
    <2>1. /\ step' = [step EXCEPT ![s] = "exited"] /\ exitcode' = [exitcode EXCEPT ![s] = "zero"]
          /\ UNCHANGED todo
      BY <1>1, <1>5 DEF zip_walk, Exit
    <2>2. todo' = [todo EXCEPT ![s] = todo[s]]
      BY <1>2, <2>1 DEF CommandTypes
    <2>3. Beneath(p) = {} /\ offset[s] = Cardinality({})
      BY <1>2, <1>5, NothingBelowFile, FS_EmptySet
    <2>4. step'[s] = "exited"
      BY <1>2, <2>1 DEF CommandTypes
    <2>5. ArchiveInv(s)'
      BY <1>1, <1>2, <2>3, <2>4 DEF ArchiveInv, Beneath, exists
    <2> QED
      BY <1>2, <1>3, <2>1, <2>2, <2>5, ZipFrame
  <1> QED
    BY <1>4, <1>5

LEMMA ZipEntryKeeps == ASSUME CInv, NEW s \in FileRequests, zip_entry(s) PROVE Keeps(s)
  <1>1. PICK p \in Entries : p = path[s]
    BY DEF CInv, Own, ProgressInv, zip_entry, Run
  <1>2. /\ command[s] = "zip" /\ step[s] = "streaming" /\ exitcode[s] = "none" /\ offset[s] \in Nat
        /\ UNCHANGED <<command, path, entry, changed>>
        /\ CommandTypes /\ Tree /\ Own(s) /\ todo[s] \in SUBSET Entries
    BY DEF CInv, Own, ProgressInv, CommandTypes, zip_entry, Run, Same
  <1>3. PICK q \in todo[s] :
          /\ todo' = [todo EXCEPT ![s] = (todo[s] \ {q}) \union (IF isdir(q) THEN Inside(q) ELSE {})]
          /\ IF ~exists(q) \/ (~isdir(q) /\ Len(contents[entry[q]]) > MaxSize)
             THEN Exit(s, "special") /\ UNCHANGED offset
             ELSE offset' = [offset EXCEPT ![s] = offset[s] + 1] /\ UNCHANGED <<step, exitcode>>
    BY DEF zip_entry
  <1>4. PICK T \in SUBSET Entries : T = (todo[s] \ {q}) \union (IF isdir(q) THEN Inside(q) ELSE {})
    BY <1>2 DEF Inside
  <1>5. q \in Entries /\ todo' = [todo EXCEPT ![s] = T] /\ todo'[s] = T
    BY <1>2, <1>3, <1>4 DEF CommandTypes
  <1>6. CASE ~exists(q) \/ (~isdir(q) /\ Len(contents[entry[q]]) > MaxSize)
    <2>1. /\ step' = [step EXCEPT ![s] = "exited"] /\ exitcode' = [exitcode EXCEPT ![s] = "special"]
          /\ UNCHANGED offset
      BY <1>3, <1>6 DEF Exit
    <2>2. step'[s] = "exited" /\ exitcode'[s] = "special" /\ offset' \in [FileRequests -> Nat]
      BY <1>2, <2>1 DEF CommandTypes
    <2>3. ArchiveInv(s)'
      BY <2>2 DEF ArchiveInv
    <2> QED
      BY <1>5, <2>1, <2>2, <2>3, ZipFrame
  <1>7. CASE exists(q) /\ ~ (~isdir(q) /\ Len(contents[entry[q]]) > MaxSize)
    <2>1. offset' = [offset EXCEPT ![s] = offset[s] + 1] /\ UNCHANGED <<step, exitcode>>
      BY <1>3, <1>7
    <2>2. /\ offset' \in [FileRequests -> Nat] /\ offset'[s] = offset[s] + 1
          /\ \A r \in FileRequests \ {s} : offset'[r] = offset[r]
      BY <1>2, <2>1 DEF CommandTypes
    <2>3. step' = [step EXCEPT ![s] = "streaming"]
      BY <1>2, <2>1 DEF CommandTypes
    <2>4. ASSUME \A r \in FileRequests : ~changed[r]
          PROVE  /\ T \subseteq Beneath(path[s])'
                 /\ \A x, y \in T : IsPrefix(x, y) => x = y
                 /\ IsFiniteSet(Archived(s)') /\ offset'[s] = Cardinality(Archived(s)')
      <3>1. /\ todo[s] \subseteq Beneath(p) /\ \A x, y \in todo[s] : IsPrefix(x, y) => x = y
            /\ IsFiniteSet(Archived(s)) /\ offset[s] = Cardinality(Archived(s))
        BY <1>1, <1>2, <2>4 DEF Own, ArchiveInv
      <3>2. q \in Beneath(p) /\ IsPrefix(p, q) /\ p # q /\ p \in Seq(STRING) /\ q \in Seq(STRING)
            /\ Len(p) \in Nat /\ Len(q) \in Nat /\ IsPrefix(q, q)
        BY <1>5, <3>1, PathTypes, PrefixOrder DEF Beneath
      <3>3. ASSUME NEW x \in T PROVE x \in Beneath(p) /\ x # q
        <4>1. CASE x \in todo[s] \ {q}
          BY <3>1, <4>1
        <4>2. CASE x \in Inside(q)
          <5>1. x \in Entries /\ exists(x) /\ Len(x) = Len(q) + 1 /\ IsPrefix(q, x) /\ x # q
            BY <1>2, <1>5, <4>2, InsideIs
          <5>2. x \in Seq(STRING)
            BY <5>1, PathTypes
          <5>3. IsPrefix(p, x) /\ Len(p) <= Len(q)
            BY <3>2, <5>1, <5>2, PrefixOrder
          <5>4. x # p
            BY <3>2, <5>1, <5>3
          <5> QED
            BY <5>1, <5>3, <5>4 DEF Beneath
        <4> QED
          BY <1>4, <4>1, <4>2
      <3>4. ASSUME NEW x \in T, NEW y \in T, IsPrefix(x, y) PROVE x = y
        <4>1. x \in Entries /\ y \in Entries /\ x \in Seq(STRING) /\ y \in Seq(STRING)
          BY PathTypes
        <4>2. CASE x \in todo[s] /\ y \in todo[s]
          BY <3>1, <3>4, <4>2
        <4>3. CASE x \in Inside(q) /\ y \in Inside(q)
          BY <1>2, <1>5, <3>4, <4>3, InsideIs
        <4>4. CASE x \in Inside(q) /\ y \in todo[s] \ {q}
          <5>1. IsPrefix(q, x)
            BY <1>2, <1>5, <4>4, InsideIs
          <5>2. IsPrefix(q, y)
            BY <3>2, <3>4, <4>1, <5>1, PrefixOrder
          <5> QED
            BY <3>1, <4>4, <5>2
        <4>5. CASE x \in todo[s] \ {q} /\ y \in Inside(q)
          <5>1. y \in Entries /\ dirname(y) = q
            BY <4>5 DEF Inside
          <5>2. x # y => IsPrefix(x, q)
            BY <3>4, <4>1, <5>1, DirnameOfPath
          <5> QED
            BY <3>1, <4>5, <5>2
        <4> QED
          BY <1>4, <4>2, <4>3, <4>4, <4>5
      <3>5. Remaining(s)' = Remaining(s) \ {q}
        <4>1. Remaining(s)' = {x \in Entries : exists(x) /\ \E y \in T : IsPrefix(y, x)}
          BY <1>2, <1>5 DEF Remaining, exists
        <4>2. ASSUME NEW x \in Entries, exists(x), NEW y \in T, IsPrefix(y, x)
              PROVE  x \in Remaining(s) /\ x # q
          <5>1. y \in Entries /\ y \in Seq(STRING) /\ x \in Seq(STRING)
            BY <1>4, PathTypes
          <5>2. CASE y \in todo[s] \ {q}
            BY <3>1, <4>2, <5>2 DEF Remaining
          <5>3. CASE y \in Inside(q)
            <6>1. IsPrefix(q, y) /\ Len(y) = Len(q) + 1
              BY <1>2, <1>5, <5>3, InsideIs
            <6>2. IsPrefix(q, x) /\ Len(y) <= Len(x)
              BY <3>2, <4>2, <5>1, <6>1, PrefixOrder
            <6>3. x # q
              BY <3>2, <6>1, <6>2
            <6> QED
              BY <4>2, <6>2, <6>3 DEF Remaining
          <5> QED
            BY <1>4, <5>2, <5>3
        <4>3. ASSUME NEW x \in Remaining(s), x # q PROVE \E y \in T : IsPrefix(y, x)
          <5>1. PICK y \in todo[s] : IsPrefix(y, x) /\ x \in Entries /\ exists(x)
            BY DEF Remaining
          <5>2. CASE y # q
            BY <1>4, <5>1, <5>2
          <5>3. CASE y = q
            <6>1. entry[q] = Directory /\ \E c \in Inside(q) : IsPrefix(c, x)
              BY <1>2, <1>5, <4>3, <5>1, <5>3, ChildBetween
            <6>2. isdir(q)
              BY <1>5, <6>1 DEF isdir
            <6> QED
              BY <1>4, <6>1, <6>2
          <5> QED
            BY <5>2, <5>3
        <4>4. \A x \in Remaining(s) : x \in Entries /\ exists(x)
          BY DEF Remaining
        <4> QED
          BY <4>1, <4>2, <4>3, <4>4
      <3>6. Beneath(path[s])' = Beneath(p)
        BY <1>1, <1>2 DEF Beneath, exists
      <3>7. q \in Remaining(s)
        BY <1>5, <1>7, <3>2 DEF Remaining
      <3>8. Archived(s)' = Archived(s) \union {q} /\ q \notin Archived(s)
        <4>1. Archived(s)' = Beneath(p) \ Remaining(s)'
          BY <3>6 DEF Archived
        <4>2. Archived(s) = Beneath(p) \ Remaining(s)
          BY <1>1 DEF Archived
        <4> QED
          BY <3>2, <3>5, <3>7, <4>1, <4>2
      <3>9. IsFiniteSet(Archived(s)') /\ Cardinality(Archived(s)') = Cardinality(Archived(s)) + 1
        BY <3>1, <3>8, FS_AddElement
      <3> QED
        BY <2>2, <3>1, <3>3, <3>4, <3>6, <3>9
    <2>5. ArchiveInv(s)'
      <3>1. exitcode'[s] = "none" /\ changed' = changed
        BY <1>2, <2>1
      <3> QED
        BY <1>5, <2>4, <3>1 DEF ArchiveInv
    <2> QED
      BY <1>5, <2>1, <2>2, <2>3, <2>5, ZipFrame
  <1> QED
    BY <1>6, <1>7

LEMMA ZipEndKeeps == ASSUME CInv, NEW s \in FileRequests, zip_end(s) PROVE Keeps(s)
  <1>1. /\ command[s] = "zip" /\ step[s] = "streaming" /\ todo[s] = {}
        /\ UNCHANGED <<command, path, entry, changed, offset, todo>>
        /\ step' = [step EXCEPT ![s] = "exited"] /\ exitcode' = [exitcode EXCEPT ![s] = "zero"]
        /\ CommandTypes /\ Own(s)
    BY DEF CInv, zip_end, Run, Same, Exit
  <1>2. todo' = [todo EXCEPT ![s] = {}] /\ offset' \in [FileRequests -> Nat] /\ step'[s] = "exited"
    BY <1>1 DEF CommandTypes
  <1>3. Archived(s) = Beneath(path[s])
    BY <1>1 DEF Archived, Remaining
  <1>4. ArchiveInv(s)'
    <2>1. Beneath(path[s])' = Beneath(path[s])
      BY <1>1 DEF Beneath, exists
    <2>2. (\A r \in FileRequests : ~changed[r]) => offset[s] = Cardinality(Beneath(path[s]))
      BY <1>1, <1>3 DEF Own, ArchiveInv
    <2> QED
      BY <1>1, <1>2, <2>1, <2>2 DEF ArchiveInv
  <1> QED
    BY <1>1, <1>2, <1>4, ZipFrame

(* A step of another request leaves what is known of r.                    *)
LEMMA OthersKeep ==
  ASSUME CInv, NEW s \in FileRequests, Keeps(s), NEW r \in FileRequests \ {s} PROVE Own(r)'
  <1>1. /\ command'[r] = command[r] /\ path'[r] = path[r] /\ newpath'[r] = newpath[r]
        /\ view'[r] = view[r] /\ step'[r] = step[r] /\ fd'[r] = fd[r] /\ offset'[r] = offset[r]
        /\ todo'[r] = todo[r] /\ exitcode'[r] = exitcode[r] /\ late'[r] = late[r]
        /\ changed'[r] = changed[r] /\ (shared[r] => shared'[r])
    BY DEF Keeps, Others
  <1>2. \A f \in Files :
          contents'[f] = contents[f] \/ shared'[r] \/ (fd[r] # f /\ ~Contains(contents[f], r))
    BY DEF Keeps, Others
  <1>3. Own(r) /\ CommandTypes /\ CommandTypes'
    BY DEF CInv, Keeps
  <1>4. ProgressInv(r)' /\ AnswerInv(r)'
    BY <1>1, <1>3 DEF Own, ProgressInv, AnswerInv
  <1>5. WriteInv(r)'
    <2> SUFFICES ASSUME command[r] = "write", ~shared'[r]
                 PROVE  /\ step[r] = "writing" =>
                             offset[r] \in 0..Chunks /\ contents'[fd[r]] = [i \in 1..offset[r] |-> r]
                        /\ exitcode[r] = "zero" /\ ~late[r] =>
                             \E f \in Files : contents'[f] = [i \in 1..Chunks |-> r]
      BY <1>1 DEF WriteInv
    <2>1. /\ step[r] = "writing" =>
               offset[r] \in 0..Chunks /\ contents[fd[r]] = [i \in 1..offset[r] |-> r]
          /\ exitcode[r] = "zero" /\ ~late[r] =>
               \E f \in Files : contents[f] = [i \in 1..Chunks |-> r]
      BY <1>1, <1>3 DEF Own, WriteInv
    <2>2. ASSUME step[r] = "writing" PROVE contents'[fd[r]] = contents[fd[r]]
      BY <1>2, <1>3, <2>2 DEF Own, ProgressInv
    <2>3. ASSUME exitcode[r] = "zero", ~late[r]
          PROVE  \E f \in Files : contents'[f] = [i \in 1..Chunks |-> r]
      <3>1. PICK f \in Files : contents[f] = [i \in 1..Chunks |-> r]
        BY <2>1, <2>3
      <3>2. 1 \in DOMAIN contents[f] /\ contents[f][1] = r
        BY <3>1, CommandAssumption
      <3>3. DOMAIN contents[f] = 1..Len(contents[f])
        BY <1>3, LenProperties DEF CommandTypes
      <3>4. Contains(contents[f], r)
        BY <3>2, <3>3 DEF Contains
      <3> QED
        BY <1>2, <3>1, <3>4
    <2> QED
      BY <2>1, <2>2, <2>3
  <1>6. DownloadInv(r)'
    <2> SUFFICES ASSUME command[r] = "get", ~shared'[r]
                 PROVE  /\ offset[r] <= MaxSize
                        /\ step[r] = "streaming" => /\ offset[r] <= Len(contents'[fd[r]])
                                                    /\ Len(contents'[fd[r]]) <= MaxSize
      BY <1>1 DEF DownloadInv
    <2>1. /\ offset[r] <= MaxSize
          /\ step[r] = "streaming" => /\ offset[r] <= Len(contents[fd[r]])
                                      /\ Len(contents[fd[r]]) <= MaxSize
      BY <1>1, <1>3 DEF Own, DownloadInv
    <2>2. ASSUME step[r] = "streaming" PROVE contents'[fd[r]] = contents[fd[r]]
      BY <1>2, <1>3, <2>2 DEF Own, ProgressInv
    <2> QED
      BY <2>1, <2>2
  <1>7. ArchiveInv(r)'
    <2> SUFFICES ASSUME \A x \in FileRequests : ~changed'[x] PROVE ArchiveInv(r)'
      BY DEF ArchiveInv
    <2>1. entry' = entry /\ \A x \in FileRequests : ~changed[x]
      BY DEF Keeps, EntryStep, Others
    <2>2. Archived(r)' = Archived(r) /\ Beneath(path[r])' = Beneath(path[r])
      BY <1>1, <2>1 DEF Archived, Remaining, Beneath, exists
    <2> QED
      BY <1>1, <1>3, <2>1, <2>2 DEF Own, ArchiveInv
  <1> QED
    BY <1>4, <1>5, <1>6, <1>7 DEF Own

LEMMA OldKeeps == ASSUME CInv, NEW s \in FileRequests, Keeps(s) PROVE OldInv'
  <1> DEFINE Renames == {r \in FileRequests : command[r] = "rename"}
  <1>1. CommandTypes /\ CommandTypes' /\ OldInv /\ \A r \in FileRequests : ProgressInv(r) /\ ProgressInv(r)'
    BY OthersKeep DEF CInv, Keeps, Own
  <1>2. /\ \A r \in FileRequests \ {s} : /\ command'[r] = command[r] /\ newpath'[r] = newpath[r]
                                         /\ step'[r] = step[r]
        /\ command'[s] = command[s] \/ command[s] = Nothing
    BY DEF Keeps, Others, OldStep
  <1>3. (Renames' = Renames \/ Renames' = Renames \union {s}) /\ Renames \subseteq Renames'
    BY <1>2 DEF Nothing
  <1>4. IsFiniteSet(Renames) /\ IsFiniteSet(Renames')
    <2>1. IsFiniteSet(Renames)
      BY <1>1 DEF OldInv
    <2>2. IsFiniteSet(Renames \union {s})
      BY <2>1, FS_AddElement
    <2> QED
      BY <1>3, <2>1, <2>2
  <1>5. Cardinality(Renames) \in Nat /\ Cardinality(Renames') \in Nat
        /\ Cardinality(Renames) <= Cardinality(Renames')
    BY <1>3, <1>4, FS_CardinalityType, FS_Subset
  <1>6. SUFFICES ASSUME Harmless'
                 PROVE  /\ \E p \in Entries : entry'[p] = Old
                        /\ \A r \in FileRequests : step'[r] = "checked" => entry'[newpath'[r]] # Old
    BY <1>4 DEF OldInv
  <1>7. \A r \in FileRequests : command'[r] \notin {"write", "rm", "rmdir"}
    BY <1>6 DEF Harmless
  <1>8. Cardinality(Renames') <= 1
    BY <1>6 DEF Harmless
  <1>9. Harmless
    <2>1. \A r \in FileRequests : command[r] \notin {"write", "rm", "rmdir"}
      BY <1>2, <1>7 DEF Nothing
    <2>2. Cardinality(Renames) <= 1
      BY ONLY <1>5, <1>8
    <2> QED
      BY <2>1, <2>2 DEF Harmless
  <1>10. /\ \E p \in Entries : entry[p] = Old
         /\ \A r \in FileRequests : step[r] = "checked" => entry[newpath[r]] # Old
    BY <1>1, <1>9 DEF OldInv
  <1>11. \A x, y \in Renames' : x = y
    <2> SUFFICES ASSUME NEW x \in Renames', NEW y \in Renames', x # y PROVE FALSE
      OBVIOUS
    <2>1. IsFiniteSet({x, y}) /\ Cardinality({x, y}) = 2
      <3>1. {x, y} = {x} \union {y} /\ y \notin {x}
        OBVIOUS
      <3>2. Cardinality({x} \union {y}) = Cardinality({x}) + 1 /\ IsFiniteSet({x} \union {y})
        BY ONLY <3>1, FS_AddElement, FS_Singleton
      <3> QED
        BY <3>1, <3>2, FS_Singleton
    <2>2. Cardinality({x, y}) <= Cardinality(Renames')
      BY <1>4, FS_Subset
    <2> QED
      BY <1>5, <1>8, <2>1, <2>2
  <1>12. CASE /\ \A p \in Entries : entry'[p] = Old <=> entry[p] = Old
              /\ step'[s] = "checked" => \/ step[s] = "checked" /\ newpath'[s] = newpath[s]
                                         \/ entry'[newpath'[s]] # Old
    <2>1. ASSUME NEW r \in FileRequests, step'[r] = "checked" PROVE entry'[newpath'[r]] # Old
      <3>1. newpath'[r] \in Entries
        BY <1>1, <2>1 DEF ProgressInv
      <3>2. CASE r = s
        BY <1>10, <1>12, <2>1, <3>1, <3>2
      <3>3. CASE r # s
        BY <1>2, <1>10, <1>12, <2>1, <3>1, <3>3
      <3> QED
        BY <3>2, <3>3
    <2> QED
      BY <1>10, <1>12, <2>1
  <1>13. CASE /\ command[s] = "rename" /\ step[s] = "checked" /\ step'[s] = "exited"
              /\ \E p, q \in Entries :
                   q = newpath[s] /\ entry' = [entry EXCEPT ![p] = Nothing, ![q] = entry[p]]
    <2>1. PICK p \in Entries, q \in Entries :
            q = newpath[s] /\ entry' = [entry EXCEPT ![p] = Nothing, ![q] = entry[p]]
      BY <1>13
    <2>2. entry[q] # Old /\ entry'[q] = entry[p] /\ \A x \in Entries \ {p, q} : entry'[x] = entry[x]
      BY <1>1, <1>10, <1>13, <2>1 DEF CommandTypes
    <2>3. \E x \in Entries : entry'[x] = Old
      BY <1>10, <2>2
    <2>4. ASSUME NEW r \in FileRequests, step'[r] = "checked" PROVE FALSE
      <3>1. command'[r] = "rename" /\ command'[s] = "rename"
        BY <1>1, <1>2, <1>13, <2>4 DEF ProgressInv, Nothing
      <3> QED
        BY <1>11, <1>13, <2>4, <3>1
    <2> QED
      BY <2>3, <2>4
  <1> QED
    BY <1>7, <1>12, <1>13 DEF Keeps, OldStep

LEMMA CommandsStepKeeps ==
  ASSUME CInv, NEW s \in FileRequests,
         \/ get_file_view(s) \/ download_zip_view(s) \/ write_file_view(s) \/ create_file_view(s)
         \/ make_directory_view(s) \/ remove_file_view(s) \/ remove_directory_recur_view(s)
         \/ rename_view(s) \/ TimedOut(s)
         \/ get_file_page(s) \/ download_zip_page(s) \/ write_file_page(s) \/ create_file_page(s)
         \/ make_directory_page(s) \/ remove_file_page(s) \/ remove_directory_recur_page(s)
         \/ rename_page(s)
         \/ write_open(s) \/ write_chunk(s) \/ write_end(s) \/ create_cmd(s) \/ mkdir_cmd(s)
         \/ rm_cmd(s) \/ rmdir_recur_cmd(s) \/ rmdir_fails(s) \/ rename_check(s) \/ rename_move(s)
         \/ get_open(s) \/ get_chunk(s) \/ zip_walk(s) \/ zip_entry(s) \/ zip_end(s)
  PROVE  Keeps(s)
  <1>1. ASSUME \E c \in Commands \ {"rename"}, p \in Entries : run_helper(s, c, p, <<>>) PROVE Keeps(s)
    BY <1>1, ViewKeeps
  <1>2. CASE \/ get_file_view(s) \/ download_zip_view(s) \/ write_file_view(s) \/ create_file_view(s)
             \/ make_directory_view(s) \/ remove_file_view(s) \/ remove_directory_recur_view(s)
    BY <1>1, <1>2 DEF get_file_view, download_zip_view, write_file_view, create_file_view,
       make_directory_view, remove_file_view, remove_directory_recur_view, stream_site_file,
       download_zip_site_dir, write_site_file, create_site_file, make_site_directory,
       remove_site_file, remove_site_directory_recur, Commands
  <1>3. CASE rename_view(s)
    <2>1. PICK p \in Entries, q \in Entries : run_helper(s, "rename", p, q)
      BY <1>3 DEF rename_view, rename_path
    <2> QED
      BY <2>1, ViewKeeps DEF Commands
  <1>4. CASE TimedOut(s)
    <2>1. view[s] = "waiting" /\ Answer(s, "error") /\ late' = [late EXCEPT ![s] = TRUE]
      BY <1>4 DEF TimedOut
    <2>2. late' \in [FileRequests -> BOOLEAN] /\ late'[s] /\ \A r \in FileRequests \ {s} : late'[r] = late[r]
      BY <2>1 DEF CInv, CommandTypes
    <2> QED
      BY <2>1, <2>2, AnswerKeeps
  <1>5. ASSUME NEW c \in Commands, page(s, c) PROVE Keeps(s)
    <2>1. view[s] = "waiting" /\ step[s] = "exited" /\ late' = late
          /\ Answer(s, raise_for_process_result(s))
      BY <1>5 DEF page
    <2>2. late \in [FileRequests -> BOOLEAN] /\ exitcode[s] \in {"zero", "special"}
      BY <2>1 DEF CInv, CommandTypes, Own, ProgressInv
    <2>3. CASE exitcode[s] = "zero"
      BY <2>1, <2>2, <2>3, AnswerKeeps DEF raise_for_process_result
    <2>4. CASE exitcode[s] = "special"
      BY <2>1, <2>2, <2>4, AnswerKeeps DEF raise_for_process_result
    <2> QED
      BY <2>2, <2>3, <2>4
  <1>6. ASSUME NEW c \in {"get", "zip"}, stream_page(s, c) PROVE Keeps(s)
    <2>1. CASE page(s, c)
      BY <1>5, <2>1 DEF Commands
    <2>2. CASE /\ view[s] = "waiting" /\ step[s] = "streaming" /\ command[s] = c
               /\ offset[s] > 0 /\ Answer(s, "success") /\ UNCHANGED late
      <3>1. late \in [FileRequests -> BOOLEAN]
        BY DEF CInv, CommandTypes
      <3> QED
        BY <2>2, <3>1, AnswerKeeps
    <2> QED
      BY <1>6, <2>1, <2>2 DEF stream_page
  <1>7. CASE get_file_page(s) \/ download_zip_page(s)
    BY <1>6, <1>7 DEF get_file_page, download_zip_page
  <1>8. CASE \/ write_file_page(s) \/ create_file_page(s) \/ make_directory_page(s) \/ remove_file_page(s)
             \/ remove_directory_recur_page(s) \/ rename_page(s)
    BY <1>5, <1>8 DEF write_file_page, create_file_page, make_directory_page, remove_file_page,
       remove_directory_recur_page, rename_page, Commands
  <1> QED
    BY <1>2, <1>3, <1>4, <1>7, <1>8, WriteOpenKeeps, WriteChunkKeeps, WriteEndKeeps, CreateKeeps,
       MkdirKeeps, RmKeeps, RmdirKeeps, RenameCheckKeeps, RenameMoveKeeps, GetOpenKeeps, GetChunkKeeps,
       ZipWalkKeeps, ZipEntryKeeps, ZipEndKeeps

LEMMA CommandsInitial == CommandsInit => CInv
  <1> SUFFICES ASSUME CommandsInit PROVE CInv
    OBVIOUS
  <1>1. CommandTypes
    <2>1. <<>> \in Seq(Files \union {Hole}) /\ <<Old>> \in Seq(Files \union {Hole})
      BY EmptySeq, NamesDiffer
    <2>2. contents \in [Files -> Seq(Files \union {Hole})]
      BY <2>1 DEF CommandsInit
    <2>3. entry \in [Entries -> Files \union {Nothing, Directory}]
      BY NamesDiffer DEF CommandsInit
    <2> QED
      BY <2>2, <2>3 DEF CommandsInit, CommandTypes
  <1>2. Tree
    BY DEF CommandsInit, Tree
  <1>3. ASSUME NEW r \in FileRequests PROVE Own(r)
    <2>1. /\ command[r] = Nothing /\ view[r] = "idle" /\ step[r] = "idle" /\ fd[r] = Nothing
          /\ offset[r] = 0 /\ exitcode[r] = "none" /\ late[r] = FALSE /\ changed[r] = FALSE
      BY <1>3 DEF CommandsInit
    <2>2. ProgressInv(r) /\ AnswerInv(r)
      BY <2>1, NamesDiffer DEF ProgressInv, AnswerInv
    <2>3. WriteInv(r) /\ DownloadInv(r) /\ ArchiveInv(r)
      BY <2>1 DEF WriteInv, DownloadInv, ArchiveInv, Nothing
    <2> QED
      BY <2>2, <2>3 DEF Own
  <1>4. OldInv
    <2>1. {r \in FileRequests : command[r] = "rename"} = {}
      BY DEF CommandsInit, Nothing
    <2>2. \E p \in Entries : entry[p] = Old
      <3> SUFFICES ASSUME {p \in Entries : entry[p] = Old} = {} PROVE FALSE
        OBVIOUS
      <3>1. Cardinality({p \in Entries : entry[p] = Old}) = 1
        BY DEF CommandsInit
      <3> QED
        BY <3>1, FS_EmptySet
    <2>3. \A r \in FileRequests : step[r] # "checked"
      BY DEF CommandsInit
    <2> QED
      BY <2>1, <2>2, <2>3, FS_EmptySet DEF OldInv
  <1> QED
    BY <1>1, <1>2, <1>3, <1>4 DEF CInv

LEMMA CommandsStep == CInv /\ [CommandsNext]_filevars => CInv'
  <1> SUFFICES ASSUME CInv, [CommandsNext]_filevars PROVE CInv'
    OBVIOUS
  <1>1. CASE CommandsNext
    <2>1. PICK s \in FileRequests : Keeps(s)
      BY <1>1, CommandsStepKeeps DEF CommandsNext
    <2>2. ASSUME NEW r \in FileRequests PROVE Own(r)'
      BY <2>1, OthersKeep DEF Keeps
    <2>3. OldInv'
      BY <2>1, OldKeeps
    <2> QED
      BY <2>1, <2>2, <2>3 DEF CInv, Keeps
  <1>2. CASE UNCHANGED filevars
    <2>1. UNCHANGED <<entry, contents, command, path, newpath, view, step, fd, offset, todo, exitcode,
                      late, shared, changed>>
      BY <1>2 DEF filevars
    <2>2. CommandTypes' /\ Tree'
      BY <2>1, SameEntries DEF CInv, CommandTypes
    <2>3. ASSUME NEW r \in FileRequests PROVE Own(r)'
      <3>1. ProgressInv(r)' /\ AnswerInv(r)'
        BY <2>1 DEF CInv, Own, ProgressInv, AnswerInv
      <3>2. WriteInv(r)' /\ DownloadInv(r)'
        BY <2>1 DEF CInv, Own, WriteInv, DownloadInv
      <3>3. ArchiveInv(r)'
        <4>1. Archived(r)' = Archived(r) /\ Beneath(path[r])' = Beneath(path[r])
          BY <2>1 DEF Archived, Remaining, Beneath, exists
        <4> QED
          BY <2>1, <4>1 DEF CInv, Own, ArchiveInv
      <3> QED
        BY <3>1, <3>2, <3>3 DEF Own
    <2>4. OldInv'
      BY <2>1 DEF CInv, OldInv, Harmless
    <2> QED
      BY <2>2, <2>3, <2>4 DEF CInv
  <1> QED
    BY <1>1, <1>2

(* So do the requests on files, whatever they have in common.              *)
THEOREM CommandsInvariant == CommandsSpec => []CInv
  BY CommandsInitial, CommandsStep, PTL DEF CommandsSpec

(* The manager answers success only for an upload that is all in one file, *)
(* and an error of create or rename only when nothing was changed.         *)
THEOREM AnswersHold == CommandsSpec => []AnswersAreTrue
  <1>1. CInv => AnswersAreTrue
    <2> SUFFICES ASSUME CInv PROVE AnswersAreTrue
      OBVIOUS
    <2>1. ASSUME NEW r \in FileRequests, command[r] = "write", view[r] = "success", ~shared[r]
          PROVE  \E f \in Files : contents[f] = [i \in 1..Chunks |-> r]
      BY <2>1 DEF CInv, Own, AnswerInv, WriteInv
    <2>2. ASSUME NEW r \in FileRequests, view[r] = "error", ~late[r], command[r] \in {"create", "rename"}
          PROVE  ~changed[r]
      BY <2>2 DEF CInv, Own, AnswerInv
    <2> QED
      BY <2>1, <2>2 DEF AnswersAreTrue, SuccessIsWritten, ErrorChangesNothing
  <1> QED
    BY <1>1, CommandsInvariant, PTL

(* A file is not lost to create, mkdir, a download or a single rename.     *)
THEOREM OldFilesSurvive == CommandsSpec => []OldSurvives
  <1>1. CInv => OldSurvives
    BY DEF CInv, OldInv, Harmless, OldSurvives
  <1> QED
    BY <1>1, CommandsInvariant, PTL

(* An archive of a directory nobody changes has all of its entries, and a  *)
(* download of a file nobody writes stays within the limit.                *)
THEOREM DownloadsHold == CommandsSpec => []DownloadsAreWhole
  <1>1. CInv => DownloadsAreWhole
    <2> SUFFICES ASSUME CInv PROVE DownloadsAreWhole
      OBVIOUS
    <2>1. ASSUME NEW r \in FileRequests, command[r] = "zip", exitcode[r] = "zero",
                 \A s \in FileRequests : ~changed[s]
          PROVE  offset[r] = Cardinality({p \in Entries : /\ p # path[r] /\ IsPrefix(path[r], p)
                                                          /\ exists(p)})
      BY <2>1 DEF CInv, Own, ArchiveInv, Beneath
    <2>2. ASSUME NEW r \in FileRequests, command[r] = "get", ~shared[r] PROVE offset[r] <= MaxSize
      BY <2>2 DEF CInv, Own, DownloadInv
    <2> QED
      BY <2>1, <2>2 DEF DownloadsAreWhole, ArchiveIsComplete, DownloadIsBounded
  <1> QED
    BY <1>1, CommandsInvariant, PTL

(* The variables of the requests keep their types, and every entry is in a *)
(* directory.                                                              *)
THEOREM CommandsTypeCorrect == CommandsSpec => []CommandsTypeOK
  <1>1. CInv => CommandsTypeOK
    BY DEF CInv, CommandTypes, Tree, CommandsTypeOK
  <1> QED
    BY <1>1, CommandsInvariant, PTL

-----------------------------------------------------------------------------
(* The parts together *)

FilesInv == MonInv /\ RInv /\ CInv /\ IInv

(* The pane, the relay, the requests and the shell keep their types and    *)
(* what relates the variables of each to each other: a step of one leaves  *)
(* the variables of the others alone.                                      *)
THEOREM FilesTypeCorrect == FilesSpec => []FilesTypeOK
  <1>1. FilesInit => FilesInv
    BY PaneInitial, RelayInitial, CommandsInitial, IInvInit DEF FilesInit, FilesInv
  <1>2. FilesInv /\ [FilesNext]_allvars => FilesInv'
    <2> SUFFICES ASSUME FilesInv, [FilesNext]_allvars PROVE FilesInv'
      OBVIOUS
    <2>1. /\ [MonNext]_monvars /\ [RelayNext]_relayvars
          /\ [CommandsNext]_filevars /\ [Next]_vars
      BY DEF FilesNext, allvars
    <2> QED
      BY <2>1, PaneStep, RelayStep, CommandsStep, IInvNext DEF FilesInv
  <1>3. FilesInv => FilesTypeOK
    <2>1. RInv => RelayTypeOK
      BY DEF RInv, RelayTypes, RelayTypeOK
    <2>2. CInv => CommandsTypeOK
      BY DEF CInv, CommandTypes, Tree, CommandsTypeOK
    <2>3. IInv => TypeOK
      BY DEF IInv
    <2> QED
      BY <2>1, <2>2, <2>3, PaneTypes DEF FilesInv, FilesTypeOK
  <1> QED
    BY <1>1, <1>2, <1>3, PTL DEF FilesSpec
=============================================================================

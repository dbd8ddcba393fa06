------------------------- MODULE ShellSessionProofs -------------------------
(***************************************************************************)
(* Theorems about ShellSession, for any number of appservers, any size of  *)
(* the buffer and any input.                                               *)
(***************************************************************************)
EXTENDS ShellSession, SequenceTheorems, TLAPS

(* Sequences of consecutive numbers *)

(* Counts(s, u, n): s lists the numbers above u up to n *)
Counts(s, u, n) ==
  /\ s \in Seq(Nat) /\ Len(s) = n - u
  /\ \A i \in 1..(n - u) : s[i] = u + i

LEMMA FromCounts ==
  ASSUME NEW u \in Nat, NEW n \in Nat, u <= n
  PROVE  Counts(From(u + 1, n), u, n)
  <1>1. (IF n < u + 1 THEN 0 ELSE n - (u + 1) + 1) = n - u /\ n - u \in Nat
    OBVIOUS
  <1>2. From(u + 1, n) = [i \in 1..(n - u) |-> (u + 1) + i - 1]
    BY <1>1 DEF From
  <1>3. \A i \in 1..(n - u) : (u + 1) + i - 1 = u + i /\ u + i \in Nat
    OBVIOUS
  <1>4. From(u + 1, n) = [i \in 1..(n - u) |-> u + i]
    BY <1>2, <1>3
  <1> QED
    BY <1>1, <1>3, <1>4 DEF Counts

LEMMA CountsIsFrom ==
  ASSUME NEW u \in Nat, NEW n \in Nat, u <= n, NEW s, Counts(s, u, n)
  PROVE  s = From(u + 1, n)
  <1> DEFINE w == From(u + 1, n)
  <1>1. Counts(w, u, n)
    BY FromCounts
  <1> HIDE DEF w
  <1>2. s \in Seq(Nat) /\ w \in Seq(Nat) /\ Len(s) = Len(w) /\ \A i \in 1..Len(s) : s[i] = w[i]
    BY <1>1 DEF Counts
  <1>3. s = w
    BY <1>2, SeqEqual
  <1> QED
    BY <1>3 DEF w

LEMMA CountsConcat ==
  ASSUME NEW u \in Nat, NEW n \in Nat, NEW m \in Nat, u <= n, n <= m,
         NEW s, Counts(s, u, n), NEW t, Counts(t, n, m)
  PROVE  Counts(s \o t, u, m)
  <1>1. s \in Seq(Nat) /\ Len(s) = n - u /\ t \in Seq(Nat) /\ Len(t) = m - n
    BY DEF Counts
  <1>2. /\ s \o t \in Seq(Nat) /\ Len(s \o t) = Len(s) + Len(t)
        /\ \A i \in 1..(Len(s) + Len(t)) :
             (s \o t)[i] = IF i <= Len(s) THEN s[i] ELSE t[i - Len(s)]
    BY <1>1, ConcatProperties
  <1>3. ASSUME NEW i \in 1..(m - u) PROVE (s \o t)[i] = u + i
    <2>1. CASE i <= n - u
      BY <1>1, <1>2, <2>1 DEF Counts
    <2>2. CASE ~(i <= n - u)
      <3>1. i - (n - u) \in 1..(m - n)
        BY <2>2
      <3>2. t[i - (n - u)] = n + (i - (n - u))
        BY <3>1 DEF Counts
      <3> QED
        BY <1>1, <1>2, <2>2, <3>1, <3>2
    <2> QED
      BY <2>1, <2>2
  <1> QED
    BY <1>1, <1>2, <1>3 DEF Counts

LEMMA CountsTail ==
  ASSUME NEW u \in Nat, NEW n \in Nat, NEW index \in Nat, u + index <= n,
         NEW s, Counts(s, u, n)
  PROVE  Counts(SubSeq(s, index + 1, Len(s)), u + index, n)
  <1> DEFINE t == SubSeq(s, index + 1, Len(s))
  <1>1. s \in Seq(Nat) /\ Len(s) = n - u
    BY DEF Counts
  <1>2. /\ t \in Seq(Nat)
        /\ Len(t) = n - u - index
        /\ \A i \in 1..(n - u - index) : t[i] = s[index + i]
    <2>1. Len(s) \in Int /\ index + 1 \in Int /\ \A i \in index + 1 .. Len(s) : s[i] \in Nat
      BY <1>1
    <2>2. /\ t \in Seq(Nat)
          /\ Len(t) = IF index + 1 <= Len(s) THEN Len(s) - (index + 1) + 1 ELSE 0
          /\ \A i \in 1 .. Len(s) - (index + 1) + 1 : t[i] = s[index + 1 + i - 1]
      BY ONLY <2>1, SubSeqProperties
    <2> HIDE DEF t
    <2>3. Len(s) = n - u /\ u + index <= n
      BY <1>1
    <2> QED
      BY ONLY <2>2, <2>3, u \in Nat, n \in Nat, index \in Nat
  <1> HIDE DEF t
  <1>3. ASSUME NEW i \in 1..(n - u - index) PROVE t[i] = u + index + i
    BY <1>1, <1>2 DEF Counts
  <1>4. Counts(t, u + index, n)
    BY <1>1, <1>2, <1>3 DEF Counts
  <1> QED
    BY <1>4 DEF t

(* The appservers are tried in a circle *)
LEMMA NextAppserver ==
  ASSUME NEW n \in Nat \ {0}, NEW a \in 0..(n - 1)
  PROVE  (a + 1) % n = IF a = n - 1 THEN 0 ELSE a + 1
  OBVIOUS

-----------------------------------------------------------------------------
(* The parts of the type invariant, as the steps need them *)

BooleanTypes == chan \in BOOLEAN /\ lost \in BOOLEAN /\ event \in BOOLEAN /\ websock \in BOOLEAN

SequenceTypes ==
  /\ buffer \in Seq(Keystrokes) /\ buf \in Seq(Keystrokes) /\ received \in Seq(Keystrokes)
  /\ sends \in Seq(Seq(Keystrokes)) /\ typed \in Seq(Kinds)

ScalarTypes ==
  /\ request \in {"menu", "named", "refused"}
  /\ state \in {"BEGIN", "SELECT_SITE", "PROXY", "CLOSED"}
  /\ pc \in PCs /\ first \in Appservers /\ appserver \in Appservers /\ tried \subseteq Appservers
  /\ used \in 0..MaxTyped /\ switched \in 0..MaxTyped

LEMMA TypeParts == TypeOK <=> BooleanTypes /\ SequenceTypes /\ ScalarTypes
  <1>1. {chan, lost, event, websock} \subseteq BOOLEAN <=> BooleanTypes
    BY Zenon DEF BooleanTypes
  <1>2. {buffer, buf, received} \subseteq Seq(Keystrokes)
          <=> buffer \in Seq(Keystrokes) /\ buf \in Seq(Keystrokes) /\ received \in Seq(Keystrokes)
    BY Zenon
  <1>3. {first, appserver} \subseteq Appservers <=> first \in Appservers /\ appserver \in Appservers
    BY Zenon
  <1>4. {used, switched} \subseteq 0..MaxTyped <=> used \in 0..MaxTyped /\ switched \in 0..MaxTyped
    BY Zenon
  <1> QED
    BY <1>1, <1>2, <1>3, <1>4, Zenon DEF TypeOK, SequenceTypes, ScalarTypes

LEMMA ChunkPlaces ==
  ASSUME NEW chunk \in Chunk, typed \in Seq(Kinds), Len(typed) + Len(chunk) <= MaxTyped
  PROVE  /\ chunk \in Seq(Kinds) /\ Places(chunk) \in Seq(Keystrokes)
         /\ Counts(Places(chunk), Len(typed), Len(typed) + Len(chunk))
  <1>1. PICK n \in 1..MaxChunk : chunk \in [1..n -> Kinds]
    BY DEF Chunk
  <1>2. n \in Nat /\ chunk \in Seq(Kinds) /\ Len(chunk) = n /\ Len(typed) \in Nat
    BY <1>1, ShellAssumption
  <1>3. \A i \in 1..Len(chunk) : Len(typed) + i \in Keystrokes /\ Len(typed) + i \in Nat
    BY <1>2, ShellAssumption DEF Keystrokes
  <1>4. Places(chunk) \in [1..Len(chunk) -> Keystrokes] /\ Places(chunk) \in [1..Len(chunk) -> Nat]
    BY <1>3 DEF Places
  <1>5. Places(chunk) \in Seq(Keystrokes) /\ Places(chunk) \in Seq(Nat) /\ Len(Places(chunk)) = n
    BY <1>2, <1>4
  <1>6. \A i \in 1..n : Places(chunk)[i] = Len(typed) + i
    BY <1>2 DEF Places
  <1>7. (Len(typed) + Len(chunk)) - Len(typed) = n
    BY <1>2
  <1> QED
    BY <1>2, <1>5, <1>6, <1>7 DEF Counts

-----------------------------------------------------------------------------
(* Each part of the types is preserved by every step. *)

LEMMA BooleansNext ==
  ASSUME TypeOK, Next PROVE BooleanTypes'
  <1>1. BooleanTypes
    BY TypeParts
  <1> USE <1>1 DEF BooleanTypes, ioVars, setupVars, close
  <1>2. CASE session_started
    BY <1>2, Zenon DEF session_started
  <1>3. CASE eof_received
    BY <1>3, Zenon DEF eof_received
  <1>4. CASE connection_lost
    BY <1>4, Zenon DEF connection_lost
  <1>5. ASSUME NEW chunk \in Chunk, data_received(chunk) PROVE BooleanTypes'
    BY <1>5, Zenon DEF data_received
  <1>6. CASE get_site_name
    BY <1>6, Zenon DEF get_site_name
  <1>7. CASE select_site
    BY <1>7, Zenon DEF select_site
  <1>8. CASE connect_fails
    BY <1>8, Zenon DEF connect_fails
  <1>9. CASE connect_succeeds \/ handshake \/ flush
    BY <1>9, Zenon DEF connect_succeeds, handshake, flush
  <1>10. ASSUME NEW i \in DOMAIN sends, send_websock_data(i) PROVE BooleanTypes'
    BY <1>10, Zenon DEF send_websock_data
  <1>11. CASE report_error \/ websock_mainloop
    BY <1>11, Zenon DEF report_error, websock_mainloop
  <1> QED
    BY <1>2, <1>3, <1>4, <1>5, <1>6, <1>7, <1>8, <1>9, <1>10, <1>11 DEF Next

LEMMA ScalarsNext ==
  ASSUME IInv, Next PROVE ScalarTypes'
  <1>1. BooleanTypes /\ SequenceTypes /\ ScalarTypes /\ Len(typed) \in Nat
    BY TypeParts DEF IInv, SequenceTypes
  <1> USE ShellAssumption DEF ioVars, setupVars, close, PCs, ScalarTypes
  <1>2. CASE session_started
    BY <1>1, <1>2 DEF session_started
  <1>3. CASE eof_received
    BY <1>1, <1>3 DEF eof_received
  <1>4. CASE connection_lost
    BY <1>1, <1>4 DEF connection_lost
  <1>5. ASSUME NEW chunk \in Chunk, data_received(chunk) PROVE ScalarTypes'
    BY <1>1, <1>5 DEF data_received
  <1>6. CASE get_site_name
    BY <1>1, <1>6 DEF get_site_name, write_and_go
  <1>7. CASE select_site
    <2>1. ASSUME pc = "wait", NEW index \in DOMAIN buffer PROVE used + index \in 0..MaxTyped
      <3>1. <<>> \o buffer = From(used + 1, Len(typed)) /\ used <= Len(typed) /\ Len(typed) <= MaxTyped
        BY <2>1 DEF IInv, Conserved, Early
      <3>2. buffer = From(used + 1, Len(typed))
        BY <1>1, <3>1, ConcatEmptySeq DEF SequenceTypes
      <3>3. Counts(buffer, used, Len(typed))
        BY <1>1, <3>1, <3>2, FromCounts
      <3> QED
        BY <1>1, <2>1, <3>1, <3>3 DEF Counts, SequenceTypes
    <2>2. used' \in 0..MaxTyped
      BY <1>1, <1>7, <2>1 DEF select_site, line_ends, end_of_line
    <2>3. pc' \in PCs
      BY <1>1, <1>7 DEF select_site, write_and_go
    <2> QED
      BY <1>1, <1>7, <2>2, <2>3 DEF select_site
  <1>8. CASE connect_fails
    <2>1. appserver' \in Appservers /\ tried' \subseteq Appservers
      BY <1>1, <1>8, NextAppserver DEF connect_fails, Appservers
    <2> QED
      BY <1>1, <1>8, <2>1 DEF connect_fails
  <1>9. CASE connect_succeeds \/ handshake
    BY <1>1, <1>9 DEF connect_succeeds, handshake
  <1>10. CASE flush
    BY <1>1, <1>10 DEF flush, IInv, Conserved
  <1>11. ASSUME NEW i \in DOMAIN sends, send_websock_data(i) PROVE ScalarTypes'
    BY <1>1, <1>11 DEF send_websock_data
  <1>12. CASE report_error \/ websock_mainloop
    BY <1>1, <1>12 DEF report_error, websock_mainloop
  <1> QED
    BY <1>2, <1>3, <1>4, <1>5, <1>6, <1>7, <1>8, <1>9, <1>10, <1>11, <1>12 DEF Next

LEMMA SequencesNext ==
  ASSUME TypeOK, Next PROVE SequenceTypes'
  <1>1. SequenceTypes
    BY TypeParts
  <1> USE DEF ioVars, setupVars, close, SequenceTypes
  <1>2. CASE session_started \/ eof_received \/ connection_lost
    BY <1>1, <1>2 DEF session_started, eof_received, connection_lost
  <1>3. ASSUME NEW chunk \in Chunk, data_received(chunk) PROVE SequenceTypes'
    <2>1. chunk \in Seq(Kinds) /\ Places(chunk) \in Seq(Keystrokes)
      BY <1>1, <1>3, ChunkPlaces DEF data_received
    <2>2. /\ typed \o chunk \in Seq(Kinds) /\ buffer \o Places(chunk) \in Seq(Keystrokes)
          /\ Append(sends, Places(chunk)) \in Seq(Seq(Keystrokes))
      BY <1>1, <2>1, ConcatProperties, AppendProperties
    <2> QED
      BY <1>1, <1>3, <2>2 DEF data_received
  <1>4. CASE get_site_name
    BY <1>1, <1>4 DEF get_site_name
  <1>5. CASE select_site
    <2>1. ASSUME NEW index \in DOMAIN buffer PROVE rest_of_buffer(index) \in Seq(Keystrokes)
      BY <1>1, SubSeqProperties DEF rest_of_buffer
    <2> QED
      BY <1>1, <1>5, <2>1 DEF select_site, line_ends, end_of_line
  <1>6. CASE connect_fails
    BY <1>1, <1>6 DEF connect_fails
  <1>7. CASE connect_succeeds \/ handshake
    <2>1. <<>> \in Seq(Keystrokes)
      OBVIOUS
    <2> QED
      BY <1>1, <1>7, <2>1, Zenon DEF connect_succeeds, handshake
  <1>8. CASE flush
    <2>1. received \o buf \in Seq(Keystrokes) /\ Append(sends, buf) \in Seq(Seq(Keystrokes))
      BY <1>1, ConcatProperties, AppendProperties
    <2> QED
      BY <1>1, <1>8, <2>1 DEF flush
  <1>9. ASSUME NEW i \in DOMAIN sends, send_websock_data(i) PROVE SequenceTypes'
    <2>1. i \in 1..Len(sends) /\ sends[i] \in Seq(Keystrokes)
      BY <1>1, <1>9
    <2>2. received \o sends[i] \in Seq(Keystrokes)
      BY <1>1, <2>1, ConcatProperties
    <2>3. /\ SubSeq(sends, 1, i - 1) \in Seq(Seq(Keystrokes))
          /\ SubSeq(sends, i + 1, Len(sends)) \in Seq(Seq(Keystrokes))
      BY <1>1, <2>1, SubSeqProperties
    <2>4. RemoveAt(sends, i) \in Seq(Seq(Keystrokes))
      BY <2>3, ConcatProperties DEF RemoveAt
    <2> QED
      BY <1>1, <1>9, <2>2, <2>4 DEF send_websock_data
  <1>10. CASE report_error \/ websock_mainloop
    BY <1>1, <1>10 DEF report_error, websock_mainloop
  <1> QED
    BY <1>2, <1>3, <1>4, <1>5, <1>6, <1>7, <1>8, <1>9, <1>10 DEF Next

LEMMA TypeNext ==
  ASSUME IInv, Next PROVE TypeOK'
  <1>1. TypeOK' <=> BooleanTypes' /\ SequenceTypes' /\ ScalarTypes'
    BY TypeParts, PTL
  <1> QED
    BY <1>1, BooleansNext, SequencesNext, ScalarsNext DEF IInv

-----------------------------------------------------------------------------
(* The input: until the connection to the site is made, the flush and the  *)
(* buffer count the places after the ones used.                            *)

Ahead == (IF pc = "flush" THEN buf ELSE <<>>) \o buffer

LEMMA AheadCounts ==
  ASSUME TypeOK, used <= Len(typed)
  PROVE  Counts(Ahead, used, Len(typed)) <=> Ahead = From(used + 1, Len(typed))
  <1>1. used \in Nat /\ Len(typed) \in Nat
    BY TypeParts, ShellAssumption DEF ScalarTypes, SequenceTypes
  <1> QED
    BY <1>1, FromCounts, CountsIsFrom

LEMMA ConservedNext ==
  ASSUME IInv, Next PROVE Conserved'
  <1>1. SequenceTypes /\ ScalarTypes /\ Len(typed) \in Nat /\ used \in Nat /\ MaxTyped \in Nat
    BY TypeParts, ShellAssumption DEF IInv, SequenceTypes, ScalarTypes
  <1>2. used <= Len(typed) /\ Len(typed) <= MaxTyped
    BY DEF IInv, Conserved
  <1>3. pc \in Early => Counts(Ahead, used, Len(typed))
    BY <1>1, <1>2, FromCounts DEF IInv, Conserved, Ahead
  <1>4. SUFFICES /\ used' <= Len(typed') /\ Len(typed') <= MaxTyped
                 /\ used' \in Nat /\ Len(typed') \in Nat
                 /\ pc' \in Early => Counts(Ahead', used', Len(typed'))
    BY CountsIsFrom DEF Conserved, Ahead
  <1>5. ASSUME UNCHANGED <<buffer, typed, used>>,
               pc' \in Early => pc \in Early \ {"flush"} /\ pc' # "flush"
        PROVE  /\ used' <= Len(typed') /\ Len(typed') <= MaxTyped
               /\ used' \in Nat /\ Len(typed') \in Nat
               /\ pc' \in Early => Counts(Ahead', used', Len(typed'))
    BY <1>1, <1>2, <1>3, <1>5 DEF Ahead
  <1> USE DEF ioVars, setupVars, close, Early
  <1>6. CASE session_started
    BY <1>5, <1>6 DEF session_started
  <1>7. CASE eof_received \/ connection_lost
    BY <1>1, <1>2, <1>3, <1>7 DEF eof_received, connection_lost, Ahead
  <1>8. ASSUME NEW chunk \in Chunk, data_received(chunk)
        PROVE  /\ used' <= Len(typed') /\ Len(typed') <= MaxTyped
               /\ used' \in Nat /\ Len(typed') \in Nat
               /\ pc' \in Early => Counts(Ahead', used', Len(typed'))
    <2>1. /\ chunk \in Seq(Kinds) /\ Places(chunk) \in Seq(Keystrokes)
          /\ Counts(Places(chunk), Len(typed), Len(typed) + Len(chunk))
      BY <1>1, <1>8, ChunkPlaces DEF data_received, SequenceTypes
    <2>2. typed' = typed \o chunk /\ Len(typed') = Len(typed) + Len(chunk) /\ Len(chunk) \in Nat
      BY <1>1, <1>8, <2>1, ConcatProperties DEF data_received, SequenceTypes
    <2>3. used' = used /\ pc' = pc /\ buf' = buf /\ Len(typed') <= MaxTyped
      BY <1>8, <2>2 DEF data_received
    <2>4. ASSUME pc \in Early PROVE Counts(Ahead', used', Len(typed'))
      <3>1. buffer' = buffer \o Places(chunk)
        BY <1>8, <2>4 DEF data_received, IInv, StateFollows
      <3>2. Ahead' = Ahead \o Places(chunk)
        <4> DEFINE flushed == IF pc = "flush" THEN buf ELSE <<>>
        <4>1. flushed \in Seq(Keystrokes)
          BY <1>1 DEF SequenceTypes
        <4>2. Ahead = flushed \o buffer /\ Ahead' = flushed \o (buffer \o Places(chunk))
          BY <2>3, <3>1 DEF Ahead
        <4> HIDE DEF flushed
        <4>3. (flushed \o buffer) \o Places(chunk) = flushed \o (buffer \o Places(chunk))
          <5>1. buffer \in Seq(Keystrokes) /\ Places(chunk) \in Seq(Keystrokes)
            BY <1>1, <2>1 DEF SequenceTypes
          <5> QED
            BY <4>1, <5>1, ConcatAssociative
        <4> QED
          BY <4>2, <4>3
      <3>3. Counts(Ahead \o Places(chunk), used, Len(typed) + Len(chunk))
        BY <1>1, <1>2, <1>3, <2>1, <2>2, <2>4, CountsConcat
      <3> QED
        BY <2>2, <2>3, <3>2, <3>3
    <2> QED
      BY <1>1, <1>2, <2>2, <2>3, <2>4
  <1>9. CASE get_site_name
    BY <1>5, <1>9 DEF get_site_name, write_and_go
  <1>10. CASE select_site
    <2>1. CASE UNCHANGED <<buffer, typed, used>>
      BY <1>5, <1>10, <2>1 DEF select_site, write_and_go
    <2>2. ASSUME NEW index \in DOMAIN buffer,
                 buffer' = rest_of_buffer(index), used' = used + index, typed' = typed,
                 pc = "wait", pc' # "flush"
          PROVE  /\ used' <= Len(typed') /\ Len(typed') <= MaxTyped
                 /\ used' \in Nat /\ Len(typed') \in Nat
                 /\ pc' \in Early => Counts(Ahead', used', Len(typed'))
      <3>1. Ahead = buffer
        BY <1>1, <2>2, ConcatEmptySeq DEF Ahead, SequenceTypes
      <3>2. Counts(buffer, used, Len(typed))
        BY <1>3, <2>2, <3>1
      <3>3. index \in Nat /\ used + index <= Len(typed)
        BY <1>1, <1>2, <2>2, <3>2 DEF Counts, SequenceTypes
      <3>4. Counts(rest_of_buffer(index), used + index, Len(typed))
        BY <1>1, <3>2, <3>3, CountsTail DEF rest_of_buffer
      <3>5. rest_of_buffer(index) \in Seq(Nat)
        BY <3>4 DEF Counts
      <3>6. Ahead' = rest_of_buffer(index)
        BY <2>2, <3>5, ConcatEmptySeq DEF Ahead
      <3> QED
        BY <1>1, <1>2, <2>2, <3>3, <3>4, <3>6
    <2> QED
      BY <1>10, <2>1, <2>2 DEF select_site, line_ends, end_of_line, write_and_go
  <1>11. CASE connect_fails
    BY <1>5, <1>11 DEF connect_fails
  <1>12. CASE connect_succeeds
    BY <1>5, <1>12 DEF connect_succeeds
  <1>13. CASE handshake
    <2>1. CASE pc' = "done"
      BY <1>5, <1>13, <2>1 DEF handshake
    <2>2. CASE pc' = "flush"
      <3>1. Ahead = <<>> \o buffer /\ Ahead' = buffer \o <<>> /\ UNCHANGED <<used, typed>>
        BY <1>13, <2>2 DEF handshake, Ahead
      <3>2. Ahead' = Ahead
        BY <1>1, <3>1, ConcatEmptySeq DEF SequenceTypes
      <3> QED
        BY <1>1, <1>2, <1>3, <1>13, <3>1, <3>2 DEF handshake
    <2> QED
      BY <1>13, <2>1, <2>2 DEF handshake
  <1>14. CASE flush
    BY <1>1, <1>2, <1>14 DEF flush
  <1>15. ASSUME NEW i \in DOMAIN sends, send_websock_data(i)
         PROVE  /\ used' <= Len(typed') /\ Len(typed') <= MaxTyped
                /\ used' \in Nat /\ Len(typed') \in Nat
                /\ pc' \in Early => Counts(Ahead', used', Len(typed'))
    <2>1. UNCHANGED <<buffer, buf, typed, used>> /\ (pc' \in Early => pc' = pc)
      BY <1>15 DEF send_websock_data
    <2> QED
      BY <1>1, <1>2, <1>3, <2>1 DEF Ahead
  <1>16. CASE report_error \/ websock_mainloop
    BY <1>5, <1>16 DEF report_error, websock_mainloop
  <1> QED
    BY <1>6, <1>7, <1>8, <1>9, <1>10, <1>11, <1>12, <1>13, <1>14, <1>15, <1>16 DEF Next

-----------------------------------------------------------------------------
(* The other parts of the inductive invariant *)

LEMMA NoSiteBeforeNext ==
  ASSUME IInv, Next PROVE NoSiteBefore'
  <1>1. SequenceTypes /\ ScalarTypes /\ Len(typed) \in Nat /\ used \in Nat /\ MaxTyped \in Nat
    BY TypeParts, ShellAssumption DEF IInv, SequenceTypes, ScalarTypes
  <1>2. used <= Len(typed) /\ NoSiteBefore
    BY DEF IInv, Conserved
  <1>3. ASSUME UNCHANGED <<request, typed, used>>,
               pc' \in {"new", "get_site_name", "wait"} => pc \in {"new", "get_site_name", "wait"},
               /\ pc' \in {"connect", "handshake", "flush", "flush_again", "proxy"}
                  => request # "menu" \/ pc \in {"connect", "handshake", "flush", "flush_again"}
        PROVE  NoSiteBefore'
    BY <1>2, <1>3 DEF NoSiteBefore, FirstSiteChosen
  <1> USE DEF ioVars, setupVars, close
  <1>4. CASE session_started
    BY <1>3, <1>4 DEF session_started
  <1>5. CASE eof_received \/ connection_lost
    BY <1>2, <1>5 DEF eof_received, connection_lost, NoSiteBefore, FirstSiteChosen
  <1>6. ASSUME NEW chunk \in Chunk, data_received(chunk) PROVE NoSiteBefore'
    <2>1. typed' = typed \o chunk /\ chunk \in Seq(Kinds)
      BY <1>1, <1>6, ChunkPlaces DEF data_received, SequenceTypes
    <2>2. /\ \A i \in 1..Len(typed) : typed'[i] = typed[i]
          /\ DOMAIN typed = 1..Len(typed) /\ DOMAIN typed' = 1..Len(typed')
          /\ Len(typed') = Len(typed) + Len(chunk) /\ Len(chunk) \in Nat
      BY <1>1, <2>1, ConcatProperties DEF SequenceTypes
    <2>3. UNCHANGED <<request, used, pc>>
      BY <1>6 DEF data_received
    <2> QED
      BY <1>1, <1>2, <2>2, <2>3 DEF NoSiteBefore, FirstSiteChosen
  <1>7. CASE get_site_name
    BY <1>3, <1>7 DEF get_site_name, write_and_go
  <1>8. CASE select_site
    <2>1. CASE UNCHANGED <<used, pc>>
      BY <1>3, <1>8, <2>1 DEF select_site
    <2>2. CASE pc' = "done"
      BY <1>3, <1>8, <2>2 DEF select_site, NoSiteBefore, FirstSiteChosen
    <2>3. ASSUME NEW index \in line_ends, end_of_line(index), used' = used + index,
                 pc' = IF typed[buffer[index]] = "site" THEN "connect" ELSE "wait"
          PROVE NoSiteBefore'
      <3>1. pc = "wait" /\ typed' = typed
        BY <1>8 DEF select_site
      <3>2. Counts(buffer, used, Len(typed))
        <4>1. buffer = From(used + 1, Len(typed))
          BY <1>1, <3>1, ConcatEmptySeq DEF IInv, Conserved, Early, SequenceTypes
        <4> QED
          BY <1>1, <1>2, <4>1, FromCounts
      <3>3. index \in 1..(Len(typed) - used) /\ DOMAIN buffer = 1..(Len(typed) - used)
        <4>1. buffer \in Seq(Nat) /\ Len(buffer) = Len(typed) - used /\ index \in DOMAIN buffer
          BY <2>3, <3>2 DEF Counts, line_ends
        <4> QED
          BY ONLY <4>1
      <3>4. ASSUME NEW i \in 1..(index - 1) PROVE typed[used + i] = "text"
        <4>1. i \in DOMAIN buffer /\ buffer[i] = used + i /\ ~(index <= i)
          BY <1>1, <3>2, <3>3 DEF Counts
        <4>2. i \notin line_ends
          BY <2>3, <4>1 DEF end_of_line
        <4> QED
          BY <4>1, <4>2 DEF line_ends
      <3>5. \A i \in 1..used : typed[i] # "site"
        BY <1>2, <3>1 DEF NoSiteBefore
      <3>6. \A i \in 1..(used + index - 1) : typed[i] # "site"
        <4>1. SUFFICES ASSUME NEW i \in 1..(used + index - 1) PROVE typed[i] # "site"
          OBVIOUS
        <4>2. CASE i <= used
          BY <1>1, <3>3, <3>5, <4>2
        <4>3. CASE i > used
          <5>1. i - used \in 1..(index - 1) /\ used + (i - used) = i
            BY <1>1, <3>3, <4>3
          <5>2. typed[used + (i - used)] = "text"
            BY <3>4, <5>1
          <5> QED
            BY <5>1, <5>2
        <4> QED
          BY <1>1, <3>3, <4>2, <4>3
      <3>7. buffer[index] = used + index /\ used + index \in DOMAIN typed
        BY <1>1, <1>2, <3>2, <3>3 DEF Counts, SequenceTypes
      <3>8. CASE typed[used + index] = "site"
        <4>1. pc' = "connect" /\ typed'[used'] = "site" /\ used' \in DOMAIN typed'
          BY <2>3, <3>1, <3>7, <3>8
        <4>2. \A i \in 1..(used' - 1) : typed'[i] # "site"
          BY <1>1, <2>3, <3>1, <3>3, <3>6
        <4> QED
          BY <4>1, <4>2 DEF NoSiteBefore, FirstSiteChosen
      <3>9. CASE typed[used + index] # "site"
        <4>1. \A i \in 1..(used + index) : typed[i] # "site"
          BY <1>1, <3>3, <3>6, <3>9
        <4> QED
          BY <2>3, <3>1, <3>7, <3>9, <4>1 DEF NoSiteBefore, FirstSiteChosen
      <3> QED
        BY <3>8, <3>9
    <2> QED
      BY <1>8, <2>1, <2>2, <2>3 DEF select_site, write_and_go
  <1>9. CASE connect_fails \/ connect_succeeds \/ handshake \/ flush
    BY <1>3, <1>9 DEF connect_fails, connect_succeeds, handshake, flush
  <1>10. ASSUME NEW i \in DOMAIN sends, send_websock_data(i) PROVE NoSiteBefore'
    <2>1. /\ UNCHANGED <<request, typed, used>>
          /\ pc' = pc \/ (pc = "flush_again" /\ pc' \in {"proxy", "no_websock"})
      BY <1>10 DEF send_websock_data
    <2> QED
      BY <1>2, <2>1 DEF NoSiteBefore, FirstSiteChosen
  <1>11. CASE report_error \/ websock_mainloop
    BY <1>3, <1>11 DEF report_error, websock_mainloop
  <1> QED
    BY <1>4, <1>5, <1>6, <1>7, <1>8, <1>9, <1>10, <1>11 DEF Next

LEMMA StateFollowsNext ==
  ASSUME IInv, Next PROVE StateFollows'
  <1>1. StateFollows /\ ScalarTypes
    BY TypeParts DEF IInv
  <1> USE <1>1 DEF ioVars, setupVars, close, StateFollows, Early, ScalarTypes, PCs
  <1>2. CASE session_started \/ eof_received \/ connection_lost
    BY <1>2 DEF session_started, eof_received, connection_lost
  <1>3. ASSUME NEW chunk \in Chunk, data_received(chunk) PROVE StateFollows'
    BY <1>3 DEF data_received
  <1>4. CASE get_site_name
    BY <1>4 DEF get_site_name, write_and_go
  <1>5. CASE select_site
    BY <1>5 DEF select_site, write_and_go
  <1>6. CASE connect_fails \/ connect_succeeds \/ handshake
    BY <1>6 DEF connect_fails, connect_succeeds, handshake
  <1>7. CASE flush
    BY <1>7 DEF flush
  <1>8. ASSUME NEW i \in DOMAIN sends, send_websock_data(i) PROVE StateFollows'
    BY <1>8 DEF send_websock_data
  <1>9. CASE report_error \/ websock_mainloop
    BY <1>9 DEF report_error, websock_mainloop
  <1> QED
    BY <1>2, <1>3, <1>4, <1>5, <1>6, <1>7, <1>8, <1>9 DEF Next

LEMMA TriedInOrderNext ==
  ASSUME IInv, Next PROVE TriedInOrder'
  <1>1. TriedInOrder /\ ScalarTypes
    BY TypeParts DEF IInv
  <1>2. ASSUME UNCHANGED <<first, appserver, tried>>, pc' = "unreachable" => pc = "unreachable",
               pc' \in {"new", "get_site_name", "wait"} => pc \in {"new", "get_site_name", "wait"},
               pc' = "connect" => pc \in {"get_site_name", "wait", "connect"}
        PROVE  TriedInOrder'
    <2>1. ASSUME pc' = "connect", pc \in {"get_site_name", "wait"}
          PROVE  tried = IF appserver >= first THEN first..(appserver - 1)
                         ELSE (first..(NumAppservers - 1)) \union (0..(appserver - 1))
      <3>1. appserver = first /\ tried = {}
        BY <1>1, <2>1 DEF TriedInOrder
      <3>2. appserver \in Int /\ first..(first - 1) = {}
        BY <1>1, <3>1, ShellAssumption DEF ScalarTypes, Appservers
      <3> QED
        BY <3>1, <3>2
    <2> QED
      BY <1>1, <1>2, <2>1, Zenon DEF TriedInOrder
  <1> USE DEF ioVars, setupVars, close
  <1>3. CASE session_started \/ eof_received \/ connection_lost
    BY <1>2, <1>3 DEF session_started, eof_received, connection_lost
  <1>4. ASSUME NEW chunk \in Chunk, data_received(chunk) PROVE TriedInOrder'
    BY <1>2, <1>4 DEF data_received
  <1>5. CASE get_site_name
    BY <1>2, <1>5 DEF get_site_name, write_and_go
  <1>6. CASE select_site
    BY <1>2, <1>6 DEF select_site, write_and_go
  <1>7. CASE connect_fails
    <2> DEFINE N == NumAppservers
    <2>1. /\ N \in Nat \ {0} /\ first \in 0..(N - 1) /\ appserver \in 0..(N - 1) /\ first' = first
          /\ appserver' = IF appserver = N - 1 THEN 0 ELSE appserver + 1
      BY <1>1, <1>7, ShellAssumption, NextAppserver DEF connect_fails, ScalarTypes, Appservers
    <2>2. tried = IF appserver >= first THEN first..(appserver - 1)
                  ELSE (first..(N - 1)) \union (0..(appserver - 1))
      BY <1>1, <1>7 DEF connect_fails, TriedInOrder
    <2>3. tried' = tried \union {appserver}
      BY <1>7 DEF connect_fails
    <2>4. CASE appserver' = first
      <3>1. tried' = 0..(N - 1)
        BY <2>1, <2>2, <2>3, <2>4
      <3>2. pc' = "unreachable"
        BY <1>7, <2>4 DEF connect_fails, full_circle
      <3> QED
        BY <3>1, <3>2 DEF TriedInOrder, Appservers
    <2>5. CASE appserver' # first
      <3>1. tried' = IF appserver' >= first THEN first..(appserver' - 1)
                     ELSE (first..(N - 1)) \union (0..(appserver' - 1))
        BY <2>1, <2>2, <2>3, <2>5
      <3>2. pc' = "connect"
        BY <1>7, <2>5 DEF connect_fails, full_circle
      <3> QED
        BY <2>1, <3>1, <3>2 DEF TriedInOrder
    <2> QED
      BY <2>4, <2>5
  <1>8. CASE connect_succeeds \/ handshake \/ flush
    BY <1>2, <1>8 DEF connect_succeeds, handshake, flush
  <1>9. ASSUME NEW i \in DOMAIN sends, send_websock_data(i) PROVE TriedInOrder'
    <2>1. /\ UNCHANGED <<first, appserver, tried>>
          /\ pc' = pc \/ pc' \in {"proxy", "no_websock"}
      BY <1>9 DEF send_websock_data
    <2> QED
      BY <1>2, <2>1
  <1>10. CASE report_error \/ websock_mainloop
    BY <1>2, <1>10 DEF report_error, websock_mainloop
  <1> QED
    BY <1>3, <1>4, <1>5, <1>6, <1>7, <1>8, <1>9, <1>10 DEF Next

-----------------------------------------------------------------------------
LEMMA IInvInit == Init => IInv
  <1> SUFFICES ASSUME Init PROVE IInv
    OBVIOUS
  <1> USE ShellAssumption DEF Init
  <1>1. BooleanTypes
    BY Zenon DEF BooleanTypes
  <1>2. SequenceTypes
    BY DEF SequenceTypes
  <1>3. ScalarTypes
    BY DEF ScalarTypes, PCs
  <1>4. Conserved
    <2>1. Counts(<<>>, 0, 0)
      BY DEF Counts
    <2>2. <<>> = From(0 + 1, 0)
      BY <2>1, CountsIsFrom
    <2> QED
      BY <2>2 DEF Conserved
  <1>5. NoSiteBefore /\ StateFollows /\ TriedInOrder
    BY DEF NoSiteBefore, FirstSiteChosen, StateFollows, TriedInOrder, Early
  <1> QED
    BY <1>1, <1>2, <1>3, <1>4, <1>5, TypeParts DEF IInv

LEMMA IInvNext == IInv /\ [Next]_vars => IInv'
  <1> SUFFICES ASSUME IInv, [Next]_vars PROVE IInv'
    OBVIOUS
  <1>1. CASE Next
    <2>1. TypeOK'
      BY <1>1, TypeNext
    <2>2. Conserved'
      BY <1>1, ConservedNext
    <2> QED
      BY <1>1, <2>1, <2>2, NoSiteBeforeNext, StateFollowsNext, TriedInOrderNext DEF IInv
  <1>2. CASE UNCHANGED vars
    BY <1>2 DEF vars, setupVars, ioVars, IInv, TypeOK, Conserved, NoSiteBefore, FirstSiteChosen,
                StateFollows, TriedInOrder
  <1> QED
    BY <1>1, <1>2

(* Every reachable state satisfies the inductive invariant. *)
THEOREM Invariance == Spec => []IInv
  BY IInvInit, IInvNext, PTL DEF Spec

(* The variables of a session keep their types. *)
THEOREM TypeCorrect == Spec => []TypeOK
  <1>1. IInv => TypeOK
    BY DEF IInv
  <1> QED
    BY <1>1, Invariance, PTL

(* Whatever is typed before proxy mode begins stays in the buffer or in    *)
(* what setup_connection is flushing, complete and in order, for a menu of *)
(* any length and chunks of any size (ShellSSHServerSession.data_received  *)
(* and get_site_name).                                                     *)
THEOREM TypingAheadLosesNothing == Spec => []TypedAheadIsKept
  <1>1. IInv => TypedAheadIsKept
    <2>1. ASSUME IInv, state \in {"BEGIN", "SELECT_SITE"}, pc # "done" PROVE pc \in Early
      BY <2>1 DEF IInv, StateFollows, TypeOK
    <2> QED
      BY <2>1 DEF IInv, Conserved, TypedAheadIsKept
  <1> QED
    BY <1>1, Invariance, PTL

(* A session that came through the menu is connected to the site that the  *)
(* first line naming one names, wherever the chunks were cut, and          *)
(* connect_websock reports that no appserver can be reached only after it  *)
(* tried every one of them, wherever it began and however many there are.  *)
THEOREM SessionsAreRouted == Spec => []SessionIsRouted
  <1>1. IInv => SessionIsRouted
    BY DEF IInv, NoSiteBefore, TriedInOrder, NoneReachable, SessionIsRouted
  <1> QED
    BY <1>1, Invariance, PTL

-----------------------------------------------------------------------------
(* Proxy mode *)

(* A websocket that is kept is one of proxy mode, before which nothing is  *)
(* sent.                                                                   *)
ProxyBegins ==
  /\ pc \in Early => received = <<>> /\ sends = <<>> /\ ~websock
  /\ websock => state = "PROXY" /\ pc \notin Early
  /\ switched <= Len(typed)
  /\ pc = "flush_again" => sends # <<>>

ProxyInv == IInv /\ ProxyBegins /\ ProxyInOrder

Typing(upto) ==
  /\ upto \in [0..Len(sends) -> switched..Len(typed)]
  /\ ReceivedUpTo(upto[0]) /\ upto[Len(sends)] = Len(typed)
  /\ \A i \in 1..Len(sends) :
       /\ upto[i - 1] <= upto[i]
       /\ IF flushing(i)
          THEN sends[i] = buf /\ upto[i] = switched /\ \A j \in 1..Len(buf) : buf[j] <= switched
          ELSE sends[i] = From(upto[i - 1] + 1, upto[i])

LEMMA InOrderIsTyping == ProxyInOrder <=> (websock => \E upto : Typing(upto))
  BY DEF ProxyInOrder, Typing

LEMMA ProxyTypes ==
  ASSUME IInv
  PROVE  /\ SequenceTypes /\ ScalarTypes /\ BooleanTypes
         /\ Len(typed) \in Nat /\ Len(sends) \in Nat /\ Len(received) \in Nat /\ Len(buf) \in Nat
         /\ used \in Nat /\ switched \in Nat /\ used <= Len(typed)
         /\ \A i \in 1..Len(sends) : sends[i] \in Seq(Keystrokes)
         /\ \A i \in 1..Len(received) : received[i] \in Nat
         /\ \A i \in 1..Len(buf) : buf[i] \in Nat
  <1>1. SequenceTypes /\ ScalarTypes /\ BooleanTypes
    BY TypeParts DEF IInv
  <1>2. /\ typed \in Seq(Kinds) /\ sends \in Seq(Seq(Keystrokes))
        /\ received \in Seq(Keystrokes) /\ buf \in Seq(Keystrokes)
    BY <1>1 DEF SequenceTypes
  <1>3. Keystrokes \subseteq Nat /\ used \in Nat /\ switched \in Nat
    BY <1>1, ShellAssumption DEF Keystrokes, ScalarTypes
  <1>4. /\ \A i \in 1..Len(sends) : sends[i] \in Seq(Keystrokes)
        /\ \A i \in 1..Len(received) : received[i] \in Keystrokes
        /\ \A i \in 1..Len(buf) : buf[i] \in Keystrokes
    BY <1>2, ElementOfSeq
  <1>5. Len(typed) \in Nat /\ Len(sends) \in Nat /\ Len(received) \in Nat /\ Len(buf) \in Nat
    BY <1>2, LenProperties
  <1> QED
    BY <1>1, <1>3, <1>4, <1>5 DEF IInv, Conserved

(* A step that neither sends nor receives, outside data_received.          *)
LEMMA NothingSent ==
  ASSUME ProxyInv, UNCHANGED <<sends, received, switched, typed>>,
         websock' => websock /\ UNCHANGED <<state, buf>> /\ (pc = "flush_again" => pc' = "flush_again"),
         pc' \in Early => pc \in Early, pc' = "flush_again" => pc = "flush_again"
  PROVE  ProxyBegins' /\ ProxyInOrder'
  <1>1. ProxyBegins'
    BY DEF ProxyInv, ProxyBegins
  <1>2. ASSUME websock' PROVE \E upto : Typing(upto)'
    <2>1. PICK upto : Typing(upto)
      BY <1>2, InOrderIsTyping DEF ProxyInv
    <2>2. Typing(upto)'
      BY <1>2, <2>1 DEF Typing, ReceivedUpTo, flushing, From
    <2> QED
      BY <2>2
  <1>3. ProxyInOrder'
    BY <1>2 DEF ProxyInOrder, Typing
  <1> QED
    BY <1>1, <1>3

LEMMA DataKeepsOrder ==
  ASSUME ProxyInv, NEW chunk \in Chunk, data_received(chunk)
  PROVE  ProxyBegins' /\ ProxyInOrder'
  <1>1. /\ Len(typed) \in Nat /\ Len(sends) \in Nat /\ switched \in Nat /\ typed \in Seq(Kinds)
        /\ sends \in Seq(Seq(Keystrokes))
    BY ProxyTypes DEF ProxyInv, SequenceTypes
  <1>2. /\ chunk \in Seq(Kinds) /\ Places(chunk) \in Seq(Keystrokes)
        /\ Counts(Places(chunk), Len(typed), Len(typed) + Len(chunk))
    BY <1>1, ChunkPlaces DEF data_received
  <1>3. typed' = typed \o chunk /\ Len(typed') = Len(typed) + Len(chunk) /\ Len(chunk) \in Nat
    BY <1>1, <1>2, ConcatProperties DEF data_received
  <1>4. UNCHANGED <<pc, buf, received, switched>>
    BY DEF data_received
  <1>5. switched <= Len(typed) /\ (pc = "flush_again" => sends # <<>>)
    BY DEF ProxyInv, ProxyBegins
  <1>6. CASE state = "PROXY" /\ websock
    <2> DEFINE n == Len(sends)
    <2>1. sends' = Append(sends, Places(chunk)) /\ UNCHANGED <<state, websock>>
      BY <1>6 DEF data_received
    <2>2. PICK upto : Typing(upto)
      BY <1>6, InOrderIsTyping DEF ProxyInv
    <2>3. /\ Len(sends') = n + 1 /\ sends'[n + 1] = Places(chunk) /\ sends' # <<>>
          /\ \A i \in 1..n : sends'[i] = sends[i]
      <3> DEFINE S == Seq(Keystrokes)
      <3>1. sends \in Seq(S) /\ Places(chunk) \in S
        BY <1>1, <1>2
      <3> HIDE DEF S
      <3> QED
        BY <2>1, <3>1, AppendProperties
    <2>4. n \in Nat /\ (pc = "flush_again" => n # 0)
      BY <1>1, <1>5, EmptySeq
    <2>5. /\ upto \in [0..n -> switched..Len(typed)] /\ upto[n] = Len(typed)
          /\ ReceivedUpTo(upto[0])
          /\ \A i \in 1..n :
               /\ upto[i - 1] <= upto[i]
               /\ IF flushing(i)
                  THEN sends[i] = buf /\ upto[i] = switched /\ \A j \in 1..Len(buf) : buf[j] <= switched
                  ELSE sends[i] = From(upto[i - 1] + 1, upto[i])
      BY <2>2 DEF Typing
    <2> HIDE DEF n
    <2>6. \E f \in [0 .. n + 1 -> switched..Len(typed')] :
            f[n + 1] = Len(typed') /\ \A i \in 0..n : f[i] = upto[i]
      <3> DEFINE g == [i \in 0 .. n + 1 |-> IF i = n + 1 THEN Len(typed') ELSE upto[i]]
      <3>1. g \in [0 .. n + 1 -> switched..Len(typed')]
        BY <1>1, <1>3, <1>5, <2>4, <2>5
      <3>2. g[n + 1] = Len(typed') /\ \A i \in 0..n : g[i] = upto[i]
        BY <2>4
      <3> HIDE DEF g
      <3> QED
        BY <3>1, <3>2
    <2>7. PICK longer \in [0 .. n + 1 -> switched..Len(typed')] :
            longer[n + 1] = Len(typed') /\ \A i \in 0..n : longer[i] = upto[i]
      BY <2>6
    <2>8. ~ flushing(n + 1) /\ \A i : flushing(i)' <=> flushing(i)
      BY <1>4, <2>4 DEF flushing
    <2>9. Places(chunk) = From(Len(typed) + 1, Len(typed'))
      BY <1>1, <1>2, <1>3, CountsIsFrom
    <2>10. ReceivedUpTo(longer[0])'
      <3>1. longer[0] = upto[0]
        BY <2>4, <2>7
      <3> QED
        BY <1>4, <2>5, <3>1 DEF ReceivedUpTo
    <2>11. ASSUME NEW i \in 1 .. n + 1
           PROVE  /\ longer[i - 1] <= longer[i]
                  /\ IF flushing(i)
                     THEN sends'[i] = buf /\ longer[i] = switched /\ \A j \in 1..Len(buf) : buf[j] <= switched
                     ELSE sends'[i] = From(longer[i - 1] + 1, longer[i])
      <3>1. CASE i = n + 1
        <4>1. longer[i - 1] = Len(typed) /\ longer[i] = Len(typed') /\ ~ flushing(i)
          BY <2>4, <2>5, <2>7, <2>8, <3>1
        <4> QED
          BY <1>1, <1>3, <2>3, <2>9, <3>1, <4>1
      <3>2. CASE i # n + 1
        <4>1. i \in 1..n /\ i \in 0..n /\ i - 1 \in 0..n
          BY <2>4, <3>2
        <4>2. longer[i - 1] = upto[i - 1] /\ longer[i] = upto[i] /\ sends'[i] = sends[i]
          BY <2>3, <2>7, <4>1
        <4> QED
          BY <2>5, <4>1, <4>2
      <3> QED
        BY <3>1, <3>2
    <2>12. Typing(longer)'
      <3>1. /\ longer \in [0..Len(sends') -> switched'..Len(typed')]
            /\ longer[Len(sends')] = Len(typed')
        BY <1>4, <2>3, <2>7
      <3>2. \A i \in 1..Len(sends') :
              /\ longer[i - 1] <= longer[i]
              /\ IF flushing(i)'
                 THEN sends'[i] = buf' /\ longer[i] = switched' /\ \A j \in 1..Len(buf') : buf'[j] <= switched'
                 ELSE sends'[i] = From(longer[i - 1] + 1, longer[i])
        BY <1>4, <2>3, <2>8, <2>11
      <3> QED
        BY <2>10, <3>1, <3>2 DEF Typing, From
    <2>13. ProxyInOrder'
      BY <2>12 DEF ProxyInOrder, Typing
    <2> QED
      BY <1>1, <1>3, <1>4, <1>5, <1>6, <2>1, <2>3, <2>13 DEF ProxyInv, ProxyBegins
  <1>7. CASE ~ (state = "PROXY" /\ websock)
    <2>0. ~ websock
      BY <1>7 DEF ProxyInv, ProxyBegins
    <2>1. UNCHANGED sends /\ (websock' => websock)
      <3>1. CASE state = "PROXY"
        BY <2>0, <3>1 DEF data_received
      <3>2. CASE state \in {"BEGIN", "SELECT_SITE"}
        <4>1. websock' = FALSE \/ UNCHANGED websock
          BY <3>2, Zenon DEF data_received
        <4>2. UNCHANGED sends
          BY <3>2, <2>0 DEF data_received
        <4> QED
          BY <4>1, <4>2
      <3> QED
        BY <3>1, <3>2 DEF data_received
    <2> QED
      BY <1>1, <1>3, <1>4, <1>5, <2>0, <2>1 DEF ProxyInv, ProxyBegins, ProxyInOrder
  <1> QED
    BY <1>6, <1>7

(* Proxy mode begins: the buffer is sent, and will be sent again.          *)
LEMMA FlushKeepsOrder ==
  ASSUME ProxyInv, flush PROVE ProxyBegins' /\ ProxyInOrder'
  <1>1. /\ Len(typed) \in Nat /\ Len(buf) \in Nat /\ used \in Nat /\ used <= Len(typed)
        /\ buf \in Seq(Keystrokes) /\ buffer \in Seq(Keystrokes)
    BY ProxyTypes DEF ProxyInv, SequenceTypes
  <1>2. received = <<>> /\ sends = <<>> /\ ~ websock /\ switched <= Len(typed)
    BY DEF flush, ProxyInv, ProxyBegins, Early
  <1>3. UNCHANGED <<typed, buf>>
    BY DEF flush
  <1>4. CASE pc' = "flush_again"
    <2>1. /\ received' = received \o buf /\ sends' = Append(sends, buf) /\ websock'
          /\ state' = "PROXY" /\ switched' = Len(typed)
      BY <1>4 DEF flush
    <2>2. received' = buf /\ sends' = <<buf>>
      BY <1>1, <1>2, <2>1, ConcatEmptySeq
    <2>3. Len(sends') = 1 /\ sends'[1] = buf /\ sends' # <<>>
      BY <2>2
    <2>4. \A j \in 1..Len(buf) : buf[j] <= Len(typed)
      <3>1. Counts(buf \o buffer, used, Len(typed))
        <4>1. buf \o buffer = From(used + 1, Len(typed))
          BY DEF flush, ProxyInv, IInv, Conserved, Early
        <4> QED
          BY <1>1, <4>1, FromCounts
      <3>2. /\ Len(buf \o buffer) = Len(buf) + Len(buffer) /\ Len(buffer) \in Nat
            /\ \A j \in 1..Len(buf) + Len(buffer) : (buf \o buffer)[j] = IF j <= Len(buf) THEN buf[j] ELSE buffer[j - Len(buf)]
        BY <1>1, ConcatProperties, LenProperties
      <3> SUFFICES ASSUME NEW j \in 1..Len(buf) PROVE buf[j] <= Len(typed)
        OBVIOUS
      <3>3. j \in 1 .. Len(typed) - used /\ j \in 1..Len(buf) + Len(buffer)
        BY <1>1, <3>1, <3>2 DEF Counts
      <3>4. buf[j] = used + j
        BY <1>1, <3>1, <3>2, <3>3 DEF Counts
      <3> QED
        BY <1>1, <3>3, <3>4
    <2>0. \E f \in [0..1 -> Len(typed)..Len(typed)] : f[0] = Len(typed) /\ f[1] = Len(typed)
      <3> DEFINE g == [i \in 0..1 |-> Len(typed)]
      <3>1. g \in [0..1 -> Len(typed)..Len(typed)] /\ g[0] = Len(typed) /\ g[1] = Len(typed)
        BY <1>1
      <3> HIDE DEF g
      <3> QED
        BY <3>1
    <2>5. PICK upto \in [0..1 -> Len(typed)..Len(typed)] : upto[0] = Len(typed) /\ upto[1] = Len(typed)
      BY <2>0
    <2>6. ReceivedUpTo(upto[0])'
      <3>1. /\ Len(buf) \in 0..Len(buf) /\ Len(buf) = Len(buf) + (Len(typed) - Len(typed))
            /\ \A i \in Len(buf) + 1 .. Len(buf) : buf[i] = Len(typed) + (i - Len(buf))
        BY <1>1
      <3> QED
        BY <1>3, <2>1, <2>2, <2>4, <2>5, <3>1 DEF ReceivedUpTo
    <2>7. flushing(1)' /\ \A i \in 1..1 : i = 1
      BY <1>4 DEF flushing
    <2>8. Typing(upto)'
      <3>1. upto \in [0..Len(sends') -> switched'..Len(typed')] /\ upto[Len(sends')] = Len(typed')
        BY <1>3, <2>1, <2>3, <2>5
      <3>2. \A i \in 1..Len(sends') : i = 1
        BY <2>3
      <3>3. upto[1 - 1] <= upto[1]
        BY <1>1, <2>5
      <3> QED
        BY <1>3, <2>1, <2>3, <2>4, <2>5, <2>6, <2>7, <3>1, <3>2, <3>3 DEF Typing
    <2>9. ProxyInOrder'
      BY <2>8 DEF ProxyInOrder, Typing
    <2> QED
      BY <1>1, <1>3, <1>4, <2>1, <2>3, <2>9 DEF ProxyBegins, Early
  <1>5. CASE pc' = "done"
    BY <1>2, <1>3, <1>5 DEF flush, close, ProxyBegins, ProxyInOrder, Early
  <1> QED
    BY <1>4, <1>5 DEF flush

(* The lock's next holder sends what it was given, or finds the websocket  *)
(* gone.                                                                   *)
LEMMA HeadRemoved ==
  ASSUME NEW S, NEW s \in Seq(S), s # <<>>
  PROVE  /\ RemoveAt(s, 1) \in Seq(S) /\ Len(s) \in Nat \ {0} /\ Len(RemoveAt(s, 1)) = Len(s) - 1
         /\ \A i \in 1 .. Len(s) - 1 : RemoveAt(s, 1)[i] = s[i + 1]
  <1> DEFINE t == SubSeq(s, 1 + 1, Len(s))
  <1>1. SubSeq(s, 1, 1 - 1) = <<>>
    OBVIOUS
  <1>0. Len(s) \in Nat \ {0} /\ 1 + 1 \in Int /\ \A i \in 1 + 1 .. Len(s) : s[i] \in S
    BY EmptySeq, LenProperties, ElementOfSeq
  <1>2. t \in Seq(S) /\ Len(t) = Len(s) - 1 /\ \A i \in 1 .. Len(s) - 1 : t[i] = s[i + 1]
    <2>1. /\ t \in Seq(S)
          /\ Len(t) = IF 1 + 1 <= Len(s) THEN Len(s) - (1 + 1) + 1 ELSE 0
          /\ \A i \in 1 .. Len(s) - (1 + 1) + 1 : t[i] = s[1 + 1 + i - 1]
      BY ONLY <1>0, SubSeqProperties
    <2> HIDE DEF t
    <2>2. Len(t) = Len(s) - 1
      <3>1. Len(s) \in Nat \ {0} /\ Len(t) = IF 1 + 1 <= Len(s) THEN Len(s) - (1 + 1) + 1 ELSE 0
        BY ONLY <1>0, <2>1
      <3>2. \A n \in Nat \ {0} : (IF 1 + 1 <= n THEN n - (1 + 1) + 1 ELSE 0) = n - 1
        OBVIOUS
      <3> QED
        BY ONLY <3>1, <3>2, Zenon
    <2>3. ASSUME NEW i \in 1 .. Len(s) - 1 PROVE t[i] = s[i + 1]
      <3>1. i \in 1 .. Len(s) - (1 + 1) + 1 /\ 1 + 1 + i - 1 = i + 1
        BY ONLY <1>0, i \in 1 .. Len(s) - 1
      <3> QED
        BY ONLY <2>1, <3>1
    <2> QED
      BY ONLY <2>1, <2>2, <2>3
  <1>3. RemoveAt(s, 1) = <<>> \o t
    BY <1>1 DEF RemoveAt
  <1> HIDE DEF t
  <1>4. RemoveAt(s, 1) = t
    BY <1>2, <1>3, ConcatEmptySeq
  <1> QED
    BY <1>0, <1>2, <1>4

LEMMA SendReceives ==
  ASSUME ProxyInv, sends # <<>>, NEW upto, Typing(upto), received' = received \o sends[1],
         switched' = switched
  PROVE  ReceivedUpTo(upto[1])'
  <1>1. /\ Len(typed) \in Nat /\ Len(sends) \in Nat \ {0} /\ Len(received) \in Nat
        /\ Len(buf) \in Nat /\ switched \in Nat
        /\ received \in Seq(Keystrokes) /\ sends[1] \in Seq(Keystrokes) /\ buf \in Seq(Keystrokes)
        /\ \A i \in 1..Len(received) : received[i] \in Nat
        /\ \A i \in 1..Len(buf) : buf[i] \in Nat
    <2>1. sends \in Seq(Seq(Keystrokes)) /\ Len(sends) # 0
      BY ProxyTypes, EmptySeq DEF ProxyInv, SequenceTypes
    <2> QED
      BY <2>1, ProxyTypes DEF ProxyInv, SequenceTypes
  <1>2. /\ upto[0] \in switched..Len(typed) /\ upto[1] \in switched..Len(typed)
        /\ upto[0] <= upto[1]
        /\ flushing(1) => sends[1] = buf /\ upto[1] = switched /\ \A j \in 1..Len(buf) : buf[j] <= switched
        /\ ~ flushing(1) => sends[1] = From(upto[0] + 1, upto[1])
    <2>1. 1 \in 1..Len(sends) /\ 0 \in 0..Len(sends) /\ 1 \in 0..Len(sends) /\ 1 - 1 = 0
      BY <1>1
    <2> QED
      BY <2>1 DEF Typing
  <1>7. \E a \in switched..Len(typed) : a = upto[0]
    BY <1>2
  <1>8. \E b \in switched..Len(typed) : b = upto[1]
    BY <1>2
  <1>9. PICK a \in switched..Len(typed) : a = upto[0]
    BY <1>7
  <1>10. PICK b \in switched..Len(typed) : b = upto[1]
    BY <1>8
  <1>11. /\ a \in Nat /\ b \in Nat /\ switched <= a /\ a <= b
         /\ flushing(1) => sends[1] = buf /\ b = switched /\ \A j \in 1..Len(buf) : buf[j] <= switched
         /\ ~ flushing(1) => sends[1] = From(a + 1, b)
    BY <1>1, <1>2, <1>9, <1>10
  <1>3. PICK k \in 0..Len(received) :
          /\ Len(received) = k + (a - switched)
          /\ \A i \in 1..k : received[i] <= switched
          /\ \A i \in k + 1 .. Len(received) : received[i] = switched + (i - k)
    BY <1>9 DEF Typing, ReceivedUpTo
  <1>4. /\ Len(received') = Len(received) + Len(sends[1]) /\ Len(sends[1]) \in Nat
        /\ \A i \in 1 .. Len(received) + Len(sends[1]) :
             received'[i] = IF i <= Len(received) THEN received[i] ELSE sends[1][i - Len(received)]
    BY <1>1, ConcatProperties, LenProperties
  <1>5. CASE flushing(1)
    <2> DEFINE m == k + Len(buf)
    <2>0. k \in Nat /\ a = switched /\ sends[1] = buf
      BY <1>1, <1>11, <1>3, <1>5
    <2>1. Len(received) = k /\ Len(received') = m /\ m \in 0..m /\ m \in Nat
      BY <1>1, <1>3, <1>4, <2>0
    <2>2. ASSUME NEW i \in 1..m PROVE received'[i] <= switched
      <3>1. CASE i <= k
        BY <1>1, <1>3, <1>4, <2>0, <2>1, <3>1
      <3>2. CASE ~ (i <= k)
        <4>1. i - k \in 1..Len(buf) /\ received'[i] = buf[i - k]
          BY <1>1, <1>4, <2>0, <2>1, <3>2
        <4> QED
          BY <1>11, <1>5, <4>1
      <3> QED
        BY <3>1, <3>2
    <2>3. m = m + (b - switched) /\ m + 1 .. m = {}
      BY <1>1, <1>11, <1>5, <2>0, <2>1
    <2> HIDE DEF m
    <2> QED
      BY <1>10, <2>0, <2>1, <2>2, <2>3 DEF ReceivedUpTo
  <1>6. CASE ~ flushing(1)
    <2>1. Counts(sends[1], a, b)
      BY <1>1, <1>11, <1>6, FromCounts
    <2>2. Len(sends[1]) = b - a /\ \A i \in 1 .. b - a : sends[1][i] = a + i
      BY <2>1 DEF Counts
    <2>3. k \in 0..Len(received') /\ Len(received') = k + (b - switched)
      BY <1>1, <1>11, <1>3, <1>4, <2>2
    <2>4. \A i \in 1..k : received'[i] <= switched
      BY <1>1, <1>3, <1>4
    <2>5. ASSUME NEW i \in k + 1 .. Len(received') PROVE received'[i] = switched + (i - k)
      <3>1. CASE i <= Len(received)
        BY <1>1, <1>3, <1>4, <3>1
      <3>2. CASE ~ (i <= Len(received))
        <4>1. i - Len(received) \in 1 .. b - a
          BY <1>1, <1>11, <1>3, <1>4, <2>2, <3>2
        <4>2. i \in 1 .. Len(received) + Len(sends[1]) /\ ~ (i <= Len(received))
          <5>1. i \in k + 1 .. Len(received) + Len(sends[1]) /\ k \in Nat
            <6>1. Len(received') = Len(received) + Len(sends[1])
              BY <1>4
            <6>2. k \in Nat
              BY <1>1
            <6> QED
              BY ONLY <6>1, <6>2, i \in k + 1 .. Len(received')
          <5>2. Len(received) \in Nat /\ Len(sends[1]) \in Nat
            BY <1>1, <1>4
          <5> QED
            BY ONLY <5>1, <5>2, <3>2
        <4>3. received'[i] = sends[1][i - Len(received)]
          BY <1>4, <4>2
        <4>4. received'[i] = a + (i - Len(received))
          BY <2>2, <4>1, <4>3
        <4> QED
          BY <1>1, <1>11, <1>3, <4>2, <4>4
      <3> QED
        BY <1>1, <1>3, <1>4, <3>1, <3>2
    <2> QED
      BY <1>10, <2>3, <2>4, <2>5 DEF ReceivedUpTo
  <1> QED
    BY <1>5, <1>6

LEMMA SendKeepsOrder ==
  ASSUME ProxyInv, NEW i \in DOMAIN sends, send_websock_data(i)
  PROVE  ProxyBegins' /\ ProxyInOrder'
  <1>1. /\ i = 1 /\ sends # <<>> /\ sends' = RemoveAt(sends, 1)
        /\ UNCHANGED <<buf, typed, switched>>
    BY DEF send_websock_data, next_send
  <1>2. switched <= Len(typed) /\ Len(typed) \in Nat /\ switched \in Nat /\ pc \notin Early
    BY <1>1, ProxyTypes DEF ProxyInv, ProxyBegins
  <1>3. pc' # "flush_again" /\ pc' \notin Early
    BY <1>1, <1>2 DEF send_websock_data, Early
  <1>4. websock' => websock /\ state' = state /\ received' = received \o sends[1]
    <2>1. CASE websock' = FALSE
      BY <2>1
    <2>2. CASE UNCHANGED websock /\ ~ websock
      BY <2>2
    <2>3. CASE websock /\ UNCHANGED <<state, websock>> /\ received' = received \o sends[i]
      BY <1>1, <2>3
    <2> QED
      BY <2>1, <2>2, <2>3 DEF send_websock_data
  <1>5. ProxyBegins'
    BY <1>1, <1>2, <1>3, <1>4 DEF ProxyInv, ProxyBegins
  <1>6. ASSUME websock' PROVE \E upto : Typing(upto)'
    <2> DEFINE n == Len(sends)
    <2>1. PICK upto : Typing(upto)
      BY <1>4, <1>6, InOrderIsTyping DEF ProxyInv
    <2>2. ReceivedUpTo(upto[1])'
      BY <1>1, <1>4, <1>6, <2>1, SendReceives
    <2>3. /\ n \in Nat \ {0} /\ Len(sends') = n - 1
          /\ \A j \in 1 .. n - 1 : sends'[j] = sends[j + 1]
      <3> DEFINE S == Seq(Keystrokes)
      <3>1. sends \in Seq(S)
        BY ProxyTypes DEF ProxyInv, SequenceTypes
      <3> HIDE DEF S
      <3>2. /\ Len(sends) \in Nat \ {0} /\ Len(RemoveAt(sends, 1)) = Len(sends) - 1
            /\ \A j \in 1 .. Len(sends) - 1 : RemoveAt(sends, 1)[j] = sends[j + 1]
        BY <1>1, <3>1, HeadRemoved
      <3> QED
        BY <1>1, <3>2
    <2>4. /\ upto \in [0..n -> switched..Len(typed)] /\ upto[n] = Len(typed)
          /\ \A j \in 1..n :
               /\ upto[j - 1] <= upto[j]
               /\ ~ flushing(j) => sends[j] = From(upto[j - 1] + 1, upto[j])
      BY <2>1 DEF Typing
    <2> HIDE DEF n
    <2>5. \E f \in [0 .. n - 1 -> switched..Len(typed)] : \A j \in 0 .. n - 1 : f[j] = upto[j + 1]
      <3> DEFINE g == [j \in 0 .. n - 1 |-> upto[j + 1]]
      <3>1. g \in [0 .. n - 1 -> switched..Len(typed)] /\ \A j \in 0 .. n - 1 : g[j] = upto[j + 1]
        BY <2>3, <2>4
      <3> HIDE DEF g
      <3> QED
        BY <3>1
    <2>6. PICK rest \in [0 .. n - 1 -> switched..Len(typed)] : \A j \in 0 .. n - 1 : rest[j] = upto[j + 1]
      BY <2>5
    <2>7. rest[0] = upto[1] /\ rest[n - 1] = Len(typed)
      BY <2>3, <2>4, <2>6
    <2>8. ASSUME NEW j \in 1 .. n - 1
          PROVE  rest[j - 1] <= rest[j] /\ sends'[j] = From(rest[j - 1] + 1, rest[j])
      <3>1. /\ j + 1 \in 1..n /\ (j + 1) - 1 = j /\ (j - 1) + 1 = j
            /\ j \in 0 .. n - 1 /\ j - 1 \in 0 .. n - 1 /\ j + 1 # 1
        BY <2>3
      <3>2. rest[j - 1] = upto[j] /\ rest[j] = upto[j + 1] /\ ~ flushing(j + 1)
        BY <2>6, <3>1 DEF flushing
      <3>3. upto[j] <= upto[j + 1] /\ sends[j + 1] = From(upto[j] + 1, upto[j + 1])
        <4> DEFINE h == j + 1
        <4>1. h \in 1..n /\ h - 1 = j /\ ~ flushing(h)
          BY <3>1, <3>2
        <4> HIDE DEF h
        <4>2. upto[h - 1] <= upto[h] /\ sends[h] = From(upto[h - 1] + 1, upto[h])
          BY <2>4, <4>1
        <4> QED
          BY <3>1, <4>2 DEF h
      <3> QED
        BY <2>3, <3>2, <3>3
    <2>9. \A j : ~ flushing(j)'
      BY <1>3 DEF flushing
    <2>10. Typing(rest)'
      <3>1. rest \in [0..Len(sends') -> switched'..Len(typed')] /\ rest[Len(sends')] = Len(typed')
        BY <1>1, <2>3, <2>6, <2>7
      <3>2. \A j \in 1..Len(sends') : rest[j - 1] <= rest[j] /\ sends'[j] = From(rest[j - 1] + 1, rest[j])
        BY <2>3, <2>8
      <3>3. ReceivedUpTo(rest[0])'
        BY <2>2, <2>7
      <3> QED
        BY <2>9, <3>1, <3>2, <3>3 DEF Typing, From
    <2> QED
      BY <2>10
  <1>7. ProxyInOrder'
    BY <1>6 DEF ProxyInOrder, Typing
  <1> QED
    BY <1>5, <1>7

(* Whatever ends the websocket, or happens before there is one.            *)
LEMMA NoWebsocket ==
  ASSUME ProxyInv, ~ websock', UNCHANGED <<sends, received, switched, typed>>,
         pc' \in Early => pc \in Early, pc' = "flush_again" => pc = "flush_again"
  PROVE  ProxyBegins' /\ ProxyInOrder'
  BY DEF ProxyInv, ProxyBegins, ProxyInOrder

LEMMA ProxyInvInit == Init => ProxyInv
  <1> SUFFICES ASSUME Init PROVE ProxyInv
    OBVIOUS
  <1>1. IInv
    BY IInvInit
  <1>2. /\ pc = "new" /\ ~ websock /\ sends = <<>> /\ received = <<>>
        /\ switched = 0 /\ typed = <<>>
    BY DEF Init
  <1> QED
    BY <1>1, <1>2 DEF ProxyInv, ProxyBegins, ProxyInOrder

LEMMA ProxyInvNext == ProxyInv /\ [Next]_vars => ProxyInv'
  <1> SUFFICES ASSUME ProxyInv, [Next]_vars PROVE ProxyInv'
    OBVIOUS
  <1>1. IInv'
    BY IInvNext DEF ProxyInv
  <1>2. /\ pc \in Early => ~ websock
        /\ pc \in PCs
    BY ProxyTypes DEF ProxyInv, ProxyBegins, ScalarTypes
  <1> SUFFICES ProxyBegins' /\ ProxyInOrder'
    BY <1>1 DEF ProxyInv
  <1> USE DEF ioVars, setupVars, close
  <1>3. CASE session_started
    BY <1>2, <1>3, NoWebsocket DEF session_started, Early
  <1>4. CASE eof_received
    BY <1>4, NoWebsocket DEF eof_received
  <1>5. CASE connection_lost
    BY <1>5, NoWebsocket DEF connection_lost
  <1>6. ASSUME NEW chunk \in Chunk, data_received(chunk) PROVE ProxyBegins' /\ ProxyInOrder'
    BY <1>6, DataKeepsOrder
  <1>7. CASE get_site_name
    BY <1>2, <1>7, NoWebsocket DEF get_site_name, write_and_go, Early
  <1>8. CASE select_site
    BY <1>2, <1>8, NoWebsocket DEF select_site, write_and_go, Early
  <1>9. CASE connect_fails
    BY <1>2, <1>9, NoWebsocket DEF connect_fails, Early
  <1>10. CASE connect_succeeds
    BY <1>2, <1>10, NoWebsocket DEF connect_succeeds, Early
  <1>11. CASE handshake
    BY <1>2, <1>11, NoWebsocket DEF handshake, Early
  <1>12. CASE flush
    BY <1>12, FlushKeepsOrder
  <1>13. ASSUME NEW i \in DOMAIN sends, send_websock_data(i) PROVE ProxyBegins' /\ ProxyInOrder'
    BY <1>13, SendKeepsOrder
  <1>14. CASE report_error \/ websock_mainloop
    <2>1. CASE chan
      BY <1>14, <2>1, NoWebsocket DEF report_error, websock_mainloop, Early
    <2>2. CASE ~ chan
      BY <1>14, <2>2, NothingSent DEF report_error, websock_mainloop, Early
    <2> QED
      BY <2>1, <2>2
  <1>15. CASE UNCHANGED vars
    BY <1>15, NothingSent DEF vars
  <1> QED
    BY <1>3, <1>4, <1>5, <1>6, <1>7, <1>8, <1>9, <1>10, <1>11, <1>12, <1>13, <1>14, <1>15 DEF Next

(* Proxy mode neither loses nor reorders input: however many sends wait    *)
(* for the lock, what the appserver received, what is being sent and what  *)
(* waits are, after the buffer that is sent twice, the keystrokes typed    *)
(* since, each once (data_received and send_websock_data).                 *)
THEOREM ProxyKeepsOrder == Spec => []ProxyInOrder
  <1>1. Spec => []ProxyInv
    BY ProxyInvInit, ProxyInvNext, PTL DEF Spec
  <1>2. ProxyInv => ProxyInOrder
    BY DEF ProxyInv
  <1> QED
    BY <1>1, <1>2, PTL
=============================================================================

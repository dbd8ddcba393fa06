---------------------------- MODULE ShellSession ----------------------------
(***************************************************************************)
(* One SSH session of the shell server: the coroutine setup_connection and *)
(* the callbacks asyncssh makes meanwhile on the same event loop.          *)
(*                                                                         *)
(* What the user types is a sequence of keystrokes, known by their place   *)
(* in it: "site" ends a line that names a site, "wrong" any other line, and *)
(* "text" is input without a newline.  The appserver behind the websocket  *)
(* is external: it answers, refuses or goes away.  Output and heartbeats   *)
(* are left out.                                                           *)
(***************************************************************************)
EXTENDS Naturals, Sequences, SequencesExt

CONSTANTS
  NumAppservers,  (* length of settings.APPSERVER_WS_HOSTS                  *)
  MaxBuffer,      (* the buffer may hold that much before the session closes *)
  MaxChunk,       (* bound: keystrokes in one call of data_received         *)
  MaxTyped        (* bound: keystrokes typed in all                         *)

ASSUME ShellAssumption ==
  NumAppservers \in Nat \ {0} /\ MaxBuffer \in Nat /\ MaxChunk \in Nat \ {0} /\ MaxTyped \in Nat

VARIABLES
  request,   (* the user asked for the "menu", "named" a site, or is "refused" *)
  state,     (* ShellSSHSessionState                                        *)
  chan,      (* self.chan is not None                                       *)
  buffer,    (* keystrokes received and not used yet                        *)
  lost,      (* asyncssh has called connection_lost, its last call          *)
  event,     (* buffer_update_event is set                                  *)
  websock,   (* self.websock is not None                                    *)
  pc,        (* where setup_connection is                                   *)
  buf,       (* its local variable: what it flushes                         *)
  first, appserver,  (* orig_appserver_num and appserver_num                *)
  sends,     (* data of the calls of send_websock_data, in order of the lock *)
  received,  (* keystrokes the appserver has received                       *)
  typed,     (* auxiliary: kinds of the keystrokes typed so far             *)
  used,      (* auxiliary: how many of them get_site_name consumed          *)
  tried,     (* auxiliary: appservers that could not be reached             *)
  switched   (* auxiliary: keystrokes typed when proxy mode began           *)

setupVars == <<request, first>>
ioVars    == <<state, chan, buffer, event, websock, sends>>
vars      == <<setupVars, ioVars, lost, pc, buf, appserver, received, typed, used, tried, switched>>

Kinds      == {"site", "wrong", "text"}
Appservers == 0..(NumAppservers - 1)
PCs        == {"new", "get_site_name", "wait", "connect", "handshake", "flush",
               "flush_again", "proxy", "no_websock", "unreachable", "done"}

Init ==
  /\ request \in {"menu", "named", "refused"}
  /\ state = "BEGIN" /\ chan = TRUE /\ buffer = <<>> /\ event = FALSE /\ websock = FALSE
  /\ lost = FALSE /\ pc = "new" /\ buf = <<>>
  /\ first \in Appservers /\ appserver = first
  /\ sends = <<>> /\ received = <<>>
  /\ typed = <<>> /\ used = 0 /\ tried = {} /\ switched = 0

-----------------------------------------------------------------------------
(* close() sets chan to None unless the channel is closing already, as it  *)
(* is when asyncssh has lost the connection.                               *)
close ==
  /\ state' = "CLOSED" /\ event' = TRUE
  /\ chan' = (chan /\ lost) /\ websock' = FALSE
  /\ UNCHANGED <<buffer, sends>>

(* The lock of websock_send_lock is handed on in the order of the calls.   *)
Mutant_next_send(i) == i \in DOMAIN sends

next_send(i) == i = 1 /\ sends # <<>>

-----------------------------------------------------------------------------
(* Callbacks of asyncssh *)

session_started ==
  /\ pc = "new"
  /\ \/ pc' = "get_site_name" /\ UNCHANGED ioVars
     \/ pc' = "done" /\ close                                 (* no terminal *)
  /\ UNCHANGED <<setupVars, lost, buf, appserver, received, typed, used, tried, switched>>

Chunk == UNION {[1..n -> Kinds] : n \in 1..MaxChunk}

Places(chunk) == [i \in 1..Len(chunk) |-> Len(typed) + i]

(* A closed session has no channel, so that data_received returns. *)
data_received(chunk) ==
  /\ pc # "new" /\ ~lost /\ chan
  /\ Len(typed) + Len(chunk) <= MaxTyped
  /\ typed' = typed \o chunk
  /\ \/ /\ state \in {"BEGIN", "SELECT_SITE"}
        /\ buffer' = buffer \o Places(chunk)
        /\ event' = TRUE
        /\ IF Len(buffer') > MaxBuffer
           THEN state' = "CLOSED" /\ chan' = FALSE /\ websock' = FALSE
           ELSE UNCHANGED <<state, chan, websock>>
        /\ UNCHANGED sends
     \/ /\ state = "PROXY"
        /\ sends' = IF websock THEN Append(sends, Places(chunk)) ELSE sends
        /\ UNCHANGED <<state, chan, buffer, event, websock>>
  /\ UNCHANGED <<setupVars, lost, pc, buf, appserver, received, used, tried, switched>>

(* break_received and eof_received; in proxy mode they are data. *)
eof_received ==
  /\ pc # "new" /\ ~lost /\ chan /\ state # "PROXY"
  /\ close
  /\ UNCHANGED <<setupVars, lost, pc, buf, appserver, received, typed, used, tried, switched>>

(* The channel may be closing by then, so that close() leaves chan as it is. *)
connection_lost ==
  /\ pc # "new" /\ ~lost
  /\ lost' = TRUE
  /\ state' = "CLOSED" /\ event' = TRUE /\ websock' = FALSE
  /\ chan' \in {FALSE, chan}
  /\ UNCHANGED <<buffer, sends>>
  /\ UNCHANGED <<setupVars, pc, buf, appserver, received, typed, used, tried, switched>>

-----------------------------------------------------------------------------
(* setup_connection *)

(* A write to a channel that is closing raises. *)
write_and_go(where) == pc' = where \/ (lost /\ pc' = "done")

(* Names a site, asks for one, or ends the session. *)
get_site_name ==
  /\ pc = "get_site_name"
  /\ \/ ~chan /\ pc' = "done" /\ UNCHANGED ioVars       (* assertion fails *)
     \/ chan /\ request = "refused" /\ pc' = "done" /\ close
     \/ chan /\ request = "named" /\ write_and_go("connect") /\ UNCHANGED ioVars
     \/ /\ chan /\ request = "menu" /\ write_and_go("wait")
        /\ state' = IF pc' = "done" THEN state ELSE "SELECT_SITE"
        /\ UNCHANGED <<chan, buffer, event, websock, sends>>
  /\ UNCHANGED <<setupVars, lost, buf, appserver, received, typed, used, tried, switched>>

(* The lines in the buffer, by the place in it where they end *)
line_ends == {i \in DOMAIN buffer : typed[buffer[i]] # "text"}

Mutant_end_of_line(index) == index \in line_ends /\ \A i \in line_ends : i <= index

end_of_line(index) == index \in line_ends /\ \A i \in line_ends : index <= i

Mutant_rest_of_buffer(index) == <<>>

rest_of_buffer(index) == SubSeq(buffer, index + 1, Len(buffer))

(* One turn of the loop: the event is cleared although the buffer may hold *)
(* another line.                                                           *)
select_site ==
  /\ pc = "wait" /\ event
  /\ \/ /\ ~chan /\ pc' = "done" /\ close /\ UNCHANGED used
     \/ /\ chan /\ line_ends = {}
        /\ event' = FALSE
        /\ UNCHANGED <<state, chan, buffer, websock, sends, pc, used>>
     \/ /\ chan
        /\ \E index \in line_ends :
             /\ end_of_line(index)
             /\ buffer' = rest_of_buffer(index)
             /\ used' = used + index
             /\ write_and_go(IF typed[buffer[index]] = "site" THEN "connect" ELSE "wait")
        /\ event' = FALSE
        /\ UNCHANGED <<state, chan, websock, sends>>
  /\ UNCHANGED <<setupVars, lost, buf, appserver, received, typed, tried, switched>>

full_circle(next) == next = first

(* connect_websock tries one appserver after the other. *)
connect_fails ==
  /\ pc = "connect"
  /\ appserver' = (appserver + 1) % NumAppservers
  /\ tried' = tried \union {appserver}
  /\ IF full_circle(appserver') THEN close /\ pc' = "unreachable" ELSE UNCHANGED <<ioVars, pc>>
  /\ UNCHANGED <<setupVars, lost, buf, received, typed, used, switched>>

connect_succeeds ==
  /\ pc = "connect" /\ pc' = "handshake"
  /\ UNCHANGED <<setupVars, lost, ioVars, buf, appserver, received, typed, used, tried, switched>>

(* The token is sent and answered; then the buffer is taken and the send   *)
(* of it begins.                                                           *)
handshake ==
  /\ pc = "handshake"
  /\ \/ /\ pc' = "flush"
        /\ buf' = buffer /\ buffer' = <<>>
        /\ UNCHANGED <<state, chan, event, websock, sends>>
     \/ pc' = "done" /\ close /\ UNCHANGED buf
  /\ UNCHANGED <<setupVars, lost, appserver, received, typed, used, tried, switched>>

(* The send is over: proxy mode begins, and buf (not self.buffer) is sent  *)
(* again with the lock, which nobody holds yet.                            *)
flush ==
  /\ pc = "flush"
  /\ \/ /\ received' = received \o buf
        /\ websock' = TRUE /\ state' = "PROXY"
        /\ sends' = Append(sends, buf)
        /\ pc' = "flush_again" /\ switched' = Len(typed)
        /\ UNCHANGED <<chan, buffer, event>>
     \/ pc' = "done" /\ close /\ UNCHANGED <<received, switched>>
  /\ UNCHANGED <<setupVars, lost, buf, appserver, typed, used, tried>>

(* send_websock_data, of the flush or of a callback *)
send_websock_data(i) ==
  /\ next_send(i)
  /\ \/ /\ websock /\ received' = received \o sends[i]
        /\ UNCHANGED <<state, chan, event, websock>>
     \/ /\ ~websock /\ UNCHANGED <<state, chan, event, websock, received>>
     \/ /\ websock /\ UNCHANGED received                 (* it is closed *)
        /\ state' = "CLOSED" /\ event' = TRUE /\ chan' = (chan /\ lost) /\ websock' = FALSE
  /\ sends' = RemoveAt(sends, i)
  /\ pc' = CASE pc # "flush_again" \/ i # 1 -> pc
             [] OTHER -> IF websock' THEN "proxy" ELSE "no_websock"
  /\ UNCHANGED <<setupVars, lost, buffer, buf, appserver, typed, used, tried, switched>>

(* write_stderr_bytes asserts that there is a channel. *)
report_error ==
  /\ pc = "no_websock" /\ pc' = "done"
  /\ \/ chan /\ close
     \/ ~chan /\ UNCHANGED ioVars
  /\ UNCHANGED <<setupVars, lost, buf, appserver, received, typed, used, tried, switched>>

(* websock_mainloop finds the websocket closed; or it is never reached, as *)
(* the session was closed and chan.set_line_mode raises.                   *)
websock_mainloop ==
  /\ pc = "proxy" /\ pc' = "done"
  /\ \/ chan /\ close
     \/ ~chan /\ UNCHANGED ioVars
  /\ UNCHANGED <<setupVars, lost, buf, appserver, received, typed, used, tried, switched>>

Next ==
  \/ session_started \/ eof_received \/ connection_lost
  \/ \E chunk \in Chunk : data_received(chunk)
  \/ get_site_name \/ select_site
  \/ connect_fails \/ connect_succeeds \/ handshake \/ flush
  \/ \E i \in DOMAIN sends : send_websock_data(i)
  \/ report_error \/ websock_mainloop

Spec == Init /\ [][Next]_vars

-----------------------------------------------------------------------------
(* Properties *)

From(a, b) == [i \in 1..(IF b < a THEN 0 ELSE b - a + 1) |-> a + i - 1]

Keystrokes == 1..MaxTyped

(* Every variable has its type. *)
TypeOK ==
  /\ request \in {"menu", "named", "refused"}
  /\ state \in {"BEGIN", "SELECT_SITE", "PROXY", "CLOSED"}
  /\ {chan, lost, event, websock} \subseteq BOOLEAN
  /\ {buffer, buf, received} \subseteq Seq(Keystrokes) /\ sends \in Seq(Seq(Keystrokes))
  /\ pc \in PCs /\ {first, appserver} \subseteq Appservers /\ tried \subseteq Appservers
  /\ typed \in Seq(Kinds) /\ {used, switched} \subseteq 0..MaxTyped

(* Until proxy mode, what was typed after the lines that were used is in   *)
(* the buffer and in what is being flushed, complete and in order: typing  *)
(* ahead of the menu and of the connection loses nothing.                  *)
TypedAheadIsKept ==
  (state \in {"BEGIN", "SELECT_SITE"} /\ pc # "done") =>
    (IF pc = "flush" THEN buf ELSE <<>>) \o buffer = From(used + 1, Len(typed))

(* The session goes to the site that the first line naming one names.      *)
FirstSiteChosen ==
  (request = "menu" /\ pc \in {"connect", "handshake", "flush", "flush_again", "proxy"}) =>
    used \in DOMAIN typed /\ typed[used] = "site" /\ \A i \in 1..(used - 1) : typed[i] # "site"

(* A session gives up only after every appserver was tried. *)
NoneReachable == pc = "unreachable" => tried = Appservers

(* Both: a session ends up in the site that was named, on some appserver   *)
(* if any accepts it.                                                      *)
SessionIsRouted == FirstSiteChosen /\ NoneReachable

(* The inductive invariant behind them.  Before proxy mode the flush and   *)
(* the buffer hold what was typed after the lines used, which named no     *)
(* site; after it the buffer is not looked at again.                       *)
Early == {"new", "get_site_name", "wait", "connect", "handshake", "flush"}

Conserved ==
  /\ used <= Len(typed) /\ Len(typed) <= MaxTyped
  /\ pc \in Early =>
       (IF pc = "flush" THEN buf ELSE <<>>) \o buffer = From(used + 1, Len(typed))

NoSiteBefore ==
  /\ pc \in {"new", "get_site_name", "wait"} =>
       \A i \in 1..used : typed[i] # "site"
  /\ FirstSiteChosen

StateFollows ==
  /\ state = "PROXY" => pc \notin Early
  /\ pc \notin Early \union {"done"} => state \in {"PROXY", "CLOSED"}

(* The appservers tried are the ones from first up to the current one.     *)
TriedInOrder ==
  /\ pc = "unreachable" => tried = Appservers
  /\ pc \in {"new", "get_site_name", "wait"} => appserver = first /\ tried = {}
  /\ pc = "connect" =>
       tried = IF appserver >= first THEN first..(appserver - 1)
               ELSE (first..(NumAppservers - 1)) \union (0..(appserver - 1))

IInv == TypeOK /\ Conserved /\ NoSiteBefore /\ StateFollows /\ TriedInOrder

(* What was received ends with what was typed in proxy mode up to place n. *)
ReceivedUpTo(n) ==
  \E k \in 0..Len(received) :
    /\ Len(received) = k + (n - switched)
    /\ \A i \in 1..k : received[i] <= switched
    /\ \A i \in k + 1 .. Len(received) : received[i] = switched + (i - k)

flushing(i) == pc = "flush_again" /\ i = 1

(* What is typed in proxy mode reaches the appserver in the order in which *)
(* it was typed and without gaps, whatever tasks the event loop runs first: *)
(* each send goes on, after the second flush, where the one before ends,   *)
(* the first where the appserver is, and the last ends with what was typed. *)
ProxyInOrder ==
  websock =>
    \E upto \in [0..Len(sends) -> switched..Len(typed)] :
      /\ ReceivedUpTo(upto[0]) /\ upto[Len(sends)] = Len(typed)
      /\ \A i \in 1..Len(sends) :
           /\ upto[i - 1] <= upto[i]
           /\ IF flushing(i)
              THEN sends[i] = buf /\ upto[i] = switched /\ \A j \in 1..Len(buf) : buf[j] <= switched
              ELSE sends[i] = From(upto[i - 1] + 1, upto[i])

(* "And flush the buffer again in case something got through": once the    *)
(* flushes are over, all that was typed after the site's name has reached  *)
(* the appserver, once and in order.                                       *)
TypedIsDelivered ==
  (pc = "proxy" /\ websock /\ sends = <<>>) => received = From(used + 1, Len(typed))
=============================================================================

---------------------------- MODULE MonitorRelay ----------------------------
(***************************************************************************)
(* SiteMonitorConsumer: the manager's end of the file pane's websocket.    *)
(* While it opens a websocket to the monitor of each appserver, it keeps   *)
(* what the browser sends, replays it to each one opened, and forwards it  *)
(* to those opened already.  A coroutine may be interrupted at each await; *)
(* receive() and disconnect() never run at the same time, as Channels      *)
(* dispatches the events of a consumer one by one.                         *)
(*                                                                         *)
(* A message is its number.  What the monitors send back changes nothing   *)
(* here (FileMonitor has it) but for a browser that cannot be sent to.     *)
(***************************************************************************)
EXTENDS Naturals, Sequences, SequencesExt

CONSTANTS
  NumMonitors,   (* DIRECTOR_NUM_APPSERVERS                                 *)
  MaxMessages    (* bound: messages the browser sends                       *)

ASSUME RelayAssumption == NumMonitors \in Nat /\ MaxMessages \in Nat

Monitored == 0 .. NumMonitors - 1
Leave == 0       (* the disconnect event                                    *)

VARIABLES
  sent,            (* messages the browser has sent                         *)
  inbox,           (* events Channels has not dispatched yet                *)
  receiving,       (* the websockets receive() still has to send to         *)
  receivedMsg,     (* ... and the message                                   *)
  connected, initialized, pending,
  monitors,        (* monitor_websocks                                      *)
  monitor_websock,  (* the websocket to each appserver                      *)
  mainloop,        (* appservers with a monitor_mainloop task               *)
  opener,          (* the appserver initialize_monitor_connections is at    *)
  replay,          (* 0 or the index of the next message it replays         *)
  got,             (* auxiliary: what was sent to each monitor              *)
  closing,         (* close() was called                                    *)
  gone,            (* disconnect() has run                                  *)
  early            (* auxiliary: it ran before the opener was done          *)

relayvars == <<sent, inbox, receiving, receivedMsg, connected, initialized, pending,
               monitors, monitor_websock, mainloop, opener, replay, got, closing, gone, early>>

(* connect() has accepted and created the task.                            *)
RelayInit ==
  /\ sent = 0 /\ inbox = <<>> /\ receiving = <<>> /\ receivedMsg = 0
  /\ connected = TRUE /\ initialized = FALSE /\ pending = <<>>
  /\ monitors = <<>> /\ monitor_websock = [a \in Monitored |-> "none"] /\ mainloop = {}
  /\ opener = 0 /\ replay = 0
  /\ got = [a \in Monitored |-> <<>>]
  /\ closing = FALSE /\ gone = FALSE /\ early = FALSE

Deliver(a, m) == got' = [got EXCEPT ![a] = Append(@, m)]

-----------------------------------------------------------------------------
(* The browser and the network *)

BrowserSends ==
  /\ sent < MaxMessages /\ ~Contains(inbox, Leave) /\ ~gone
  /\ sent' = sent + 1 /\ inbox' = Append(inbox, sent')
  /\ UNCHANGED <<receiving, receivedMsg, connected, initialized, pending, monitors, monitor_websock,
                 mainloop, opener, replay, got, closing, gone, early>>

(* It leaves by itself or because it was told to.                          *)
BrowserLeaves ==
  /\ ~Contains(inbox, Leave) /\ ~gone
  /\ inbox' = Append(inbox, Leave)
  /\ UNCHANGED <<sent, receiving, receivedMsg, connected, initialized, pending, monitors,
                 monitor_websock, mainloop, opener, replay, got, closing, gone, early>>

MonitorFails(a) ==
  /\ monitor_websock[a] = "open"
  /\ monitor_websock' = [monitor_websock EXCEPT ![a] = "closed"]
  /\ UNCHANGED <<sent, inbox, receiving, receivedMsg, connected, initialized, pending,
                 monitors, mainloop, opener, replay, got, closing, gone, early>>

-----------------------------------------------------------------------------
(* receive() and disconnect() *)

Idle == receiving = <<>>

receive ==
  /\ Idle /\ ~gone /\ inbox # <<>> /\ Head(inbox) # Leave
  /\ inbox' = Tail(inbox)
  /\ IF connected
     THEN /\ receivedMsg' = Head(inbox) /\ receiving' = monitors
          /\ pending' = IF initialized THEN pending ELSE Append(pending, Head(inbox))
     ELSE UNCHANGED <<receivedMsg, receiving, pending>>
  /\ UNCHANGED <<sent, connected, initialized, monitors, monitor_websock, mainloop, opener, replay,
                 got, closing, gone, early>>

Forward ==
  /\ ~Idle
  /\ LET a == Head(receiving)
     IN  IF monitor_websock[a] = "open"
         THEN Deliver(a, receivedMsg) /\ receiving' = Tail(receiving) /\ UNCHANGED closing
         ELSE closing' = TRUE /\ receiving' = <<>> /\ UNCHANGED got
  /\ UNCHANGED <<sent, inbox, receivedMsg, connected, initialized, pending, monitors, monitor_websock,
                 mainloop, opener, replay, gone, early>>

Mutant_disconnect ==
  /\ Idle /\ inbox # <<>> /\ Head(inbox) = Leave
  /\ connected' = FALSE
  /\ IF monitors # <<>>
     THEN /\ monitor_websock' = [monitor_websock EXCEPT ![Last(monitors)] = "closed"]
          /\ monitors' = <<>>
          /\ UNCHANGED <<inbox, gone, early>>
     ELSE /\ inbox' = Tail(inbox) /\ gone' = TRUE /\ early' = (opener \in Monitored)
          /\ UNCHANGED <<monitor_websock, monitors>>
  /\ UNCHANGED <<sent, receiving, receivedMsg, initialized, pending, mainloop, opener, replay,
                 got, closing>>

(* Each step takes a websocket off the list and waits until it is closed;  *)
(* the last one finds the list empty.                                      *)
disconnect ==
  /\ Idle /\ inbox # <<>> /\ Head(inbox) = Leave
  /\ connected' = FALSE
  /\ IF monitors # <<>>
     THEN /\ monitor_websock' = [monitor_websock EXCEPT ![Last(monitors)] = "closed"]
          /\ monitors' = SubSeq(monitors, 1, Len(monitors) - 1)
          /\ UNCHANGED <<inbox, gone, early>>
     ELSE /\ inbox' = Tail(inbox) /\ gone' = TRUE /\ early' = (opener \in Monitored)
          /\ UNCHANGED <<monitor_websock, monitors>>
  /\ UNCHANGED <<sent, receiving, receivedMsg, initialized, pending, mainloop, opener, replay,
                 got, closing>>

-----------------------------------------------------------------------------
(* The tasks: initialize_monitor_connections and monitor_mainloop *)

Mutant_OpenMonitor ==
  /\ opener \in Monitored /\ replay = 0
  /\ mainloop' = mainloop \union {opener}
  /\ \/ /\ monitor_websock' = [monitor_websock EXCEPT ![opener] = "open"]
        /\ monitors' = Append(monitors, opener)
        /\ replay' = 1 /\ UNCHANGED opener
     \/ opener' = opener + 1 /\ UNCHANGED <<monitor_websock, monitors, replay>>
  /\ UNCHANGED <<sent, inbox, receiving, receivedMsg, connected, initialized, pending, got,
                 closing, gone, early>>

(* The appserver answers the ping and the handshake, or it is left out.    *)
OpenMonitor ==
  /\ opener \in Monitored /\ replay = 0
  /\ \/ /\ monitor_websock' = [monitor_websock EXCEPT ![opener] = "open"]
        /\ monitors' = Append(monitors, opener)
        /\ mainloop' = mainloop \union {opener}
        /\ replay' = 1 /\ UNCHANGED opener
     \/ opener' = opener + 1 /\ UNCHANGED <<monitor_websock, monitors, mainloop, replay>>
  /\ UNCHANGED <<sent, inbox, receiving, receivedMsg, connected, initialized, pending, got,
                 closing, gone, early>>

Mutant_Replay ==
  /\ opener \in Monitored /\ replay > 0
  /\ IF replay <= Len(pending) /\ monitor_websock[opener] = "open"
     THEN /\ Deliver(opener, pending[Len(pending) + 1 - replay])
          /\ replay' = replay + 1 /\ UNCHANGED opener
     ELSE replay' = 0 /\ opener' = opener + 1 /\ UNCHANGED got
  /\ UNCHANGED <<sent, inbox, receiving, receivedMsg, connected, initialized, pending,
                 monitors, monitor_websock, mainloop, closing, gone, early>>

(* The list of pending messages may grow while it is replayed.             *)
Replay ==
  /\ opener \in Monitored /\ replay > 0
  /\ IF replay <= Len(pending) /\ monitor_websock[opener] = "open"
     THEN Deliver(opener, pending[replay]) /\ replay' = replay + 1 /\ UNCHANGED opener
     ELSE replay' = 0 /\ opener' = opener + 1 /\ UNCHANGED got
  /\ UNCHANGED <<sent, inbox, receiving, receivedMsg, connected, initialized, pending,
                 monitors, monitor_websock, mainloop, closing, gone, early>>

Initialized ==
  /\ opener = NumMonitors
  /\ opener' = NumMonitors + 1
  /\ IF ~connected THEN UNCHANGED <<connected, initialized, pending, closing>>
     ELSE IF monitors # <<>>
     THEN initialized' = TRUE /\ pending' = <<>> /\ UNCHANGED <<connected, closing>>
     ELSE connected' = FALSE /\ closing' = TRUE /\ UNCHANGED <<initialized, pending>>
  /\ UNCHANGED <<sent, inbox, receiving, receivedMsg, monitors, monitor_websock, mainloop, replay, got,
                 gone, early>>

(* sleep_and_close, or a site_updated event of a site not editable now.    *)
close_monitor ==
  /\ ~closing /\ ~gone
  /\ closing' = TRUE
  /\ UNCHANGED <<sent, inbox, receiving, receivedMsg, connected, initialized, pending, monitors,
                 monitor_websock, mainloop, opener, replay, got, gone, early>>

(* Each websocket is at most once in the list.                             *)
remove_monitor(a) ==
  monitors' = IF Contains(monitors, a)
              THEN RemoveAt(monitors, CHOOSE i \in DOMAIN monitors : monitors[i] = a)
              ELSE monitors

monitor_mainloop(a) ==
  /\ a \in mainloop
  /\ mainloop' = mainloop \ {a}
  /\ \/ /\ monitor_websock[a] = "closed"
        /\ remove_monitor(a)
        /\ closing' = (closing \/ monitors' = <<>>)
     \/ /\ monitor_websock[a] = "open" /\ (gone \/ Contains(inbox, Leave))
        /\ closing' = TRUE /\ UNCHANGED monitors
  /\ UNCHANGED <<sent, inbox, receiving, receivedMsg, connected, initialized, pending, monitor_websock,
                 opener, replay, got, gone, early>>

RelayNext ==
  \/ BrowserSends \/ BrowserLeaves \/ receive \/ Forward \/ disconnect
  \/ OpenMonitor \/ Replay \/ Initialized \/ close_monitor
  \/ \E a \in Monitored : MonitorFails(a) \/ monitor_mainloop(a)

RelaySpec == RelayInit /\ [][RelayNext]_relayvars

-----------------------------------------------------------------------------

RelayTypeOK ==
  /\ sent \in 0..MaxMessages
  /\ inbox \in Seq(0..MaxMessages) /\ pending \in Seq(1..MaxMessages)
  /\ receiving \in Seq(Monitored) /\ monitors \in Seq(Monitored)
  /\ monitor_websock \in [Monitored -> {"none", "open", "closed"}]
  /\ opener \in 0 .. NumMonitors + 1
  /\ mainloop \subseteq {a \in Monitored : monitor_websock[a] # "none"}

LastCopy(s, m) == CHOOSE i \in DOMAIN s : s[i] = m /\ \A j \in DOMAIN s : s[j] = m => j <= i

(* A monitor may get a message twice and out of order, but the last copies *)
(* it has after the replay are in the order the browser sent them in: a    *)
(* folder that was opened and closed is not watched in the end.            *)
LastCopiesInOrder ==
  \A a \in {b \in Monitored : monitor_websock[b] = "open" /\ ~(b = opener /\ replay > 0)} :
    \A m, n \in 1..sent : m < n /\ Contains(got[a], m) /\ Contains(got[a], n)
                             => LastCopy(got[a], m) < LastCopy(got[a], n)

(* Once nothing is under way every open monitor has every message.         *)
EverythingForwarded ==
  initialized /\ Idle /\ inbox = <<>> /\ ~closing
    => \A i \in DOMAIN monitors :
         monitor_websock[monitors[i]] = "open" => \A m \in 1..sent : Contains(got[monitors[i]], m)

(* What the browser sent before, while and after the monitors were opened  *)
(* reaches every monitor, and what it sent last counts last.               *)
ForwardedInOrder == LastCopiesInOrder /\ EverythingForwarded

(* A browser that left after its monitors were opened leaves no websocket. *)
NoMonitorLeft ==
  gone /\ ~early => \A a \in Monitored : monitor_websock[a] # "open"

(* A browser none of whose monitors is left is told to connect again.      *)
LostMonitorsClose ==
  opener > NumMonitors /\ mainloop = {} => closing \/ gone \/ Contains(inbox, Leave)

(* Neither end outlives the other unnoticed.                               *)
EndsTogether == NoMonitorLeft /\ LostMonitorsClose
=============================================================================

----------------------------- MODULE SiteStatus -----------------------------
(***************************************************************************)
(* The information page of a site, which follows the site's row while the  *)
(* user looks at it.  Whoever changes the row sends a message to the       *)
(* site's group afterwards; the consumer of each page reads the row again  *)
(* and sends what it read.  The page shows it, and connects again when the *)
(* connection ends.  Channels gives a consumer one event at a time: a      *)
(* message that comes while connect() waits is handled after it.           *)
(*                                                                         *)
(* The fields of the row and those of its operation are two versions: they *)
(* are read one after the other.                                           *)
(***************************************************************************)
EXTENDS Naturals, Sequences

CONSTANTS
  Pages,         (* open pages, of one user each                            *)
  MaxChanges,    (* bound: changes of the site and of its operation         *)
  MaxLost        (* bound: connections and messages lost                    *)

ASSUME StatusAssumption == MaxChanges \in Nat /\ MaxLost \in Nat

VARIABLES
  version, op_version, type,  (* the row, its operation, and the site's type *)
  exists_row, editors,        (* pages whose user may edit the site          *)
  owed,        (* messages that follow a change and are not sent yet         *)
  conn,        (* the page's connection, "unopened" before the page is there *)
  doing,       (* what the consumer is doing                                 *)
  group,       (* pages whose consumer is in the site's group                *)
  self_type,   (* self.site.type of each consumer                            *)
  status_websocket,
  read,        (* what refresh_from_db read                                  *)
  inbox_site,  (* group messages each consumer has not handled               *)
  tobrowser,   (* messages on their way to each page                         *)
  shows_site,  (* what each page shows                                       *)
  unsent,      (* auxiliary: a message was never sent                        *)
  losses

rowvars == <<version, op_version, type, exists_row, editors>>
consumervars == <<doing, group, self_type, status_websocket, read, inbox_site>>
browservars == <<conn, tobrowser, shows_site>>
statusvars == <<rowvars, owed, consumervars, browservars, unsent, losses>>

Deleted == [row |-> 0, op |-> 0, type |-> "none"]
Current == [row |-> version, op |-> op_version, type |-> type]
May(p) == exists_row /\ p \in editors

StatusInit ==
  /\ version = 1 /\ op_version = 1 /\ type = "static"
  /\ exists_row = TRUE /\ editors = Pages /\ owed = 0
  /\ conn = [p \in Pages |-> "unopened"] /\ doing = [p \in Pages |-> "nothing"]
  /\ group = {} /\ self_type = [p \in Pages |-> type]
  /\ status_websocket = [p \in Pages |-> FALSE]
  /\ read = [p \in Pages |-> Current] /\ inbox_site = [p \in Pages |-> 0]
  /\ tobrowser = [p \in Pages |-> <<>>] /\ shows_site = [p \in Pages |-> Current]
  /\ unsent = FALSE /\ losses = 0

Loss == losses < MaxLost /\ losses' = losses + 1

-----------------------------------------------------------------------------
(* Views and tasks: each saves, then sends. *)

Changes == version + op_version < MaxChanges + 2 /\ exists_row

Saved == owed' = owed + 1 /\ UNCHANGED <<consumervars, browservars, unsent, losses>>

(* edit_meta_view, and the actions of an operation.                        *)
save_site ==
  /\ Changes /\ Saved
  /\ version' = version + 1 /\ type' \in {"static", "dynamic"}
  /\ UNCHANGED <<op_version, exists_row, editors>>

edit_users(p) ==
  /\ Changes /\ Saved
  /\ version' = version + 1 /\ p \in editors /\ editors' = editors \ {p}
  /\ UNCHANGED <<op_version, type, exists_row>>

(* An operation is created, an action begins or ends, it is deleted.       *)
save_operation ==
  /\ Changes /\ Saved
  /\ op_version' = op_version + 1
  /\ UNCHANGED <<version, type, exists_row, editors>>

(* site.delete() clears site.id, which is in the name of the group that    *)
(* the message after it goes to: no page is in the group "site-None".      *)
delete_site ==
  /\ exists_row
  /\ exists_row' = FALSE
  /\ UNCHANGED <<version, op_version, type, editors, owed, consumervars, browservars,
                 unsent, losses>>

send_message ==
  /\ owed > 0 /\ owed' = owed - 1
  /\ inbox_site' = [p \in Pages |-> inbox_site[p] + IF p \in group THEN 1 ELSE 0]
  /\ UNCHANGED <<rowvars, doing, group, self_type, status_websocket, read, browservars,
                 unsent, losses>>

(* The process ends before it sends, or Redis cannot be reached.           *)
sender_dies ==
  /\ owed > 0 /\ owed' = owed - 1
  /\ Loss /\ unsent' = TRUE
  /\ UNCHANGED <<rowvars, consumervars, browservars>>

-----------------------------------------------------------------------------
(* SiteConsumer *)

Consumer(p, from) ==
  /\ doing[p] = from
  /\ UNCHANGED <<rowvars, owed, shows_site, unsent>>

Now(p, to) == doing' = [doing EXCEPT ![p] = to]

(* close(), and the disconnect() that follows: it leaves the group.        *)
Close(p) ==
  /\ conn' = [conn EXCEPT ![p] = "closing"]
  /\ Now(p, "nothing")
  /\ group' = group \ {p} /\ inbox_site' = [inbox_site EXCEPT ![p] = 0]
  /\ status_websocket' = [status_websocket EXCEPT ![p] = FALSE]
  /\ UNCHANGED <<self_type, read>>

ToBrowser(p, m) == tobrowser' = [tobrowser EXCEPT ![p] = Append(@, m)]

(* A user who may not edit the site is told that it is deleted.            *)
connect_site(p) ==
  /\ Consumer(p, "nothing") /\ conn[p] = "closed"
  /\ IF May(p)
     THEN /\ conn' = [conn EXCEPT ![p] = "connecting"]
          /\ self_type' = [self_type EXCEPT ![p] = type]
          /\ Now(p, "join")
          /\ UNCHANGED <<group, status_websocket, read, inbox_site, tobrowser>>
     ELSE Close(p) /\ ToBrowser(p, Deleted)
  /\ UNCHANGED losses

group_add(p) ==
  /\ Consumer(p, "join")
  /\ group' = group \union {p} /\ Now(p, "status")
  /\ UNCHANGED <<self_type, status_websocket, read, inbox_site, conn, tobrowser, losses>>

Accepted(p) ==
  /\ conn' = [conn EXCEPT ![p] = "open"] /\ Now(p, "refresh")
  /\ UNCHANGED <<group, self_type, read, inbox_site, tobrowser>>

(* Only a dynamic site has a status; a page of one waits for an appserver. *)
open_status_websocket(p) ==
  /\ Consumer(p, "status")
  /\ \/ /\ self_type[p] = "static" /\ Accepted(p)
        /\ UNCHANGED <<status_websocket, losses>>
     \/ /\ self_type[p] = "dynamic" /\ Accepted(p)
        /\ status_websocket' = [status_websocket EXCEPT ![p] = TRUE] /\ UNCHANGED losses
     \/ /\ self_type[p] = "dynamic" /\ Loss
        /\ Close(p) /\ UNCHANGED tobrowser

dump_fits(p) == p \in editors /\ type = self_type[p]

(* send_site_info and dump_site_info: the row first...                     *)
refresh_from_db(p) ==
  /\ Consumer(p, "refresh") /\ UNCHANGED losses
  /\ IF ~exists_row
     THEN /\ ToBrowser(p, Deleted) /\ Now(p, "nothing")
          /\ UNCHANGED <<group, self_type, status_websocket, read, inbox_site, conn>>
     ELSE IF dump_fits(p)
     THEN /\ read' = [read EXCEPT ![p] = Current] /\ Now(p, "rest")
          /\ UNCHANGED <<group, self_type, status_websocket, inbox_site, conn, tobrowser>>
     ELSE Close(p) /\ UNCHANGED tobrowser

(* ... then its operation.                                                 *)
dump_rest(p) ==
  /\ Consumer(p, "rest") /\ Now(p, "nothing")
  /\ ToBrowser(p, [read[p] EXCEPT !.op = op_version])
  /\ UNCHANGED <<group, self_type, status_websocket, read, inbox_site, conn, losses>>

Mutant_site_updated(p) ==
  /\ Consumer(p, "nothing") /\ conn[p] = "open" /\ inbox_site[p] > 0
  /\ inbox_site' = [inbox_site EXCEPT ![p] = @ - 1] /\ Now(p, "rest")
  /\ UNCHANGED <<group, self_type, status_websocket, read, conn, tobrowser, losses>>

(* site_updated and operation_updated                                      *)
site_updated(p) ==
  /\ Consumer(p, "nothing") /\ conn[p] = "open" /\ inbox_site[p] > 0
  /\ inbox_site' = [inbox_site EXCEPT ![p] = @ - 1] /\ Now(p, "refresh")
  /\ UNCHANGED <<group, self_type, status_websocket, read, conn, tobrowser, losses>>

(* status_websocket_mainloop: the appserver closes the connection.         *)
status_lost(p) ==
  /\ Consumer(p, "nothing") /\ conn[p] = "open" /\ status_websocket[p] /\ Loss
  /\ Close(p) /\ UNCHANGED tobrowser

-----------------------------------------------------------------------------
(* The page: site-info.js *)

Browser(p) == UNCHANGED <<rowvars, owed, unsent>>

(* On null the page says that the site is deleted and closes for good.     *)
message_listener(p) ==
  /\ Browser(p) /\ conn[p] \in {"open", "closing"} /\ tobrowser[p] # <<>>
  /\ shows_site' = [shows_site EXCEPT ![p] = Head(tobrowser[p])]
  /\ IF Head(tobrowser[p]) = Deleted
     THEN /\ conn' = [conn EXCEPT ![p] = "finished"] /\ tobrowser' = [tobrowser EXCEPT ![p] = <<>>]
          /\ Now(p, "nothing") /\ group' = group \ {p}
          /\ inbox_site' = [inbox_site EXCEPT ![p] = 0]
          /\ status_websocket' = [status_websocket EXCEPT ![p] = FALSE]
     ELSE /\ tobrowser' = [tobrowser EXCEPT ![p] = Tail(@)]
          /\ UNCHANGED <<conn, doing, group, inbox_site, status_websocket>>
  /\ UNCHANGED <<self_type, read, losses>>

Mutant_reconnect(p) ==
  /\ Browser(p) /\ conn[p] = "closing" /\ tobrowser[p] = <<>>
  /\ conn' = [conn EXCEPT ![p] = "finished"]
  /\ UNCHANGED <<consumervars, tobrowser, shows_site, losses>>

(* ReconnectingWebSocket                                                   *)
reconnect(p) ==
  /\ Browser(p) /\ conn[p] = "closing" /\ tobrowser[p] = <<>>
  /\ conn' = [conn EXCEPT ![p] = "closed"]
  /\ UNCHANGED <<consumervars, tobrowser, shows_site, losses>>

(* The network fails, and what was under way is lost.         *)
connection_drops(p) ==
  /\ Browser(p) /\ conn[p] = "open" /\ doing[p] = "nothing" /\ Loss
  /\ Close(p) /\ tobrowser' = [tobrowser EXCEPT ![p] = <<>>]
  /\ UNCHANGED shows_site

(* The user opens the page, which shows the site as it is then.            *)
open_page(p) ==
  /\ Browser(p) /\ conn[p] = "unopened" /\ May(p)
  /\ conn' = [conn EXCEPT ![p] = "closed"]
  /\ shows_site' = [shows_site EXCEPT ![p] = Current]
  /\ UNCHANGED <<consumervars, tobrowser, losses>>

PageStep(p) ==
  \/ connect_site(p) \/ group_add(p) \/ refresh_from_db(p) \/ dump_rest(p)
  \/ site_updated(p) \/ message_listener(p) \/ reconnect(p)

StatusNext ==
  \/ save_site \/ save_operation \/ delete_site \/ send_message \/ sender_dies
  \/ \E p \in Pages : \/ edit_users(p) \/ open_page(p) \/ PageStep(p) \/ open_status_websocket(p)
                      \/ status_lost(p) \/ connection_drops(p)

(* Who saved goes on to send, and pages and consumers make progress;       *)
(* nobody has to change anything.                                          *)
StatusFairness ==
  /\ WF_statusvars(send_message)
  /\ \A p \in Pages : /\ WF_statusvars(PageStep(p))
                      /\ WF_statusvars(open_status_websocket(p))

StatusSpec == StatusInit /\ [][StatusNext]_statusvars /\ StatusFairness

-----------------------------------------------------------------------------

StatusTypeOK ==
  /\ type \in {"static", "dynamic"} /\ editors \subseteq Pages /\ group \subseteq Pages
  /\ owed \in Nat /\ unsent \in BOOLEAN
  /\ conn \in [Pages -> {"unopened", "closed", "connecting", "open", "closing", "finished"}]
  /\ doing \in [Pages -> {"nothing", "join", "status", "refresh", "rest"}]
  /\ \A p \in group : conn[p] \in {"connecting", "open"}

(* Nothing is on its way to the page, and no message is still to be sent.  *)
Quiet(p) ==
  /\ owed = 0 /\ ~unsent
  /\ conn[p] = "open" /\ doing[p] = "nothing" /\ inbox_site[p] = 0 /\ tobrowser[p] = <<>>

(* A connected page of a site that exists shows the row as it is, however  *)
(* changes, messages and reconnections interleave, and watches the status  *)
(* exactly if the site is dynamic now.                                     *)
ShownIsCurrent ==
  \A p \in Pages :
    Quiet(p) /\ May(p) => /\ shows_site[p] = Current
                          /\ status_websocket[p] = (type = "dynamic")

(* A page of a site that was deleted says so: "send_site_info() will send  *)
(* null.  This allows the page to recognize that the site doesn't exist    *)
(* and display the site deleted message."                                  *)
DeletedIsShown ==
  \A p \in Pages : ~exists_row => ~(Quiet(p) /\ shows_site[p] # Deleted)

(* Each page of a site that exists gets to show the current row again and  *)
(* again, through lost connections and unreachable appservers.             *)
PagesCatchUp ==
  \A p \in Pages :
    []<>(May(p) /\ ~unsent /\ conn[p] # "unopened" => shows_site[p] = Current)
=============================================================================

---------------------------- MODULE WebTerminal ----------------------------
(***************************************************************************)
(* The terminals of one site.  A terminal session of a browser goes        *)
(* through the manager's consumer to the first appserver that answers; a   *)
(* session of the shell server comes there with a token.  On an appserver  *)
(* all sessions of the site share the container site_NNNN_terminal, which  *)
(* whoever comes first creates, whoever finds its image out of date        *)
(* replaces, and which ends some hours after the last heartbeat.           *)
(*                                                                         *)
(* Docker gives a name to one container at a time.  Images are numbered in *)
(* the order they were pushed to the registry.                             *)
(***************************************************************************)
EXTENDS Naturals, FiniteSets

CONSTANTS
  Terminals,     (* sessions                                                *)
  SSHSessions,   (* those of the shell server                               *)
  NumHosts,      (* DIRECTOR_NUM_APPSERVERS                                 *)
  MaxPushes,     (* bound: images pushed, after the first                   *)
  MaxFailures    (* bound: connections and starts that fail, expirations    *)

ASSUME TerminalAssumption ==
  /\ SSHSessions \subseteq Terminals
  /\ NumHosts \in Nat \ {0}
  /\ MaxPushes \in Nat /\ MaxFailures \in Nat

Hosts == 0 .. NumHosts - 1
NoContainer == [id |-> 0, image |-> 0, state |-> "none"]

VARIABLES
  registry,    (* the newest image                                          *)
  tagged,      (* the image the tag leads to on each appserver              *)
  container,   (* what has the name of the terminal on each appserver       *)
  created,     (* containers created so far                                 *)
  stage,       (* where each session is                                     *)
  page,        (* what the page shows; "gone" when the browser left         *)
  host, orig,  (* appserver_num, orig_appserver_num                         *)
  not_answering,  (* auxiliary: appservers that did not answer              *)
  mine,        (* self.container: its id and image                          *)
  pulled,      (* the image that was pulled                                 *)
  failures

dockervars == <<registry, tagged, container, created>>
sessionvars == <<stage, page, host, orig, not_answering, mine, pulled>>
terminalvars == <<dockervars, sessionvars, failures>>

Stages == {"idle", "trying", "refused", "params", "launch", "starting", "pull", "check",
           "wait", "relaunch", "restarting", "exec", "attached", "ended"}

TerminalInit ==
  /\ registry = 0 /\ tagged = [h \in Hosts |-> 0]
  /\ container = [h \in Hosts |-> NoContainer] /\ created = 0
  /\ stage = [t \in Terminals |-> "idle"]
  /\ page = [t \in Terminals |-> "connecting"]
  /\ host = [t \in Terminals |-> 0] /\ orig = host
  /\ not_answering = [t \in Terminals |-> {}]
  /\ mine = [t \in Terminals |-> NoContainer] /\ pulled = [t \in Terminals |-> 0]
  /\ failures = 0

Goes(t, from, to) == stage[t] = from /\ stage' = [stage EXCEPT ![t] = to]
Fault == failures < MaxFailures /\ failures' = failures + 1
Shows(t, p) == page' = [page EXCEPT ![t] = IF @ = "gone" THEN @ ELSE p]

-----------------------------------------------------------------------------
(* SiteTerminalConsumer.  hash() of a string differs between processes, so *)
(* each session may begin with another appserver.                          *)

connect(t) ==
  /\ Goes(t, "idle", "trying")
  /\ \E h \in Hosts : host' = [host EXCEPT ![t] = h] /\ orig' = [orig EXCEPT ![t] = h]
  /\ UNCHANGED <<dockervars, page, not_answering, mine, pulled, failures>>

Mutant_next_appserver(h) == IF h + 1 = NumHosts THEN h ELSE h + 1
Mutant_last_appserver(h) == h + 1

next_appserver(h) == (h + 1) % NumHosts

open_fails(t) ==
  /\ stage[t] = "trying" /\ Fault
  /\ LET next == next_appserver(host[t])
     IN  /\ host' = [host EXCEPT ![t] = next]
         /\ not_answering' = [not_answering EXCEPT ![t] = @ \union {host[t]}]
         /\ IF next = orig[t]
            THEN stage' = [stage EXCEPT ![t] = "refused"] /\ Shows(t, "disconnected")
            ELSE UNCHANGED <<stage, page>>
  /\ UNCHANGED <<dockervars, orig, mine, pulled>>

open_succeeds(t) ==
  /\ Goes(t, "trying", "params")
  /\ UNCHANGED <<dockervars, page, host, orig, not_answering, mine, pulled, failures>>

(* The browser is closed.  connect() is not interrupted, and the appserver *)
(* notices when it next reads or writes.                                   *)
disconnect(t) ==
  /\ page[t] # "gone" /\ stage[t] # "idle"
  /\ page' = [page EXCEPT ![t] = "gone"]
  /\ UNCHANGED <<dockervars, stage, host, orig, not_answering, mine, pulled, failures>>

-----------------------------------------------------------------------------
(* web_terminal_handler and ssh_shell_handler *)

Step(t, from, to) ==
  /\ Goes(t, from, to)
  /\ UNCHANGED <<host, orig, not_answering, failures>>

(* The handler returns and the websocket is closed.                        *)
Return(t, from) == Step(t, from, "ended") /\ Shows(t, "disconnected")

Params(t) ==
  /\ IF page[t] = "gone" THEN Return(t, "params")
     ELSE Step(t, "params", "launch") /\ Shows(t, "launching")
  /\ UNCHANGED <<dockervars, mine, pulled>>

(* The site's data arrives from the manager, and the handler says          *)
(* {"connected": true}.                                                    *)
web_terminal_handler(t) == t \notin SSHSessions /\ Params(t)

(* The same with a token, which is accepted ...                            *)
ssh_shell_handler(t) == t \in SSHSessions /\ Params(t)

(* ... or is expired, forged or for another site.                          *)
load_token_fails(t) ==
  /\ t \in SSHSessions
  /\ Fault /\ Goes(t, "params", "ended") /\ Shows(t, "disconnected")
  /\ UNCHANGED <<dockervars, host, orig, not_answering, mine, pulled>>

(* containers.list leaves out those that do not run.                       *)
get_container(h) == container[h].state = "running"

(* get_or_create_container: one that runs is taken; one that has the name  *)
(* and does not run is a conflict, and the call is made again.             *)
_launch_container(t, from, starting, next) ==
  LET h == host[t]
      new == [id |-> created + 1, image |-> tagged[h], state |-> "created"]
  IN  \/ /\ get_container(h)
         /\ Step(t, from, next)
         /\ mine' = [mine EXCEPT ![t] = container[h]]
         /\ UNCHANGED <<dockervars, page, pulled>>
      \/ /\ container[h].state = "none"
         /\ Step(t, from, starting)
         /\ container' = [container EXCEPT ![h] = new]
         /\ created' = created + 1
         /\ mine' = [mine EXCEPT ![t] = new]
         /\ UNCHANGED <<registry, tagged, page, pulled>>

launch(t) == _launch_container(t, "launch", "starting", "pull")
relaunch(t) == _launch_container(t, "relaunch", "restarting", "exec")

(* The second call of containers.run.                                      *)
run_starts(t) ==
  /\ \/ Step(t, "starting", "pull")
     \/ Step(t, "restarting", "exec")
  /\ container' = [container EXCEPT ![host[t]].state = "running"]
  /\ UNCHANGED <<registry, tagged, created, page, mine, pulled>>

(* Docker cannot start it.  Nothing removes a container that never ran.    *)
run_fails(t) ==
  /\ Fault
  /\ stage[t] \in {"starting", "restarting"}
  /\ stage' = [stage EXCEPT ![t] = "ended"] /\ Shows(t, "disconnected")
  /\ UNCHANGED <<dockervars, host, orig, not_answering, mine, pulled>>

pull(t) ==
  /\ Step(t, "pull", "check")
  /\ pulled' = [pulled EXCEPT ![t] = registry]
  /\ tagged' = [tagged EXCEPT ![host[t]] = registry]
  /\ UNCHANGED <<registry, container, created, page, mine>>

IsMine(t) == container[host[t]].id = mine[t].id

Mutant_up_to_date(t) == TRUE
Mutant_never_up_to_date(t) == FALSE

up_to_date(t) == mine[t].image = pulled[t]

(* stop() of a container that is gone is an error; of one that is being    *)
(* removed it is not.                                                      *)
check(t) ==
  /\ IF up_to_date(t) THEN Step(t, "check", "exec") /\ UNCHANGED <<page, container>>
     ELSE IF IsMine(t)
     THEN /\ Step(t, "check", "wait")
          /\ container' = [container EXCEPT ![host[t]].state = "dying"]
          /\ UNCHANGED page
     ELSE Return(t, "check") /\ UNCHANGED container
  /\ UNCHANGED <<registry, tagged, created, mine, pulled>>

wait(t) ==
  /\ Step(t, "wait", "relaunch")
  /\ UNCHANGED <<dockervars, page, mine, pulled>>

Mutant_exec(t) ==
  /\ IsMine(t) /\ container[host[t]].state = "running"
  /\ Step(t, "exec", "attached") /\ Shows(t, "live")
  /\ UNCHANGED <<dockervars, mine, pulled>>

(* exec_create, exec_start, and the first heartbeat.                       *)
exec(t) ==
  /\ IF IsMine(t) /\ container[host[t]].state = "running"
     THEN Step(t, "exec", "attached") /\ Shows(t, "live")
     ELSE Return(t, "exec")
  /\ UNCHANGED <<dockervars, mine, pulled>>

(* websock_loop, terminal_loop, stop_event and the maximum lifetime: one   *)
(* that ends cancels the others, and the terminal is closed.               *)
web_terminal_ends(t) ==
  /\ t \notin SSHSessions
  /\ Return(t, "attached")
  /\ UNCHANGED <<dockervars, mine, pulled>>

ssh_shell_ends(t) ==
  /\ t \in SSHSessions
  /\ Return(t, "attached")
  /\ UNCHANGED <<dockervars, mine, pulled>>

mainloop_ends(t) == web_terminal_ends(t) \/ ssh_shell_ends(t)

MustEnd(t) == page[t] = "gone" \/ ~(IsMine(t) /\ container[host[t]].state = "running")

-----------------------------------------------------------------------------
(* Docker *)

Push ==
  /\ registry < MaxPushes
  /\ registry' = registry + 1
  /\ UNCHANGED <<tagged, container, created, sessionvars, failures>>

(* auto_remove                                                             *)
RemoveContainer(h) ==
  /\ container[h].state = "dying"
  /\ container' = [container EXCEPT ![h] = NoContainer]
  /\ UNCHANGED <<registry, tagged, created, sessionvars, failures>>

(* The keepalive program saw no heartbeat; who is attached sends them.     *)
Expire(h) ==
  /\ container[h].state = "running"
  /\ \A t \in Terminals : ~(stage[t] = "attached" /\ host[t] = h)
  /\ Fault
  /\ container' = [container EXCEPT ![h].state = "dying"]
  /\ UNCHANGED <<registry, tagged, created, sessionvars>>

HandlerStep(t) ==
  \/ web_terminal_handler(t) \/ ssh_shell_handler(t) \/ launch(t) \/ relaunch(t) \/ run_starts(t) \/ pull(t)
  \/ check(t) \/ wait(t) \/ exec(t)

TerminalNext ==
  \/ \E t \in Terminals :
       \/ connect(t) \/ open_fails(t) \/ open_succeeds(t) \/ disconnect(t)
       \/ HandlerStep(t) \/ load_token_fails(t) \/ run_fails(t) \/ mainloop_ends(t)
  \/ Push
  \/ \E h \in Hosts : RemoveContainer(h) \/ Expire(h)

(* Handlers and connections make progress, and Docker removes what has     *)
(* stopped.  Nobody has to open or close a browser or push an image.       *)
TerminalFairness ==
  /\ \A t \in Terminals : /\ WF_terminalvars(HandlerStep(t))
                          /\ WF_terminalvars(open_succeeds(t))
                          /\ WF_terminalvars(MustEnd(t) /\ mainloop_ends(t))
  /\ \A h \in Hosts : WF_terminalvars(RemoveContainer(h))

TerminalSpec == TerminalInit /\ [][TerminalNext]_terminalvars /\ TerminalFairness

-----------------------------------------------------------------------------

TerminalTypeOK ==
  /\ registry \in 0..MaxPushes /\ tagged \in [Hosts -> 0..MaxPushes]
  /\ \A h \in Hosts : /\ container[h].id \in 0..created
                      /\ container[h].image \in 0..registry
                      /\ container[h].state \in {"none", "created", "running", "dying"}
  /\ stage \in [Terminals -> Stages]
  /\ host \in [Terminals -> Hosts] /\ orig \in [Terminals -> Hosts]

(* A shell that opens runs in a container no older than the image its      *)
(* session pulled, whoever created the container.                          *)
FreshImage ==
  \A t \in Terminals : stage[t] \in {"exec", "attached"} => mine[t].image >= pulled[t]

(* Opening a terminal stops the container of others only if a newer image  *)
(* has been pushed since it was created: sessions that open at the same    *)
(* time do not take each other's container away.                           *)
OnlyPushesCut ==
  [][\A h \in Hosts : \A t \in Terminals :
       /\ stage[t] = "attached" /\ host[t] = h /\ mine[t].id = container[h].id
       /\ container[h].state = "running" /\ container'[h].state = "dying"
       => container[h].image < registry]_terminalvars

(* The consumer gives up only when no appserver answered.                  *)
RefusedByAll ==
  \A t \in Terminals : stage[t] = "refused" => not_answering[t] = Hosts

(* The name belongs to a container that was created and never started.     *)
Stuck(h) ==
  /\ container[h].state = "created"
  /\ \A t \in Terminals :
       ~(stage[t] \in {"starting", "restarting"} /\ host[t] = h /\ IsMine(t))

(* A session that a browser has left ends on the appserver, unless the     *)
(* container could not be started: then every launch is tried for ever.    *)
LeftSessionsEnd ==
  \A t \in Terminals :
    stage[t] \notin {"idle", "refused"} /\ page[t] = "gone"
      ~> stage[t] \in {"ended", "refused"} \/ Stuck(host[t])
=============================================================================

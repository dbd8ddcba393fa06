---------------------------- MODULE NginxConfig ----------------------------
(***************************************************************************)
(* The Nginx configurations of the sites on the appservers.  The appserver *)
(* that an operation picks writes the site's file into the directory all   *)
(* of them share; then every appserver that answered a ping is asked to    *)
(* reload, at the same time.  If that fails the file is moved out of the   *)
(* way.  Operations of different sites interleave, and Nginx rejects all   *)
(* files when one of them is wrong.  A task may stop between two of its    *)
(* steps: it is superseded by a reset of the site, or its worker dies.     *)
(*                                                                         *)
(* A configuration is the number of the operation that wrote it, 0 for no  *)
(* file; some are wrong.  The .bak and .bad files are never read.          *)
(***************************************************************************)
EXTENDS Naturals

CONSTANTS
  NginxSites,    (* sites                                                   *)
  Appservers,    (* the appservers that can be pinged                       *)
  MaxConfigs,    (* bound: operations                                       *)
  MaxTimeouts    (* bound: requests and waits that fail or take too long,   *)
                 (* and Nginx tasks that stop                               *)

(* Without any, the operation fails before it begins.                      *)
ASSUME NginxAssumption == Appservers # {} /\ MaxConfigs \in Nat /\ MaxTimeouts \in Nat

VARIABLES
  conf,        (* the file of each site                                     *)
  wrong,       (* configurations that Nginx rejects                         *)
  nginx,       (* what Docker says of the Nginx task of each appserver      *)
  loaded,      (* what the Nginx of each appserver serves                   *)
  hup,         (* Nginx masters that were told to reload and have not yet   *)
  stray,       (* appservers asked to reload by nobody who still waits      *)
  operation,   (* where each site's operation is                            *)
  config,      (* the configuration it writes                               *)
  writing,     (* what requests nobody waits for any more will write        *)
  reload,      (* the reload it asked each appserver for                    *)
  rejected,    (* auxiliary: that reload was rejected by Nginx              *)
  overdue,     (* auxiliary: that reload failed otherwise or took too long  *)
  skipped,     (* auxiliary: there was no running task to reload, and Nginx *)
               (* has not read the files since                              *)
  missed,      (* auxiliary: Nginx masters that found a wrong file when     *)
               (* they last reloaded, after the command had found none      *)
  unclean,     (* auxiliary: sites whose file nobody may have checked: a    *)
               (* late write, a failed disable, a task that stopped, no     *)
               (* Nginx to reload                                           *)
  configs, timeouts

servervars == <<nginx, loaded, hup, missed>>
reloadvars == <<reload, rejected, overdue, skipped, stray>>
nginxvars == <<conf, wrong, servervars, operation, config, writing, reloadvars, unclean,
               configs, timeouts>>

Operations == {"none", "update", "writing", "written", "reload", "remove", "unlinked",
               "reload_removed", "disable", "done", "removed", "failed", "stopped"}
Reloads == {"none", "sent", "exited", "reaped", "ok", "error"}

NginxInit ==
  /\ conf = [s \in NginxSites |-> 0] /\ wrong = {}
  /\ loaded = [a \in Appservers |-> conf]
  /\ operation = [s \in NginxSites |-> "none"] /\ config = [s \in NginxSites |-> 0]
  /\ writing = [s \in NginxSites |-> {}]
  /\ reload = [s \in NginxSites |-> [a \in Appservers |-> "none"]]
  /\ rejected = [s \in NginxSites |-> {}] /\ overdue = [s \in NginxSites |-> {}]
  /\ skipped = [s \in NginxSites |-> {}] /\ stray = {}
  /\ nginx \in [Appservers -> {"stopped", "starting", "running"}]
  /\ hup = {} /\ missed = {} /\ unclean = {} /\ configs = 0 /\ timeouts = 0

TooLate == timeouts < MaxTimeouts /\ timeouts' = timeouts + 1

Stage(s, from, to) ==
  /\ operation[s] = from /\ operation' = [operation EXCEPT ![s] = to]
  /\ UNCHANGED configs

(* Every file is one that Nginx accepts.                                   *)
Valid == \A t \in NginxSites : conf[t] \notin wrong

(* Nothing is left of earlier requests once the site's own task has set    *)
(* the file and no late request is to come.                                *)
Put(s, c) ==
  /\ conf' = [conf EXCEPT ![s] = c]
  /\ unclean' = IF writing[s] = {} THEN unclean \ {s} ELSE unclean
  /\ UNCHANGED writing

-----------------------------------------------------------------------------
(* update_appserver_nginx_config and remove_appserver_nginx_config *)

Mutant_Begin(s, stage) ==
  /\ operation[s] \in {"none", "done", "removed", "failed", "stopped"}
  /\ configs < MaxConfigs /\ configs' = configs + 1
  /\ operation' = [operation EXCEPT ![s] = stage]
  /\ rejected' = [rejected EXCEPT ![s] = {}] /\ overdue' = [overdue EXCEPT ![s] = {}]
  /\ skipped' = [skipped EXCEPT ![s] = {}]
  /\ UNCHANGED <<conf, servervars, writing, reload, stray, unclean, timeouts>>

Begin(s, stage) ==
  /\ operation[s] \in {"none", "done", "removed", "failed", "stopped"}
  /\ configs < MaxConfigs /\ configs' = configs + 1
  /\ operation' = [operation EXCEPT ![s] = stage]
  /\ reload' = [reload EXCEPT ![s] = [a \in Appservers |-> "none"]]
  /\ rejected' = [rejected EXCEPT ![s] = {}] /\ overdue' = [overdue EXCEPT ![s] = {}]
  /\ skipped' = [skipped EXCEPT ![s] = {}]
  /\ UNCHANGED <<conf, servervars, writing, stray, unclean, timeouts>>

update(s) ==
  /\ Begin(s, "update")
  /\ config' = [config EXCEPT ![s] = configs']
  /\ wrong' \in {wrong, wrong \union {configs'}}

remove(s) == Begin(s, "remove") /\ config' = [config EXCEPT ![s] = 0] /\ UNCHANGED wrong

(* update_nginx_config moves the old file away and then writes the new     *)
(* one: a reload between the two does not see the site.                    *)
move_to_bak(s) ==
  /\ Stage(s, "update", "writing") /\ Put(s, 0)
  /\ UNCHANGED <<wrong, servervars, config, reloadvars, timeouts>>

write_config(s) ==
  /\ Stage(s, "writing", "written") /\ Put(s, config[s])
  /\ UNCHANGED <<wrong, servervars, config, reloadvars, timeouts>>

remove_config(s) ==
  /\ Stage(s, "remove", "unlinked") /\ Put(s, 0)
  /\ UNCHANGED <<wrong, servervars, config, reloadvars, timeouts>>

(* The appserver may still carry out a request of which the task does not  *)
(* learn: it writes c.                                                     *)
MayStillWrite(s, c) ==
  \/ UNCHANGED <<writing, unclean>>
  \/ /\ writing' = [writing EXCEPT ![s] = @ \union {c}]
     /\ unclean' = unclean \union {s}

(* The request fails: the data is refused, the disk is full, or the answer *)
(* does not come in time and the appserver changes the file later.         *)
RequestFails(s) ==
  /\ TooLate /\ MayStillWrite(s, config[s])
  /\ UNCHANGED <<conf, wrong, servervars, config, reloadvars>>

update_fails(s) ==
  /\ Stage(s, "update", "disable") \/ Stage(s, "writing", "disable")
  /\ RequestFails(s)

remove_fails(s) == Stage(s, "remove", "failed") /\ RequestFails(s)

late_write(s, c) ==
  /\ c \in writing[s]
  /\ writing' = [writing EXCEPT ![s] = @ \ {c}]
  /\ conf' = [conf EXCEPT ![s] = c]
  /\ UNCHANGED <<wrong, servervars, operation, config, reloadvars, unclean, configs, timeouts>>

(* Between the answer and the reload the task saves its action.            *)
ask_reload(s) ==
  /\ Stage(s, "written", "reload") \/ Stage(s, "unlinked", "reload_removed")
  /\ reload' = [reload EXCEPT ![s] = [a \in Appservers |-> "sent"]]
  /\ UNCHANGED <<conf, wrong, servervars, config, writing, rejected, overdue, skipped, stray,
                 unclean, timeouts>>

Answered(s) == \A a \in Appservers : reload[s][a] \in {"ok", "error"}

Mutant_Failed(s) == \A a \in Appservers : reload[s][a] = "error"

(* reload_nginx_on_appservers raises if one of them failed.                *)
Failed(s) == \E a \in Appservers : reload[s][a] = "error"

(* No appserver had an Nginx to check the file.                            *)
Unchecked(s) == skipped[s] = Appservers

Mutant_reloaded(s) ==
  /\ Answered(s)
  /\ Stage(s, "reload", IF Failed(s) THEN "failed" ELSE "done")
  /\ unclean' = IF Unchecked(s) THEN unclean \union {s} ELSE unclean
  /\ UNCHANGED <<conf, wrong, servervars, config, writing, reloadvars, timeouts>>

reloaded(s) ==
  /\ Answered(s)
  /\ Stage(s, "reload", IF Failed(s) THEN "disable" ELSE "done")
  /\ unclean' = IF Unchecked(s) THEN unclean \union {s} ELSE unclean
  /\ UNCHANGED <<conf, wrong, servervars, config, writing, reloadvars, timeouts>>

reloaded_removed(s) ==
  /\ Answered(s)
  /\ Stage(s, "reload_removed", IF Failed(s) THEN "failed" ELSE "removed")
  /\ UNCHANGED <<conf, wrong, servervars, config, writing, reloadvars, unclean, timeouts>>

(* The file is moved away and Nginx is not asked to reload.                *)
disable_config(s) ==
  /\ Stage(s, "disable", "failed") /\ Put(s, 0)
  /\ UNCHANGED <<wrong, servervars, config, reloadvars, timeouts>>

disable_fails(s) ==
  /\ Stage(s, "disable", "failed") /\ TooLate
  /\ unclean' = unclean \union {s}
  /\ writing' \in {writing, [writing EXCEPT ![s] = @ \union {0}]}
  /\ UNCHANGED <<conf, wrong, servervars, config, reloadvars>>

(* The task is superseded or dies.  Whatever it asked for may still be     *)
(* carried out.                                                            *)
InFlight(s) ==
  CASE operation[s] \in {"update", "writing"} -> {config[s]}
    [] operation[s] \in {"remove", "disable"} -> {0}
    [] OTHER -> {}

stop(s) ==
  /\ operation[s] \notin {"none", "done", "removed", "failed", "stopped"}
  /\ operation' = [operation EXCEPT ![s] = "stopped"]
  /\ writing' \in {writing, [writing EXCEPT ![s] = @ \union InFlight(s)]}
  /\ stray' = stray \union {a \in Appservers : reload[s][a] = "sent"}
  /\ reload' = [reload EXCEPT ![s] = [a \in Appservers |-> "none"]]
  /\ rejected' = [rejected EXCEPT ![s] = {}] /\ overdue' = [overdue EXCEPT ![s] = {}]
  /\ skipped' = [skipped EXCEPT ![s] = {}]
  /\ unclean' = unclean \union {s}
  /\ UNCHANGED <<conf, wrong, servervars, config, configs, timeouts>>

-----------------------------------------------------------------------------
(* reload_nginx_config: an exec in the Nginx container of the appserver.   *)

Reloading(s, a, from, to) ==
  /\ operation[s] \in {"reload", "reload_removed"}
  /\ reload[s][a] = from /\ reload' = [reload EXCEPT ![s][a] = to]
  /\ UNCHANGED <<conf, wrong, nginx, loaded, missed, operation, config, writing, unclean, configs>>

(* nginx -s reload reads every file and, if they are right, signals the    *)
(* master.  If no task runs on the node nothing is done, and that is a     *)
(* success.                                                                *)
nginx_reload(s, a) ==
  \/ /\ nginx[a] = "running"
     /\ Reloading(s, a, "sent", "exited")
     /\ IF Valid THEN hup' = hup \union {a} /\ UNCHANGED rejected
                 ELSE rejected' = [rejected EXCEPT ![s] = @ \union {a}] /\ UNCHANGED hup
     /\ UNCHANGED <<skipped, overdue, stray, timeouts>>
  \/ /\ nginx[a] # "running"
     /\ Reloading(s, a, "sent", "ok")
     /\ skipped' = [skipped EXCEPT ![s] = @ \union {a}]
     /\ UNCHANGED <<rejected, hup, overdue, stray, timeouts>>

(* For a moment Docker says that the exec does not run and has no exit     *)
(* code.                                                                   *)
reap(s, a) ==
  /\ Reloading(s, a, "exited", "reaped")
  /\ UNCHANGED <<hup, rejected, overdue, skipped, stray, timeouts>>

ExitCode(s, a) == IF a \in rejected[s] THEN "error" ELSE "ok"

_wait_for_exec_exit_code(s, a) ==
  /\ Reloading(s, a, "reaped", ExitCode(s, a))
  /\ UNCHANGED <<hup, rejected, overdue, skipped, stray, timeouts>>

(* Docker or the container fails, or the deadline passes, here or in the   *)
(* manager's request, before or after Nginx reloads.                       *)
deadline(s, a) ==
  /\ \/ Reloading(s, a, "sent", "error") /\ stray' = stray \union {a}
     \/ \E from \in {"exited", "reaped"} : Reloading(s, a, from, "error") /\ UNCHANGED stray
  /\ TooLate
  /\ overdue' = [overdue EXCEPT ![s] = @ \union {a}]
  /\ UNCHANGED <<hup, rejected, skipped>>

stray_reload(a) ==
  /\ a \in stray /\ stray' = stray \ {a}
  /\ hup' = IF nginx[a] = "running" /\ Valid THEN hup \union {a} ELSE hup
  /\ UNCHANGED <<conf, wrong, nginx, loaded, missed, operation, config, writing, reload, rejected,
                 overdue, skipped, unclean, configs, timeouts>>

-----------------------------------------------------------------------------
(* The Nginx of an appserver *)

Load(a) ==
  /\ loaded' = [loaded EXCEPT ![a] = conf]
  /\ missed' = missed \ {a}
  /\ skipped' = [s \in NginxSites |-> skipped[s] \ {a}]

ServerStep ==
  UNCHANGED <<conf, wrong, operation, config, writing, reload, rejected, overdue, stray, unclean,
              configs>>

(* The master reads the files again when it gets to the signal, and keeps  *)
(* what it has if one is wrong by now.                                     *)
master_reloads(a) ==
  /\ a \in hup /\ hup' = hup \ {a}
  /\ \/ Valid /\ Load(a)
     \/ ~Valid /\ missed' = missed \union {a} /\ UNCHANGED <<loaded, skipped>>
  /\ UNCHANGED <<nginx, timeouts>> /\ ServerStep

nginx_stops(a) ==
  /\ nginx[a] # "stopped" /\ nginx' = [nginx EXCEPT ![a] = "stopped"] /\ TooLate
  /\ hup' = hup \ {a} /\ UNCHANGED <<loaded, missed, skipped>> /\ ServerStep

(* It does not start while a file is wrong, and Docker does not show the   *)
(* task as running at once.                                                *)
nginx_starts(a) ==
  /\ nginx[a] = "stopped" /\ nginx' = [nginx EXCEPT ![a] = "starting"]
  /\ Valid /\ Load(a)
  /\ UNCHANGED <<hup, timeouts>> /\ ServerStep

task_runs(a) ==
  /\ nginx[a] = "starting" /\ nginx' = [nginx EXCEPT ![a] = "running"]
  /\ UNCHANGED <<loaded, hup, missed, skipped, timeouts>> /\ ServerStep

NginxNext ==
  \/ \E s \in NginxSites :
       \/ update(s) \/ remove(s) \/ move_to_bak(s) \/ write_config(s) \/ update_fails(s)
       \/ remove_config(s) \/ remove_fails(s) \/ ask_reload(s) \/ reloaded(s)
       \/ reloaded_removed(s) \/ disable_config(s) \/ disable_fails(s) \/ stop(s)
       \/ \E c \in 0..MaxConfigs : late_write(s, c)
       \/ \E a \in Appservers : \/ nginx_reload(s, a) \/ reap(s, a)
                                \/ _wait_for_exec_exit_code(s, a) \/ deadline(s, a)
  \/ \E a \in Appservers : \/ stray_reload(a) \/ master_reloads(a) \/ nginx_stops(a)
                           \/ nginx_starts(a) \/ task_runs(a)

NginxSpec == NginxInit /\ [][NginxNext]_nginxvars

-----------------------------------------------------------------------------

NginxTypeOK ==
  /\ configs \in Nat /\ timeouts \in Nat /\ wrong \subseteq Nat /\ unclean \subseteq NginxSites
  /\ conf \in [NginxSites -> Nat] /\ config \in [NginxSites -> Nat]
  /\ nginx \in [Appservers -> {"stopped", "starting", "running"}]
  /\ loaded \in [Appservers -> [NginxSites -> Nat]]
  /\ hup \subseteq Appservers /\ missed \subseteq Appservers /\ stray \subseteq Appservers
  /\ writing \in [NginxSites -> SUBSET Nat]
  /\ operation \in [NginxSites -> Operations]
  /\ reload \in [NginxSites -> [Appservers -> Reloads]]
  /\ \A s \in NginxSites : \A a \in Appservers :
       operation[s] \in {"update", "writing", "written", "remove", "unlinked"}
         => reload[s][a] = "none"
  /\ rejected \in [NginxSites -> SUBSET Appservers]
  /\ overdue \in [NginxSites -> SUBSET Appservers]
  /\ skipped \in [NginxSites -> SUBSET Appservers]

(* When an operation has succeeded every Nginx that runs serves exactly    *)
(* what it wrote, whatever operations of other sites do at the same time   *)
(* and whenever tasks stop and Nginx restarts.  Excepted are the masters   *)
(* that have yet to carry out the reload, those that then found another    *)
(* site's wrong file, and those that were reloaded by nobody as Docker did *)
(* not show their task as running, which is a success as well; and sites   *)
(* that an unanswered request may still change.                            *)
DoneIsServed ==
  \A s \in NginxSites :
    operation[s] \in {"done", "removed"} /\ s \notin unclean
      => \A a \in Appservers :
           \/ nginx[a] = "stopped" \/ a \in hup \union missed \union skipped[s]
           \/ loaded[a][s] = config[s]

(* An operation whose configuration Nginx rejects leaves no file behind    *)
(* that would keep every other site from reloading, unless its task was    *)
(* stopped before it could take the file away, or no appserver had an      *)
(* Nginx that would check it.  The next operation puts that right.         *)
NoWrongFileLeft ==
  \A s \in NginxSites :
    operation[s] \in {"none", "done", "removed", "failed"} /\ s \notin unclean
      => conf[s] \notin wrong

(* A reload that Nginx carried out in time is not reported as an error:    *)
(* the exit code is not taken before Docker knows it.                      *)
ReloadReportedRight ==
  \A s \in NginxSites : \A a \in Appservers :
    reload[s][a] = "error" => a \in rejected[s] \union overdue[s]

(* What an operation is told of its reloads is true, success or failure.   *)
ReportsAreTrue == DoneIsServed /\ ReloadReportedRight
=============================================================================

---------------------------- MODULE HostsProofs ----------------------------
(***************************************************************************)
(* Theorems about the components of MCHosts: the configuration files, for  *)
(* any number of sites, appservers and operations; who owns a domain, for  *)
(* any number of names, sites and edits; and the databases of sites and    *)
(* the requests for sites, for any number of requests.                     *)
(***************************************************************************)
EXTENDS MCHosts, SequenceTheorems, TLAPS

(* What an operation may conclude from its reloads, whatever interleaving. *)
(*                                                                         *)
(* A site that no late request threatens keeps its file from the write to  *)
(* the next operation.  So a reload that is checked anywhere after it, of  *)
(* whichever site, shows that the file is not wrong, and whenever a master *)
(* reads the files it reads that one.                                      *)

(* Configurations are numbered in the order of their operations: a new one *)
(* is in no file yet, and the absence of a file is never wrong.            *)
Numbered ==
  /\ wrong \subseteq 1..configs
  /\ \A s \in NginxSites : conf[s] \in 0..configs /\ config[s] \in 0..configs
  /\ \A s \in NginxSites : writing[s] \subseteq 0..configs

Emptied == {"unlinked", "reload_removed", "removed"}

(* What a removal writes is no file.                                       *)
RemovesAll ==
  \A s \in NginxSites : operation[s] \in Emptied \union {"remove"} => config[s] = 0

Between == {"none", "update", "remove", "failed"}
Written == {"written", "reload", "done"} \union Emptied

(* The reload of site s on appserver a was not an error so far.             *)
Accepted(s, a) == reload[s][a] \in {"exited", "reaped", "ok"} /\ a \notin rejected[s]

Serves(s, a) ==
  nginx[a] = "stopped" \/ a \in hup \union missed \union skipped[s] \/ loaded[a][s] = config[s]

Confirmed(s) ==
  \A a \in Appservers :
    Accepted(s, a) => Serves(s, a) /\ (a \in skipped[s] \/ config[s] \notin wrong)

(* What holds of a site without late writes, at each stage.                *)
Clean(s) ==
  /\ writing[s] = {} /\ operation[s] # "stopped"
  /\ operation[s] \in Between => conf[s] \notin wrong
  /\ operation[s] \in Written => conf[s] = config[s] /\ Confirmed(s)
  /\ operation[s] \in {"done", "removed"} => \A a \in Appservers : reload[s][a] = "ok"
  /\ operation[s] = "done" => \E a \in Appservers : a \notin skipped[s]

(* The answer to a reload is the one that Nginx gave, or a failure.        *)
Reported ==
  \A s \in NginxSites : \A a \in Appservers :
    /\ reload[s][a] = "error" => a \in rejected[s] \union overdue[s]
    /\ reload[s][a] \in {"none", "sent", "ok"} => a \notin rejected[s]

NInv ==
  NginxTypeOK /\ Numbered /\ RemovesAll /\ Reported /\ \A s \in NginxSites \ unclean : Clean(s)

LEMMA NginxInitial == NginxInit => NInv
  <1> SUFFICES ASSUME NginxInit PROVE NInv
    OBVIOUS
  <1>1. NginxTypeOK
    BY DEF NginxInit, NginxTypeOK, Operations, Reloads
  <1>2. Numbered
    BY DEF NginxInit, Numbered
  <1>3. Reported
    BY DEF NginxInit, Reported
  <1>4. ASSUME NEW s \in NginxSites PROVE Clean(s)
    BY DEF NginxInit, Clean, Between, Written, Emptied
  <1>5. RemovesAll
    BY DEF NginxInit, RemovesAll
  <1> QED
    BY <1>1, <1>2, <1>3, <1>4, <1>5 DEF NInv

(* A site between two operations, or after one that succeeded, has no      *)
(* wrong file.                                                             *)
LEMMA RestIsRight ==
  ASSUME NInv, NEW s \in NginxSites \ unclean,
         operation[s] \in {"none", "done", "removed", "failed", "stopped"}
  PROVE  conf[s] \notin wrong
  <1>0. Clean(s)
    BY DEF NInv
  <1>1. CASE operation[s] \in {"none", "failed", "stopped"}
    BY <1>0, <1>1 DEF Clean, Between
  <1>2. CASE operation[s] = "done"
    <2>1. PICK a \in Appservers : a \notin skipped[s]
      BY <1>0, <1>2 DEF Clean
    <2>2. Accepted(s, a)
      BY <1>0, <1>2 DEF NInv, Clean, Reported, Accepted
    <2> QED
      BY <1>0, <1>2, <2>1, <2>2 DEF Clean, Written, Confirmed
  <1>3. CASE operation[s] = "removed"
    BY <1>0, <1>3 DEF NInv, Clean, Written, Emptied, Numbered, RemovesAll
  <1> QED
    BY <1>1, <1>2, <1>3

(* Setting one reload, all of a site, or adding to a set keeps the types.   *)
LEMMA SettingOne ==
  ASSUME NEW f \in [NginxSites -> [Appservers -> Reloads]], NEW s \in NginxSites,
         NEW a \in Appservers, NEW v \in Reloads
  PROVE  [f EXCEPT ![s][a] = v] \in [NginxSites -> [Appservers -> Reloads]]
  OBVIOUS

LEMMA SettingAll ==
  ASSUME NEW f \in [NginxSites -> [Appservers -> Reloads]], NEW s \in NginxSites, NEW v \in Reloads
  PROVE  [f EXCEPT ![s] = [a \in Appservers |-> v]] \in [NginxSites -> [Appservers -> Reloads]]
  OBVIOUS

LEMMA Adding ==
  ASSUME NEW f \in [NginxSites -> SUBSET Appservers], NEW s \in NginxSites, NEW a \in Appservers
  PROVE  [f EXCEPT ![s] = f[s] \union {a}] \in [NginxSites -> SUBSET Appservers]
  OBVIOUS

LEMMA StageSet ==
  ASSUME NginxTypeOK, NEW s \in NginxSites, NEW o \in Operations
  PROVE  [operation EXCEPT ![s] = o] \in [NginxSites -> Operations]
  BY DEF NginxTypeOK

(* A step that leaves a site's stage, file and reload as they are, and of  *)
(* the appservers what the reload has shown, leaves it clean.               *)
LEMMA OtherKeeps ==
  ASSUME NEW t \in NginxSites, Clean(t),
         operation'[t] = operation[t], conf'[t] = conf[t], config'[t] = config[t],
         writing'[t] = writing[t], reload'[t] = reload[t], rejected'[t] = rejected[t],
         skipped'[t] = skipped[t], conf[t] \in wrong' => conf[t] \in wrong,
         config[t] \in wrong' => config[t] \in wrong, UNCHANGED servervars
  PROVE  Clean(t)'
  <1>1. Confirmed(t) => Confirmed(t)'
    BY DEF Confirmed, Accepted, Serves, servervars
  <1> QED
    BY <1>1 DEF Clean

(* An operation begins: its configuration is new, also if it is wrong.      *)
LEMMA StartKeeps ==
  ASSUME NInv, NEW s \in NginxSites, update(s) \/ remove(s)
  PROVE  NInv'
  <1> USE DEF NInv
  <1> DEFINE Asked == [a \in Appservers |-> "none"]
  <1>1. /\ operation[s] \in {"none", "done", "removed", "failed", "stopped"}
        /\ configs \in Nat /\ configs' = configs + 1
        /\ reload' = [reload EXCEPT ![s] = Asked]
        /\ rejected' = [rejected EXCEPT ![s] = {}] /\ overdue' = [overdue EXCEPT ![s] = {}]
        /\ skipped' = [skipped EXCEPT ![s] = {}]
        /\ UNCHANGED <<conf, servervars, writing, stray, unclean, timeouts>>
    BY DEF update, remove, Begin, NginxTypeOK
  <1>2. /\ wrong' \in {wrong, wrong \union {configs + 1}}
        /\ \/ /\ config' = [config EXCEPT ![s] = configs + 1]
              /\ operation' = [operation EXCEPT ![s] = "update"]
           \/ /\ config' = [config EXCEPT ![s] = 0]
              /\ operation' = [operation EXCEPT ![s] = "remove"]
    BY <1>1 DEF update, remove, Begin
  <1>3. reload' \in [NginxSites -> [Appservers -> Reloads]]
    BY <1>1, SettingAll DEF Reloads, NginxTypeOK
  <1>4. NginxTypeOK'
    <2>1. /\ operation' \in [NginxSites -> Operations] /\ config' \in [NginxSites -> Nat]
          /\ wrong' \subseteq Nat
      <3>1. "update" \in Operations /\ "remove" \in Operations
        BY DEF Operations
      <3>2. operation' \in [NginxSites -> Operations]
        BY <1>2, <3>1, StageSet
      <3>3. config' \in [NginxSites -> Nat] /\ wrong' \subseteq Nat
        BY <1>1, <1>2 DEF NginxTypeOK
      <3> QED
        BY <3>2, <3>3
    <2>2. /\ rejected' \in [NginxSites -> SUBSET Appservers]
          /\ overdue' \in [NginxSites -> SUBSET Appservers]
          /\ skipped' \in [NginxSites -> SUBSET Appservers]
      BY <1>1 DEF NginxTypeOK
    <2>3. \A t \in NginxSites : \A a \in Appservers :
            operation'[t] \in {"update", "writing", "written", "remove", "unlinked"}
              => reload'[t][a] = "none"
      BY <1>1, <1>2 DEF NginxTypeOK
    <2>4. configs' \in Nat /\ UNCHANGED <<conf, nginx, loaded, hup, missed, writing, stray, unclean, timeouts>>
      BY <1>1 DEF servervars
    <2> QED
      BY <1>3, <2>1, <2>2, <2>3, <2>4 DEF NginxTypeOK
  <1>5. Numbered'
    <2>1. wrong' \subseteq 1..configs'
      BY <1>1, <1>2 DEF Numbered
    <2>2. \A t \in NginxSites : conf'[t] \in 0..configs' /\ config'[t] \in 0..configs'
      BY <1>1, <1>2 DEF Numbered, NginxTypeOK
    <2>3. \A t \in NginxSites : writing'[t] \subseteq 0..configs'
      BY <1>1 DEF Numbered
    <2> QED
      BY <2>1, <2>2, <2>3 DEF Numbered
  <1>6. Reported'
    BY <1>1 DEF Reported, NginxTypeOK
  <1>7. ASSUME NEW t \in NginxSites \ unclean' PROVE Clean(t)'
    <2>1. t \in NginxSites \ unclean /\ Clean(t)
      BY <1>1
    <2>2. \A n \in 0..configs : n \notin wrong => n \notin wrong'
      BY <1>1, <1>2
    <2>3. conf[t] \in 0..configs /\ config[t] \in 0..configs
      BY DEF Numbered
    <2>4. CASE t = s
      <3>1. operation'[t] \in {"update", "remove"} /\ (operation'[t] = "remove" => config'[t] = 0)
        BY <1>2, <2>4 DEF NginxTypeOK
      <3>2. conf[t] \notin wrong'
        BY <1>1, <2>1, <2>2, <2>3, <2>4, RestIsRight
      <3> QED
        BY <1>1, <2>1, <3>1, <3>2 DEF Clean, Between, Written, Emptied
    <2>5. CASE t # s
      <3>1. /\ operation'[t] = operation[t] /\ config'[t] = config[t] /\ reload'[t] = reload[t]
            /\ rejected'[t] = rejected[t] /\ skipped'[t] = skipped[t]
        BY <1>1, <1>2, <2>5 DEF NginxTypeOK
      <3> QED
        BY <1>1, <2>1, <2>2, <2>3, <3>1, OtherKeeps
    <2> QED
      BY <2>4, <2>5
  <1>8. RemovesAll'
    BY <1>2 DEF RemovesAll, Emptied, NginxTypeOK
  <1> QED
    BY <1>4, <1>5, <1>6, <1>7, <1>8

(* The site's own task sets its file: unless a late request is to come, no  *)
(* earlier one can threaten the site any more.                              *)
LEMMA PutKeeps ==
  ASSUME NInv, NEW s \in NginxSites, NEW from, NEW to \in Operations, NEW c, Stage(s, from, to),
         Put(s, c), UNCHANGED <<wrong, servervars, config, reloadvars, timeouts>>,
         \/ from = "update" /\ to = "writing" /\ c = 0
         \/ from = "writing" /\ to = "written" /\ c = config[s]
         \/ from = "remove" /\ to = "unlinked" /\ c = 0
         \/ from = "disable" /\ to = "failed" /\ c = 0
  PROVE  NInv'
  <1> USE DEF NInv
  <1>1. /\ operation[s] = from /\ operation' = [operation EXCEPT ![s] = to]
        /\ conf' = [conf EXCEPT ![s] = c] /\ writing' = writing
        /\ unclean' = IF writing[s] = {} THEN unclean \ {s} ELSE unclean
        /\ UNCHANGED <<wrong, nginx, loaded, hup, missed, servervars, config, reload, rejected,
                       overdue, skipped, stray, timeouts, configs>>
    BY DEF Stage, Put, servervars, reloadvars
  <1>2. c \in 0..configs /\ c \in Nat
    BY DEF Numbered, NginxTypeOK
  <1>3. NginxTypeOK'
    <2>1. conf' \in [NginxSites -> Nat] /\ operation' \in [NginxSites -> Operations]
      BY <1>1, <1>2 DEF NginxTypeOK
    <2>2. \A t \in NginxSites : \A a \in Appservers :
            operation'[t] \in {"update", "writing", "written", "remove", "unlinked"}
              => reload[t][a] = "none"
      BY <1>1 DEF NginxTypeOK
    <2>3. unclean' \subseteq NginxSites
      BY <1>1 DEF NginxTypeOK
    <2> QED
      BY <1>1, <2>1, <2>2, <2>3 DEF NginxTypeOK
  <1>4. Numbered'
    BY <1>1, <1>2 DEF Numbered, NginxTypeOK
  <1>5. Reported'
    BY <1>1 DEF Reported
  <1>6. ASSUME NEW t \in NginxSites \ unclean' PROVE Clean(t)'
    <2>1. CASE t # s
      <3>1. Clean(t)
        BY <1>1, <2>1
      <3> QED
        BY <1>1, <2>1, <3>1, OtherKeeps DEF NginxTypeOK
    <2>2. CASE t = s
      <3>1. writing'[s] = {}
        BY <1>1, <1>6, <2>2 DEF Clean
      <3>2. operation'[s] = to /\ conf'[s] = c /\ config'[s] = config[s]
        BY <1>1 DEF NginxTypeOK
      <3>3. to \in {"written", "unlinked"} => \A a \in Appservers : reload'[s][a] = "none"
        BY <1>1 DEF NginxTypeOK
      <3>4. 0 \notin wrong'
        BY <1>1 DEF Numbered
      <3>5. to \in {"written", "unlinked"} => Confirmed(s)'
        BY <3>3 DEF Confirmed, Accepted
      <3>6. to = "unlinked" => config[s] = 0
        BY <1>1 DEF RemovesAll
      <3>7. /\ to \in {"writing", "written", "unlinked", "failed"}
            /\ to \in {"written", "unlinked"} => conf'[s] = config'[s]
            /\ to = "failed" => conf'[s] \notin wrong'
        BY <3>2, <3>4, <3>6
      <3> QED
        BY <2>2, <3>1, <3>2, <3>5, <3>7 DEF Clean, Between, Written, Emptied
    <2> QED
      BY <2>1, <2>2
  <1>7. RemovesAll'
    BY <1>1 DEF RemovesAll, Emptied, NginxTypeOK
  <1> QED
    BY <1>3, <1>4, <1>5, <1>6, <1>7

LEMMA WriteKeeps ==
  ASSUME NInv, NEW s \in NginxSites,
         move_to_bak(s) \/ write_config(s) \/ remove_config(s) \/ disable_config(s)
  PROVE  NInv'
  <1> USE PutKeeps DEF NInv, Operations
  <1>1. CASE move_to_bak(s)
    BY <1>1 DEF move_to_bak
  <1>2. CASE write_config(s)
    BY <1>2 DEF write_config
  <1>3. CASE remove_config(s)
    BY <1>3 DEF remove_config
  <1>4. CASE disable_config(s)
    BY <1>4 DEF disable_config
  <1> QED
    BY <1>1, <1>2, <1>3, <1>4

(* What a task leaves to be carried out by others concerns its own site,    *)
(* which is unclean from then on.                                           *)
LEMMA LeaveKeeps ==
  ASSUME NInv, NEW s \in NginxSites, NEW to \in {"disable", "failed"},
         operation' = [operation EXCEPT ![s] = to],
         operation[s] \in {"update", "writing", "remove", "disable"},
         UNCHANGED <<conf, wrong, servervars, config, reloadvars, configs>>, timeouts' \in Nat,
         NEW W \in SUBSET (0..configs), writing' = [writing EXCEPT ![s] = @ \union W],
         unclean' \in {unclean, unclean \union {s}},
         s \notin unclean' => W = {} /\ (to = "failed" => operation[s] = "remove")
  PROVE  NInv'
  <1> USE DEF NInv
  <1>1. UNCHANGED <<conf, wrong, nginx, loaded, hup, missed, servervars, config, reload, rejected,
                    overdue, skipped, stray, configs>>
    BY DEF servervars, reloadvars
  <1>2. NginxTypeOK'
    <2>1. writing' \in [NginxSites -> SUBSET Nat]
      <3>1. W \in SUBSET Nat /\ writing \in [NginxSites -> SUBSET Nat]
        BY DEF NginxTypeOK
      <3> QED
        BY <3>1
    <2>2. operation' \in [NginxSites -> Operations]
      BY DEF NginxTypeOK, Operations
    <2>3. \A t \in NginxSites : \A a \in Appservers :
            operation'[t] \in {"update", "writing", "written", "remove", "unlinked"}
              => reload[t][a] = "none"
      BY DEF NginxTypeOK
    <2> QED
      BY <1>1, <2>1, <2>2, <2>3 DEF NginxTypeOK
  <1>3. Numbered'
    BY <1>1 DEF Numbered, NginxTypeOK
  <1>4. Reported'
    BY <1>1 DEF Reported
  <1>5. RemovesAll'
    BY <1>1 DEF RemovesAll, Emptied, NginxTypeOK
  <1>6. ASSUME NEW t \in NginxSites \ unclean' PROVE Clean(t)'
    <2>1. Clean(t) /\ writing'[t] = writing[t]
      BY <1>6 DEF NginxTypeOK
    <2>2. CASE t # s
      BY <1>1, <2>1, <2>2, OtherKeeps DEF NginxTypeOK
    <2>3. CASE t = s
      <3>1. operation'[s] = to
        BY DEF NginxTypeOK
      <3> QED
        BY <1>1, <1>6, <2>1, <2>3, <3>1 DEF Clean, Between, Written, Emptied
    <2> QED
      BY <2>2, <2>3
  <1> QED
    BY <1>2, <1>3, <1>4, <1>5, <1>6

LEMMA FailKeeps ==
  ASSUME NInv, NEW s \in NginxSites, update_fails(s) \/ remove_fails(s) \/ disable_fails(s)
  PROVE  NInv'
  <1> USE DEF NInv
  <1>1. /\ timeouts' \in Nat /\ config[s] \in 0..configs /\ writing[s] \subseteq 0..configs
        /\ writing \in [NginxSites -> SUBSET Nat] /\ configs \in Nat
    BY DEF update_fails, remove_fails, disable_fails, RequestFails, TooLate, NginxTypeOK, Numbered
  <1>2. writing = [writing EXCEPT ![s] = @ \union {}]
    BY <1>1
  <1>3. CASE update_fails(s)
    <2>1. /\ operation[s] \in {"update", "writing"} /\ operation' = [operation EXCEPT ![s] = "disable"]
          /\ UNCHANGED <<conf, wrong, servervars, config, reloadvars, configs>>
          /\ MayStillWrite(s, config[s])
      BY <1>3 DEF update_fails, Stage, RequestFails
    <2>2. PICK W \in {{}, {config[s]}} :
            /\ writing' = [writing EXCEPT ![s] = @ \union W]
            /\ unclean' \in {unclean, unclean \union {s}}
            /\ s \notin unclean' => W = {}
      BY <1>2, <2>1 DEF MayStillWrite
    <2>3. W \in SUBSET (0..configs)
      BY <1>1
    <2> QED
      BY <1>1, <2>1, <2>2, <2>3, LeaveKeeps
  <1>4. CASE remove_fails(s)
    <2>1. /\ operation[s] = "remove" /\ operation' = [operation EXCEPT ![s] = "failed"]
          /\ UNCHANGED <<conf, wrong, servervars, config, reloadvars, configs>>
          /\ MayStillWrite(s, config[s])
      BY <1>4 DEF remove_fails, Stage, RequestFails
    <2>2. PICK W \in {{}, {config[s]}} :
            /\ writing' = [writing EXCEPT ![s] = @ \union W]
            /\ unclean' \in {unclean, unclean \union {s}}
            /\ s \notin unclean' => W = {}
      BY <1>2, <2>1 DEF MayStillWrite
    <2>3. W \in SUBSET (0..configs)
      BY <1>1
    <2> QED
      BY <1>1, <2>1, <2>2, <2>3, LeaveKeeps
  <1>5. CASE disable_fails(s)
    <2>1. /\ operation[s] = "disable" /\ operation' = [operation EXCEPT ![s] = "failed"]
          /\ UNCHANGED <<conf, wrong, servervars, config, reloadvars, configs>>
          /\ unclean' = unclean \union {s}
      BY <1>5 DEF disable_fails, Stage
    <2>2. PICK W \in {{}, {0}} : writing' = [writing EXCEPT ![s] = @ \union W]
      BY <1>2, <1>5 DEF disable_fails
    <2>3. W \in SUBSET (0..configs)
      BY <1>1
    <2> QED
      BY <1>1, <2>1, <2>2, <2>3, LeaveKeeps
  <1> QED
    BY <1>3, <1>4, <1>5

LEMMA StopKeeps ==
  ASSUME NInv, NEW s \in NginxSites, stop(s)
  PROVE  NInv'
  <1> USE DEF NInv
  <1> DEFINE Asked == [a \in Appservers |-> "none"]
  <1>1. /\ operation' = [operation EXCEPT ![s] = "stopped"]
        /\ reload' = [reload EXCEPT ![s] = Asked]
        /\ rejected' = [rejected EXCEPT ![s] = {}] /\ overdue' = [overdue EXCEPT ![s] = {}]
        /\ skipped' = [skipped EXCEPT ![s] = {}]
        /\ stray' = stray \union {a \in Appservers : reload[s][a] = "sent"}
        /\ unclean' = unclean \union {s}
        /\ UNCHANGED <<conf, wrong, nginx, loaded, hup, missed, servervars, config, configs, timeouts>>
    BY DEF stop, servervars
  <1>2. InFlight(s) \subseteq {config[s], 0}
    BY DEF InFlight
  <1>3. /\ writing' \in [NginxSites -> SUBSET Nat]
        /\ \A t \in NginxSites : writing'[t] \subseteq 0..configs
        /\ \A t \in NginxSites : t # s => writing'[t] = writing[t]
    <2>1. /\ writing \in [NginxSites -> SUBSET Nat] /\ config[s] \in 0..configs /\ configs \in Nat
          /\ \A t \in NginxSites : writing[t] \subseteq 0..configs
      BY DEF NginxTypeOK, Numbered
    <2>2. PICK W \in SUBSET {config[s], 0} : writing' \in {writing, [writing EXCEPT ![s] = @ \union W]}
      BY <1>2 DEF stop
    <2>3. W \subseteq 0..configs
      BY <2>1
    <2>4. CASE writing' = writing
      BY <2>1, <2>4
    <2>5. CASE writing' = [writing EXCEPT ![s] = @ \union W]
      <3>1. W \in SUBSET Nat
        BY <2>1, <2>3
      <3>2. \A t \in NginxSites : writing'[t] = IF t = s THEN writing[t] \union W ELSE writing[t]
        BY <2>1, <2>5
      <3>3. writing' \in [NginxSites -> SUBSET Nat]
        BY <2>1, <2>5, <3>1
      <3> QED
        BY <2>1, <2>3, <3>2, <3>3
    <2> QED
      BY <2>2, <2>4, <2>5
  <1>4. NginxTypeOK'
    <2>1. reload' \in [NginxSites -> [Appservers -> Reloads]]
      BY <1>1, SettingAll DEF Reloads, NginxTypeOK
    <2>2. /\ operation' \in [NginxSites -> Operations] /\ stray' \subseteq Appservers
          /\ unclean' \subseteq NginxSites
      BY <1>1 DEF NginxTypeOK, Operations
    <2>3. /\ rejected' \in [NginxSites -> SUBSET Appservers]
          /\ overdue' \in [NginxSites -> SUBSET Appservers]
          /\ skipped' \in [NginxSites -> SUBSET Appservers]
      BY <1>1 DEF NginxTypeOK
    <2>4. \A t \in NginxSites : \A a \in Appservers :
            operation'[t] \in {"update", "writing", "written", "remove", "unlinked"}
              => reload'[t][a] = "none"
      BY <1>1 DEF NginxTypeOK
    <2> QED
      BY <1>1, <1>3, <2>1, <2>2, <2>3, <2>4 DEF NginxTypeOK
  <1>5. Numbered'
    BY <1>1, <1>3 DEF Numbered
  <1>6. Reported'
    BY <1>1 DEF Reported, NginxTypeOK
  <1>7. RemovesAll'
    BY <1>1 DEF RemovesAll, Emptied, NginxTypeOK
  <1>8. ASSUME NEW t \in NginxSites \ unclean' PROVE Clean(t)'
    <2>1. t # s /\ Clean(t)
      BY <1>1, <1>8
    <2>2. /\ operation'[t] = operation[t] /\ reload'[t] = reload[t] /\ rejected'[t] = rejected[t]
          /\ skipped'[t] = skipped[t]
      BY <1>1, <2>1 DEF NginxTypeOK
    <2> QED
      BY <1>1, <1>3, <2>1, <2>2, OtherKeeps
  <1> QED
    BY <1>4, <1>5, <1>6, <1>7, <1>8

(* Late writes are to unclean sites.                                       *)
LEMMA LateKeeps ==
  ASSUME NInv, NEW s \in NginxSites, NEW c \in 0..MaxConfigs, late_write(s, c)
  PROVE  NInv'
  <1> USE DEF NInv
  <1>1. /\ c \in writing[s] /\ writing' = [writing EXCEPT ![s] = @ \ {c}]
        /\ conf' = [conf EXCEPT ![s] = c]
        /\ UNCHANGED <<wrong, nginx, loaded, hup, missed, servervars, operation, config, reload,
                       rejected, overdue, skipped, stray, unclean, configs, timeouts>>
    BY DEF late_write, servervars, reloadvars
  <1>2. c \in Nat /\ c \in 0..configs
    BY <1>1 DEF Numbered, NginxTypeOK
  <1>3. NginxTypeOK'
    <2>1. conf' \in [NginxSites -> Nat] /\ writing' \in [NginxSites -> SUBSET Nat]
      BY <1>1, <1>2 DEF NginxTypeOK
    <2> QED
      BY <1>1, <2>1 DEF NginxTypeOK
  <1>4. Numbered'
    BY <1>1, <1>2 DEF Numbered, NginxTypeOK
  <1>5. Reported' /\ RemovesAll'
    BY <1>1 DEF Reported, RemovesAll
  <1>6. ASSUME NEW t \in NginxSites \ unclean' PROVE Clean(t)'
    <2>1. Clean(t)
      BY <1>1
    <2>2. t # s
      BY <1>1, <2>1 DEF Clean
    <2> QED
      BY <1>1, <2>1, <2>2, OtherKeeps DEF NginxTypeOK
  <1> QED
    BY <1>3, <1>4, <1>5, <1>6

(* Every appserver is asked.                                               *)
LEMMA AskReloadKeeps ==
  ASSUME NInv, NEW s \in NginxSites, ask_reload(s)
  PROVE  NInv'
  <1> USE DEF NInv
  <1> DEFINE Asked == [a \in Appservers |-> "sent"]
  <1>1. /\ \/ operation[s] = "written" /\ operation' = [operation EXCEPT ![s] = "reload"]
           \/ operation[s] = "unlinked" /\ operation' = [operation EXCEPT ![s] = "reload_removed"]
        /\ reload' = [reload EXCEPT ![s] = Asked]
        /\ UNCHANGED <<conf, wrong, nginx, loaded, hup, missed, servervars, config, writing, rejected,
                       overdue, skipped, stray, unclean, configs, timeouts>>
    BY DEF ask_reload, Stage, servervars
  <1>2. /\ reload' \in [NginxSites -> [Appservers -> Reloads]]
        /\ \A a \in Appservers : reload'[s][a] = "sent"
        /\ \A t \in NginxSites : t # s => reload'[t] = reload[t]
    BY <1>1, SettingAll DEF NginxTypeOK, Reloads
  <1>3. NginxTypeOK'
    <2>1. operation' \in [NginxSites -> Operations]
      <3>1. "reload" \in Operations /\ "reload_removed" \in Operations
        BY DEF Operations
      <3> QED
        BY <1>1, <3>1, StageSet
    <2>2. \A t \in NginxSites : \A a \in Appservers :
            operation'[t] \in {"update", "writing", "written", "remove", "unlinked"}
              => reload'[t][a] = "none"
      BY <1>1, <1>2 DEF NginxTypeOK
    <2> QED
      BY <1>1, <1>2, <2>1, <2>2 DEF NginxTypeOK
  <1>4. Numbered'
    BY <1>1 DEF Numbered
  <1>5. Reported'
    <2>1. \A a \in Appservers : a \notin rejected[s]
      BY <1>1 DEF Reported, NginxTypeOK
    <2> QED
      BY <1>1, <1>2, <2>1 DEF Reported
  <1>6. RemovesAll'
    BY <1>1 DEF RemovesAll, Emptied, NginxTypeOK
  <1>7. ASSUME NEW t \in NginxSites \ unclean' PROVE Clean(t)'
    <2>1. Clean(t)
      BY <1>1
    <2>2. CASE t = s
      <3>1. operation'[s] \in {"reload", "reload_removed"} /\ conf[s] = config[s]
        BY <1>1, <2>1, <2>2 DEF Clean, Written, Emptied, NginxTypeOK
      <3>2. Confirmed(s)'
        BY <1>2 DEF Confirmed, Accepted
      <3> QED
        BY <1>1, <2>1, <2>2, <3>1, <3>2 DEF Clean, Between
    <2>3. CASE t # s
      BY <1>1, <1>2, <2>1, <2>3, OtherKeeps DEF NginxTypeOK
    <2> QED
      BY <2>2, <2>3
  <1> QED
    BY <1>3, <1>4, <1>5, <1>6, <1>7

LEMMA EndKeeps ==
  ASSUME NInv, NEW s \in NginxSites, reloaded(s) \/ reloaded_removed(s)
  PROVE  NInv'
  <1> USE DEF NInv
  <1>1. /\ \/ /\ operation[s] = "reload"
              /\ operation' = [operation EXCEPT ![s] = IF Failed(s) THEN "disable" ELSE "done"]
              /\ unclean' = IF Unchecked(s) THEN unclean \union {s} ELSE unclean
           \/ /\ operation[s] = "reload_removed" /\ unclean' = unclean
              /\ operation' = [operation EXCEPT ![s] = IF Failed(s) THEN "failed" ELSE "removed"]
        /\ \A a \in Appservers : reload[s][a] \in {"ok", "error"}
        /\ UNCHANGED <<conf, wrong, nginx, loaded, hup, missed, servervars, config, writing, reload,
                       rejected, overdue, skipped, stray, configs, timeouts>>
    BY DEF reloaded, reloaded_removed, Stage, Answered, servervars, reloadvars
  <1>2. NginxTypeOK'
    <2>1. operation' \in [NginxSites -> Operations] /\ unclean' \subseteq NginxSites
      BY <1>1 DEF NginxTypeOK, Operations
    <2>2. \A t \in NginxSites : \A a \in Appservers :
            operation'[t] \in {"update", "writing", "written", "remove", "unlinked"}
              => reload[t][a] = "none"
      BY <1>1 DEF NginxTypeOK
    <2> QED
      BY <1>1, <2>1, <2>2 DEF NginxTypeOK
  <1>3. Numbered' /\ Reported'
    BY <1>1 DEF Numbered, Reported
  <1>4. RemovesAll'
    BY <1>1 DEF RemovesAll, Emptied, NginxTypeOK
  <1>5. ASSUME NEW t \in NginxSites \ unclean' PROVE Clean(t)'
    <2>1. Clean(t)
      BY <1>1, <1>5
    <2>2. CASE t # s
      BY <1>1, <2>1, <2>2, OtherKeeps DEF NginxTypeOK
    <2>3. CASE t = s
      <3>1. conf[s] = config[s] /\ Confirmed(s) /\ Confirmed(s)'
        BY <1>1, <2>1, <2>3 DEF Clean, Written, Emptied, Confirmed, Accepted, Serves
      <3>2. CASE operation[s] = "reload" /\ ~Failed(s)
        <4>1. operation'[s] = "done" /\ \A a \in Appservers : reload[s][a] = "ok"
          BY <1>1, <3>2 DEF Failed, NginxTypeOK
        <4>2. ~Unchecked(s)
          BY <1>1, <1>5, <2>3, <3>2
        <4>3. \E a \in Appservers : a \notin skipped[s]
          BY <4>2 DEF Unchecked, NginxTypeOK
        <4> QED
          BY <1>1, <2>1, <2>3, <3>1, <4>1, <4>3 DEF Clean, Between, Written, Emptied
      <3>3. CASE operation[s] = "reload_removed" /\ ~Failed(s)
        <4>1. operation'[s] = "removed" /\ \A a \in Appservers : reload[s][a] = "ok"
          BY <1>1, <3>3 DEF Failed, NginxTypeOK
        <4> QED
          BY <1>1, <2>1, <2>3, <3>1, <4>1 DEF Clean, Between, Written, Emptied
      <3>4. CASE Failed(s)
        <4>1. \/ operation[s] = "reload" /\ operation'[s] = "disable"
              \/ operation[s] = "reload_removed" /\ operation'[s] = "failed"
          BY <1>1, <3>4 DEF NginxTypeOK
        <4>2. operation[s] = "reload_removed" => conf[s] \notin wrong
          BY <3>1 DEF RemovesAll, Emptied, Numbered
        <4> QED
          BY <1>1, <2>1, <2>3, <4>1, <4>2 DEF Clean, Between, Written, Emptied
      <3> QED
        BY <1>1, <3>2, <3>3, <3>4
    <2> QED
      BY <2>2, <2>3
  <1> QED
    BY <1>2, <1>3, <1>4, <1>5

(* The reload that moves on, and the ones that do not.                     *)
LEMMA OneReloadMoves ==
  ASSUME NginxTypeOK, NEW s \in NginxSites, NEW a \in Appservers,
         NEW from \in Reloads, NEW to \in Reloads, Reloading(s, a, from, to)
  PROVE  /\ reload' \in [NginxSites -> [Appservers -> Reloads]]
         /\ operation[s] \in {"reload", "reload_removed"}
         /\ reload[s][a] = from /\ reload'[s][a] = to
         /\ \A t \in NginxSites : \A c \in Appservers :
              t # s \/ c # a => reload'[t][c] = reload[t][c]
         /\ \A t \in NginxSites : \A c \in Appservers :
              operation[t] \in {"update", "writing", "written", "remove", "unlinked"}
                => reload'[t][c] = "none"
         /\ UNCHANGED <<conf, wrong, nginx, loaded, missed, operation, config, writing, unclean,
                        configs>>
  <1>1. reload \in [NginxSites -> [Appservers -> Reloads]]
    BY DEF NginxTypeOK
  <1>2. reload' = [reload EXCEPT ![s][a] = to] /\ operation[s] \in {"reload", "reload_removed"}
    BY DEF Reloading
  <1>3. reload' \in [NginxSites -> [Appservers -> Reloads]]
    BY <1>1, <1>2, SettingOne
  <1>4. /\ reload'[s][a] = to
        /\ \A t \in NginxSites : \A c \in Appservers :
             t # s \/ c # a => reload'[t][c] = reload[t][c]
    BY <1>1, <1>2
  <1>5. ASSUME NEW t \in NginxSites, NEW c \in Appservers,
               operation[t] \in {"update", "writing", "written", "remove", "unlinked"}
        PROVE  reload'[t][c] = "none"
    <2>1. t # s /\ reload[t][c] = "none"
      BY <1>2, <1>5 DEF NginxTypeOK
    <2> QED
      BY <1>4, <2>1
  <1> QED
    BY <1>2, <1>3, <1>4, <1>5 DEF Reloading

(* A reload of one site tells the master to read the files of all of them,  *)
(* or is rejected, or does nothing.                                         *)
LEMMA ReloadKeeps ==
  ASSUME NInv, NEW s \in NginxSites, NEW a \in Appservers, nginx_reload(s, a)
  PROVE  NInv'
  <1> USE DEF NInv
  <1>1. PICK to \in {"exited", "ok"} :
          /\ Reloading(s, a, "sent", to) /\ UNCHANGED <<overdue, stray, timeouts>>
          /\ \/ /\ Valid /\ hup' = hup \union {a} /\ UNCHANGED <<rejected, skipped>> /\ to = "exited"
             \/ /\ rejected' = [rejected EXCEPT ![s] = @ \union {a}] /\ UNCHANGED <<hup, skipped>>
                /\ to = "exited"
             \/ /\ skipped' = [skipped EXCEPT ![s] = @ \union {a}] /\ UNCHANGED <<hup, rejected>>
    BY DEF nginx_reload
  <1>2. /\ reload' \in [NginxSites -> [Appservers -> Reloads]]
        /\ operation[s] \in {"reload", "reload_removed"}
        /\ reload[s][a] = "sent" /\ reload'[s][a] = to
        /\ \A t \in NginxSites : \A c \in Appservers :
             t # s \/ c # a => reload'[t][c] = reload[t][c]
        /\ \A t \in NginxSites : \A c \in Appservers :
             operation[t] \in {"update", "writing", "written", "remove", "unlinked"}
               => reload'[t][c] = "none"
        /\ UNCHANGED <<conf, wrong, nginx, loaded, missed, operation, config, writing, unclean,
                       configs>>
    BY <1>1, OneReloadMoves DEF Reloads
  <1>3. /\ hup \subseteq hup' /\ hup' \subseteq Appservers
        /\ rejected' \in [NginxSites -> SUBSET Appservers]
        /\ skipped' \in [NginxSites -> SUBSET Appservers]
        /\ \A t \in NginxSites : \A c \in Appservers : t # s \/ c # a =>
             (c \in rejected'[t] <=> c \in rejected[t]) /\ (c \in skipped'[t] <=> c \in skipped[t])
        /\ \/ Valid /\ a \in hup'
           \/ a \in rejected'[s] /\ to = "exited"
           \/ a \in skipped'[s]
        /\ to = "ok" => rejected' = rejected
    <2>1. /\ rejected \in [NginxSites -> SUBSET Appservers] /\ hup \subseteq Appservers
          /\ skipped \in [NginxSites -> SUBSET Appservers]
      BY DEF NginxTypeOK
    <2>2. /\ [rejected EXCEPT ![s] = @ \union {a}] \in [NginxSites -> SUBSET Appservers]
          /\ [skipped EXCEPT ![s] = @ \union {a}] \in [NginxSites -> SUBSET Appservers]
      BY <2>1, Adding
    <2> QED
      BY <1>1, <2>1, <2>2
  <1>4. NginxTypeOK'
    BY <1>1, <1>2, <1>3 DEF NginxTypeOK
  <1>5. Numbered' /\ RemovesAll'
    BY <1>2 DEF Numbered, RemovesAll
  <1>6. Reported'
    <2> SUFFICES ASSUME NEW t \in NginxSites, NEW c \in Appservers
                 PROVE  /\ reload'[t][c] = "error" => c \in rejected'[t] \union overdue'[t]
                        /\ reload'[t][c] \in {"none", "sent", "ok"} => c \notin rejected'[t]
      BY DEF Reported
    <2>1. CASE t = s /\ c = a
      BY <1>1, <1>2, <1>3, <2>1 DEF Reported
    <2>2. CASE ~ (t = s /\ c = a)
      BY <1>1, <1>2, <1>3, <2>2 DEF Reported
    <2> QED
      BY <2>1, <2>2
  <1>7. ASSUME NEW t \in NginxSites \ unclean' PROVE Clean(t)'
    <2>1. Clean(t)
      BY <1>2
    <2>2. ASSUME operation[t] \in Written, NEW c \in Appservers, Accepted(t, c)'
          PROVE  Serves(t, c)' /\ (c \in skipped'[t] \/ config[t] \notin wrong)
      <3>1. CASE t = s /\ c = a
        <4>1. a \notin rejected'[s]
          BY <2>2, <3>1 DEF Accepted
        <4>2. Valid => config[s] \notin wrong
          BY <2>1, <2>2, <3>1 DEF Valid, Clean
        <4> QED
          BY <1>3, <3>1, <4>1, <4>2 DEF Serves
      <3>2. CASE ~ (t = s /\ c = a)
        <4>1. Accepted(t, c)
          BY <1>2, <1>3, <2>2, <3>2 DEF Accepted
        <4>2. Serves(t, c) /\ (c \in skipped[t] \/ config[t] \notin wrong)
          BY <2>1, <2>2, <4>1 DEF Clean, Confirmed
        <4> QED
          BY <1>2, <1>3, <3>2, <4>2 DEF Serves
      <3> QED
        BY <3>1, <3>2
    <2>3. operation[t] \in Written => Confirmed(t)'
      BY <1>2, <2>2 DEF Confirmed
    <2>4. operation[t] \in {"done", "removed"} => t # s
      BY <1>2
    <2>5. operation[t] \in {"done", "removed"} => \A c \in Appservers : reload'[t][c] = "ok"
      BY <1>2, <2>1, <2>4 DEF Clean
    <2>6. operation[t] = "done" => \E c \in Appservers : c \notin skipped'[t]
      BY <1>3, <2>1, <2>4 DEF Clean
    <2> QED
      BY <1>2, <2>1, <2>3, <2>5, <2>6 DEF Clean
  <1> QED
    BY <1>4, <1>5, <1>6, <1>7

(* An answer comes, or the deadline passes.                                *)
LEMMA AnswerKeeps ==
  ASSUME NInv, NEW s \in NginxSites, NEW a \in Appservers,
         reap(s, a) \/ _wait_for_exec_exit_code(s, a) \/ deadline(s, a)
  PROVE  NInv'
  <1> USE DEF NInv
  <1>1. PICK from \in {"sent", "exited", "reaped"}, to \in {"reaped", "ok", "error"} :
          /\ Reloading(s, a, from, to)
          /\ to \in {"reaped", "ok"} => from \in {"exited", "reaped"}
          /\ to = "ok" => a \notin rejected[s]
          /\ to = "error" => a \in rejected[s] \union overdue'[s]
    BY DEF reap, _wait_for_exec_exit_code, deadline, ExitCode, NginxTypeOK
  <1>2. /\ overdue' \in {overdue, [overdue EXCEPT ![s] = overdue[s] \union {a}]}
        /\ timeouts' \in {timeouts, timeouts + 1} /\ stray' \in {stray, stray \union {a}}
        /\ UNCHANGED <<hup, rejected, skipped>>
    BY DEF reap, _wait_for_exec_exit_code, deadline, TooLate
  <1>3. /\ reload' \in [NginxSites -> [Appservers -> Reloads]]
        /\ operation[s] \in {"reload", "reload_removed"}
        /\ reload[s][a] = from /\ reload'[s][a] = to
        /\ \A t \in NginxSites : \A c \in Appservers :
             t # s \/ c # a => reload'[t][c] = reload[t][c]
        /\ \A t \in NginxSites : \A c \in Appservers :
             operation[t] \in {"update", "writing", "written", "remove", "unlinked"}
               => reload'[t][c] = "none"
        /\ UNCHANGED <<conf, wrong, nginx, loaded, missed, operation, config, writing, unclean,
                       configs>>
    BY <1>1, OneReloadMoves DEF Reloads
  <1>4. /\ overdue' \in [NginxSites -> SUBSET Appservers]
        /\ \A t \in NginxSites : overdue[t] \subseteq overdue'[t]
    <2>1. overdue \in [NginxSites -> SUBSET Appservers]
      BY DEF NginxTypeOK
    <2>2. [overdue EXCEPT ![s] = overdue[s] \union {a}] \in [NginxSites -> SUBSET Appservers]
      BY <2>1, Adding
    <2> QED
      BY <1>2, <2>1, <2>2
  <1>5. NginxTypeOK'
    BY <1>2, <1>3, <1>4 DEF NginxTypeOK
  <1>6. Numbered' /\ RemovesAll'
    BY <1>3 DEF Numbered, RemovesAll
  <1>7. Reported'
    <2> SUFFICES ASSUME NEW t \in NginxSites, NEW c \in Appservers
                 PROVE  /\ reload'[t][c] = "error" => c \in rejected'[t] \union overdue'[t]
                        /\ reload'[t][c] \in {"none", "sent", "ok"} => c \notin rejected'[t]
      BY DEF Reported
    <2>1. CASE t = s /\ c = a
      BY <1>1, <1>2, <1>3, <2>1
    <2>2. CASE ~ (t = s /\ c = a)
      BY <1>2, <1>3, <1>4, <2>2 DEF Reported
    <2> QED
      BY <2>1, <2>2
  <1>8. ASSUME NEW t \in NginxSites \ unclean' PROVE Clean(t)'
    <2>1. Clean(t)
      BY <1>3
    <2>2. ASSUME NEW c \in Appservers, Accepted(t, c)' PROVE Accepted(t, c)
      <3>1. CASE t = s /\ c = a
        BY <1>1, <1>2, <1>3, <2>2, <3>1 DEF Accepted
      <3>2. CASE ~ (t = s /\ c = a)
        BY <1>2, <1>3, <2>2, <3>2 DEF Accepted
      <3> QED
        BY <3>1, <3>2
    <2>3. Confirmed(t) => Confirmed(t)'
      BY <1>2, <1>3, <2>2 DEF Confirmed, Serves
    <2>4. operation[t] \in {"done", "removed"} => \A c \in Appservers : reload'[t][c] = "ok"
      BY <1>3, <2>1 DEF Clean
    <2> QED
      BY <1>2, <1>3, <2>1, <2>3, <2>4 DEF Clean
  <1> QED
    BY <1>5, <1>6, <1>7, <1>8

(* Nginx masters come and go, are told to read the files and read them.     *)
LEMMA ServerKeeps ==
  ASSUME NInv, NEW a \in Appservers,
         \/ stray_reload(a) \/ master_reloads(a) \/ nginx_stops(a)
         \/ nginx_starts(a) \/ task_runs(a)
  PROVE  NInv'
  <1> USE DEF NInv
  <1>1. /\ UNCHANGED <<conf, wrong, operation, config, writing, reload, rejected, overdue, unclean,
                       configs>>
        /\ stray' \subseteq Appservers /\ timeouts' \in Nat
        /\ nginx' \in [Appservers -> {"stopped", "starting", "running"}]
        /\ hup' \subseteq Appservers /\ missed' \subseteq Appservers
    <2> USE DEF ServerStep, Load, NginxTypeOK
    <2>1. CASE stray_reload(a)
      BY <2>1 DEF stray_reload
    <2>2. CASE master_reloads(a)
      BY <2>2 DEF master_reloads
    <2>3. CASE nginx_stops(a)
      BY <2>3 DEF nginx_stops, TooLate
    <2>4. CASE nginx_starts(a)
      BY <2>4 DEF nginx_starts
    <2>5. CASE task_runs(a)
      BY <2>5 DEF task_runs
    <2> QED
      BY <2>1, <2>2, <2>3, <2>4, <2>5
  <1>2. \/ /\ Valid /\ loaded' = [loaded EXCEPT ![a] = conf]
           /\ skipped' = [s \in NginxSites |-> skipped[s] \ {a}]
           /\ nginx' \in {nginx, [nginx EXCEPT ![a] = "starting"]} /\ hup \ {a} \subseteq hup'
           /\ missed \ {a} \subseteq missed'
        \/ /\ UNCHANGED <<loaded, skipped>> /\ missed \subseteq missed'
           /\ \/ nginx' = nginx /\ hup \ {a} \subseteq hup' /\ (a \in hup' \union missed' \/ a \notin hup)
              \/ nginx' = [nginx EXCEPT ![a] = "stopped"] /\ hup \ {a} \subseteq hup'
              \/ /\ nginx[a] = "starting" /\ nginx' = [nginx EXCEPT ![a] = "running"]
                 /\ hup' = hup
    BY DEF stray_reload, master_reloads, nginx_stops, nginx_starts, task_runs, ServerStep, Load
  <1>3. NginxTypeOK'
    <2>1. loaded' \in [Appservers -> [NginxSites -> Nat]]
      BY <1>2 DEF NginxTypeOK
    <2>2. skipped' \in [NginxSites -> SUBSET Appservers]
      BY <1>2 DEF NginxTypeOK
    <2> QED
      BY <1>1, <2>1, <2>2 DEF NginxTypeOK
  <1>4. Numbered' /\ Reported' /\ RemovesAll'
    BY <1>1 DEF Numbered, Reported, RemovesAll
  <1>5. ASSUME NEW t \in NginxSites \ unclean' PROVE Clean(t)'
    <2>1. Clean(t)
      BY <1>1
    <2>2. ASSUME conf[t] = config[t], NEW c \in Appservers
          PROVE  /\ Serves(t, c) => Serves(t, c)'
                 /\ c \in skipped[t] => c \in skipped'[t] \/ config[t] \notin wrong
      <3>1. CASE Valid /\ loaded' = [loaded EXCEPT ![a] = conf] /\ c = a
        <4>1. loaded'[a][t] = config[t] /\ config[t] \notin wrong
          BY <2>2, <3>1 DEF Valid, NginxTypeOK
        <4> QED
          BY <1>1, <3>1, <4>1 DEF Serves
      <3>2. CASE c # a
        <4>1. /\ nginx'[c] = nginx[c] /\ loaded'[c] = loaded[c]
              /\ c \in hup => c \in hup'
              /\ c \in missed => c \in missed'
              /\ c \in skipped[t] <=> c \in skipped'[t]
          BY <1>2, <3>2 DEF NginxTypeOK
        <4> QED
          BY <1>1, <4>1 DEF Serves
      <3>3. CASE UNCHANGED <<loaded, skipped>> /\ c = a
        BY <1>1, <1>2, <3>3, <3>1 DEF Serves, NginxTypeOK
      <3> QED
        BY <1>2, <3>1, <3>2, <3>3
    <2>3. operation[t] \in Written => Confirmed(t)'
      <3>1. ASSUME operation[t] \in Written, NEW c \in Appservers, Accepted(t, c)'
            PROVE  Serves(t, c)' /\ (c \in skipped'[t] \/ config'[t] \notin wrong')
        <4>1. Accepted(t, c)
          BY <1>1, <3>1 DEF Accepted
        <4> QED
          BY <1>1, <2>1, <2>2, <3>1, <4>1 DEF Clean, Confirmed
      <3> QED
        BY <3>1 DEF Confirmed
    <2>4. skipped'[t] \subseteq skipped[t]
      BY <1>2
    <2> QED
      BY <1>1, <2>1, <2>3, <2>4 DEF Clean
  <1> QED
    BY <1>3, <1>4, <1>5

LEMMA NginxStep == NInv /\ [NginxNext]_nginxvars => NInv'
  <1> SUFFICES ASSUME NInv, [NginxNext]_nginxvars PROVE NInv'
    OBVIOUS
  <1>1. CASE NginxNext
    BY <1>1, StartKeeps, WriteKeeps, FailKeeps, StopKeeps, LateKeeps, AskReloadKeeps, EndKeeps,
       ReloadKeeps, AnswerKeeps, ServerKeeps DEF NginxNext
  <1>2. CASE UNCHANGED nginxvars
    BY <1>2 DEF nginxvars, servervars, reloadvars, NInv, NginxTypeOK, Numbered, RemovesAll, Reported,
       Clean, Confirmed, Accepted, Serves
  <1> QED
    BY <1>1, <1>2

THEOREM NginxInvariant == NginxSpec => []NInv
  BY NginxInitial, NginxStep, PTL DEF NginxSpec

(* The variables keep their types, and no reload is under way for a site   *)
(* whose operation has not come to it.                                     *)
THEOREM NginxTypeCorrect == NginxSpec => []NginxTypeOK
  <1>1. NInv => NginxTypeOK
    BY DEF NInv
  <1> QED
    BY <1>1, NginxInvariant, PTL

(* An operation that succeeded is served as it wrote it by every Nginx     *)
(* that was there to be reloaded and found no wrong file when it was, and  *)
(* one that is told of a failure had one: however many sites write, reload *)
(* and disable their files at the same time, whenever tasks are stopped    *)
(* and Nginx stops and starts.                                             *)
THEOREM ReportsTrue == NginxSpec => []ReportsAreTrue
  <1>1. NInv => DoneIsServed
    <2> SUFFICES ASSUME NInv, NEW s \in NginxSites, operation[s] \in {"done", "removed"},
                        s \notin unclean, NEW a \in Appservers
                 PROVE  Serves(s, a)
      BY DEF DoneIsServed, Serves
    <2>1. Clean(s) /\ Accepted(s, a)
      BY DEF NInv, Clean, Reported, Accepted
    <2> QED
      BY <2>1 DEF Clean, Confirmed, Written, Emptied
  <1>2. NInv => ReloadReportedRight
    BY DEF NInv, Reported, ReloadReportedRight
  <1> QED
    BY <1>1, <1>2, NginxInvariant, PTL DEF ReportsAreTrue

(* No operation that comes to an end leaves a file behind that would keep  *)
(* the other sites from reloading, unless a late request or a failed       *)
(* disable does, its task was stopped, or no Nginx was there to check it;  *)
(* and the next one that sets the file puts that right.                    *)
THEOREM WrongFilesGo == NginxSpec => []NoWrongFileLeft
  <1>1. NInv => NoWrongFileLeft
    BY RestIsRight DEF NoWrongFileLeft
  <1> QED
    BY <1>1, NginxInvariant, PTL

-----------------------------------------------------------------------------
(* Who owns a domain.                                                      *)
(*                                                                         *)
(* A task that is between the query on a name and its write may count on   *)
(* what it read, unless the name is contested: the row it will save is     *)
(* still one it may take, and the row it will create is not there yet.     *)

TableRows == [name : Names, site : Owners \union {NoSite}, status : {"active", "deleted", "blocked"}]
Writing == {"save", "create"}

(* A task is between two queries about one name, or about none.            *)
LooksAtOne ==
  \A s \in Owners : IF edit[s] \in Writing THEN \E n \in Names : current[s] = {n}
                                           ELSE current[s] = {}

(* What it read still holds.                                               *)
RowStillFree(s) ==
  edit[s] = "save" =>
    /\ domain_obj[s] \in DOMAIN rows /\ rows[domain_obj[s]].name \in current[s]
    /\ rows[domain_obj[s]].name \notin contested => may_take(s, domain_obj[s])

StillAbsent(s) ==
  edit[s] = "create" =>
    \A i \in DOMAIN rows : rows[i].name \in current[s] => rows[i].name \in contested

DInv == DomainsTypeOK /\ LooksAtOne /\ OneOwner /\ \A s \in Owners : RowStillFree(s) /\ StillAbsent(s)

LEMMA DomainsInitial == DomainsInit => DInv
  BY EmptySeq DEF DomainsInit, DInv, DomainsTypeOK, LooksAtOne, OneOwner, RowStillFree, StillAbsent,
     Writing,
     DomainStages

(* The table stays a table, whatever is done to it.                        *)
LEMMA TableKept ==
  ASSUME rows \in Seq(TableRows)
  PROVE  /\ \A r \in TableRows : Append(rows, r) \in Seq(TableRows)
         /\ \A r \in TableRows : \A i \in DOMAIN rows : [rows EXCEPT ![i] = r] \in Seq(TableRows)
         /\ \A s \in Owners : [i \in DOMAIN rows |-> Release(s, rows[i])] \in Seq(TableRows)
  <1>1. ASSUME NEW r \in TableRows, NEW i \in DOMAIN rows
        PROVE  [rows EXCEPT ![i] = r] \in Seq(TableRows)
    BY <1>1, ExceptSeq
  <1>2. ASSUME NEW s \in Owners
        PROVE  [i \in DOMAIN rows |-> Release(s, rows[i])] \in Seq(TableRows)
    <2>1. \A i \in 1..Len(rows) : Release(s, rows[i]) \in TableRows
      BY ElementOfSeq DEF Release, Row, TableRows
    <2>2. [i \in 1..Len(rows) |-> Release(s, rows[i])] \in Seq(TableRows)
      BY <2>1, IsASeq
    <2> QED
      BY <2>2, LenProperties
  <1> QED
    BY <1>1, <1>2, AppendProperties

LEMMA RowsAreRows ==
  ASSUME DomainsTypeOK
  PROVE  /\ rows \in Seq(TableRows)
         /\ \A i \in DOMAIN rows : i \in Nat /\ rows[i] \in TableRows
         /\ \A s \in Owners : Active(s) \in SUBSET Names /\ old_domains(s) \in SUBSET Names
  <1>1. rows \in Seq(TableRows)
    BY DEF DomainsTypeOK, TableRows
  <1>2. \A i \in DOMAIN rows : i \in Nat /\ rows[i] \in TableRows
    BY <1>1, ElementOfSeq, LenProperties
  <1>3. \A i \in DOMAIN rows : rows[i].name \in Names
    BY <1>2 DEF TableRows
  <1> QED
    BY <1>1, <1>2, <1>3 DEF Active, old_domains

(* A step of a task that touches neither the table nor what it looks at.   *)
LEMMA QuietKeeps ==
  ASSUME DInv, DomainsTypeOK', UNCHANGED <<rows, current, domain_obj, contested>>,
         \A s \in Owners : edit'[s] = edit[s] \/ {edit[s], edit'[s]} \intersect Writing = {}
  PROVE  DInv'
  <1>1. LooksAtOne'
    BY DEF DInv, LooksAtOne
  <1>2. OneOwner'
    BY DEF DInv, OneOwner
  <1>3. ASSUME NEW s \in Owners PROVE RowStillFree(s)' /\ StillAbsent(s)'
    BY DEF DInv, RowStillFree, StillAbsent, may_take, Writing
  <1> QED
    BY <1>1, <1>2, <1>3 DEF DInv

(* The stages of a task that are not about a name.                         *)
LEMMA EditKeeps ==
  ASSUME DInv, NEW s \in Owners, NEW names \in SUBSET Names, edit_names_view(s, names)
  PROVE  DInv'
  <1>1. DomainsTypeOK'
    BY DEF DInv, DomainsTypeOK, edit_names_view, balancervars, DomainStages
  <1> QED
    BY <1>1, QuietKeeps DEF DInv, DomainsTypeOK, edit_names_view, Writing

LEMMA CertbotKeeps ==
  ASSUME DInv, NEW s \in Owners,
         \/ appserver_update_fails(s) \/ certbot_setup(s) \/ certbot_fails(s)
         \/ list_old_domains(s) \/ remove_old_domains(s)
  PROVE  DInv'
  <1> USE DEF appserver_update_fails, certbot_setup, certbot_fails, list_old_domains,
              remove_old_domains
  <1>1. DomainsTypeOK'
    <2>1. Active(s) \subseteq Names /\ old_domains(s) \subseteq Names
      BY RowsAreRows DEF DInv
    <2>2. old' \in [Owners -> SUBSET Names] /\ certs' \subseteq Names
      <3>1. old \in [Owners -> SUBSET Names] /\ certs \subseteq Names
        BY DEF DInv, DomainsTypeOK
      <3>2. /\ old' \in {old, [old EXCEPT ![s] = {}], [old EXCEPT ![s] = old_domains(s)]}
            /\ certs' \in {certs, certs \union Active(s), certs \ old[s]}
        BY DEF balancervars
      <3> QED
        BY <2>1, <3>1, <3>2
    <2>3. edit' \in [Owners -> DomainStages]
      BY DEF DInv, DomainsTypeOK, DomainStages
    <2>4. UNCHANGED <<rows, wanted, todo, current, domain_obj, to_update, site_file, routed,
                      contested, untouched, reached>>
      BY DEF balancervars, auxvars
    <2> QED
      BY <2>2, <2>3, <2>4 DEF DInv, DomainsTypeOK
  <1>2. \A t \in Owners : edit'[t] = edit[t] \/ {edit[t], edit'[t]} \intersect Writing = {}
    BY DEF DInv, DomainsTypeOK, Writing
  <1>3. UNCHANGED <<rows, current, domain_obj, contested>>
    BY DEF auxvars
  <1> QED
    BY <1>1, <1>2, <1>3, QuietKeeps

LEMMA BalancersKeep ==
  ASSUME DInv, NEW s \in Owners,
         \/ \E up \in SUBSET Balancers : ping_balancers(s, up)
         \/ \E b \in Balancers : update_balancer(s, b)
         \/ edit_succeeds(s)
  PROVE  DInv'
  <1>1. DomainsTypeOK'
    <2>1. CASE \E up \in SUBSET Balancers : ping_balancers(s, up)
      BY <2>1 DEF DInv, DomainsTypeOK, ping_balancers, balancervars, DomainStages
    <2>2. CASE \E b \in Balancers : update_balancer(s, b)
      <3>1. PICK b \in Balancers : update_balancer(s, b)
        BY <2>2
      <3>2. Active(s) \in SUBSET Names
        BY RowsAreRows DEF DInv
      <3>3. site_file' \in [Balancers -> [Owners -> SUBSET Names]]
        BY <3>1, <3>2 DEF DInv, DomainsTypeOK, update_balancer
      <3>4. routed' \in [Balancers -> [Owners -> SUBSET Names]]
        BY <3>1, <3>3 DEF DInv, DomainsTypeOK, update_balancer, reload_balancer
      <3>5. edit' \in [Owners -> DomainStages] /\ to_update' \in [Owners -> SUBSET Balancers]
        BY <3>1 DEF DInv, DomainsTypeOK, update_balancer, DomainStages
      <3>6. UNCHANGED <<rows, wanted, todo, current, domain_obj, old, certs, contested, untouched,
                        reached>>
        BY <3>1 DEF update_balancer, auxvars
      <3> QED
        BY <3>3, <3>4, <3>5, <3>6 DEF DInv, DomainsTypeOK
    <2>3. CASE edit_succeeds(s)
      BY <2>3 DEF DInv, DomainsTypeOK, edit_succeeds, balancervars, auxvars, DomainStages
    <2> QED
      BY <2>1, <2>2, <2>3
  <1>2. \A t \in Owners : edit'[t] = edit[t] \/ {edit[t], edit'[t]} \intersect Writing = {}
    BY DEF DInv, DomainsTypeOK, Writing, ping_balancers, update_balancer, edit_succeeds
  <1>3. UNCHANGED <<rows, current, domain_obj, contested>>
    BY DEF ping_balancers, update_balancer, edit_succeeds, auxvars
  <1> QED
    BY <1>1, <1>2, <1>3, QuietKeeps

(* A task reads the row of its next name: what it read holds, by now.      *)
LEMMA GetKeeps ==
  ASSUME DInv, NEW s \in Owners, NEW n \in Names, get_domain(s, n)
  PROVE  DInv'
  <1> USE DEF get_domain
  <1>1. /\ edit[s] = "domains" /\ UNCHANGED <<rows, contested>>
        /\ \A t \in Owners : t # s => /\ edit'[t] = edit[t] /\ current'[t] = current[t]
                                      /\ domain_obj'[t] = domain_obj[t]
    BY DEF DInv, DomainsTypeOK, auxvars
  <1>2. \/ Named(n) = {} /\ edit'[s] = "create" /\ current'[s] = {n}
        \/ /\ edit'[s] = "save" /\ current'[s] = {n}
           /\ domain_obj'[s] \in Named(n) /\ may_take(s, domain_obj'[s])
        \/ edit'[s] \notin Writing /\ current'[s] = current[s]
    BY DEF DInv, DomainsTypeOK, Writing
  <1>3. DomainsTypeOK'
    <2>1. \A i \in Named(n) : i \in Nat
      BY LenProperties DEF Named, DInv, DomainsTypeOK
    <2>2. edit' \in [Owners -> DomainStages] /\ current' \in [Owners -> SUBSET Names]
      <3>1. edit \in [Owners -> DomainStages] /\ current \in [Owners -> SUBSET Names]
        BY DEF DInv, DomainsTypeOK
      <3>2. /\ \/ edit' = edit
               \/ \E e \in {"create", "save", "failed"} : edit' = [edit EXCEPT ![s] = e]
            /\ current' = current \/ current' = [current EXCEPT ![s] = {n}]
        OBVIOUS
      <3> QED
        BY ONLY <3>1, <3>2, n \in Names DEF DomainStages
    <2>3. domain_obj' \in [Owners -> Nat] /\ todo' \in [Owners -> SUBSET Names]
      BY <2>1 DEF DInv, DomainsTypeOK
    <2>4. UNCHANGED <<rows, wanted, old, to_update, site_file, routed, certs, contested, untouched, reached>>
      BY DEF balancervars, auxvars
    <2> QED
      BY <2>2, <2>3, <2>4 DEF DInv, DomainsTypeOK
  <1>4. LooksAtOne'
    <2>1. ASSUME NEW t \in Owners
          PROVE  IF edit'[t] \in Writing THEN \E m \in Names : current'[t] = {m} ELSE current'[t] = {}
      BY <1>1, <1>2 DEF DInv, LooksAtOne, Writing
    <2> QED
      BY <2>1 DEF LooksAtOne
  <1>5. OneOwner'
    BY <1>1 DEF DInv, OneOwner
  <1>6. ASSUME NEW t \in Owners PROVE RowStillFree(t)' /\ StillAbsent(t)'
    <2>1. CASE t # s
      BY <1>1, <2>1 DEF DInv, RowStillFree, StillAbsent, may_take
    <2>2. CASE t = s
      BY <1>1, <1>2, <2>2 DEF RowStillFree, StillAbsent, may_take, Named, Writing
    <2> QED
      BY <2>1, <2>2
  <1> QED
    BY <1>3, <1>4, <1>5, <1>6 DEF DInv

(* The row is written.  Whoever else was about to write it is contested.    *)
LEMMA WriteContests ==
  ASSUME DInv, NEW s \in Owners, NEW n \in Names, Wrote(s, n)
  PROVE  /\ current[s] = {n} /\ edit' = [edit EXCEPT ![s] = "domains"]
         /\ contested \subseteq contested' /\ contested' \subseteq Names
         /\ \A t \in Owners \ {s} : n \in current[t] => n \in contested'
         /\ \A t \in Owners \ {s} : /\ edit'[t] = edit[t] /\ current'[t] = current[t]
                                     /\ domain_obj'[t] = domain_obj[t]
         /\ edit'[s] = "domains" /\ current'[s] = {}
         /\ current' \in [Owners -> SUBSET Names] /\ domain_obj' \in [Owners -> Nat]
         /\ edit' \in [Owners -> DomainStages]
         /\ LooksAtOne'
  <1>1. /\ current[s] = {n} /\ edit' = [edit EXCEPT ![s] = "domains"]
        /\ current' = [current EXCEPT ![s] = {}] /\ domain_obj' = [domain_obj EXCEPT ![s] = 0]
    BY DEF Wrote
  <1>2. /\ edit' \in [Owners -> DomainStages] /\ edit'[s] = "domains"
        /\ current' \in [Owners -> SUBSET Names] /\ current'[s] = {}
        /\ domain_obj' \in [Owners -> Nat]
        /\ \A t \in Owners \ {s} : /\ edit'[t] = edit[t] /\ current'[t] = current[t]
                                    /\ domain_obj'[t] = domain_obj[t]
    BY <1>1 DEF DInv, DomainsTypeOK, DomainStages
  <1>3. /\ contested \subseteq contested' /\ contested' \subseteq Names
        /\ \A t \in Owners \ {s} : n \in current[t] => n \in contested'
    BY DEF Wrote, Contest, DInv, DomainsTypeOK
  <1>4. LooksAtOne'
    BY <1>2 DEF DInv, LooksAtOne, Writing
  <1> QED
    BY <1>1, <1>2, <1>3, <1>4

(* Names in the table stay where they are, and sites and statuses are as    *)
(* they were except where the task writes.                                 *)
LEMMA NameWriteKeeps ==
  ASSUME DInv, NEW s \in Owners, NEW n \in Names, save_domain(s, n) \/ create_domain(s, n)
  PROVE  DInv'
  <1> DEFINE new == Row(n, s, "active")
             bottom == Len(rows) + 1
  <1>1. new \in TableRows /\ new.name = n /\ new.site = s /\ new.status = "active"
    BY DEF Row, TableRows
  <1>2. Wrote(s, n)
    BY DEF save_domain, create_domain
  <1>3. /\ rows \in Seq(TableRows) /\ \A i \in DOMAIN rows : i \in Nat /\ rows[i] \in TableRows
        /\ DOMAIN rows = 1..Len(rows) /\ Len(rows) \in Nat
    BY RowsAreRows, LenProperties DEF DInv
  <1>4. \/ /\ edit[s] = "save" /\ domain_obj[s] \in DOMAIN rows /\ rows[domain_obj[s]].name = n
           /\ rows' = [rows EXCEPT ![domain_obj[s]] = new]
        \/ edit[s] = "create" /\ rows' = Append(rows, new)
    BY <1>2, WriteContests DEF save_domain, create_domain, DInv, RowStillFree
  <1>5. rows' \in Seq(TableRows)
    BY <1>1, <1>3, <1>4, TableKept
  <1>6. \A i \in DOMAIN rows : i \in DOMAIN rows' /\ rows'[i].name = rows[i].name
    BY <1>1, <1>3, <1>4, AppendProperties
  <1>7. \A i \in DOMAIN rows' :
          \/ i \in DOMAIN rows /\ rows'[i] = rows[i]
          \/ rows'[i] = new
    BY <1>3, <1>4, AppendProperties
  <1>8. DomainsTypeOK'
    <2>1. UNCHANGED <<wanted, todo, old, to_update, site_file, routed, certs, untouched, reached>>
      BY <1>2 DEF Wrote, balancervars
    <2> QED
      BY <1>2, <1>5, <2>1, WriteContests DEF DInv, DomainsTypeOK, TableRows
  <1>9. OneOwner'
    <2>1. ASSUME NEW i \in DOMAIN rows', NEW j \in DOMAIN rows',
                 rows'[i].name = rows'[j].name, rows'[i].name \notin contested'
          PROVE  i = j
      <3>1. rows'[i].name \notin contested
        BY <1>2, <2>1, WriteContests
      <3>2. CASE i \in DOMAIN rows /\ j \in DOMAIN rows
        BY <1>6, <2>1, <3>1, <3>2 DEF DInv, OneOwner
      <3>3. CASE ~ (i \in DOMAIN rows /\ j \in DOMAIN rows)
        <4>1. edit[s] = "create" /\ rows' = Append(rows, new) /\ DOMAIN rows' = 1..bottom
          BY <1>1, <1>3, <1>4, <3>3, AppendProperties
        <4>2. rows'[bottom] = new /\ \A k \in DOMAIN rows : rows'[k] = rows[k]
          BY <1>1, <1>3, <4>1, AppendProperties
        <4>3. \A k \in DOMAIN rows : rows[k].name = n => n \in contested
          <5>1. current[s] = {n} /\ StillAbsent(s)
            BY <1>2, WriteContests DEF DInv
          <5> QED
            BY ONLY <4>1, <5>1 DEF StillAbsent
        <4>4. i \in DOMAIN rows \/ i = bottom
          BY <1>3, <4>1
        <4>5. j \in DOMAIN rows \/ j = bottom
          BY <1>3, <4>1
        <4>6. rows'[i].name = n
          BY <1>1, <2>1, <3>3, <4>2, <4>4, <4>5
        <4> QED
          BY <1>6, <2>1, <3>1, <4>3, <4>4, <4>5, <4>6
      <3> QED
        BY <3>2, <3>3
    <2>2. ASSUME NEW i \in DOMAIN rows'
          PROVE  rows'[i].site = NoSite <=> rows'[i].status # "active"
      <3>1. CASE rows'[i] = new
        BY <1>1, <3>1, DomainsAssumption
      <3>2. CASE i \in DOMAIN rows /\ rows'[i] = rows[i]
        BY <3>2 DEF DInv, OneOwner
      <3> QED
        BY <1>7, <3>1, <3>2
    <2> QED
      BY <2>1, <2>2 DEF OneOwner
  <1>10. ASSUME NEW t \in Owners PROVE RowStillFree(t)' /\ StillAbsent(t)'
    <2>1. CASE t = s
      BY <1>2, <2>1, WriteContests DEF RowStillFree, StillAbsent
    <2>2. CASE t # s
      <3>1. /\ edit'[t] = edit[t] /\ current'[t] = current[t] /\ domain_obj'[t] = domain_obj[t]
            /\ n \in current[t] => n \in contested'
            /\ contested \subseteq contested'
        BY <1>2, <2>2, WriteContests
      <3>2. RowStillFree(t)'
        <4> SUFFICES ASSUME edit[t] = "save"
                     PROVE  /\ domain_obj[t] \in DOMAIN rows'
                            /\ rows'[domain_obj[t]].name \in current[t]
                            /\ rows'[domain_obj[t]].name \notin contested' => may_take(t, domain_obj[t])'
          BY <3>1 DEF RowStillFree, may_take
        <4>1. /\ domain_obj[t] \in DOMAIN rows /\ rows[domain_obj[t]].name \in current[t]
              /\ rows[domain_obj[t]].name \notin contested => may_take(t, domain_obj[t])
          BY DEF DInv, RowStillFree
        <4>2. rows'[domain_obj[t]] = new => n \in contested'
          BY <1>1, <1>6, <3>1, <4>1
        <4> QED
          BY <1>1, <1>6, <1>7, <3>1, <4>1, <4>2 DEF may_take
      <3>3. StillAbsent(t)'
        <4> SUFFICES ASSUME edit[t] = "create", NEW i \in DOMAIN rows', rows'[i].name \in current[t]
                     PROVE  rows'[i].name \in contested'
          BY <3>1 DEF StillAbsent
        <4>1. CASE rows'[i] = new
          BY <1>1, <3>1, <4>1
        <4>2. CASE i \in DOMAIN rows /\ rows'[i] = rows[i]
          BY <3>1, <4>2 DEF DInv, StillAbsent
        <4> QED
          BY <1>7, <4>1, <4>2
      <3> QED
        BY <3>2, <3>3
    <2> QED
      BY <2>1, <2>2
  <1> QED
    BY <1>2, <1>8, <1>9, <1>10, WriteContests DEF DInv

(* Giving up names makes them free: that disturbs nobody.                  *)
LEMMA RemoveKeeps ==
  ASSUME DInv, NEW s \in Owners, remove_others(s)
  PROVE  DInv'
  <1> USE DEF remove_others
  <1>1. /\ rows \in Seq(TableRows) /\ \A i \in DOMAIN rows : i \in Nat /\ rows[i] \in TableRows
    BY RowsAreRows DEF DInv
  <1>2. /\ rows' \in Seq(TableRows) /\ DOMAIN rows' = DOMAIN rows
        /\ \A i \in DOMAIN rows : rows'[i] = Release(s, rows[i])
    BY <1>1, TableKept
  <1>3. \A i \in DOMAIN rows :
          /\ rows'[i].name = rows[i].name
          /\ \/ rows'[i] = rows[i]
             \/ rows'[i].site = NoSite /\ rows'[i].status = "deleted"
    <2> SUFFICES ASSUME NEW i \in DOMAIN rows
                 PROVE  /\ rows'[i].name = rows[i].name
                        /\ \/ rows'[i] = rows[i]
                           \/ rows'[i].site = NoSite /\ rows'[i].status = "deleted"
      OBVIOUS
    <2>1. rows'[i] = rows[i] \/ rows'[i] = Row(rows[i].name, NoSite, "deleted")
      BY <1>2 DEF Release
    <2> QED
      BY <2>1 DEF Row
  <1>4. /\ \A t \in Owners : edit'[t] = edit[t] \/ {edit[t], edit'[t]} \intersect Writing = {}
        /\ UNCHANGED <<current, domain_obj, contested>>
    BY DEF DInv, DomainsTypeOK, Writing, auxvars
  <1>5. DomainsTypeOK'
    <2>1. edit' \in [Owners -> DomainStages] /\ wanted' \in [Owners -> SUBSET Names]
      BY DEF DInv, DomainsTypeOK, DomainStages
    <2>2. UNCHANGED <<todo, old, to_update, site_file, routed, certs, untouched, reached>>
      BY DEF balancervars, auxvars
    <2> QED
      BY <1>2, <1>4, <2>1, <2>2 DEF DInv, DomainsTypeOK, TableRows
  <1>6. LooksAtOne'
    BY <1>4 DEF DInv, LooksAtOne
  <1>7. OneOwner'
    BY <1>2, <1>3, <1>4 DEF DInv, OneOwner
  <1>8. ASSUME NEW t \in Owners PROVE RowStillFree(t)' /\ StillAbsent(t)'
    BY <1>2, <1>3, <1>4 DEF DInv, RowStillFree, StillAbsent, may_take, Writing
  <1> QED
    BY <1>5, <1>6, <1>7, <1>8 DEF DInv

(* A name that is reserved while a task has looked it up is contested.     *)
LEMMA BlockKeeps ==
  ASSUME DInv, NEW n \in Names, block_domain(n)
  PROVE  DInv'
  <1> USE DEF block_domain
  <1> DEFINE new == Row(n, NoSite, "blocked")
             bottom == Len(rows) + 1
  <1>1. /\ new \in TableRows /\ new.name = n /\ new.site = NoSite /\ new.status = "blocked"
    BY DEF Row, TableRows
  <1>2. /\ rows \in Seq(TableRows) /\ \A i \in DOMAIN rows : i \in Nat /\ rows[i] \in TableRows
        /\ DOMAIN rows = 1..Len(rows) /\ Len(rows) \in Nat
    BY RowsAreRows, LenProperties DEF DInv
  <1>3. /\ contested \subseteq contested' /\ contested' \subseteq Names
        /\ \A t \in Owners : n \in current[t] => n \in contested'
        /\ UNCHANGED <<edit, current, domain_obj>>
    BY DEF DInv, DomainsTypeOK, taskvars
  <1>4. \/ Named(n) = {} /\ rows' = Append(rows, new)
        \/ \E i \in Named(n) : rows' = [rows EXCEPT ![i] = new]
    OBVIOUS
  <1>5. rows' \in Seq(TableRows)
    BY <1>1, <1>2, <1>4, TableKept DEF Named
  <1>6. \A i \in DOMAIN rows : i \in DOMAIN rows' /\ rows'[i].name = rows[i].name
    BY <1>1, <1>2, <1>4, AppendProperties DEF Named
  <1>7. \A i \in DOMAIN rows' :
          \/ i \in DOMAIN rows /\ rows'[i] = rows[i]
          \/ rows'[i] = new
    BY <1>2, <1>4, AppendProperties DEF Named
  <1>8. DomainsTypeOK'
    <2>1. UNCHANGED <<wanted, todo, old, to_update, site_file, routed, certs, reached>>
      BY DEF taskvars, balancervars
    <2>2. untouched' \subseteq Owners
      BY DEF DInv, DomainsTypeOK
    <2> QED
      BY <1>3, <1>5, <2>1, <2>2 DEF DInv, DomainsTypeOK, TableRows
  <1>9. OneOwner'
    <2>1. ASSUME NEW i \in DOMAIN rows', NEW j \in DOMAIN rows',
                 rows'[i].name = rows'[j].name, rows'[i].name \notin contested'
          PROVE  i = j
      <3>1. CASE i \in DOMAIN rows /\ j \in DOMAIN rows
        BY <1>3, <1>6, <2>1, <3>1 DEF DInv, OneOwner
      <3>2. CASE ~ (i \in DOMAIN rows /\ j \in DOMAIN rows)
        <4>1. Named(n) = {} /\ rows' = Append(rows, new) /\ DOMAIN rows' = 1..bottom
          BY <1>1, <1>2, <1>4, <3>2, AppendProperties
        <4>2. rows'[bottom] = new /\ \A k \in DOMAIN rows : rows'[k] = rows[k]
          BY <1>1, <1>2, <4>1, AppendProperties
        <4>3. \A k \in DOMAIN rows : rows[k].name # n
          BY <4>1 DEF Named
        <4>4. (i \in DOMAIN rows \/ i = bottom) /\ (j \in DOMAIN rows \/ j = bottom)
          BY <1>2, <4>1
        <4> QED
          BY <1>1, <2>1, <3>2, <4>2, <4>3, <4>4
      <3> QED
        BY <3>1, <3>2
    <2>2. ASSUME NEW i \in DOMAIN rows'
          PROVE  rows'[i].site = NoSite <=> rows'[i].status # "active"
      BY <1>1, <1>7 DEF DInv, OneOwner
    <2> QED
      BY <2>1, <2>2 DEF OneOwner
  <1>10. LooksAtOne'
    BY <1>3 DEF DInv, LooksAtOne
  <1>11. ASSUME NEW t \in Owners PROVE RowStillFree(t)' /\ StillAbsent(t)'
    <2>1. RowStillFree(t)'
      <3> SUFFICES ASSUME edit[t] = "save"
                   PROVE  /\ domain_obj[t] \in DOMAIN rows'
                          /\ rows'[domain_obj[t]].name \in current[t]
                          /\ rows'[domain_obj[t]].name \notin contested' => may_take(t, domain_obj[t])'
        BY <1>3 DEF RowStillFree, may_take
      <3>1. /\ domain_obj[t] \in DOMAIN rows /\ rows[domain_obj[t]].name \in current[t]
            /\ rows[domain_obj[t]].name \notin contested => may_take(t, domain_obj[t])
        BY DEF DInv, RowStillFree
      <3>2. rows'[domain_obj[t]] = new => n \in contested'
        BY <1>1, <1>3, <1>6, <3>1
      <3> QED
        BY <1>1, <1>3, <1>6, <1>7, <3>1, <3>2 DEF may_take
    <2>2. StillAbsent(t)'
      <3> SUFFICES ASSUME edit[t] = "create", NEW i \in DOMAIN rows', rows'[i].name \in current[t]
                   PROVE  rows'[i].name \in contested'
        BY <1>3 DEF StillAbsent
      <3>1. CASE rows'[i] = new
        BY <1>1, <1>3, <3>1
      <3>2. CASE i \in DOMAIN rows /\ rows'[i] = rows[i]
        BY <1>3, <3>2 DEF DInv, StillAbsent
      <3> QED
        BY <1>7, <3>1, <3>2
    <2> QED
      BY <2>1, <2>2
  <1> QED
    BY <1>8, <1>9, <1>10, <1>11 DEF DInv

LEMMA DomainsStep == DInv /\ [DomainsNext]_domainvars => DInv'
  <1> SUFFICES ASSUME DInv, [DomainsNext]_domainvars PROVE DInv'
    OBVIOUS
  <1>1. CASE DomainsNext
    BY <1>1, EditKeeps, CertbotKeeps, BalancersKeep, GetKeeps, NameWriteKeeps, RemoveKeeps, BlockKeeps
       DEF DomainsNext
  <1>2. CASE UNCHANGED domainvars
    <2>1. DomainsTypeOK'
      BY <1>2 DEF domainvars, taskvars, balancervars, auxvars, DInv, DomainsTypeOK
    <2> QED
      BY <1>2, <2>1, QuietKeeps DEF domainvars, taskvars, auxvars
  <1> QED
    BY <1>1, <1>2

(* What a task read of an uncontested name holds until it writes it.       *)
THEOREM DomainsInvariant == DomainsSpec => []DInv
  BY DomainsInitial, DomainsStep, PTL DEF DomainsSpec

(* The table holds well-formed rows only, and tasks keep their types.      *)
THEOREM DomainsTypeCorrect == DomainsSpec => []DomainsTypeOK
  <1>1. DInv => DomainsTypeOK
    BY DEF DInv
  <1> QED
    BY <1>1, DomainsInvariant, PTL

(* A name nobody contested has one row, and an active one a site: however   *)
(* many sites ask for the same names at the same time.                     *)
THEOREM NamesHaveOneOwner == DomainsSpec => []OneOwner
  <1>1. DInv => OneOwner
    BY DEF DInv
  <1> QED
    BY <1>1, DomainsInvariant, PTL

(* The steps that write the table.                                         *)
LEMMA RowsChange ==
  ASSUME DomainsNext
  PROVE  \/ UNCHANGED rows
         \/ \E s \in Owners, n \in Names : save_domain(s, n)
         \/ \E s \in Owners, n \in Names : create_domain(s, n)
         \/ \E s \in Owners : remove_others(s)
         \/ \E n \in Names : block_domain(n)
  BY DEF DomainsNext, edit_names_view, get_domain, appserver_update_fails, certbot_setup,
     certbot_fails, list_old_domains, remove_old_domains, ping_balancers, update_balancer,
     edit_succeeds

(* No step takes an uncontested name from the site that has it, or from the *)
(* reserved ones, for another site.                                        *)
THEOREM NamesAreNotTaken == DomainsSpec => NotTaken
  <1> DEFINE Kept == \A i \in DOMAIN rows :
               rows[i].name \notin contested' /\ rows[i].status # "deleted"
                 => rows'[i].site \in {rows[i].site, NoSite}
  <1>1. DInv /\ [DomainsNext]_domainvars => [Kept]_domainvars
    <2> SUFFICES ASSUME DInv, DomainsNext, NEW i \in DOMAIN rows,
                        rows[i].name \notin contested', rows[i].status # "deleted"
                 PROVE  rows'[i].site \in {rows[i].site, NoSite}
      OBVIOUS
    <2>1. rows \in Seq(TableRows) /\ DOMAIN rows = 1..Len(rows) /\ Len(rows) \in Nat
      BY RowsAreRows, LenProperties DEF DInv
    <2>2. CASE UNCHANGED rows
      BY <2>2
    <2>3. CASE \E s \in Owners, n \in Names : save_domain(s, n)
      <3>1. PICK s \in Owners, n \in Names : save_domain(s, n)
        BY <2>3
      <3>2. /\ edit[s] = "save" /\ Wrote(s, n)
            /\ rows' = [rows EXCEPT ![domain_obj[s]] = Row(n, s, "active")]
        BY <3>1 DEF save_domain
      <3>3. CASE i = domain_obj[s]
        <4>1. rows[i].name \notin contested
          BY <3>2, WriteContests
        <4>2. may_take(s, i)
          BY <3>2, <3>3, <4>1 DEF DInv, RowStillFree
        <4>3. rows[i].site = s
          <5>1. rows[i].status = "active"
            BY <2>1, <4>2, RowsAreRows DEF DInv, may_take, TableRows
          <5>2. rows[i].site # NoSite
            BY <5>1 DEF DInv, OneOwner
          <5> QED
            BY <4>2, <5>2 DEF may_take
        <4> QED
          BY <3>2, <3>3, <4>3 DEF Row
      <3>4. CASE i # domain_obj[s]
        BY <3>2, <3>4
      <3> QED
        BY <3>3, <3>4
    <2>4. CASE \E s \in Owners, n \in Names : create_domain(s, n)
      <3>1. PICK s \in Owners, n \in Names : rows' = Append(rows, Row(n, s, "active"))
        BY <2>4 DEF create_domain
      <3>2. Row(n, s, "active") \in TableRows
        BY DEF Row, TableRows
      <3> QED
        BY <2>1, <3>1, <3>2, AppendProperties
    <2>5. CASE \E s \in Owners : remove_others(s)
      BY <2>5 DEF remove_others, Release, Row
    <2>6. CASE \E n \in Names : block_domain(n)
      BY <2>1, <2>6, AppendProperties DEF block_domain, Row, TableRows
    <2> QED
      BY <2>2, <2>3, <2>4, <2>5, <2>6, RowsChange
  <1> QED
    BY <1>1, DomainsInvariant, PTL DEF DomainsSpec, NotTaken

-----------------------------------------------------------------------------
(* What a site is served as, while its edit goes from the table to the     *)
(* certificates and on to the balancers.                                   *)

Settled == {"certbot", "old", "old_request", "ping", "update", "done"}

(* The names a task is about to take the certificates of are not in use.   *)
OldAreUnused(t) ==
  /\ old[t] # {} => edit[t] = "old_request"
  /\ \A n \in old[t] \ contested :
       \A i \in DOMAIN rows : rows[i].name = n => rows[i].status # "active"

HasCertificates(s) ==
  edit[s] \in Settled \ {"certbot"} => Active(s) \ contested \subseteq certs

RoutesOwn(s, b) ==
  \A n \in Names \ contested :
    (n \in site_file[b][s] <=> n \in Active(s)) /\ (n \in routed[b][s] <=> n \in Active(s))

IsRouted(s) ==
  /\ edit[s] = "update" => \A b \in reached[s] \ to_update[s] : RoutesOwn(s, b)
  /\ edit[s] = "done" => \A b \in reached[s] : RoutesOwn(s, b)

ServedInv ==
  /\ DInv /\ \A t \in Owners : OldAreUnused(t)
  /\ \A s \in untouched : HasCertificates(s) /\ IsRouted(s)
LEMMA ServedInitial == DomainsInit => ServedInv
  <1> SUFFICES ASSUME DomainsInit PROVE ServedInv
    OBVIOUS
  <1> QED
    BY DomainsInitial DEF DomainsInit, ServedInv, OldAreUnused

(* Nobody but its own task and the administrators changes which names a    *)
(* site has, if they are not contested.                                    *)
LEMMA ActiveStays ==
  ASSUME DInv, DomainsNext, NEW s \in untouched', s \in Owners, edit[s] \in Settled,
         NEW n \in Names \ contested'
  PROVE  n \in Active(s)' <=> n \in Active(s)
  <1> DEFINE Has(r) == r.site = s /\ r.status = "active" /\ r.name = n
  <1>1. /\ n \in Active(s) <=> \E i \in DOMAIN rows : Has(rows[i])
        /\ n \in Active(s)' <=> \E i \in DOMAIN rows' : Has(rows'[i])
    BY DEF Active
  <1>2. rows \in Seq(TableRows) /\ DOMAIN rows = 1..Len(rows) /\ Len(rows) \in Nat
    BY RowsAreRows, LenProperties DEF DInv
  <1>3. s # NoSite
    BY DomainsAssumption
  <1> HIDE DEF Has
  <1>4. CASE UNCHANGED rows
    BY <1>1, <1>4
  <1>5. CASE \E t \in Owners, m \in Names : save_domain(t, m)
    <2>1. PICK t \in Owners, m \in Names : save_domain(t, m)
      BY <1>5
    <2>2. /\ t # s /\ Wrote(t, m) /\ edit[t] = "save"
          /\ rows' = [rows EXCEPT ![domain_obj[t]] = Row(m, t, "active")]
      BY <2>1 DEF save_domain, Settled
    <2>3. contested \subseteq contested' /\ current[t] = {m}
      BY <2>2, WriteContests
    <2>4. domain_obj[t] \in DOMAIN rows /\ rows[domain_obj[t]].name = m
      BY <2>2, <2>3 DEF DInv, RowStillFree
    <2>5. ~ Has(rows[domain_obj[t]])
      <3> SUFFICES ASSUME Has(rows[domain_obj[t]]) PROVE FALSE
        OBVIOUS
      <3>1. m = n /\ m \notin contested /\ rows[domain_obj[t]].site = s
        BY <2>3, <2>4 DEF Has
      <3> QED
        BY <1>3, <2>2, <2>4, <3>1 DEF DInv, RowStillFree, may_take
    <2>6. ~ Has(Row(m, t, "active"))
      BY <2>2 DEF Has, Row
    <2> QED
      BY <1>1, <2>2, <2>4, <2>5, <2>6
  <1>6. CASE \E t \in Owners, m \in Names : create_domain(t, m)
    <2>1. PICK t \in Owners, m \in Names : create_domain(t, m)
      BY <1>6
    <2>2. t # s /\ rows' = Append(rows, Row(m, t, "active")) /\ Row(m, t, "active") \in TableRows
      BY <2>1 DEF create_domain, Settled, Row, TableRows
    <2>3. ~ Has(Row(m, t, "active"))
      BY <2>2 DEF Has, Row
    <2> QED
      BY <1>1, <1>2, <2>2, <2>3, AppendProperties
  <1>7. CASE \E t \in Owners : remove_others(t)
    <2>1. PICK t \in Owners : remove_others(t)
      BY <1>7
    <2>2. t # s /\ rows' = [i \in DOMAIN rows |-> Release(t, rows[i])]
      BY <2>1 DEF remove_others, Settled
    <2>3. \A i \in DOMAIN rows : Has(Release(t, rows[i])) <=> Has(rows[i])
      BY <1>3, <2>2 DEF Has, Release, Row
    <2> QED
      BY <1>1, <2>2, <2>3
  <1>8. CASE \E m \in Names : block_domain(m)
    <2>1. PICK m \in Names : block_domain(m)
      BY <1>8
    <2>2. Row(m, NoSite, "blocked") \in TableRows /\ ~ Has(Row(m, NoSite, "blocked"))
      BY <1>3 DEF Has, Row, TableRows
    <2>3. CASE rows' = Append(rows, Row(m, NoSite, "blocked"))
      BY <1>1, <1>2, <2>2, <2>3, AppendProperties
    <2>4. CASE \E i \in Named(m) : /\ rows' = [rows EXCEPT ![i] = Row(m, NoSite, "blocked")]
                                  /\ untouched' = untouched \ {rows[i].site}
      <3>1. PICK i \in Named(m) : /\ rows' = [rows EXCEPT ![i] = Row(m, NoSite, "blocked")]
                                  /\ untouched' = untouched \ {rows[i].site}
        BY <2>4
      <3>2. i \in DOMAIN rows /\ ~ Has(rows[i])
        BY <3>1 DEF Named, Has
      <3> QED
        BY <1>1, <2>2, <3>1, <3>2
    <2> QED
      BY <2>1, <2>3, <2>4 DEF block_domain
  <1> QED
    BY <1>4, <1>5, <1>6, <1>7, <1>8, RowsChange
LEMMA ContestedGrows ==
  ASSUME DInv, DomainsNext
  PROVE  contested \subseteq contested'
  BY DEF DomainsNext, edit_names_view, get_domain, Wrote, Contest, save_domain, create_domain,
     remove_others, appserver_update_fails, certbot_setup, certbot_fails, list_old_domains,
     remove_old_domains, ping_balancers, update_balancer, edit_succeeds, block_domain, auxvars

(* Where a site comes from that is past its edit of the table.             *)
LEMMA SettledStep ==
  ASSUME DInv, DomainsNext, NEW s \in untouched', s \in Owners, edit'[s] \in Settled \ {"certbot"}
  PROVE  /\ s \in untouched /\ edit[s] \in Settled
         /\ edit[s] = "certbot" => certbot_setup(s)
         /\ edit'[s] = "update" /\ edit[s] # "update" => \E up \in SUBSET Balancers : ping_balancers(s, up)
         /\ edit'[s] = "done" /\ edit[s] # "done" => edit_succeeds(s)
  <1>1. edit \in [Owners -> DomainStages]
    BY DEF DInv, DomainsTypeOK
  <1> DEFINE Goal == /\ s \in untouched /\ edit[s] \in Settled
                     /\ edit[s] = "certbot" => certbot_setup(s)
                     /\ edit'[s] = "update" /\ edit[s] # "update"
                          => \E up \in SUBSET Balancers : ping_balancers(s, up)
                     /\ edit'[s] = "done" /\ edit[s] # "done" => edit_succeeds(s)
  <1>2. ASSUME NEW t \in Owners,
               \/ \E names \in SUBSET Names : edit_names_view(t, names)
               \/ \E n \in Names : get_domain(t, n) \/ save_domain(t, n) \/ create_domain(t, n)
               \/ remove_others(t) \/ appserver_update_fails(t)
        PROVE  Goal
    <2>1. t # s
      BY <1>1, <1>2 DEF edit_names_view, get_domain, save_domain, create_domain, Wrote, remove_others,
         appserver_update_fails, Settled
    <2>2. edit'[s] = edit[s] /\ s \in untouched
      BY <1>1, <1>2, <2>1 DEF edit_names_view, get_domain, save_domain, create_domain, Wrote,
         remove_others, appserver_update_fails, auxvars
    <2> QED
      BY <2>2
  <1>3. ASSUME NEW t \in Owners,
               \/ certbot_setup(t) \/ certbot_fails(t)
               \/ list_old_domains(t) \/ remove_old_domains(t)
               \/ \E up \in SUBSET Balancers : ping_balancers(t, up)
        PROVE  Goal
    BY <1>1, <1>3 DEF certbot_setup, certbot_fails, list_old_domains, remove_old_domains,
       ping_balancers, auxvars, Settled
  <1>4. ASSUME NEW t \in Owners, edit_succeeds(t) \/ \E b \in Balancers : update_balancer(t, b)
        PROVE  Goal
    BY <1>1, <1>4 DEF edit_succeeds, update_balancer, auxvars, Settled
  <1>5. ASSUME NEW n \in Names, block_domain(n)
        PROVE  Goal
    BY <1>5 DEF block_domain, taskvars
  <1> QED
    BY <1>2, <1>3, <1>4, <1>5 DEF DomainsNext

LEMMA OldStep ==
  ASSUME ServedInv, DomainsNext, NEW t \in Owners
  PROVE  OldAreUnused(t)'
  <1>1. /\ DInv /\ old \in [Owners -> SUBSET Names] /\ edit \in [Owners -> DomainStages]
        /\ OldAreUnused(t) /\ contested \subseteq contested'
    BY ContestedGrows DEF ServedInv, DInv, DomainsTypeOK
  <1>2. CASE list_old_domains(t)
    <2>1. /\ old'[t] = old_domains(t) /\ edit'[t] = "old_request" /\ rows' = rows
          /\ contested' = contested
      BY <1>1, <1>2 DEF list_old_domains, auxvars
    <2>2. ASSUME NEW n \in old_domains(t) \ contested, NEW i \in DOMAIN rows, rows[i].name = n
          PROVE  rows[i].status # "active"
      <3>1. PICK j \in DOMAIN rows : rows[j].status # "active" /\ rows[j].name = n
        BY <2>2 DEF old_domains
      <3>2. i = j
        BY <1>1, <2>2, <3>1 DEF DInv, OneOwner
      <3> QED
        BY <3>1, <3>2
    <2> QED
      BY <2>1, <2>2 DEF OldAreUnused
  <1>3. CASE ~ list_old_domains(t)
    <2>1. old'[t] = {} \/ (old'[t] = old[t] /\ edit'[t] = edit[t]) \/ (old'[t] = old[t] /\ old[t] = {})
      <3>1. old'[t] = old[t] \/ old'[t] = {}
        BY <1>1, <1>3 DEF DomainsNext, edit_names_view, get_domain, Wrote, save_domain, create_domain,
           remove_others, appserver_update_fails, certbot_setup, certbot_fails, list_old_domains,
           remove_old_domains, ping_balancers, update_balancer, edit_succeeds, block_domain, taskvars
      <3>2. edit[t] = "old_request" => edit'[t] = edit[t] \/ old'[t] = {}
        BY <1>1 DEF DomainsNext, edit_names_view, get_domain, Wrote, save_domain, create_domain,
           remove_others, appserver_update_fails, certbot_setup, certbot_fails, list_old_domains,
           remove_old_domains, ping_balancers, update_balancer, edit_succeeds, block_domain, taskvars
      <3> QED
        BY <1>1, <3>1, <3>2 DEF OldAreUnused
    <2>2. ASSUME NEW n \in old[t] \ contested', NEW i \in DOMAIN rows', rows'[i].name = n
          PROVE  rows'[i].status # "active"
      <3>1. \A j \in DOMAIN rows : rows[j].name = n => rows[j].status # "active"
        BY <1>1, <2>2 DEF OldAreUnused
      <3>2. edit[t] = "old_request"
        BY <1>1, <2>2 DEF OldAreUnused
      <3>3. rows \in Seq(TableRows) /\ DOMAIN rows = 1..Len(rows) /\ Len(rows) \in Nat
        BY <1>1, RowsAreRows, LenProperties DEF DInv
      <3>4. CASE UNCHANGED rows
        BY <2>2, <3>1, <3>4
      <3>5. ASSUME NEW s \in Owners, NEW m \in Names, save_domain(s, m) \/ create_domain(s, m)
            PROVE  rows'[i].status # "active"
        <4>1. s # t /\ Wrote(s, m)
          BY <3>2, <3>5 DEF save_domain, create_domain
        <4>2. m # n
          BY <2>2, <4>1 DEF Wrote, Contest
        <4>3. Row(m, s, "active") \in TableRows /\ Row(m, s, "active").name # n
          BY <4>2 DEF Row, TableRows
        <4>4. i \in DOMAIN rows /\ rows'[i] = rows[i]
          BY <2>2, <3>3, <3>5, <4>3, AppendProperties DEF save_domain, create_domain
        <4> QED
          BY <2>2, <3>1, <4>4
      <3>6. ASSUME NEW s \in Owners, remove_others(s)
            PROVE  rows'[i].status # "active"
        BY <2>2, <3>1, <3>6 DEF remove_others, Release, Row
      <3>7. ASSUME NEW m \in Names, block_domain(m)
            PROVE  rows'[i].status # "active"
        <4>1. Row(m, NoSite, "blocked") \in TableRows /\ Row(m, NoSite, "blocked").status # "active"
          BY DEF Row, TableRows
        <4>2. \/ i \in DOMAIN rows /\ rows'[i] = rows[i]
              \/ rows'[i] = Row(m, NoSite, "blocked")
          BY <3>3, <3>7, <4>1, AppendProperties DEF block_domain
        <4> QED
          BY <2>2, <3>1, <4>1, <4>2
      <3> QED
        BY <3>4, <3>5, <3>6, <3>7, RowsChange
    <2> QED
      BY <1>1, <2>1, <2>2 DEF OldAreUnused
  <1> QED
    BY <1>2, <1>3
LEMMA CertificatesStep ==
  ASSUME ServedInv, DomainsNext, NEW s \in untouched', s \in Owners
  PROVE  HasCertificates(s)'
  <1> SUFFICES ASSUME edit'[s] \in Settled \ {"certbot"}, NEW n \in Names \ contested', n \in Active(s)'
               PROVE  n \in certs'
    <2>1. DomainsTypeOK'
      BY DomainsStep DEF ServedInv, DInv
    <2>2. \A i \in DOMAIN rows' : rows'[i].name \in Names
      <3>1. rows' \in Seq(TableRows)
        BY <2>1 DEF DomainsTypeOK, TableRows
      <3>2. \A i \in DOMAIN rows' : rows'[i] \in TableRows
        BY <3>1, ElementOfSeq, LenProperties
      <3> QED
        BY <3>2 DEF TableRows
    <2>3. Active(s)' \subseteq Names
      BY <2>2 DEF Active
    <2> QED
      BY <2>3 DEF HasCertificates
  <1>1. DInv /\ s \in untouched /\ edit[s] \in Settled /\ (edit[s] = "certbot" => certbot_setup(s))
    BY SettledStep DEF ServedInv
  <1>2. n \in Active(s) /\ n \notin contested
    BY <1>1, ActiveStays, ContestedGrows
  <1>3. CASE edit[s] = "certbot"
    BY <1>1, <1>2, <1>3 DEF certbot_setup
  <1>4. CASE edit[s] # "certbot"
    <2>1. n \in certs
      BY <1>1, <1>2, <1>4 DEF ServedInv, HasCertificates
    <2>2. \A t \in Owners : n \notin old[t]
      <3>1. \E i \in DOMAIN rows : rows[i].name = n /\ rows[i].status = "active"
        BY <1>2 DEF Active
      <3> QED
        BY <1>2, <3>1 DEF ServedInv, OldAreUnused
    <2>3. \/ certs \subseteq certs'
          \/ \E t \in Owners : certs' = certs \ old[t]
      BY DEF DomainsNext, edit_names_view, get_domain, Wrote, save_domain, create_domain,
         remove_others, appserver_update_fails, certbot_setup, certbot_fails, list_old_domains,
         remove_old_domains, ping_balancers, update_balancer, edit_succeeds, block_domain, balancervars
    <2> QED
      BY <2>1, <2>2, <2>3
  <1> QED
    BY <1>3, <1>4

(* A balancer that has the names of a site keeps them.                     *)
LEMMA RoutesStay ==
  ASSUME ServedInv, DomainsNext, NEW s \in untouched', s \in Owners, edit[s] \in Settled,
         NEW b \in Balancers, RoutesOwn(s, b)
  PROVE  RoutesOwn(s, b)'
  <1>1. /\ DInv /\ site_file \in [Balancers -> [Owners -> SUBSET Names]]
        /\ routed \in [Balancers -> [Owners -> SUBSET Names]]
    BY DEF ServedInv, DInv, DomainsTypeOK
  <1>2. \A n \in Names \ contested' : n \notin contested /\ (n \in Active(s)' <=> n \in Active(s))
    BY <1>1, ActiveStays, ContestedGrows
  <1>3. \/ UNCHANGED <<site_file, routed>>
        \/ \E t \in Owners, c \in Balancers : update_balancer(t, c)
    BY DEF DomainsNext, edit_names_view, get_domain, Wrote, save_domain, create_domain,
       remove_others, appserver_update_fails, certbot_setup, certbot_fails, list_old_domains,
       remove_old_domains, ping_balancers, edit_succeeds, block_domain, balancervars
  <1>4. /\ site_file'[b][s] \in {site_file[b][s], Active(s)}
        /\ routed'[b][s] \in {routed[b][s], site_file'[b][s]}
    <2>1. CASE UNCHANGED <<site_file, routed>>
      BY <2>1
    <2>2. CASE \E t \in Owners, c \in Balancers : update_balancer(t, c)
      <3>1. PICK t \in Owners, c \in Balancers : update_balancer(t, c)
        BY <2>2
      <3>2. /\ site_file' = [site_file EXCEPT ![c][t] = Active(t)]
            /\ routed' \in {routed, [routed EXCEPT ![c] = site_file'[c]]}
        BY <3>1 DEF update_balancer, reload_balancer
      <3>3. site_file'[b][s] = IF b = c /\ s = t THEN Active(s) ELSE site_file[b][s]
        BY <1>1, <3>2
      <3> QED
        BY <1>1, <3>2, <3>3
    <2> QED
      BY <1>3, <2>1, <2>2
  <1> QED
    BY <1>2, <1>4 DEF RoutesOwn

LEMMA RoutedStep ==
  ASSUME ServedInv, DomainsNext, NEW s \in untouched', s \in Owners
  PROVE  IsRouted(s)'
  <1>1. /\ DInv /\ site_file \in [Balancers -> [Owners -> SUBSET Names]]
        /\ routed \in [Balancers -> [Owners -> SUBSET Names]]
        /\ reached \in [Owners -> SUBSET Balancers] /\ to_update \in [Owners -> SUBSET Balancers]
        /\ edit \in [Owners -> DomainStages]
    BY DEF ServedInv, DInv, DomainsTypeOK
  <1>2. ASSUME edit'[s] = "update", NEW b \in reached'[s] \ to_update'[s]
        PROVE  RoutesOwn(s, b)'
    <2>1. s \in untouched /\ edit[s] \in Settled
      BY <1>1, <1>2, SettledStep DEF Settled
    <2>2. edit[s] = "update"
      <3> SUFFICES ASSUME edit[s] # "update" PROVE FALSE
        OBVIOUS
      <3>1. PICK up \in SUBSET Balancers : ping_balancers(s, up)
        BY <1>1, <1>2, SettledStep DEF Settled
      <3> QED
        BY <1>1, <1>2, <3>1 DEF ping_balancers
    <2>3. /\ reached'[s] = reached[s] /\ b \in Balancers
          /\ b \in to_update[s] => update_balancer(s, b)
      <3>1. CASE UNCHANGED <<to_update, reached>>
        BY <1>1, <1>2, <3>1
      <3>2. CASE \E t \in Owners, up \in SUBSET Balancers : ping_balancers(t, up)
        <4>1. PICK t \in Owners, up \in SUBSET Balancers : ping_balancers(t, up)
          BY <3>2
        <4>2. t # s
          BY <2>2, <4>1 DEF ping_balancers
        <4> QED
          BY <1>1, <1>2, <4>1, <4>2 DEF ping_balancers
      <3>3. CASE \E t \in Owners, c \in Balancers : update_balancer(t, c)
        <4>1. PICK t \in Owners, c \in Balancers : update_balancer(t, c)
          BY <3>3
        <4>2. reached' = reached /\ to_update' = [to_update EXCEPT ![t] = @ \ {c}]
          BY <4>1 DEF update_balancer, auxvars
        <4> QED
          BY <1>1, <1>2, <4>1, <4>2
      <3> QED
        BY <3>1, <3>2, <3>3 DEF DomainsNext, edit_names_view, get_domain, Wrote, save_domain,
           create_domain, remove_others, appserver_update_fails, certbot_setup, certbot_fails,
           list_old_domains, remove_old_domains, edit_succeeds, block_domain, taskvars, auxvars
    <2>4. CASE b \notin to_update[s]
      <3>1. RoutesOwn(s, b)
        BY <1>2, <2>1, <2>2, <2>3, <2>4 DEF ServedInv, IsRouted
      <3> QED
        BY <2>1, <2>3, <3>1, RoutesStay
    <2>5. CASE b \in to_update[s]
      <3>1. update_balancer(s, b) /\ rows' = rows
        BY <2>3, <2>5 DEF update_balancer
      <3>2. site_file'[b][s] = Active(s) /\ routed'[b] = site_file'[b]
        BY <1>1, <1>2, <2>3, <3>1 DEF update_balancer, reload_balancer
      <3>3. Active(s)' = Active(s)
        BY <3>1 DEF Active
      <3> QED
        BY <3>2, <3>3 DEF RoutesOwn
    <2> QED
      BY <2>4, <2>5
  <1>3. ASSUME edit'[s] = "done", NEW b \in reached'[s]
        PROVE  RoutesOwn(s, b)'
    <2>1. s \in untouched /\ edit[s] \in Settled /\ (edit[s] # "done" => edit_succeeds(s))
      BY <1>1, <1>3, SettledStep DEF Settled
    <2>2. reached'[s] = reached[s] /\ b \in Balancers
      BY <1>1, <1>3 DEF DomainsNext, edit_names_view, get_domain, Wrote, save_domain, create_domain,
         remove_others, appserver_update_fails, certbot_setup, certbot_fails, list_old_domains,
         remove_old_domains, ping_balancers, update_balancer, edit_succeeds, block_domain, taskvars, auxvars
    <2>3. RoutesOwn(s, b)
      BY <2>1, <2>2, <1>3 DEF ServedInv, IsRouted, edit_succeeds
    <2> QED
      BY <2>1, <2>2, <2>3, RoutesStay
  <1> QED
    BY <1>2, <1>3 DEF IsRouted

LEMMA ServedStep == ServedInv /\ [DomainsNext]_domainvars => ServedInv'
  <1> SUFFICES ASSUME ServedInv, [DomainsNext]_domainvars PROVE ServedInv'
    OBVIOUS
  <1>1. DInv'
    BY DomainsStep DEF ServedInv
  <1>2. CASE DomainsNext
    <2>1. untouched' \subseteq Owners
      BY <1>1 DEF DInv, DomainsTypeOK
    <2> QED
      BY <1>1, <1>2, <2>1, OldStep, CertificatesStep, RoutedStep DEF ServedInv
  <1>3. CASE UNCHANGED domainvars
    BY <1>1, <1>3 DEF domainvars, taskvars, balancervars, auxvars, ServedInv, OldAreUnused,
       HasCertificates, IsRouted, RoutesOwn, Active
  <1> QED
    BY <1>2, <1>3

(* After an edit that succeeded the balancers that answered route to the   *)
(* site exactly the names it owns and it has their certificates, for any   *)
(* number of sites, names and balancers: but for the names whose row two   *)
(* tasks wrote at the same time, or which the site took while another task *)
(* had them on its list of certificates to remove, as that task removes    *)
(* them, and for sites from which the administrators took a name.          *)
THEOREM OwnedAreServed == DomainsSpec => []OwnedIsServed
  <1>1. DomainsInit => ServedInv
    BY ServedInitial
  <1>2. ServedInv => OwnedIsServed
    <2> SUFFICES ASSUME ServedInv, NEW s \in untouched, edit[s] = "done"
                 PROVE  /\ \A b \in reached[s] : \A n \in Names \ contested : n \in routed[b][s] <=> n \in Active(s)
                        /\ Active(s) \ contested \subseteq certs
      BY DEF OwnedIsServed, OwnedIsRouted, CertificatesStay
    <2> QED
      BY DEF ServedInv, IsRouted, HasCertificates, RoutesOwn, Settled
  <1> QED
    BY <1>1, <1>2, ServedStep, PTL DEF DomainsSpec

-----------------------------------------------------------------------------
(* The databases of sites and the requests for sites.                      *)
(*                                                                         *)
(* As long as no request to an appserver overlaps one that an operation    *)
(* gave up, only the last one runs.  What its statements have done so far  *)
(* then holds until it is answered, and afterwards until the next          *)
(* operation.                                                              *)

Creates == {"create", "regen", "fix"}
Granting == {"find_user", "set_user", "find_database", "make_database", "grant_database",
             "grant_schema", "grant_mysql"}
Dropping == {"drop_database", "look_again", "refuse", "drop_again", "revoke", "drop_user"}
Statements == Granting \union Dropping \union {"none", "success", "end"}

DatabaseTypes ==
  /\ DatabaseTypeOK /\ passwords \in Nat /\ dbms \in {"postgres", "mysql"}
  /\ request \in [Requests -> Creates \union {"none", "delete"}]
  /\ statement \in [Requests -> Statements]
  /\ found \in [Requests -> BOOLEAN]
  /\ last \subseteq Requests /\ overlap \in BOOLEAN /\ clean \in BOOLEAN

(* What the statements before the one a request comes to have done.        *)
Created(r) == db_user = password[r] /\ db_name
Opened(r) == Created(r) /\ granted /\ on_schema = (dbms = "postgres")
Gone == db_user = 0 /\ ~db_name

CreatedSoFar(r) ==
  /\ password[r] = row /\ row # 0
  /\ statement[r] \in Granting \union {"success", "end"}
  /\ statement[r] = "set_user" => found[r] = (db_user # 0)
  /\ statement[r] \in {"find_database", "make_database"} => db_user = password[r]
  /\ statement[r] = "make_database" /\ dbms = "postgres" => found[r] = db_name
  /\ statement[r] \in {"grant_database", "grant_schema", "grant_mysql"} => Created(r)
  /\ statement[r] \in {"grant_database", "grant_schema"} => dbms = "postgres"
  /\ statement[r] = "grant_mysql" => dbms = "mysql"
  /\ statement[r] = "grant_schema" => granted
  /\ statement[r] = "success" \/ answer[r] = "success" => Opened(r)

DroppedSoFar(r) ==
  /\ statement[r] \in Dropping \union {"success", "end"}
  /\ statement[r] \in {"look_again", "refuse", "drop_again", "revoke"} => dbms = "postgres"
  /\ statement[r] = "refuse" => db_name
  /\ statement[r] \in {"revoke", "drop_user"} => ~db_name /\ (dbms = "postgres" => ~granted)
  /\ statement[r] = "drop_user" => ~on_schema
  /\ statement[r] = "success" \/ answer[r] = "success" => Gone
  /\ answer[r] = "success" => row = 0
  /\ answer[r] = "error" /\ clean => dbms = "postgres" /\ db_user = 0

LastAlone ==
  /\ \A q \in Requests : Running(q) => q \in last
  /\ \A q, r \in last : q = r
  /\ \A r \in last :
       /\ request[r] # "none"
       /\ request[r] \in Creates => CreatedSoFar(r)
       /\ request[r] = "delete" => DroppedSoFar(r)
       /\ answer[r] = "success" => statement[r] = "end"
       /\ answer[r] = "error" /\ clean => statement[r] = "end"

(* MySQL has no privileges on a schema, and PostgreSQL none on a database   *)
(* that is gone.                                                           *)
HostSound ==
  /\ dbms = "mysql" => ~on_schema
  /\ dbms = "postgres" /\ granted => db_name

(* Which statements each DBMS is sent.                                     *)
Dialect(s) ==
  /\ s \in {"find_database", "grant_database", "grant_schema", "look_again", "refuse",
            "drop_again", "revoke"} => dbms = "postgres"
  /\ s = "grant_mysql" => dbms = "mysql"

DbInv ==
  /\ DatabaseTypes
  /\ HostSound
  /\ \A r \in Requests : /\ request[r] = "none" <=> statement[r] = "none"
                         /\ request[r] = "none" <=> answer[r] = "none"
                         /\ Dialect(statement[r])
  /\ overlap \/ LastAlone

LEMMA DatabaseInitial == DatabaseInit => DbInv
  <1> SUFFICES ASSUME DatabaseInit PROVE DbInv
    OBVIOUS
  <1>1. DatabaseTypes
    <2>1. dbms \in {"postgres", "mysql"}
      BY DatabaseAssumption DEF DatabaseInit
    <2>2. /\ request \in [Requests -> Creates \union {"none", "delete"}]
          /\ statement \in [Requests -> Statements]
          /\ found \in [Requests -> BOOLEAN]
      BY DEF DatabaseInit, Creates, Statements
    <2>3. DatabaseTypeOK
      <3>1. passwords = 0 /\ 0 \in 0..passwords
        BY DEF DatabaseInit
      <3>2. password \in [Requests -> 0..passwords]
        BY <3>1 DEF DatabaseInit
      <3> QED
        BY <3>1, <3>2 DEF DatabaseInit, DatabaseTypeOK
    <2> QED
      BY <2>1, <2>2, <2>3 DEF DatabaseInit, DatabaseTypes
  <1> QED
    BY <1>1 DEF DatabaseInit, DbInv, HostSound, Dialect, LastAlone, Running

(* A request that an operation sends starts from nothing, and alone unless *)
(* an earlier one still runs.                                              *)
LEMMA AskKeeps ==
  ASSUME DbInv, NEW r \in Requests,
         \/ create_database_task(r) \/ regen_database_password(r)
         \/ create_real_site_database(r) \/ delete_site_database(r)
  PROVE  DbInv'
  <1> DEFINE Asked(what, first) ==
        /\ request[r] = "none" /\ request' = [request EXCEPT ![r] = what]
        /\ row' \in Nat \ {0} /\ row' <= passwords' /\ passwords' \in Nat /\ passwords <= passwords'
        /\ password' = [password EXCEPT ![r] = row']
        /\ statement' = [statement EXCEPT ![r] = first]
        /\ answer' = [answer EXCEPT ![r] = "waiting"]
        /\ last' = {r} /\ clean' = TRUE
        /\ overlap' = (overlap \/ \E q \in Requests : Running(q))
        /\ UNCHANGED <<dbms, hostvars, accessvars, found>>
  <1>1. \/ \E what \in Creates : Asked(what, "find_user")
        \/ Asked("delete", "drop_database")
    <2>1. row \in 0..passwords /\ passwords \in Nat
      BY DEF DbInv, DatabaseTypes, DatabaseTypeOK
    <2> QED
      BY <2>1 DEF create_database_task, regen_database_password, create_real_site_database,
                  delete_site_database, Ask, Creates
  <1>2. PICK what \in Creates \union {"delete"}, first \in {"find_user", "drop_database"} :
          Asked(what, first) /\ (what = "delete" <=> first = "drop_database")
    BY <1>1 DEF Creates
  <1> HIDE DEF Asked
  <1>3. DatabaseTypes'
    <2>1. row' \in 0..passwords' /\ passwords' \in Nat /\ db_user' \in 0..passwords'
      BY <1>2 DEF Asked, DbInv, DatabaseTypes, DatabaseTypeOK, hostvars, accessvars
    <2>2. password' \in [Requests -> 0..passwords']
      BY <1>2 DEF Asked, DbInv, DatabaseTypes, DatabaseTypeOK
    <2>3. /\ request' \in [Requests -> Creates \union {"none", "delete"}]
          /\ statement' \in [Requests -> Statements]
          /\ answer' \in [Requests -> {"none", "waiting", "success", "error"}]
      BY <1>2 DEF Asked, DbInv, DatabaseTypes, DatabaseTypeOK, Statements, Granting, Dropping, Creates
    <2> QED
      BY <1>2, <2>1, <2>2, <2>3 DEF Asked, DbInv, DatabaseTypes, DatabaseTypeOK, hostvars, accessvars
  <1>4. \A q \in Requests : /\ request'[q] = "none" <=> statement'[q] = "none"
                            /\ request'[q] = "none" <=> answer'[q] = "none"
                            /\ Dialect(statement[q])'
    BY <1>2 DEF Asked, DbInv, DatabaseTypes, DatabaseTypeOK, Creates, Dialect
  <1>5. ASSUME ~overlap' PROVE LastAlone'
    <2>1. \A q \in Requests : Running(q)' => q = r
      BY <1>2, <1>5 DEF Asked, Running, DbInv, DatabaseTypes
    <2>2. /\ request'[r] = what /\ statement'[r] = first /\ answer'[r] = "waiting"
          /\ password'[r] = row' /\ row' # 0 /\ last' = {r}
      BY <1>2 DEF Asked, DbInv, DatabaseTypes, DatabaseTypeOK
    <2> QED
      BY <1>2, <2>1, <2>2 DEF LastAlone, CreatedSoFar, DroppedSoFar, Creates, Granting, Dropping
  <1> QED
    BY <1>2, <1>3, <1>4, <1>5 DEF Asked, DbInv, HostSound, hostvars
(* The answer that is lost leaves the request running.                     *)
LEMMA TimeoutKeeps ==
  ASSUME DbInv, NEW r \in Requests, request_times_out(r)
  PROVE  DbInv'
  <1>1. /\ answer[r] = "waiting" /\ answer' = [answer EXCEPT ![r] = "error"]
        /\ clean' = FALSE
        /\ UNCHANGED <<dbms, row, passwords, hostvars, accessvars, request, password, statement, found, last, overlap>>
    BY DEF request_times_out, answered, DatabaseError
  <1>2. DatabaseTypes'
    BY <1>1 DEF DbInv, DatabaseTypes, DatabaseTypeOK, hostvars, accessvars
  <1>3. ASSUME LastAlone PROVE LastAlone'
    BY <1>1, <1>3 DEF LastAlone, CreatedSoFar, DroppedSoFar, DbInv, DatabaseTypes, DatabaseTypeOK,
       Running, hostvars, Created, Opened, Gone
  <1> QED
    BY <1>1, <1>2, <1>3 DEF DbInv, HostSound, Dialect, DatabaseTypes, DatabaseTypeOK, hostvars

(* A step of a request that runs: alone unless requests have overlapped.   *)
LEMMA RunningIsLast ==
  ASSUME DbInv, NEW r \in Requests, Running(r), ~overlap
  PROVE  LastAlone /\ last = {r} /\ request[r] \in Creates \union {"delete"}
  <1>1. LastAlone /\ r \in last
    BY DEF DbInv, LastAlone
  <1> QED
    BY <1>1 DEF LastAlone, DbInv, DatabaseTypes

(* What no statement changes; where it fails its request ends.             *)
StatementOf(r, s) ==
  /\ statement[r] = s /\ r \in Requests
  /\ UNCHANGED <<dbms, row, passwords, request, password, last, overlap>>

MovesOn(r, s) == statement' = [statement EXCEPT ![r] = s] /\ UNCHANGED <<answer, clean>>

Ended(r) ==
  /\ statement' = [statement EXCEPT ![r] = "end"]
  /\ answer' = [answer EXCEPT ![r] = IF @ = "waiting" THEN "error" ELSE @]

LEMMA StatementTypes ==
  ASSUME DbInv, NEW r \in Requests, NEW s \in Statements, StatementOf(r, s),
         NEW t \in Statements \ {"none"}, Running(r),
         MovesOn(r, t) \/ Ended(r),
         Dialect(t),
         db_user' \in {db_user, password[r], 0},
         db_name' \in BOOLEAN, granted' \in BOOLEAN, on_schema' \in BOOLEAN, clean' \in BOOLEAN,
         refusing' \in BOOLEAN, cut' \in BOOLEAN,
         found' \in [Requests -> BOOLEAN]
  PROVE  /\ DatabaseTypes'
         /\ \A q \in Requests : /\ request'[q] = "none" <=> statement'[q] = "none"
                                /\ request'[q] = "none" <=> answer'[q] = "none"
                                /\ Dialect(statement[q])'
  <1>1. db_user' \in 0..passwords' /\ row' \in 0..passwords'
    BY DEF DbInv, DatabaseTypes, DatabaseTypeOK, StatementOf
  <1>2. statement' \in [Requests -> Statements]
    BY DEF DbInv, DatabaseTypes, MovesOn, Ended, Statements
  <1>3. answer' \in [Requests -> {"none", "waiting", "success", "error"}]
    BY DEF DbInv, DatabaseTypes, DatabaseTypeOK, MovesOn, Ended
  <1>4. DatabaseTypes'
    BY <1>1, <1>2, <1>3 DEF DbInv, DatabaseTypes, DatabaseTypeOK, StatementOf
  <1>5. \A q \in Requests : statement'[q] = IF q = r THEN statement'[r] ELSE statement[q]
    BY DEF DbInv, DatabaseTypes, MovesOn, Ended
  <1>6. \A q \in Requests : q # r => answer'[q] = answer[q]
    BY DEF DbInv, DatabaseTypes, DatabaseTypeOK, MovesOn, Ended
  <1>7. request[r] # "none" /\ answer[r] # "none"
    BY DEF DbInv, Running
  <1>8. statement'[r] \in {t, "end"} /\ answer'[r] # "none"
    BY <1>7 DEF DbInv, DatabaseTypes, DatabaseTypeOK, MovesOn, Ended
  <1> QED
    BY <1>4, <1>5, <1>6, <1>7, <1>8 DEF DbInv, StatementOf, Dialect
LEMMA StatementAlone ==
  ASSUME DbInv, NEW r \in Requests, NEW s \in Statements, StatementOf(r, s),
         NEW t \in Statements \ {"none"}, Running(r), MovesOn(r, t) \/ Ended(r), ~overlap,
         request[r] \in Creates => CreatedSoFar(r)',
         request[r] = "delete" => DroppedSoFar(r)'
  PROVE  LastAlone'
  <1>1. LastAlone /\ last = {r} /\ request[r] \in Creates \union {"delete"}
    BY RunningIsLast
  <1>2. /\ answer[r] # "success" /\ (answer[r] = "error" => ~clean)
        /\ \A q \in Requests : q # r => ~Running(q)
    BY <1>1 DEF LastAlone, Running
  <1>3. \A q \in Requests : q # r => statement'[q] = statement[q]
    BY DEF DbInv, DatabaseTypes, MovesOn, Ended
  <1>4. \A q \in Requests : Running(q)' => q = r
    BY <1>2, <1>3 DEF Running
  <1>5. /\ answer'[r] # "success"
        /\ answer'[r] = "error" /\ clean' => statement'[r] = "end"
    BY <1>2 DEF MovesOn, Ended, DbInv, DatabaseTypes, DatabaseTypeOK
  <1> QED
    BY <1>1, <1>4, <1>5 DEF LastAlone, StatementOf, Creates

LEMMA FindUserKeeps ==
  ASSUME DbInv, NEW r \in Requests, find_user(r)
  PROVE  DbInv'
  <1> DEFINE t == "set_user"
  <1>1. /\ StatementOf(r, "find_user") /\ "find_user" \in Statements /\ t \in Statements \ {"none"}
        /\ Running(r) /\ (MovesOn(r, t) \/ Ended(r))
    BY DEF find_user, At, Then, Fails, NoError, StatementOf, MovesOn, Ended, Statements, Granting,
       Dropping,
       Running, DbInv, DatabaseTypes
  <1>2. /\ DatabaseTypes'
        /\ \A q \in Requests : /\ request'[q] = "none" <=> statement'[q] = "none"
                               /\ request'[q] = "none" <=> answer'[q] = "none"
                               /\ Dialect(statement[q])'
    <2>1. /\ db_user' \in {db_user, password[r], 0} /\ db_name' \in BOOLEAN /\ granted' \in BOOLEAN
          /\ on_schema' \in BOOLEAN /\ clean' \in BOOLEAN /\ found' \in [Requests -> BOOLEAN]
          /\ refusing' \in BOOLEAN /\ cut' \in BOOLEAN
      BY DEF find_user, At, Then, Fails, NoError, hostvars, accessvars, Dropped, DbInv,
         DatabaseTypes, DatabaseTypeOK
    <2>2. Dialect(t)
      BY <1>1 DEF DbInv, DatabaseTypes, StatementOf, Dialect
    <2> QED
      BY <1>1, <2>1, <2>2, StatementTypes
  <1>3. HostSound'
    BY DEF HostSound, Dialect, accessvars, Dropped, Then, Fails, find_user, At, hostvars,
       accessvars, DbInv
  <1>4. ASSUME ~overlap PROVE LastAlone'
    <2>1. LastAlone /\ last = {r} /\ request[r] \in Creates \union {"delete"}
      BY <1>1, <1>4, RunningIsLast
    <2>2. answer[r] # "success" /\ (answer[r] = "error" => ~clean) /\ statement[r] = "find_user"
      BY <1>1, <2>1 DEF LastAlone, Running, StatementOf
    <2>3. request[r] \in Creates /\ CreatedSoFar(r)
      BY <2>1, <2>2 DEF LastAlone, DroppedSoFar, Dropping
    <2>4. CreatedSoFar(r)'
      BY <2>2, <2>3 DEF find_user, At, Then, Fails, NoError, CreatedSoFar, Created, Opened,
         Granting, hostvars, accessvars, Dropped, HostSound,
                       DbInv, DatabaseTypes, DatabaseTypeOK
    <2> QED
      BY <1>1, <1>4, <2>3, <2>4, StatementAlone DEF Creates
  <1> QED
    BY <1>1, <1>2, <1>3, <1>4 DEF DbInv, StatementOf

LEMMA SetUserKeeps ==
  ASSUME DbInv, NEW r \in Requests, set_user(r)
  PROVE  DbInv'
  <1> DEFINE t == IF dbms = "postgres" THEN "find_database" ELSE "make_database"
  <1>1. /\ StatementOf(r, "set_user") /\ "set_user" \in Statements /\ t \in Statements \ {"none"}
        /\ Running(r) /\ (MovesOn(r, t) \/ Ended(r))
    BY DEF set_user, At, Then, Fails, NoError, StatementOf, MovesOn, Ended, Statements, Granting,
       Dropping,
       Running, DbInv, DatabaseTypes
  <1>2. /\ DatabaseTypes'
        /\ \A q \in Requests : /\ request'[q] = "none" <=> statement'[q] = "none"
                               /\ request'[q] = "none" <=> answer'[q] = "none"
                               /\ Dialect(statement[q])'
    <2>1. /\ db_user' \in {db_user, password[r], 0} /\ db_name' \in BOOLEAN /\ granted' \in BOOLEAN
          /\ on_schema' \in BOOLEAN /\ clean' \in BOOLEAN /\ found' \in [Requests -> BOOLEAN]
          /\ refusing' \in BOOLEAN /\ cut' \in BOOLEAN
      BY DEF set_user, At, Then, Fails, NoError, hostvars, accessvars, Dropped, DbInv,
         DatabaseTypes, DatabaseTypeOK
    <2>2. Dialect(t)
      BY <1>1 DEF DbInv, DatabaseTypes, StatementOf, Dialect
    <2> QED
      BY <1>1, <2>1, <2>2, StatementTypes
  <1>3. HostSound'
    BY DEF HostSound, Dialect, accessvars, Dropped, Then, Fails, set_user, At, hostvars, accessvars,
       DbInv
  <1>4. ASSUME ~overlap PROVE LastAlone'
    <2>1. LastAlone /\ last = {r} /\ request[r] \in Creates \union {"delete"}
      BY <1>1, <1>4, RunningIsLast
    <2>2. answer[r] # "success" /\ (answer[r] = "error" => ~clean) /\ statement[r] = "set_user"
      BY <1>1, <2>1 DEF LastAlone, Running, StatementOf
    <2>3. request[r] \in Creates /\ CreatedSoFar(r)
      BY <2>1, <2>2 DEF LastAlone, DroppedSoFar, Dropping
    <2>4. CreatedSoFar(r)'
      BY <2>2, <2>3 DEF set_user, At, Then, Fails, NoError, CreatedSoFar, Created, Opened, Granting,
         hostvars, accessvars, Dropped, HostSound,
                       DbInv, DatabaseTypes, DatabaseTypeOK
    <2> QED
      BY <1>1, <1>4, <2>3, <2>4, StatementAlone DEF Creates
  <1> QED
    BY <1>1, <1>2, <1>3, <1>4 DEF DbInv, StatementOf

LEMMA FindDatabaseKeeps ==
  ASSUME DbInv, NEW r \in Requests, find_database(r)
  PROVE  DbInv'
  <1> DEFINE t == "make_database"
  <1>1. /\ StatementOf(r, "find_database") /\ "find_database" \in Statements /\ t \in Statements \ {"none"}
        /\ Running(r) /\ (MovesOn(r, t) \/ Ended(r))
    BY DEF find_database, At, Then, Fails, NoError, StatementOf, MovesOn, Ended, Statements,
       Granting, Dropping,
       Running, DbInv, DatabaseTypes
  <1>2. /\ DatabaseTypes'
        /\ \A q \in Requests : /\ request'[q] = "none" <=> statement'[q] = "none"
                               /\ request'[q] = "none" <=> answer'[q] = "none"
                               /\ Dialect(statement[q])'
    <2>1. /\ db_user' \in {db_user, password[r], 0} /\ db_name' \in BOOLEAN /\ granted' \in BOOLEAN
          /\ on_schema' \in BOOLEAN /\ clean' \in BOOLEAN /\ found' \in [Requests -> BOOLEAN]
          /\ refusing' \in BOOLEAN /\ cut' \in BOOLEAN
      BY DEF find_database, At, Then, Fails, NoError, hostvars, accessvars, Dropped, DbInv,
         DatabaseTypes, DatabaseTypeOK
    <2>2. Dialect(t)
      BY <1>1 DEF DbInv, DatabaseTypes, StatementOf, Dialect
    <2> QED
      BY <1>1, <2>1, <2>2, StatementTypes
  <1>3. HostSound'
    BY DEF HostSound, Dialect, accessvars, Dropped, Then, Fails, find_database, At, hostvars,
       accessvars, DbInv
  <1>4. ASSUME ~overlap PROVE LastAlone'
    <2>1. LastAlone /\ last = {r} /\ request[r] \in Creates \union {"delete"}
      BY <1>1, <1>4, RunningIsLast
    <2>2. answer[r] # "success" /\ (answer[r] = "error" => ~clean) /\ statement[r] = "find_database"
      BY <1>1, <2>1 DEF LastAlone, Running, StatementOf
    <2>3. request[r] \in Creates /\ CreatedSoFar(r)
      BY <2>1, <2>2 DEF LastAlone, DroppedSoFar, Dropping
    <2>4. CreatedSoFar(r)'
      BY <2>2, <2>3 DEF find_database, At, Then, Fails, NoError, CreatedSoFar, Created, Opened,
         Granting, hostvars, accessvars, Dropped, HostSound,
                       DbInv, DatabaseTypes, DatabaseTypeOK
    <2> QED
      BY <1>1, <1>4, <2>3, <2>4, StatementAlone DEF Creates
  <1> QED
    BY <1>1, <1>2, <1>3, <1>4 DEF DbInv, StatementOf

LEMMA MakeDatabaseKeeps ==
  ASSUME DbInv, NEW r \in Requests, make_database(r)
  PROVE  DbInv'
  <1> DEFINE t == IF dbms = "postgres" THEN "grant_database" ELSE "grant_mysql"
  <1>1. /\ StatementOf(r, "make_database") /\ "make_database" \in Statements /\ t \in Statements \ {"none"}
        /\ Running(r) /\ (MovesOn(r, t) \/ Ended(r))
    BY DEF make_database, At, Then, Fails, NoError, StatementOf, MovesOn, Ended, Statements,
       Granting, Dropping,
       Running, DbInv, DatabaseTypes
  <1>2. /\ DatabaseTypes'
        /\ \A q \in Requests : /\ request'[q] = "none" <=> statement'[q] = "none"
                               /\ request'[q] = "none" <=> answer'[q] = "none"
                               /\ Dialect(statement[q])'
    <2>1. /\ db_user' \in {db_user, password[r], 0} /\ db_name' \in BOOLEAN /\ granted' \in BOOLEAN
          /\ on_schema' \in BOOLEAN /\ clean' \in BOOLEAN /\ found' \in [Requests -> BOOLEAN]
          /\ refusing' \in BOOLEAN /\ cut' \in BOOLEAN
      BY DEF make_database, At, Then, Fails, NoError, hostvars, accessvars, Dropped, DbInv,
         DatabaseTypes, DatabaseTypeOK
    <2>2. Dialect(t)
      BY <1>1 DEF DbInv, DatabaseTypes, StatementOf, Dialect
    <2> QED
      BY <1>1, <2>1, <2>2, StatementTypes
  <1>3. HostSound'
    BY DEF HostSound, Dialect, accessvars, Dropped, Then, Fails, make_database, At, hostvars,
       accessvars, DbInv
  <1>4. ASSUME ~overlap PROVE LastAlone'
    <2>1. LastAlone /\ last = {r} /\ request[r] \in Creates \union {"delete"}
      BY <1>1, <1>4, RunningIsLast
    <2>2. answer[r] # "success" /\ (answer[r] = "error" => ~clean) /\ statement[r] = "make_database"
      BY <1>1, <2>1 DEF LastAlone, Running, StatementOf
    <2>3. request[r] \in Creates /\ CreatedSoFar(r)
      BY <2>1, <2>2 DEF LastAlone, DroppedSoFar, Dropping
    <2>4. CreatedSoFar(r)'
      BY <2>2, <2>3 DEF make_database, At, Then, Fails, NoError, CreatedSoFar, Created, Opened,
         Granting, hostvars, accessvars, Dropped, HostSound,
                       DbInv, DatabaseTypes, DatabaseTypeOK
    <2> QED
      BY <1>1, <1>4, <2>3, <2>4, StatementAlone DEF Creates
  <1> QED
    BY <1>1, <1>2, <1>3, <1>4 DEF DbInv, StatementOf

LEMMA GrantDatabaseKeeps ==
  ASSUME DbInv, NEW r \in Requests, grant_database(r)
  PROVE  DbInv'
  <1> DEFINE t == "grant_schema"
  <1>1. /\ StatementOf(r, "grant_database") /\ "grant_database" \in Statements /\ t \in Statements \ {"none"}
        /\ Running(r) /\ (MovesOn(r, t) \/ Ended(r))
    BY DEF grant_database, At, Then, Fails, NoError, StatementOf, MovesOn, Ended, Statements,
       Granting, Dropping,
       Running, DbInv, DatabaseTypes
  <1>2. /\ DatabaseTypes'
        /\ \A q \in Requests : /\ request'[q] = "none" <=> statement'[q] = "none"
                               /\ request'[q] = "none" <=> answer'[q] = "none"
                               /\ Dialect(statement[q])'
    <2>1. /\ db_user' \in {db_user, password[r], 0} /\ db_name' \in BOOLEAN /\ granted' \in BOOLEAN
          /\ on_schema' \in BOOLEAN /\ clean' \in BOOLEAN /\ found' \in [Requests -> BOOLEAN]
          /\ refusing' \in BOOLEAN /\ cut' \in BOOLEAN
      BY DEF grant_database, At, Then, Fails, NoError, hostvars, accessvars, Dropped, DbInv,
         DatabaseTypes, DatabaseTypeOK
    <2>2. Dialect(t)
      BY <1>1 DEF DbInv, DatabaseTypes, StatementOf, Dialect
    <2> QED
      BY <1>1, <2>1, <2>2, StatementTypes
  <1>3. HostSound'
    BY DEF HostSound, Dialect, accessvars, Dropped, Then, Fails, grant_database, At, hostvars,
       accessvars, DbInv
  <1>4. ASSUME ~overlap PROVE LastAlone'
    <2>1. LastAlone /\ last = {r} /\ request[r] \in Creates \union {"delete"}
      BY <1>1, <1>4, RunningIsLast
    <2>2. answer[r] # "success" /\ (answer[r] = "error" => ~clean) /\ statement[r] = "grant_database"
      BY <1>1, <2>1 DEF LastAlone, Running, StatementOf
    <2>3. request[r] \in Creates /\ CreatedSoFar(r)
      BY <2>1, <2>2 DEF LastAlone, DroppedSoFar, Dropping
    <2>4. CreatedSoFar(r)'
      BY <2>2, <2>3 DEF grant_database, At, Then, Fails, NoError, CreatedSoFar, Created, Opened,
         Granting, hostvars, accessvars, Dropped, HostSound,
                       DbInv, DatabaseTypes, DatabaseTypeOK
    <2> QED
      BY <1>1, <1>4, <2>3, <2>4, StatementAlone DEF Creates
  <1> QED
    BY <1>1, <1>2, <1>3, <1>4 DEF DbInv, StatementOf

LEMMA GrantSchemaKeeps ==
  ASSUME DbInv, NEW r \in Requests, grant_schema(r)
  PROVE  DbInv'
  <1> DEFINE t == "success"
  <1>1. /\ StatementOf(r, "grant_schema") /\ "grant_schema" \in Statements /\ t \in Statements \ {"none"}
        /\ Running(r) /\ (MovesOn(r, t) \/ Ended(r))
    BY DEF grant_schema, At, Then, Fails, NoError, StatementOf, MovesOn, Ended, Statements,
       Granting, Dropping,
       Running, DbInv, DatabaseTypes
  <1>2. /\ DatabaseTypes'
        /\ \A q \in Requests : /\ request'[q] = "none" <=> statement'[q] = "none"
                               /\ request'[q] = "none" <=> answer'[q] = "none"
                               /\ Dialect(statement[q])'
    <2>1. /\ db_user' \in {db_user, password[r], 0} /\ db_name' \in BOOLEAN /\ granted' \in BOOLEAN
          /\ on_schema' \in BOOLEAN /\ clean' \in BOOLEAN /\ found' \in [Requests -> BOOLEAN]
          /\ refusing' \in BOOLEAN /\ cut' \in BOOLEAN
      BY DEF grant_schema, At, Then, Fails, NoError, hostvars, accessvars, Dropped, DbInv,
         DatabaseTypes, DatabaseTypeOK
    <2>2. Dialect(t)
      BY <1>1 DEF DbInv, DatabaseTypes, StatementOf, Dialect
    <2> QED
      BY <1>1, <2>1, <2>2, StatementTypes
  <1>3. HostSound'
    BY DEF HostSound, Dialect, accessvars, Dropped, Then, Fails, grant_schema, At, hostvars,
       accessvars, DbInv
  <1>4. ASSUME ~overlap PROVE LastAlone'
    <2>1. LastAlone /\ last = {r} /\ request[r] \in Creates \union {"delete"}
      BY <1>1, <1>4, RunningIsLast
    <2>2. answer[r] # "success" /\ (answer[r] = "error" => ~clean) /\ statement[r] = "grant_schema"
      BY <1>1, <2>1 DEF LastAlone, Running, StatementOf
    <2>3. request[r] \in Creates /\ CreatedSoFar(r)
      BY <2>1, <2>2 DEF LastAlone, DroppedSoFar, Dropping
    <2>4. CreatedSoFar(r)'
      BY <2>2, <2>3 DEF grant_schema, At, Then, Fails, NoError, CreatedSoFar, Created, Opened,
         Granting, hostvars, accessvars, Dropped, HostSound,
                       DbInv, DatabaseTypes, DatabaseTypeOK
    <2> QED
      BY <1>1, <1>4, <2>3, <2>4, StatementAlone DEF Creates
  <1> QED
    BY <1>1, <1>2, <1>3, <1>4 DEF DbInv, StatementOf

LEMMA GrantMysqlKeeps ==
  ASSUME DbInv, NEW r \in Requests, grant_mysql(r)
  PROVE  DbInv'
  <1> DEFINE t == "success"
  <1>1. /\ StatementOf(r, "grant_mysql") /\ "grant_mysql" \in Statements /\ t \in Statements \ {"none"}
        /\ Running(r) /\ (MovesOn(r, t) \/ Ended(r))
    BY DEF grant_mysql, At, Then, Fails, NoError, StatementOf, MovesOn, Ended, Statements, Granting,
       Dropping,
       Running, DbInv, DatabaseTypes
  <1>2. /\ DatabaseTypes'
        /\ \A q \in Requests : /\ request'[q] = "none" <=> statement'[q] = "none"
                               /\ request'[q] = "none" <=> answer'[q] = "none"
                               /\ Dialect(statement[q])'
    <2>1. /\ db_user' \in {db_user, password[r], 0} /\ db_name' \in BOOLEAN /\ granted' \in BOOLEAN
          /\ on_schema' \in BOOLEAN /\ clean' \in BOOLEAN /\ found' \in [Requests -> BOOLEAN]
          /\ refusing' \in BOOLEAN /\ cut' \in BOOLEAN
      BY DEF grant_mysql, At, Then, Fails, NoError, hostvars, accessvars, Dropped, DbInv,
         DatabaseTypes, DatabaseTypeOK
    <2>2. Dialect(t)
      BY <1>1 DEF DbInv, DatabaseTypes, StatementOf, Dialect
    <2> QED
      BY <1>1, <2>1, <2>2, StatementTypes
  <1>3. HostSound'
    BY DEF HostSound, Dialect, accessvars, Dropped, Then, Fails, grant_mysql, At, hostvars,
       accessvars, DbInv
  <1>4. ASSUME ~overlap PROVE LastAlone'
    <2>1. LastAlone /\ last = {r} /\ request[r] \in Creates \union {"delete"}
      BY <1>1, <1>4, RunningIsLast
    <2>2. answer[r] # "success" /\ (answer[r] = "error" => ~clean) /\ statement[r] = "grant_mysql"
      BY <1>1, <2>1 DEF LastAlone, Running, StatementOf
    <2>3. request[r] \in Creates /\ CreatedSoFar(r)
      BY <2>1, <2>2 DEF LastAlone, DroppedSoFar, Dropping
    <2>4. CreatedSoFar(r)'
      BY <2>2, <2>3 DEF grant_mysql, At, Then, Fails, NoError, CreatedSoFar, Created, Opened,
         Granting, hostvars, accessvars, Dropped, HostSound,
                       DbInv, DatabaseTypes, DatabaseTypeOK
    <2> QED
      BY <1>1, <1>4, <2>3, <2>4, StatementAlone DEF Creates
  <1> QED
    BY <1>1, <1>2, <1>3, <1>4 DEF DbInv, StatementOf

LEMMA DropDatabaseKeeps ==
  ASSUME DbInv, NEW r \in Requests, drop_database(r)
  PROVE  DbInv'
  <1> DEFINE t == IF dbms = "mysql" THEN "drop_user"
                  ELSE IF statement'[r] = "look_again" THEN "look_again" ELSE "revoke"
  <1>1. /\ StatementOf(r, "drop_database") /\ "drop_database" \in Statements /\ t \in Statements \ {"none"}
        /\ Running(r) /\ (MovesOn(r, t) \/ Ended(r))
    BY DEF drop_database, At, Then, Fails, NoError, StatementOf, MovesOn, Ended, Statements,
       Granting, Dropping,
       Running, DbInv, DatabaseTypes
  <1>2. /\ DatabaseTypes'
        /\ \A q \in Requests : /\ request'[q] = "none" <=> statement'[q] = "none"
                               /\ request'[q] = "none" <=> answer'[q] = "none"
                               /\ Dialect(statement[q])'
    <2>1. /\ db_user' \in {db_user, password[r], 0} /\ db_name' \in BOOLEAN /\ granted' \in BOOLEAN
          /\ on_schema' \in BOOLEAN /\ clean' \in BOOLEAN /\ found' \in [Requests -> BOOLEAN]
          /\ refusing' \in BOOLEAN /\ cut' \in BOOLEAN
      BY DEF drop_database, At, Then, Fails, NoError, hostvars, accessvars, Dropped, DbInv,
         DatabaseTypes, DatabaseTypeOK
    <2>2. Dialect(t)
      BY <1>1 DEF DbInv, DatabaseTypes, StatementOf, Dialect
    <2> QED
      BY <1>1, <2>1, <2>2, StatementTypes
  <1>3. HostSound'
    <2>1. /\ on_schema' = on_schema /\ dbms' = dbms
          /\ \/ granted' = (granted /\ dbms = "mysql")
             \/ granted' = granted /\ db_name' = db_name
      BY DEF drop_database, At, Dropped
    <2>2. dbms = "postgres" /\ granted' => granted /\ db_name' = db_name
      BY <2>1, Zenon
    <2> QED
      BY <2>1, <2>2 DEF HostSound, DbInv
  <1>4. ASSUME ~overlap PROVE LastAlone'
    <2>1. LastAlone /\ last = {r} /\ request[r] \in Creates \union {"delete"}
      BY <1>1, <1>4, RunningIsLast
    <2>2. answer[r] # "success" /\ (answer[r] = "error" => ~clean) /\ statement[r] = "drop_database"
      BY <1>1, <2>1 DEF LastAlone, Running, StatementOf
    <2>3. request[r] = "delete" /\ DroppedSoFar(r)
      BY <2>1, <2>2 DEF LastAlone, CreatedSoFar, Granting
    <2>4. DroppedSoFar(r)'
      <3>1. /\ answer' = answer /\ clean' = clean /\ row' = row /\ dbms' = dbms
            /\ \/ /\ ~db_name' /\ (dbms = "postgres" => ~granted')
                  /\ statement'[r] = IF dbms = "postgres" THEN "revoke" ELSE "drop_user"
               \/ dbms = "postgres" /\ statement'[r] = "look_again"
        BY DEF drop_database, At, Then, NoError, Dropped, DbInv, DatabaseTypes, DatabaseTypeOK
      <3>2. dbms = "mysql" => ~on_schema'
        BY <1>3, <3>1 DEF HostSound
      <3> QED
        BY <2>2, <2>3, <3>1, <3>2 DEF DroppedSoFar, Dropping, DbInv, DatabaseTypes
    <2> QED
      BY <1>1, <1>4, <2>3, <2>4, StatementAlone DEF Creates
  <1> QED
    BY <1>1, <1>2, <1>3, <1>4 DEF DbInv, StatementOf

LEMMA LookAgainKeeps ==
  ASSUME DbInv, NEW r \in Requests, look_again(r)
  PROVE  DbInv'
  <1> DEFINE t == IF db_name THEN "refuse" ELSE "revoke"
  <1>1. /\ StatementOf(r, "look_again") /\ "look_again" \in Statements /\ t \in Statements \ {"none"}
        /\ Running(r) /\ (MovesOn(r, t) \/ Ended(r))
    BY DEF look_again, At, Then, Fails, NoError, StatementOf, MovesOn, Ended, Statements, Granting,
       Dropping,
       Running, DbInv, DatabaseTypes
  <1>2. /\ DatabaseTypes'
        /\ \A q \in Requests : /\ request'[q] = "none" <=> statement'[q] = "none"
                               /\ request'[q] = "none" <=> answer'[q] = "none"
                               /\ Dialect(statement[q])'
    <2>1. /\ db_user' \in {db_user, password[r], 0} /\ db_name' \in BOOLEAN /\ granted' \in BOOLEAN
          /\ on_schema' \in BOOLEAN /\ clean' \in BOOLEAN /\ found' \in [Requests -> BOOLEAN]
          /\ refusing' \in BOOLEAN /\ cut' \in BOOLEAN
      BY DEF look_again, At, Then, Fails, NoError, hostvars, accessvars, Dropped, DbInv,
         DatabaseTypes, DatabaseTypeOK
    <2>2. Dialect(t)
      BY <1>1 DEF DbInv, DatabaseTypes, StatementOf, Dialect
    <2> QED
      BY <1>1, <2>1, <2>2, StatementTypes
  <1>3. HostSound'
    BY DEF HostSound, Dialect, accessvars, Dropped, Then, Fails, look_again, At, hostvars,
       accessvars, DbInv
  <1>4. ASSUME ~overlap PROVE LastAlone'
    <2>1. LastAlone /\ last = {r} /\ request[r] \in Creates \union {"delete"}
      BY <1>1, <1>4, RunningIsLast
    <2>2. answer[r] # "success" /\ (answer[r] = "error" => ~clean) /\ statement[r] = "look_again"
      BY <1>1, <2>1 DEF LastAlone, Running, StatementOf
    <2>3. request[r] = "delete" /\ DroppedSoFar(r)
      BY <2>1, <2>2 DEF LastAlone, CreatedSoFar, Granting
    <2>4. DroppedSoFar(r)'
      BY <2>2, <2>3 DEF look_again, At, Then, Fails, NoError, DroppedSoFar, Gone, Dropping,
         hostvars, accessvars, Dropped, HostSound,
                       DbInv, DatabaseTypes, DatabaseTypeOK
    <2> QED
      BY <1>1, <1>4, <2>3, <2>4, StatementAlone DEF Creates
  <1> QED
    BY <1>1, <1>2, <1>3, <1>4 DEF DbInv, StatementOf

LEMMA RefuseKeeps ==
  ASSUME DbInv, NEW r \in Requests, refuse(r)
  PROVE  DbInv'
  <1> DEFINE t == "drop_again"
  <1>1. /\ StatementOf(r, "refuse") /\ "refuse" \in Statements /\ t \in Statements \ {"none"}
        /\ Running(r) /\ (MovesOn(r, t) \/ Ended(r))
    BY DEF refuse, At, Then, Fails, NoError, StatementOf, MovesOn, Ended, Statements, Granting,
       Dropping,
       Running, DbInv, DatabaseTypes
  <1>2. /\ DatabaseTypes'
        /\ \A q \in Requests : /\ request'[q] = "none" <=> statement'[q] = "none"
                               /\ request'[q] = "none" <=> answer'[q] = "none"
                               /\ Dialect(statement[q])'
    <2>1. /\ db_user' \in {db_user, password[r], 0} /\ db_name' \in BOOLEAN /\ granted' \in BOOLEAN
          /\ on_schema' \in BOOLEAN /\ clean' \in BOOLEAN /\ found' \in [Requests -> BOOLEAN]
          /\ refusing' \in BOOLEAN /\ cut' \in BOOLEAN
      BY DEF refuse, At, Then, Fails, NoError, hostvars, accessvars, Dropped, DbInv, DatabaseTypes,
         DatabaseTypeOK
    <2>2. Dialect(t)
      BY <1>1 DEF DbInv, DatabaseTypes, StatementOf, Dialect
    <2> QED
      BY <1>1, <2>1, <2>2, StatementTypes
  <1>3. HostSound'
    BY DEF HostSound, Dialect, accessvars, Dropped, Then, Fails, refuse, At, hostvars, accessvars, DbInv
  <1>4. ASSUME ~overlap PROVE LastAlone'
    <2>1. LastAlone /\ last = {r} /\ request[r] \in Creates \union {"delete"}
      BY <1>1, <1>4, RunningIsLast
    <2>2. answer[r] # "success" /\ (answer[r] = "error" => ~clean) /\ statement[r] = "refuse"
      BY <1>1, <2>1 DEF LastAlone, Running, StatementOf
    <2>3. request[r] = "delete" /\ DroppedSoFar(r)
      BY <2>1, <2>2 DEF LastAlone, CreatedSoFar, Granting
    <2>4. DroppedSoFar(r)'
      BY <2>2, <2>3 DEF refuse, At, Then, Fails, NoError, DroppedSoFar, Gone, Dropping, hostvars,
         accessvars, Dropped, HostSound,
                       DbInv, DatabaseTypes, DatabaseTypeOK
    <2> QED
      BY <1>1, <1>4, <2>3, <2>4, StatementAlone DEF Creates
  <1> QED
    BY <1>1, <1>2, <1>3, <1>4 DEF DbInv, StatementOf

LEMMA DropAgainKeeps ==
  ASSUME DbInv, NEW r \in Requests, drop_again(r)
  PROVE  DbInv'
  <1> DEFINE t == "revoke"
  <1>1. /\ StatementOf(r, "drop_again") /\ "drop_again" \in Statements /\ t \in Statements \ {"none"}
        /\ Running(r) /\ (MovesOn(r, t) \/ Ended(r))
    BY DEF drop_again, At, Then, Fails, NoError, StatementOf, MovesOn, Ended, Statements, Granting,
       Dropping,
       Running, DbInv, DatabaseTypes
  <1>2. /\ DatabaseTypes'
        /\ \A q \in Requests : /\ request'[q] = "none" <=> statement'[q] = "none"
                               /\ request'[q] = "none" <=> answer'[q] = "none"
                               /\ Dialect(statement[q])'
    <2>1. /\ db_user' \in {db_user, password[r], 0} /\ db_name' \in BOOLEAN /\ granted' \in BOOLEAN
          /\ on_schema' \in BOOLEAN /\ clean' \in BOOLEAN /\ found' \in [Requests -> BOOLEAN]
          /\ refusing' \in BOOLEAN /\ cut' \in BOOLEAN
      BY DEF drop_again, At, Then, Fails, NoError, hostvars, accessvars, Dropped, DbInv,
         DatabaseTypes, DatabaseTypeOK
    <2>2. Dialect(t)
      BY <1>1 DEF DbInv, DatabaseTypes, StatementOf, Dialect
    <2> QED
      BY <1>1, <2>1, <2>2, StatementTypes
  <1>3. HostSound'
    BY DEF HostSound, Dialect, accessvars, Dropped, Then, Fails, drop_again, At, hostvars,
       accessvars, DbInv
  <1>4. ASSUME ~overlap PROVE LastAlone'
    <2>1. LastAlone /\ last = {r} /\ request[r] \in Creates \union {"delete"}
      BY <1>1, <1>4, RunningIsLast
    <2>2. answer[r] # "success" /\ (answer[r] = "error" => ~clean) /\ statement[r] = "drop_again"
      BY <1>1, <2>1 DEF LastAlone, Running, StatementOf
    <2>3. request[r] = "delete" /\ DroppedSoFar(r)
      BY <2>1, <2>2 DEF LastAlone, CreatedSoFar, Granting
    <2>4. DroppedSoFar(r)'
      BY <2>2, <2>3 DEF drop_again, At, Then, Fails, NoError, DroppedSoFar, Gone, Dropping,
         hostvars, accessvars, Dropped, HostSound,
                       DbInv, DatabaseTypes, DatabaseTypeOK
    <2> QED
      BY <1>1, <1>4, <2>3, <2>4, StatementAlone DEF Creates
  <1> QED
    BY <1>1, <1>2, <1>3, <1>4 DEF DbInv, StatementOf

LEMMA RevokeKeeps ==
  ASSUME DbInv, NEW r \in Requests, revoke(r)
  PROVE  DbInv'
  <1> DEFINE t == "drop_user"
  <1>1. /\ StatementOf(r, "revoke") /\ "revoke" \in Statements /\ t \in Statements \ {"none"}
        /\ Running(r) /\ (MovesOn(r, t) \/ Ended(r))
    BY DEF revoke, At, Then, Fails, NoError, StatementOf, MovesOn, Ended, Statements, Granting,
       Dropping,
       Running, DbInv, DatabaseTypes
  <1>2. /\ DatabaseTypes'
        /\ \A q \in Requests : /\ request'[q] = "none" <=> statement'[q] = "none"
                               /\ request'[q] = "none" <=> answer'[q] = "none"
                               /\ Dialect(statement[q])'
    <2>1. /\ db_user' \in {db_user, password[r], 0} /\ db_name' \in BOOLEAN /\ granted' \in BOOLEAN
          /\ on_schema' \in BOOLEAN /\ clean' \in BOOLEAN /\ found' \in [Requests -> BOOLEAN]
          /\ refusing' \in BOOLEAN /\ cut' \in BOOLEAN
      BY DEF revoke, At, Then, Fails, NoError, hostvars, accessvars, Dropped, DbInv, DatabaseTypes,
         DatabaseTypeOK
    <2>2. Dialect(t)
      BY <1>1 DEF DbInv, DatabaseTypes, StatementOf, Dialect
    <2> QED
      BY <1>1, <2>1, <2>2, StatementTypes
  <1>3. HostSound'
    BY DEF HostSound, Dialect, accessvars, Dropped, Then, Fails, revoke, At, hostvars, accessvars, DbInv
  <1>4. ASSUME ~overlap PROVE LastAlone'
    <2>1. LastAlone /\ last = {r} /\ request[r] \in Creates \union {"delete"}
      BY <1>1, <1>4, RunningIsLast
    <2>2. answer[r] # "success" /\ (answer[r] = "error" => ~clean) /\ statement[r] = "revoke"
      BY <1>1, <2>1 DEF LastAlone, Running, StatementOf
    <2>3. request[r] = "delete" /\ DroppedSoFar(r)
      BY <2>1, <2>2 DEF LastAlone, CreatedSoFar, Granting
    <2>4. DroppedSoFar(r)'
      BY <2>2, <2>3 DEF revoke, At, Then, Fails, NoError, DroppedSoFar, Gone, Dropping, hostvars,
         accessvars, Dropped, HostSound,
                       DbInv, DatabaseTypes, DatabaseTypeOK
    <2> QED
      BY <1>1, <1>4, <2>3, <2>4, StatementAlone DEF Creates
  <1> QED
    BY <1>1, <1>2, <1>3, <1>4 DEF DbInv, StatementOf

LEMMA DropUserKeeps ==
  ASSUME DbInv, NEW r \in Requests, drop_user(r)
  PROVE  DbInv'
  <1> DEFINE t == "success"
  <1>1. /\ StatementOf(r, "drop_user") /\ "drop_user" \in Statements /\ t \in Statements \ {"none"}
        /\ Running(r) /\ (MovesOn(r, t) \/ Ended(r))
    BY DEF drop_user, At, Then, Fails, NoError, StatementOf, MovesOn, Ended, Statements, Granting,
       Dropping,
       Running, DbInv, DatabaseTypes
  <1>2. /\ DatabaseTypes'
        /\ \A q \in Requests : /\ request'[q] = "none" <=> statement'[q] = "none"
                               /\ request'[q] = "none" <=> answer'[q] = "none"
                               /\ Dialect(statement[q])'
    <2>1. /\ db_user' \in {db_user, password[r], 0} /\ db_name' \in BOOLEAN /\ granted' \in BOOLEAN
          /\ on_schema' \in BOOLEAN /\ clean' \in BOOLEAN /\ found' \in [Requests -> BOOLEAN]
          /\ refusing' \in BOOLEAN /\ cut' \in BOOLEAN
      BY DEF drop_user, At, Then, Fails, NoError, hostvars, accessvars, Dropped, DbInv,
         DatabaseTypes, DatabaseTypeOK
    <2>2. Dialect(t)
      BY <1>1 DEF DbInv, DatabaseTypes, StatementOf, Dialect
    <2> QED
      BY <1>1, <2>1, <2>2, StatementTypes
  <1>3. HostSound'
    BY DEF HostSound, Dialect, accessvars, Dropped, Then, Fails, drop_user, At, hostvars,
       accessvars, DbInv
  <1>4. ASSUME ~overlap PROVE LastAlone'
    <2>1. LastAlone /\ last = {r} /\ request[r] \in Creates \union {"delete"}
      BY <1>1, <1>4, RunningIsLast
    <2>2. answer[r] # "success" /\ (answer[r] = "error" => ~clean) /\ statement[r] = "drop_user"
      BY <1>1, <2>1 DEF LastAlone, Running, StatementOf
    <2>3. request[r] = "delete" /\ DroppedSoFar(r)
      BY <2>1, <2>2 DEF LastAlone, CreatedSoFar, Granting
    <2>4. DroppedSoFar(r)'
      BY <2>2, <2>3 DEF drop_user, At, Then, Fails, NoError, DroppedSoFar, Gone, Dropping, hostvars,
         accessvars, Dropped, HostSound,
                       DbInv, DatabaseTypes, DatabaseTypeOK
    <2> QED
      BY <1>1, <1>4, <2>3, <2>4, StatementAlone DEF Creates
  <1> QED
    BY <1>1, <1>2, <1>3, <1>4 DEF DbInv, StatementOf
(* The connection to the host is lost: the request ends without success.   *)
LEMMA StatementFailsKeeps ==
  ASSUME DbInv, NEW r \in Requests, statement_fails(r)
  PROVE  DbInv'
  <1>1. /\ StatementOf(r, statement[r]) /\ statement[r] \in Statements /\ Running(r) /\ Ended(r)
        /\ "end" \in Statements \ {"none"} /\ clean' = FALSE /\ UNCHANGED <<hostvars, found>>
    BY DEF statement_fails, DatabaseError, Fails, StatementOf, Ended, Statements, DbInv, DatabaseTypes
  <1>2. /\ DatabaseTypes'
        /\ \A q \in Requests : /\ request'[q] = "none" <=> statement'[q] = "none"
                               /\ request'[q] = "none" <=> answer'[q] = "none"
                               /\ Dialect(statement[q])'
    <2>0. refusing' \in BOOLEAN /\ cut' \in BOOLEAN
      BY DEF statement_fails, DbInv, DatabaseTypes, DatabaseTypeOK
    <2>1. /\ db_user' = db_user /\ db_name' \in BOOLEAN /\ granted' \in BOOLEAN
          /\ on_schema' \in BOOLEAN /\ found' \in [Requests -> BOOLEAN]
      BY <1>1 DEF hostvars, accessvars, DbInv, DatabaseTypes, DatabaseTypeOK
    <2> QED
      BY <1>1, <2>0, <2>1, StatementTypes DEF Dialect
  <1>3. ASSUME ~overlap PROVE LastAlone'
    <2>1. LastAlone /\ last = {r} /\ request[r] \in Creates \union {"delete"}
      BY <1>1, <1>3, RunningIsLast
    <2>2. answer[r] # "success" /\ (answer[r] = "error" => ~clean)
      BY <1>1, <2>1 DEF LastAlone, Running
    <2>3. statement'[r] = "end" /\ answer'[r] # "success" /\ ~clean'
      BY <1>1, <2>2 DEF Ended, DbInv, DatabaseTypes, DatabaseTypeOK
    <2>4. /\ request[r] \in Creates => CreatedSoFar(r)'
          /\ request[r] = "delete" => DroppedSoFar(r)'
      BY <1>1, <2>1, <2>3 DEF LastAlone, CreatedSoFar, DroppedSoFar, StatementOf
    <2> QED
      BY <1>1, <1>3, <2>4, StatementAlone
  <1> QED
    BY <1>1, <1>2, <1>3 DEF DbInv, HostSound, StatementOf, hostvars

(* The last statement was made: its operation is told, if it still waits.  *)
LEMMA SucceedsKeeps ==
  ASSUME DbInv, NEW r \in Requests, Succeeds(r)
  PROVE  DbInv'
  <1>1. /\ statement[r] = "success" /\ statement' = [statement EXCEPT ![r] = "end"]
        /\ UNCHANGED <<dbms, passwords, hostvars, accessvars, request, password, found, last, overlap, clean>>
        /\ row' = IF answer[r] = "waiting" /\ request[r] = "delete" THEN 0 ELSE row
        /\ answer' = IF answer[r] = "waiting" THEN [answer EXCEPT ![r] = "success"] ELSE answer
    BY DEF Succeeds, NoError, answered
  <1>2. /\ answer'[r] = IF answer[r] = "waiting" THEN "success" ELSE answer[r]
        /\ statement'[r] = "end" /\ request[r] # "none" /\ answer[r] # "none" /\ Running(r)
        /\ \A q \in Requests : q # r => statement'[q] = statement[q] /\ answer'[q] = answer[q]
    BY <1>1 DEF DbInv, DatabaseTypes, DatabaseTypeOK, Running
  <1>3. DatabaseTypes'
    <2>1. row' \in 0..passwords' /\ password' \in [Requests -> 0..passwords']
      BY <1>1 DEF DbInv, DatabaseTypes, DatabaseTypeOK
    <2>2. /\ statement' \in [Requests -> Statements]
          /\ answer' \in [Requests -> {"none", "waiting", "success", "error"}]
      BY <1>1 DEF DbInv, DatabaseTypes, DatabaseTypeOK, Statements
    <2> QED
      BY <1>1, <2>1, <2>2 DEF DbInv, DatabaseTypes, DatabaseTypeOK, hostvars, accessvars
  <1>4. ASSUME ~overlap PROVE LastAlone'
    <2>1. LastAlone /\ last = {r} /\ request[r] \in Creates \union {"delete"}
      BY <1>2, <1>4, RunningIsLast
    <2>2. answer[r] = "waiting" \/ (answer[r] = "error" /\ ~clean)
      BY <1>1, <2>1 DEF LastAlone, DbInv, DatabaseTypes, DatabaseTypeOK
    <2>3. \A q \in Requests : Running(q)' => q \in last
      BY <1>2, <2>1 DEF LastAlone, Running
    <2>4. request[r] \in Creates => CreatedSoFar(r)'
      BY <1>1, <1>2, <2>1 DEF LastAlone, CreatedSoFar, Created, Opened, hostvars, accessvars, Creates
    <2>5. request[r] = "delete" => DroppedSoFar(r)'
      BY <1>1, <1>2, <2>1, <2>2 DEF LastAlone, DroppedSoFar, Gone, hostvars, accessvars
    <2> QED
      BY <1>1, <1>2, <2>1, <2>2, <2>3, <2>4, <2>5 DEF LastAlone
  <1> QED
    BY <1>1, <1>2, <1>3, <1>4 DEF DbInv, HostSound, Dialect, hostvars

LEMMA DatabaseStep == DbInv /\ [DatabaseNext]_databasevars => DbInv'
  <1> SUFFICES ASSUME DbInv, [DatabaseNext]_databasevars PROVE DbInv'
    OBVIOUS
  <1>1. CASE DatabaseNext
    BY <1>1, AskKeeps, TimeoutKeeps, SucceedsKeeps, StatementFailsKeeps, FindUserKeeps, SetUserKeeps,
       FindDatabaseKeeps, MakeDatabaseKeeps, GrantDatabaseKeeps, GrantSchemaKeeps, GrantMysqlKeeps,
       DropDatabaseKeeps, LookAgainKeeps, RefuseKeeps, DropAgainKeeps, RevokeKeeps, DropUserKeeps DEF DatabaseNext
  <1>2. CASE UNCHANGED databasevars
    BY <1>2 DEF databasevars, hostvars, accessvars, requestvars, DbInv, HostSound, Dialect,
       DatabaseTypes, DatabaseTypeOK, LastAlone,
       CreatedSoFar, DroppedSoFar, Running, Created, Opened, Gone
  <1> QED
    BY <1>1, <1>2

(* A database refuses connections while a delete is about to drop it, or    *)
(* after one that was cut off there.                                       *)
Refusal == refusing => db_name /\ (cut \/ \E q \in Requests : statement[q] = "drop_again")

LEMMA RefusalStep ==
  ASSUME DbInv, Refusal, [DatabaseNext]_databasevars
  PROVE  Refusal'
  <1> SUFFICES ASSUME refusing'
               PROVE  db_name' /\ (cut' \/ \E q \in Requests : statement'[q] = "drop_again")
    BY DEF Refusal
  <1> USE DEF Refusal
  <1>1. ASSUME NEW r \in Requests, refuse(r)
        PROVE  db_name' /\ statement'[r] = "drop_again"
    BY <1>1 DEF refuse, At, Then, Fails, hostvars, DbInv, DatabaseTypes
  <1>2. ASSUME NEW r \in Requests, statement_fails(r)
        PROVE  db_name' /\ (cut' \/ \E q \in Requests : statement'[q] = "drop_again")
    BY <1>2 DEF statement_fails, Fails, hostvars, DbInv, DatabaseTypes
  <1>3. ASSUME NEW r \in Requests, drop_again(r) PROVE FALSE
    BY <1>3 DEF drop_again, Dropped
  <1>4. ASSUME NEW r \in Requests, drop_database(r)
        PROVE  db_name' /\ (cut' \/ \E q \in Requests : statement'[q] = "drop_again")
    BY <1>4 DEF drop_database, At, Then, Dropped, accessvars, DbInv, DatabaseTypes
  <1>5. ASSUME NEW r \in Requests, make_database(r)
        PROVE  db_name' /\ (cut' \/ \E q \in Requests : statement'[q] = "drop_again")
    BY <1>5 DEF make_database, At, Then, Fails, accessvars, DbInv, DatabaseTypes
  <1>6. ASSUME NEW r \in Requests, NEW s \in Statements, UNCHANGED <<db_name, refusing, cut>>,
               statement[r] # "drop_again", statement' = [statement EXCEPT ![r] = s]
        PROVE  db_name' /\ (cut' \/ \E q \in Requests : statement'[q] = "drop_again")
    BY <1>6 DEF DbInv, DatabaseTypes
  <1>7. ASSUME NEW r \in Requests,
               \/ create_database_task(r) \/ regen_database_password(r)
               \/ create_real_site_database(r) \/ delete_site_database(r)
        PROVE  db_name' /\ (cut' \/ \E q \in Requests : statement'[q] = "drop_again")
    <2>1. /\ request[r] = "none" /\ UNCHANGED <<db_name, refusing, cut>>
          /\ statement' \in {[statement EXCEPT ![r] = "find_user"],
                             [statement EXCEPT ![r] = "drop_database"]}
      BY <1>7 DEF create_database_task, regen_database_password, create_real_site_database,
                  delete_site_database, Ask, hostvars, accessvars
    <2> QED
      BY <1>6, <2>1 DEF DbInv, Statements, Granting, Dropping
  <1>8. ASSUME NEW r \in Requests,
               \/ find_user(r) \/ set_user(r) \/ find_database(r) \/ grant_database(r)
               \/ grant_schema(r) \/ grant_mysql(r) \/ look_again(r) \/ revoke(r)
               \/ drop_user(r) \/ Succeeds(r)
        PROVE  db_name' /\ (cut' \/ \E q \in Requests : statement'[q] = "drop_again")
    <2>1. /\ UNCHANGED <<db_name, refusing, cut>> /\ statement[r] # "drop_again"
          /\ \E s \in Statements : statement' = [statement EXCEPT ![r] = s]
      BY <1>8 DEF find_user, set_user, find_database, grant_database, grant_schema, grant_mysql,
                  look_again, revoke, drop_user, Succeeds, answered, At, Then, Fails, hostvars,
                  accessvars, Statements, Granting, Dropping
    <2> QED
      BY <1>6, <2>1
  <1>9. CASE \E r \in Requests : request_times_out(r)
    BY <1>9 DEF request_times_out, answered, hostvars, accessvars
  <1>10. CASE UNCHANGED databasevars
    BY <1>10 DEF databasevars, hostvars, accessvars, requestvars
  <1> QED
    BY <1>1, <1>2, <1>3, <1>4, <1>5, <1>7, <1>8, <1>9, <1>10 DEF DatabaseNext

(* The host has what the statements of the last request have done.         *)
THEOREM DatabaseInvariant == DatabaseSpec => [](DbInv /\ Refusal)
  <1>1. DatabaseInit => DbInv /\ Refusal
    BY DatabaseInitial DEF DatabaseInit, Refusal
  <1>2. DbInv /\ Refusal /\ [DatabaseNext]_databasevars => (DbInv /\ Refusal)'
    BY DatabaseStep, RefusalStep
  <1> QED
    BY <1>1, <1>2, PTL DEF DatabaseSpec

(* An operation on a database that succeeded has left the host as it says, *)
(* and a delete that was refused has nothing left to delete, whatever the  *)
(* operations before it left half done, for any number of requests,        *)
(* failures and lost answers: unless a request that an operation gave up   *)
(* was still running when another one began.                               *)
THEOREM DatabaseOutcomeHolds == DatabaseSpec => []DatabaseOutcome
  <1>1. DbInv /\ Refusal => DatabaseOutcome
    <2> SUFFICES ASSUME DbInv, Refusal, ~overlap, NEW r \in last
                 PROVE  /\ request[r] \in Creates /\ answer[r] = "success"
                              => row # 0 /\ db_user = row /\ db_name /\ granted
                                 /\ on_schema = (dbms = "postgres") /\ (refusing => cut)
                        /\ request[r] = "delete" /\ answer[r] = "success" => row = 0 /\ Gone
                        /\ request[r] = "delete" /\ answer[r] = "error" /\ clean
                              => dbms = "postgres" /\ db_user = 0
      BY DEF DatabaseOutcome, SuccessIsUsable, SuccessIsGone, DeletesAgain, LastWas, Creates, Gone
    <2>1. request[r] \in Creates /\ answer[r] = "success"
            => \A q \in Requests : statement[q] # "drop_again"
      BY DEF DbInv, LastAlone, Running
    <2> QED
      BY <2>1 DEF DbInv, LastAlone, CreatedSoFar, DroppedSoFar, Created, Opened, Refusal
  <1> QED
    BY <1>1, DatabaseInvariant, PTL

-----------------------------------------------------------------------------
(* The requests for sites.  A view that runs alone has read the row as it  *)
(* is, and the approval of the teacher in it cannot change under it.  Each *)
(* view therefore writes back what the teacher decided last, or decides    *)
(* itself.                                                                 *)

(* A view between its read and its save is alone and has read the row as   *)
(* it is.                                                                  *)
ReadIsCurrent ==
  /\ \A u, v \in InView : u = v
  /\ \A u \in InView : site_request[u].teacher = approval.teacher

RInv == RequestsTypeOK /\ (crossed \/ (approval.teacher = decided /\ ReadIsCurrent))

LEMMA RequestsInitial == RequestsInit => RInv
  <1> SUFFICES ASSUME RequestsInit PROVE RInv
    OBVIOUS
  <1>1. RequestsTypeOK
    BY DEF RequestsInit, RequestsTypeOK, Users, Approvals, NewRequest
  <1>2. InView = {}
    BY DEF RequestsInit, InView
  <1>3. approval.teacher = decided /\ ReadIsCurrent
    BY <1>2 DEF RequestsInit, ReadIsCurrent, NewRequest
  <1> QED
    BY <1>1, <1>3 DEF RInv

LEMMA ReadKeeps ==
  ASSUME RInv, NEW u \in Users, NEW choice \in Approvals, read_request(u, choice)
  PROVE  RInv'
  <1> USE DEF RInv, read_request
  <1>1. RequestsTypeOK'
    BY RequestsAssumption DEF RequestsTypeOK, Users, Approvals
  <1>2. ASSUME ~crossed' PROVE approval'.teacher = decided' /\ ReadIsCurrent'
    <2>1. ~crossed /\ InView = {}
      BY <1>2 DEF RequestsTypeOK
    <2>2. InView' = {u}
      BY <2>1 DEF InView, RequestsTypeOK
    <2> QED
      BY <2>1, <2>2 DEF ReadIsCurrent, RequestsTypeOK
  <1> QED
    BY <1>1, <1>2

LEMMA TeacherKeeps ==
  ASSUME RInv, NEW u \in Users, approve_teacher_view(u)
  PROVE  RInv'
  <1> USE DEF RInv, approve_teacher_view
  <1>1. RequestsTypeOK'
    BY RequestsAssumption DEF RequestsTypeOK, Users, Approvals
  <1>2. ASSUME ~crossed' PROVE approval'.teacher = decided' /\ ReadIsCurrent'
    <2>1. ~crossed /\ InView = {u}
      BY <1>2 DEF InView, ReadIsCurrent
    <2>2. InView' = {}
      BY <2>1 DEF InView, RequestsTypeOK
    <2> QED
      BY <2>1, <2>2 DEF ReadIsCurrent, RequestsTypeOK
  <1> QED
    BY <1>1, <1>2

LEMMA CommentsKeep ==
  ASSUME RInv, NEW u \in Users, save_comments(u)
  PROVE  RInv'
  <1> USE DEF RInv, save_comments
  <1>1. RequestsTypeOK'
    BY RequestsAssumption DEF RequestsTypeOK, Users, Approvals
  <1>2. ASSUME ~crossed' PROVE approval'.teacher = decided' /\ ReadIsCurrent'
    <2>1. ~crossed /\ InView = {u}
      BY <1>2 DEF InView, ReadIsCurrent
    <2>2. InView' = {u}
      BY <2>1 DEF InView, RequestsTypeOK
    <2> QED
      BY <2>1, <2>2 DEF ReadIsCurrent
  <1> QED
    BY <1>1, <1>2

LEMMA AdminKeeps ==
  ASSUME RInv, NEW u \in Users, approve_admin_view(u)
  PROVE  RInv'
  <1> USE DEF RInv, approve_admin_view
  <1>1. RequestsTypeOK'
    BY RequestsAssumption DEF RequestsTypeOK, Users, Approvals
  <1>2. ASSUME ~crossed' PROVE approval'.teacher = decided' /\ ReadIsCurrent'
    <2>1. ~crossed /\ InView = {u}
      BY <1>2 DEF InView, ReadIsCurrent
    <2>2. InView' = {}
      BY <2>1 DEF InView, RequestsTypeOK
    <2> QED
      BY <2>1, <2>2 DEF ReadIsCurrent, RequestsTypeOK
  <1> QED
    BY <1>1, <1>2

LEMMA RequestsStep == RInv /\ [RequestsNext]_requestsvars => RInv'
  <1> SUFFICES ASSUME RInv, [RequestsNext]_requestsvars PROVE RInv'
    OBVIOUS
  <1>1. CASE RequestsNext
    BY <1>1, ReadKeeps, TeacherKeeps, CommentsKeep, AdminKeeps DEF RequestsNext
  <1>2. CASE UNCHANGED requestsvars
    BY <1>2 DEF requestsvars, RInv, RequestsTypeOK, ReadIsCurrent, InView
  <1> QED
    BY <1>1, <1>2

(* What a view read of a request is still in its row, unless views cross.  *)
THEOREM RequestsInvariant == RequestsSpec => []RInv
  BY RequestsInitial, RequestsStep, PTL DEF RequestsSpec

(* As long as no two views cross, no full save of a stale row undoes what  *)
(* the teacher decided last, however many views there are and whatever     *)
(* order they run in.                                                      *)
THEOREM TeachersAreHeard == RequestsSpec => []TeacherIsHeard
  <1>1. RInv => TeacherIsHeard
    BY DEF RInv, TeacherIsHeard
  <1> QED
    BY <1>1, RequestsInvariant, PTL

-----------------------------------------------------------------------------
(* The parts together *)

HostsInv == NInv /\ DbInv /\ DInv /\ RInv

(* The parts keep their types next to each other: a step of one leaves the *)
(* variables of the others alone.                                          *)
THEOREM HostsTypeCorrect == HostsSpec => []HostsTypeOK
  <1>1. HostsInit => HostsInv
    BY NginxInitial, DatabaseInitial, DomainsInitial, RequestsInitial DEF HostsInit, HostsInv
  <1>2. HostsInv /\ [HostsNext]_allvars => HostsInv'
    <2> SUFFICES ASSUME HostsInv, [HostsNext]_allvars PROVE HostsInv'
      OBVIOUS
    <2>1. /\ [NginxNext]_nginxvars /\ [DatabaseNext]_databasevars
          /\ [DomainsNext]_domainvars /\ [RequestsNext]_requestsvars
      BY DEF HostsNext, allvars
    <2> QED
      BY <2>1, NginxStep, DatabaseStep, DomainsStep, RequestsStep DEF HostsInv
  <1>3. HostsInv => HostsTypeOK
    BY DEF HostsInv, HostsTypeOK, NInv, DbInv, DatabaseTypes, DInv, RInv
  <1> QED
    BY <1>1, <1>2, <1>3, PTL DEF HostsSpec
=============================================================================

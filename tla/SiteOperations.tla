--------------------------- MODULE SiteOperations ---------------------------
(***************************************************************************)
(* The operation engine of the manager, for one site.                      *)
(*                                                                         *)
(* A view that changes a site inserts an Operation row (a OneToOneField to *)
(* the site, so the database holds at most one) and sends its id to a      *)
(* Celery task.  The task inserts one Action row per step of its plan,     *)
(* runs them in order, saving the Action row at every yield of the         *)
(* callback, and deletes Action and Operation rows when all succeeded.     *)
(* Every query is a transaction of its own (no ATOMIC_REQUESTS), so views, *)
(* tasks and the fix_sites command interleave between any two of them.     *)
(*                                                                         *)
(* What a callback does is left open here: a segment of a callback (the    *)
(* code between two yields) may succeed or raise.  SiteDeployment says     *)
(* what each one does.                                                     *)
(***************************************************************************)
EXTENDS Naturals, Sequences, FiniteSets

CONSTANTS
  Requests,      (* threads of the web servers, and runs of fix_sites       *)
  Views,         (* the entry points that are used, a subset of AllViews    *)
  PlainTypes,    (* types of the operations started by the plain views      *)
  Slugs,         (* slugs of actions                                        *)
  Recoverable,   (* slugs of the actions added with user_recoverable=True   *)
  Plans,         (* the lists of slugs a task of each type may add          *)
  MaxActions,    (* bound: length of a plan                                 *)
  MaxSegments,   (* bound: segments of one callback                         *)
  MaxOps,        (* bound: Operation rows ever inserted                     *)
  Faults         (* TRUE: a web server, worker or the broker may fail       *)

AllViews == {"create", "plain", "image_select", "edit_names", "reset_operations",
             "operation_delete_fix", "fix_sites", "edit_meta"}

OpTypes == {"create_site", "rename_site", "edit_site_names", "change_site_type",
            "regen_nginx_config", "create_site_database", "delete_site_database",
            "regen_site_secrets", "update_resource_limits", "update_docker_image",
            "update_availability", "delete_site", "restart_site", "fix_site"}

(* The types whose tasks save() every column of the Site instance they read. *)
SavesSite == {"change_site_type", "create_site_database", "update_docker_image",
              "update_availability"}

NoType  == "notype"
OpId    == 1..MaxOps
NoOp    == 0
Results == {"absent", "unset", "true", "false"}

ASSUME ConstantsAssumption ==
  /\ Views \subseteq AllViews
  /\ PlainTypes \subseteq OpTypes
  /\ Recoverable \subseteq Slugs
  /\ MaxActions \in Nat \ {0} /\ MaxSegments \in Nat \ {0} /\ MaxOps \in Nat \ {0}
  /\ Faults \in BOOLEAN

(* Every plan starts with find_pingable_appservers, so none is empty. *)
ASSUME PlansAssumption ==
  /\ Plans \in [OpTypes -> SUBSET Seq(Slugs)]
  /\ \A ty \in OpTypes : \A p \in Plans[ty] : Len(p) \in 1..MaxActions

VARIABLES
  site,     (* the Site row: "none" yet, "present" or "deleted"             *)
  opRows,   (* ids of the Operation rows in the database                    *)
  nextOp,   (* the id the next Operation row gets                           *)
  opType,   (* Operation.type of every id handed out                        *)
  result,   (* Action.result of the row of each action, "absent": no row    *)
  broker,   (* ids of the operations whose task is in the Celery queue      *)
  pc,       (* where the task of each operation is                          *)
  plan,     (* wrapper.actions of each task                                 *)
  idx,      (* index of the current action                                  *)
  seg,      (* number of the current segment of the callback                *)
  ok,       (* what execute_operation returned                              *)
  req,      (* what each request is doing                                   *)
  lost,     (* auxiliary: operations hit by a fault                         *)
  late      (* auxiliary: segments a task ran after its row was removed     *)

dbVars   == <<site, opRows, nextOp, opType, result>>
taskVars == <<pc, plan, idx, seg, ok>>
vars     == <<dbVars, broker, taskVars, req, lost, late>>

TaskPCs == {"none", "drop_op", "wrap", "adding", "start", "begin", "run", "save", "catch",
            "clear", "remove", "post", "ended"}
ReqPCs  == {"idle", "wait_before", "check", "delete_actions", "delete_op", "create",
            "delay", "wait_after"}

RequestState ==
  {q \in [pc : ReqPCs, view : AllViews, type : OpTypes \union {NoType}, op : OpId \union {NoOp}] :
     /\ q.pc \in {"check", "delete_actions", "delete_op", "delay"} => q.op \in OpId
     /\ q.pc # "idle" => q.type \in OpTypes}

Idle == [pc |-> "idle", view |-> "plain", type |-> NoType, op |-> NoOp]

NoActions == [i \in 1..MaxActions |-> "absent"]

Init ==
  /\ site \in {"none", "present"}
  /\ opRows = {} /\ nextOp = 1 /\ broker = {} /\ lost = {}
  /\ opType = [t \in OpId |-> NoType]
  /\ result = [t \in OpId |-> NoActions]
  /\ pc     = [t \in OpId |-> "none"]
  /\ plan   = [t \in OpId |-> <<>>]
  /\ idx    = [t \in OpId |-> 1]
  /\ seg    = [t \in OpId |-> 1]
  /\ ok     = [t \in OpId |-> FALSE]
  /\ late   = [t \in OpId |-> 0]
  /\ req    = [r \in Requests |-> Idle]

-----------------------------------------------------------------------------
(* Queries and constraints of the database.  The operators called Mutant_  *)
(* are wrong variants of the definition that follows them; no definition   *)
(* uses them.                                                              *)

has_operation == opRows # {}

(* Operation.site is a OneToOneField. *)
Mutant_operation_allowed == site = "present"

operation_allowed == site = "present" /\ opRows = {}

(* Action.operation is a ForeignKey: no Action row without its operation.  *)
Mutant_action_allowed(t) == TRUE

action_allowed(t) == t \in opRows

(* Operation.site and Domain.site are on_delete=PROTECT; whether the site  *)
(* has Domain rows is left open.                                           *)
Mutant_site_deletable == TRUE

site_deletable == opRows = {}

has_actions(t) == \E i \in 1..MaxActions : result[t][i] # "absent"

Mutant_has_failed(t) == \E i \in 1..MaxActions : result[t][i] \in {"unset", "false"}

has_failed(t) == \E i \in 1..MaxActions : result[t][i] = "false"

(* The query behind this one is only made if has_failed was true before.   *)
is_failure_user_recoverable(t) ==
  \A i \in 1..MaxActions : result[t][i] = "false" => plan[t][i] \in Recoverable

-----------------------------------------------------------------------------
(* Views.  A view that finds an operation it may not replace redirects     *)
(* without changing anything, and so is no step.                           *)

Goto(r, where, view, ty, o) ==
  req' = [req EXCEPT ![r] = [pc |-> where, view |-> view, type |-> ty, op |-> o]]

Step(r, where) == req' = [req EXCEPT ![r].pc = where]

(* create_view inserts the site first and its operation in a second query. *)
create_view(r) ==
  /\ "create" \in Views /\ req[r].pc = "idle"
  /\ site = "none"
  /\ site' = "present"
  /\ Goto(r, "create", "create", "create_site", NoOp)
  /\ UNCHANGED <<opRows, nextOp, opType, result, broker, taskVars, lost, late>>

(* The views that only refuse while any operation exists.                  *)
plain_view(r, ty) ==
  /\ "plain" \in Views /\ req[r].pc = "idle"
  /\ site = "present"
  /\ ~has_operation
  /\ Goto(r, "create", "plain", ty, NoOp)
  /\ UNCHANGED <<dbVars, broker, taskVars, lost, late>>

(* image_select_view and edit_names_view replace an operation that failed  *)
(* in actions its user can recover from: two queries, has_failed and       *)
(* is_failure_user_recoverable.  The third condition of the code excludes  *)
(* a slug from a set that the second one requires to be empty.             *)
override_view(r, view, ty) ==
  /\ view \in Views /\ req[r].pc = "idle"
  /\ site = "present"
  /\ \/ ~has_operation /\ Goto(r, "create", view, ty, NoOp)
     \/ \E t \in opRows :
          /\ has_failed(t)
          /\ Goto(r, "check", view, ty, t)
  /\ UNCHANGED <<dbVars, broker, taskVars, lost, late>>

check_recoverable(r) ==
  /\ req[r].pc = "check"
  /\ \/ is_failure_user_recoverable(req[r].op) /\ Step(r, "delete_actions")
     \/ ~is_failure_user_recoverable(req[r].op) /\ req' = [req EXCEPT ![r] = Idle]
  /\ UNCHANGED <<dbVars, broker, taskVars, lost, late>>

image_select_view(r) == override_view(r, "image_select", "update_docker_image")

edit_names_view(r) == override_view(r, "edit_names", "edit_site_names")

(* Replaces whatever operation there is, running or not. *)
reset_operations_view(r) ==
  /\ "reset_operations" \in Views /\ req[r].pc = "idle"
  /\ site = "present"
  /\ \/ ~has_operation /\ Goto(r, "create", "reset_operations", "fix_site", NoOp)
     \/ \E t \in opRows : Goto(r, "delete_actions", "reset_operations", "fix_site", t)
  /\ UNCHANGED <<dbVars, broker, taskVars, lost, late>>

(* Replaces a failed operation. *)
operation_delete_fix_view(r) ==
  /\ "operation_delete_fix" \in Views /\ req[r].pc = "idle"
  /\ \E t \in opRows :
       /\ has_failed(t)
       /\ Goto(r, "delete_actions", "operation_delete_fix", "fix_site", t)
  /\ UNCHANGED <<dbVars, broker, taskVars, lost, late>>

(* operation.action_set.all().delete() *)
delete_actions(r) ==
  /\ req[r].pc = "delete_actions"
  /\ result' = [result EXCEPT ![req[r].op] = NoActions]
  /\ Step(r, "delete_op")
  /\ UNCHANGED <<site, opRows, nextOp, opType, broker, taskVars, lost, late>>

(* operation.delete(): silent if the row is gone already; a ProtectedError *)
(* (the view fails) if the task has inserted an Action row again.          *)
delete_op(r) ==
  /\ req[r].pc = "delete_op"
  /\ \/ /\ has_actions(req[r].op)
        /\ req' = [req EXCEPT ![r] = Idle]
        /\ UNCHANGED opRows
     \/ /\ ~has_actions(req[r].op)
        /\ opRows' = opRows \ {req[r].op}
        /\ Step(r, "create")
  /\ UNCHANGED <<site, nextOp, opType, result, broker, taskVars, lost, late>>

(* Operation.objects.create(): an IntegrityError if the site is gone or    *)
(* has an operation.  What the view found before it came here is stale.    *)
create_operation(r) ==
  /\ req[r].pc = "create"
  /\ \/ /\ operation_allowed
        /\ nextOp <= MaxOps
        /\ opRows' = opRows \union {nextOp}
        /\ opType' = [opType EXCEPT ![nextOp] = req[r].type]
        /\ nextOp' = nextOp + 1
        /\ req' = [req EXCEPT ![r].pc = "delay", ![r].op = nextOp]
     \/ /\ ~operation_allowed
        /\ req' = [req EXCEPT ![r] = Idle]
        /\ UNCHANGED <<opRows, opType, nextOp>>
  /\ UNCHANGED <<site, result, broker, taskVars, lost, late>>

(* <task>.delay(operation.id) *)
delay(r) ==
  /\ req[r].pc = "delay"
  /\ broker' = broker \union {req[r].op}
  /\ \/ req[r].view = "fix_sites" /\ Step(r, "wait_after")
     \/ req[r].view # "fix_sites" /\ req' = [req EXCEPT ![r] = Idle]
  /\ UNCHANGED <<dbVars, taskVars, lost, late>>

(* The fix_sites command waits for the operation it finds, starts fix_site *)
(* and waits again; a failed operation ends it with a CommandError.        *)
fix_sites(r) ==
  /\ "fix_sites" \in Views /\ req[r].pc = "idle"
  /\ site = "present"
  /\ Goto(r, IF has_operation THEN "wait_before" ELSE "create", "fix_sites", "fix_site", NoOp)
  /\ UNCHANGED <<dbVars, broker, taskVars, lost, late>>

wait_for_operation(r) ==
  /\ \/ /\ req[r].pc \in {"wait_before", "wait_after"}
        /\ \E t \in opRows : has_failed(t)
        /\ req' = [req EXCEPT ![r] = Idle]
     \/ /\ ~has_operation
        /\ req[r].pc = "wait_before" /\ Step(r, "create")
     \/ /\ ~has_operation
        /\ req[r].pc = "wait_after" /\ req' = [req EXCEPT ![r] = Idle]
  /\ UNCHANGED <<dbVars, broker, taskVars, lost, late>>

(* meta_form.save() of an instance the view read earlier, with no look at  *)
(* the site's operation; it inserts the row again if it was deleted.       *)
edit_meta_view(r) ==
  /\ "edit_meta" \in Views /\ req[r].pc = "idle"
  /\ site # "none"
  /\ site' = "present"
  /\ UNCHANGED <<opRows, nextOp, opType, result, broker, taskVars, req, lost, late>>

-----------------------------------------------------------------------------
(* The Celery task of operation t *)

Become(t, where) == pc' = [pc EXCEPT ![t] = where]

SameWork == UNCHANGED <<plan, idx, seg, ok>>

last_action(t) == idx[t] = Len(plan[t])

(* The worker takes the task and most tasks read the site, to see what     *)
(* belongs in their plan, before the wrapper reads the operation (and the  *)
(* site again).  Either raises DoesNotExist if the row was removed.        *)
fetch(t) ==
  /\ t \in broker
  /\ broker' = broker \ {t}
  /\ \/ t \notin opRows /\ Become(t, "ended") /\ UNCHANGED plan
     \/ /\ t \in opRows
        /\ Become(t, "wrap")
        /\ \E p \in Plans[opType[t]] : plan' = [plan EXCEPT ![t] = p]
     \/ /\ t \in opRows /\ opType[t] = "delete_site_database"
        /\ Become(t, "drop_op") /\ UNCHANGED plan
  /\ UNCHANGED <<dbVars, idx, seg, ok, req, lost, late>>

auto_run_operation_wrapper(t) ==
  /\ pc[t] = "wrap"
  /\ Become(t, IF t \in opRows THEN "adding" ELSE "ended")
  /\ UNCHANGED <<dbVars, broker, req, lost, late>> /\ SameWork

(* delete_database_task of a site that has no database: it deletes         *)
(* site.operation, which a second query looks up by site.                  *)
drop_operation(t) ==
  /\ pc[t] = "drop_op"
  /\ opRows' = {o \in opRows : has_actions(o)}
  /\ Become(t, "ended")
  /\ UNCHANGED <<site, nextOp, opType, result, broker, req, lost, late>> /\ SameWork

(* Action.objects.create() for the next entry of the plan *)
add_action(t) ==
  /\ pc[t] = "adding"
  /\ \/ /\ ~action_allowed(t)
        /\ Become(t, "ended") /\ UNCHANGED <<result, idx>>
     \/ /\ action_allowed(t)
        /\ result' = [result EXCEPT ![t][idx[t]] = "unset"]
        /\ \/ /\ ~last_action(t)
              /\ idx' = [idx EXCEPT ![t] = @ + 1]
              /\ UNCHANGED pc
           \/ /\ last_action(t)
              /\ idx' = [idx EXCEPT ![t] = 1]
              /\ Become(t, "start")
  /\ UNCHANGED <<site, opRows, nextOp, opType, broker, plan, seg, ok, req, lost, late>>

(* save(update_fields=["started_time"]) raises DatabaseError without a row, *)
(* outside of execute_operation's try.                                      *)
start_operation(t) ==
  /\ pc[t] = "start"
  /\ Become(t, IF t \in opRows THEN "begin" ELSE "ended")
  /\ UNCHANGED <<dbVars, broker, req, lost, late>> /\ SameWork

start_action(t) ==
  /\ pc[t] = "begin"
  /\ Become(t, IF result[t][idx[t]] # "absent" THEN "run" ELSE "catch")
  /\ seg' = [seg EXCEPT ![t] = 1]
  /\ UNCHANGED <<dbVars, broker, plan, idx, ok, req, lost, late>>

(* One segment of the callback, up to its next yield, return or exception. *)
(* A save() of a Site instance whose row is gone inserts it again.         *)
run_segment(t) ==
  /\ pc[t] = "run"
  /\ \E where \in {"save", "catch"} : Become(t, where)
  /\ late' = IF t \in opRows THEN late ELSE [late EXCEPT ![t] = @ + 1]
  /\ \/ UNCHANGED site
     \/ opType[t] \in SavesSite /\ site = "deleted" /\ site' = "present"
  /\ UNCHANGED <<opRows, nextOp, opType, result, broker, req, lost>> /\ SameWork

(* action.save() updates every column, and inserts the row if it is gone:  *)
(* an IntegrityError unless the Operation row it refers to exists.         *)
save_action(t) ==
  /\ pc[t] = "save"
  /\ \/ /\ ~action_allowed(t)
        /\ Become(t, "catch") /\ UNCHANGED <<result, idx, seg>>
     \/ /\ action_allowed(t) /\ seg[t] < MaxSegments               (* a yield *)
        /\ result' = [result EXCEPT ![t][idx[t]] = "unset"]
        /\ seg' = [seg EXCEPT ![t] = @ + 1]
        /\ Become(t, "run") /\ UNCHANGED idx
     \/ /\ action_allowed(t)                                    (* the return *)
        /\ result' = [result EXCEPT ![t][idx[t]] = "true"]
        /\ UNCHANGED seg
        /\ \/ /\ ~last_action(t)
              /\ idx' = [idx EXCEPT ![t] = @ + 1]
              /\ Become(t, "begin")
           \/ /\ last_action(t)
              /\ UNCHANGED idx
              /\ Become(t, "clear")
  /\ UNCHANGED <<site, opRows, nextOp, opType, broker, plan, ok, req, lost, late>>

Mutant_failure == "unset"

failure == "false"

(* The handler of execute_operation: its own action.save() is unprotected. *)
catch_exception(t) ==
  /\ pc[t] = "catch"
  /\ \/ /\ action_allowed(t)
        /\ result' = [result EXCEPT ![t][idx[t]] = failure]
        /\ Become(t, "post")
     \/ /\ ~action_allowed(t)
        /\ Become(t, "ended") /\ UNCHANGED result
  /\ UNCHANGED <<site, opRows, nextOp, opType, broker, plan, idx, seg, ok, req, lost, late>>

(* auto_run_operation_wrapper after a success: two queries. *)
clear_actions(t) ==
  /\ pc[t] = "clear"
  /\ result' = [result EXCEPT ![t] = NoActions]
  /\ ok' = [ok EXCEPT ![t] = TRUE]
  /\ Become(t, "remove")
  /\ UNCHANGED <<site, opRows, nextOp, opType, broker, plan, idx, seg, req, lost, late>>

remove_operation(t) ==
  /\ pc[t] = "remove"
  /\ opRows' = opRows \ {t}
  /\ Become(t, "post")
  /\ UNCHANGED <<site, nextOp, opType, result, broker, req, lost, late>> /\ SameWork

(* The end of the task.  delete_site_task deletes the Site row there,      *)
(* whatever execute_operation returned, unless a ProtectedError stops it.  *)
end_task(t) ==
  /\ pc[t] = "post"
  /\ \/ opType[t] = "delete_site" /\ site_deletable /\ site' = "deleted"
     \/ UNCHANGED site
  /\ Become(t, "ended")
  /\ UNCHANGED <<opRows, nextOp, opType, result, broker, req, lost, late>> /\ SameWork

-----------------------------------------------------------------------------
(* Faults *)

(* A web server stops between two queries of a view, or delay() raises     *)
(* because the broker cannot be reached.                                   *)
request_fails(r) ==
  /\ Faults
  /\ req[r].pc # "idle"
  /\ lost' = IF req[r].pc \in {"delete_op", "delay"} THEN lost \union {req[r].op} ELSE lost
  /\ req' = [req EXCEPT ![r] = Idle]
  /\ UNCHANGED <<dbVars, broker, taskVars, late>>

(* A worker stops.  Celery acknowledged the message when it was received,  *)
(* so no other worker takes the task over.                                 *)
worker_fails(t) ==
  /\ Faults
  /\ pc[t] \notin {"none", "ended"}
  /\ Become(t, "ended")
  /\ lost' = lost \union {t}
  /\ UNCHANGED <<dbVars, broker, req, late>> /\ SameWork

-----------------------------------------------------------------------------
RequestNext(r) ==
  \/ create_view(r)
  \/ \E ty \in PlainTypes : plain_view(r, ty)
  \/ image_select_view(r) \/ edit_names_view(r) \/ check_recoverable(r)
  \/ reset_operations_view(r) \/ operation_delete_fix_view(r)
  \/ delete_actions(r) \/ delete_op(r) \/ create_operation(r) \/ delay(r)
  \/ fix_sites(r) \/ wait_for_operation(r) \/ edit_meta_view(r)

TaskNext(t) ==
  \/ fetch(t) \/ drop_operation(t) \/ auto_run_operation_wrapper(t)
  \/ add_action(t) \/ start_operation(t)
  \/ start_action(t) \/ run_segment(t) \/ save_action(t) \/ catch_exception(t)
  \/ clear_actions(t) \/ remove_operation(t) \/ end_task(t)

Next ==
  \/ \E r \in Requests : RequestNext(r) \/ request_fails(r)
  \/ \E t \in OpId : TaskNext(t) \/ worker_fails(t)

Spec == Init /\ [][Next]_vars

(***************************************************************************)
(* Fairness: a Celery worker keeps running the tasks it has received and a *)
(* web server the requests it has accepted; nobody is obliged to send one. *)
(***************************************************************************)
Fairness ==
  /\ \A t \in OpId : WF_vars(TaskNext(t))
  /\ \A r \in Requests : WF_vars(check_recoverable(r) \/ delete_actions(r) \/ delete_op(r)
                                  \/ create_operation(r) \/ delay(r))

FairSpec == Spec /\ Fairness

-----------------------------------------------------------------------------
(* Properties *)

(* Every variable has its type. *)
TypeOK ==
  /\ site \in {"none", "present", "deleted"}
  /\ opRows \subseteq OpId /\ nextOp \in 1..(MaxOps + 1)
  /\ opType \in [OpId -> OpTypes \union {NoType}]
  /\ \A t \in opRows : opType[t] \in OpTypes
  /\ result \in [OpId -> [1..MaxActions -> Results]]
  /\ broker \subseteq OpId /\ lost \subseteq OpId
  /\ pc \in [OpId -> TaskPCs]
  /\ plan \in [OpId -> Seq(Slugs)]
  /\ idx \in [OpId -> 1..MaxActions]
  /\ seg \in [OpId -> 1..MaxSegments]
  /\ ok \in [OpId -> BOOLEAN]
  /\ late \in [OpId -> Nat]
  /\ req \in [Requests -> RequestState]

(* Nothing is ever left to block a site silently: while an Operation row   *)
(* exists, somebody is still going to act on it (the view about to queue   *)
(* its task, the queue, the task, a view about to delete the row) or it    *)
(* is marked failed, so that operation_delete_fix_view and fix_sites see   *)
(* it.  Only a fault can break this.                                       *)
BeingReplaced(t) == \E r \in Requests : req[r].pc = "delete_op" /\ req[r].op = t

BeingQueued(t) == \E r \in Requests : req[r].pc = "delay" /\ req[r].op = t

Attended(t) ==
  \/ BeingQueued(t)
  \/ t \in broker
  \/ pc[t] \notin {"none", "post", "ended"}
  \/ has_failed(t)
  \/ BeingReplaced(t)

NoOrphanOperation == \A t \in opRows \ lost : Attended(t)

(* A view that deletes the operation of a running task does not stop the   *)
(* task, but the task gets no further than the end of the segment it is    *)
(* in: its next save of an Action row fails, and so does the handler's.    *)
SupersededTaskStops == \A t \in OpId : late[t] <= 1

(* Only reset_operations_view ever removes the operation of a task that    *)
(* still has something to do: the override in image_select_view and        *)
(* edit_names_view and operation_delete_fix_view act on a finished one.    *)
OnlyFinishedReplaced ==
  \A r \in Requests :
    (/\ req[r].pc \in {"check", "delete_actions", "delete_op"}
     /\ req[r].view # "reset_operations")
       => pc[req[r].op] \in {"post", "ended"}

(* The Site row goes only after a delete_site operation whose actions all  *)
(* succeeded, so that nothing of the site is left behind.                  *)
DeletedAfterWipe ==
  site = "deleted" => \E t \in OpId : opType[t] = "delete_site" /\ ok[t]

(* The inductive invariant behind the properties above.  No step has used  *)
(* an id from nextOp on.                                                   *)
FreshIds ==
  /\ \A t \in OpId : t >= nextOp => /\ t \notin opRows \union broker
                                   /\ pc[t] = "none" /\ late[t] = 0
                                   /\ ~has_actions(t)
  /\ \A r \in Requests : req[r].op < nextOp

OneOperation == \A s, t \in opRows : s = t

(* The task of an operation is sent, and so runs, once. *)
QueuedOnce ==
  /\ \A t \in broker : pc[t] = "none"
  /\ \A r \in Requests :
       req[r].pc = "delay" => pc[req[r].op] = "none" /\ req[r].op \notin broker
  /\ \A r, s \in Requests :
       (req[r].pc = "delay" /\ req[s].pc = "delay" /\ req[r].op = req[s].op) => r = s

(* What a task knows of its plan, its rows and its lease. *)
IndexInPlan(t) ==
  /\ pc[t] = "none" => idx[t] = 1
  /\ pc[t] \notin {"none", "drop_op", "ended"} =>
       Len(plan[t]) \in 1..MaxActions /\ idx[t] <= Len(plan[t])

LateIsStopping(t) ==
  late[t] # 0 => late[t] = 1 /\ t \notin opRows /\ pc[t] \in {"save", "catch", "ended"}

ActionsAfterWrap(t) == pc[t] \in {"none", "drop_op", "wrap"} => ~has_actions(t)

FailedIsOver(t) == has_failed(t) => pc[t] \in {"post", "ended"}

OverIsFailed(t) ==
  (t \in opRows \ lost /\ pc[t] \in {"post", "ended"} /\ has_actions(t)) => has_failed(t)

TaskInv(t) ==
  /\ IndexInPlan(t) /\ LateIsStopping(t) /\ ActionsAfterWrap(t)
  /\ FailedIsOver(t) /\ OverIsFailed(t)
  /\ t \in opRows \ lost => Attended(t)

IInv ==
  /\ TypeOK /\ FreshIds /\ OneOperation /\ QueuedOnce /\ OnlyFinishedReplaced
  /\ \A t \in OpId : TaskInv(t)

(* Every operation comes to an end: it is removed or it is marked failed.  *)
OperationSettles ==
  \A t \in OpId : (t \in opRows) ~> (t \notin opRows \/ has_failed(t))

-----------------------------------------------------------------------------
(* The Operation row is a lease on the site: OperationSlot says what it    *)
(* promises, and the engine implements it.                                 *)
stage_of(t) ==
  CASE t >= nextOp -> "unborn"
    [] t < nextOp /\ pc[t] \in {"none", "drop_op", "wrap", "adding", "start"} -> "pending"
    [] t < nextOp /\ pc[t] \in {"begin", "run", "save", "catch", "clear", "remove"} ->
         (IF late[t] = 0 THEN "working" ELSE "overrun")
    [] OTHER -> "over"

stage == [t \in OpId |-> stage_of(t)]

Slot == INSTANCE OperationSlot WITH Ops <- OpId, held <- opRows

(* A task works on the site only from a moment at which it held the lease, *)
(* one lease at a time is held, and a task that lost its lease makes at    *)
(* most one more segment before it is over.                                *)
ImplementsSlot == Slot!Spec
=============================================================================

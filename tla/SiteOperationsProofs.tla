------------------------ MODULE SiteOperationsProofs ------------------------
(***************************************************************************)
(* Theorems about SiteOperations, for any number of requests, operations   *)
(* and actions, and for any plans.                                         *)
(***************************************************************************)
EXTENDS SiteOperations, TLAPS

LEMMA IdleType == Idle \in RequestState
  BY DEF Idle, RequestState, ReqPCs, AllViews

LEMMA NoActionsType == NoActions \in [1..MaxActions -> Results]
  BY DEF NoActions, Results

LEMMA OneInBounds == 1 \in 1..MaxActions /\ 1 \in 1..MaxSegments /\ 1 \in 1..(MaxOps + 1)
  BY ConstantsAssumption

LEMMA InitTypeOK == Init => TypeOK
  <1>1. <<>> \in Seq(Slugs)
    OBVIOUS
  <1> QED
    BY <1>1, OneInBounds, IdleType, NoActionsType DEF Init, TypeOK, TaskPCs

(* A request stays within its type, whichever state it moves to. *)
LEMMA GotoType ==
  ASSUME TypeOK, NEW r \in Requests, NEW where \in ReqPCs, NEW view \in AllViews,
         NEW ty \in OpTypes, NEW o \in OpId \union {NoOp}, Goto(r, where, view, ty, o),
         where \in {"check", "delete_actions", "delete_op", "delay"} => o \in OpId
  PROVE  req' \in [Requests -> RequestState]
  <1>1. [pc |-> where, view |-> view, type |-> ty, op |-> o] \in RequestState
    BY DEF RequestState
  <1> QED
    BY <1>1 DEF Goto, TypeOK

LEMMA StepType ==
  ASSUME TypeOK, NEW r \in Requests, NEW where \in ReqPCs,
         \/ Step(r, where) /\ where = "delete_actions" /\ req[r].pc = "check"
         \/ Step(r, where) /\ where = "delete_op" /\ req[r].pc = "delete_actions"
         \/ Step(r, where) /\ where \in {"create", "wait_after"} /\ req[r].pc # "idle"
         \/ req' = [req EXCEPT ![r] = Idle]
  PROVE  req' \in [Requests -> RequestState]
  <1>1. CASE /\ Step(r, where)
             /\ \/ where = "delete_actions" /\ req[r].pc = "check"
                \/ where = "delete_op" /\ req[r].pc = "delete_actions"
                \/ where \in {"create", "wait_after"} /\ req[r].pc # "idle"
    <2>1. [req[r] EXCEPT !.pc = where] \in RequestState
      <3>1. req[r] \in [pc : ReqPCs, view : AllViews, type : OpTypes \union {NoType},
                       op : OpId \union {NoOp}]
        BY DEF TypeOK, RequestState
      <3>2. CASE \/ where = "delete_actions" /\ req[r].pc = "check"
                 \/ where = "delete_op" /\ req[r].pc = "delete_actions"
        <4>1. req[r].op \in OpId /\ req[r].type \in OpTypes
          BY <3>2 DEF TypeOK, RequestState
        <4> QED
          BY <3>1, <3>2, <4>1 DEF RequestState
      <3>3. CASE where \in {"create", "wait_after"} /\ req[r].pc # "idle"
        <4>1. req[r].type \in OpTypes
          BY <3>3 DEF TypeOK, RequestState
        <4> QED
          BY <3>1, <3>3, <4>1 DEF RequestState
      <3> QED
        BY <1>1, <3>2, <3>3
    <2> QED
      BY <1>1, <2>1 DEF Step, TypeOK
  <1>2. CASE req' = [req EXCEPT ![r] = Idle]
    BY <1>2, IdleType DEF TypeOK
  <1> QED
    BY <1>1, <1>2

(* The steps of a request that only move it. *)
LEMMA MoveTypeOK ==
  ASSUME TypeOK, req' \in [Requests -> RequestState],
         UNCHANGED <<dbVars, broker, taskVars, lost, late>>
  PROVE  TypeOK'
  BY DEF TypeOK, dbVars, taskVars

LEMMA RequestTypeOK ==
  ASSUME TypeOK, NEW r \in Requests, RequestNext(r) \/ request_fails(r)
  PROVE  TypeOK'
  <1> DEFINE ReqOK == req' \in [Requests -> RequestState]
  <1>1. \A t \in opRows : t \in OpId /\ t \in OpId \union {NoOp}
    BY DEF TypeOK
  <1>2. NoOp \in OpId \union {NoOp}
    OBVIOUS
  <1>3. req[r].op \in OpId \union {NoOp} /\ req[r].type \in OpTypes \union {NoType}
    BY DEF TypeOK, RequestState
  <1>4. CASE create_view(r)
    <2>1. ReqOK
      BY <1>4, <1>2, GotoType DEF create_view, OpTypes, AllViews, ReqPCs
    <2> QED
      BY <1>4, <2>1 DEF create_view, TypeOK, taskVars
  <1>5. ASSUME NEW ty \in PlainTypes, plain_view(r, ty)
        PROVE  TypeOK'
    <2>1. ReqOK
      BY <1>5, <1>2, GotoType, ConstantsAssumption DEF plain_view, AllViews, ReqPCs
    <2> QED
      BY <1>5, <2>1, MoveTypeOK DEF plain_view
  <1>6. ASSUME NEW view \in AllViews, NEW ty \in OpTypes, override_view(r, view, ty)
        PROVE  TypeOK'
    <2>1. ReqOK
      BY <1>6, <1>1, <1>2, GotoType DEF override_view, ReqPCs
    <2> QED
      BY <1>6, <2>1, MoveTypeOK DEF override_view
  <1>16. CASE check_recoverable(r)
    <2>1. ReqOK
      BY <1>16, StepType DEF check_recoverable, ReqPCs
    <2> QED
      BY <1>16, <2>1, MoveTypeOK DEF check_recoverable
  <1>7. CASE reset_operations_view(r)
    <2>1. ReqOK
      BY <1>7, <1>1, <1>2, GotoType DEF reset_operations_view, OpTypes, AllViews, ReqPCs
    <2> QED
      BY <1>7, <2>1, MoveTypeOK DEF reset_operations_view
  <1>8. CASE operation_delete_fix_view(r)
    <2>1. ReqOK
      BY <1>8, <1>1, GotoType DEF operation_delete_fix_view, OpTypes, AllViews, ReqPCs
    <2> QED
      BY <1>8, <2>1, MoveTypeOK DEF operation_delete_fix_view
  <1>9. CASE delete_actions(r)
    <2>1. ReqOK
      BY <1>9, StepType DEF delete_actions, ReqPCs
    <2>2. result' \in [OpId -> [1..MaxActions -> Results]]
      BY <1>9, NoActionsType DEF delete_actions, TypeOK
    <2> QED
      BY <1>9, <2>1, <2>2 DEF delete_actions, TypeOK, taskVars
  <1>10. CASE delete_op(r)
    <2>1. ReqOK
      BY <1>10, StepType DEF delete_op, ReqPCs
    <2>2. opRows' \subseteq OpId
      BY <1>10 DEF delete_op, TypeOK
    <2> QED
      BY <1>10, <2>1, <2>2 DEF delete_op, TypeOK, taskVars
  <1>11. CASE create_operation(r)
    <2>1. CASE UNCHANGED <<opRows, opType, nextOp>> /\ req' = [req EXCEPT ![r] = Idle]
      <3>1. ReqOK
        BY <2>1, StepType DEF ReqPCs
      <3> QED
        BY <1>11, <2>1, <3>1 DEF create_operation, TypeOK, taskVars
    <2>2. CASE /\ nextOp <= MaxOps /\ nextOp' = nextOp + 1
               /\ opRows' = opRows \union {nextOp}
               /\ opType' = [opType EXCEPT ![nextOp] = req[r].type]
               /\ req' = [req EXCEPT ![r].pc = "delay", ![r].op = nextOp]
      <3>1. nextOp \in OpId /\ nextOp' \in 1..(MaxOps + 1)
        BY <2>2, ConstantsAssumption DEF TypeOK, OpId
      <3>2. ReqOK
        <4>1. [req[r] EXCEPT !.pc = "delay", !.op = nextOp] \in RequestState
          <5>1. req[r] \in [pc : ReqPCs, view : AllViews, type : OpTypes \union {NoType},
                           op : OpId \union {NoOp}]
            BY DEF TypeOK, RequestState
          <5>2. req[r].type \in OpTypes
            BY <1>11 DEF create_operation, TypeOK, RequestState
          <5> QED
            BY <3>1, <5>1, <5>2 DEF RequestState, ReqPCs
        <4> QED
          BY <2>2, <4>1 DEF TypeOK
      <3>3. /\ opRows' \subseteq OpId /\ opType' \in [OpId -> OpTypes \union {NoType}]
            /\ \A t \in opRows' : opType'[t] \in OpTypes
        <4>1. req[r].type \in OpTypes
          BY <1>11 DEF create_operation, TypeOK, RequestState
        <4> QED
          BY <2>2, <3>1, <4>1 DEF TypeOK
      <3> QED
        BY <1>11, <3>1, <3>2, <3>3 DEF create_operation, TypeOK, taskVars
    <2> QED
      BY <1>11, <2>1, <2>2 DEF create_operation
  <1>12. CASE delay(r)
    <2>1. ReqOK
      BY <1>12, StepType DEF delay, ReqPCs
    <2>2. req[r].op \in OpId
      BY <1>12 DEF delay, TypeOK, RequestState
    <2> QED
      BY <1>12, <2>1, <2>2 DEF delay, TypeOK, taskVars, dbVars
  <1>13. CASE fix_sites(r)
    <2>1. ReqOK
      BY <1>13, <1>2, GotoType DEF fix_sites, OpTypes, AllViews, ReqPCs
    <2> QED
      BY <1>13, <2>1, MoveTypeOK DEF fix_sites
  <1>14. CASE wait_for_operation(r)
    <2>1. ReqOK
      BY <1>14, StepType DEF wait_for_operation, ReqPCs
    <2> QED
      BY <1>14, <2>1, MoveTypeOK DEF wait_for_operation
  <1>15. CASE request_fails(r)
    <2>1. ReqOK
      BY <1>15, StepType DEF request_fails, ReqPCs
    <2>2. lost' \subseteq OpId
      BY <1>15 DEF request_fails, TypeOK, RequestState
    <2> QED
      BY <1>15, <2>1, <2>2 DEF request_fails, TypeOK, taskVars, dbVars
  <1>17. CASE edit_meta_view(r)
    BY <1>17 DEF edit_meta_view, TypeOK, taskVars
  <1> QED
    BY <1>4, <1>5, <1>6, <1>7, <1>8, <1>9, <1>10, <1>11, <1>12, <1>13, <1>14, <1>15, <1>16, <1>17
    DEF RequestNext, image_select_view, edit_names_view, OpTypes, AllViews

(* Where a task goes stays within the type. *)
LEMMA BecomeType ==
  ASSUME TypeOK, NEW t \in OpId, NEW where \in TaskPCs, Become(t, where)
  PROVE  pc' \in [OpId -> TaskPCs]
  BY DEF TypeOK, Become

(* What an Action row is set to stays within the type. *)
LEMMA SetResultType ==
  ASSUME TypeOK, NEW t \in OpId, NEW v \in Results,
         result' = [result EXCEPT ![t][idx[t]] = v]
  PROVE  result' \in [OpId -> [1..MaxActions -> Results]]
  BY DEF TypeOK

(* The index never runs past the end of the plan. *)
LEMMA IndexType ==
  ASSUME TypeOK, NEW t \in OpId, IndexInPlan(t), ~last_action(t), pc[t] \in {"adding", "save"},
         idx' = [idx EXCEPT ![t] = @ + 1]
  PROVE  idx' \in [OpId -> 1..MaxActions]
  <1>1. idx[t] \in 1..MaxActions /\ Len(plan[t]) \in 1..MaxActions /\ idx[t] <= Len(plan[t])
    BY DEF TypeOK, IndexInPlan
  <1>2. idx[t] + 1 \in 1..MaxActions
    BY <1>1, ConstantsAssumption DEF last_action
  <1> QED
    BY <1>2 DEF TypeOK

LEMMA TaskTypeOK ==
  ASSUME TypeOK, NEW t \in OpId, IndexInPlan(t), TaskNext(t) \/ worker_fails(t)
  PROVE  TypeOK'
  <1> DEFINE PcOK     == pc' \in [OpId -> TaskPCs]
             ResultOK == result' \in [OpId -> [1..MaxActions -> Results]]
             IdxOK    == idx' \in [OpId -> 1..MaxActions]
  <1>1. CASE fetch(t)
    <2>1. PcOK
      BY <1>1, BecomeType DEF fetch, TaskPCs
    <2>2. plan' \in [OpId -> Seq(Slugs)]
      <3>1. t \in opRows => Plans[opType[t]] \subseteq Seq(Slugs)
        BY <1>1, PlansAssumption DEF TypeOK
      <3> QED
        BY <1>1, <3>1 DEF fetch, TypeOK
    <2> QED
      BY <1>1, <2>1, <2>2 DEF fetch, TypeOK, dbVars
  <1>2. CASE drop_operation(t)
    <2>1. PcOK
      BY <1>2, BecomeType DEF drop_operation, TaskPCs
    <2> QED
      BY <1>2, <2>1 DEF drop_operation, SameWork, TypeOK
  <1>3. CASE auto_run_operation_wrapper(t)
    <2>1. PcOK
      BY <1>3, BecomeType DEF auto_run_operation_wrapper, TaskPCs
    <2> QED
      BY <1>3, <2>1 DEF auto_run_operation_wrapper, SameWork, TypeOK, dbVars
  <1>4. CASE add_action(t)
    <2>1. PcOK
      BY <1>4, BecomeType DEF add_action, TaskPCs, TypeOK
    <2>2. ResultOK
      BY <1>4, SetResultType DEF add_action, Results, TypeOK
    <2>3. IdxOK
      <3>1. CASE idx' = [idx EXCEPT ![t] = @ + 1] /\ ~last_action(t)
        BY <1>4, <3>1, IndexType DEF add_action
      <3>2. CASE idx' = [idx EXCEPT ![t] = 1]
        BY <3>2, OneInBounds DEF TypeOK
      <3> QED
        BY <1>4, <3>1, <3>2 DEF add_action, TypeOK
    <2> QED
      BY <1>4, <2>1, <2>2, <2>3 DEF add_action, TypeOK
  <1>5. CASE start_operation(t)
    <2>1. PcOK
      BY <1>5, BecomeType DEF start_operation, TaskPCs
    <2> QED
      BY <1>5, <2>1 DEF start_operation, SameWork, TypeOK, dbVars
  <1>6. CASE start_action(t)
    <2>1. PcOK
      BY <1>6, BecomeType DEF start_action, TaskPCs
    <2> QED
      BY <1>6, <2>1, OneInBounds DEF start_action, TypeOK, dbVars
  <1>7. CASE run_segment(t)
    <2>1. PcOK
      BY <1>7, BecomeType DEF run_segment, TaskPCs
    <2>2. late' \in [OpId -> Nat]
      BY <1>7 DEF run_segment, TypeOK
    <2> QED
      BY <1>7, <2>1, <2>2 DEF run_segment, SameWork, TypeOK, dbVars
  <1>8. CASE save_action(t)
    <2>1. PcOK
      BY <1>8, BecomeType DEF save_action, TaskPCs, TypeOK
    <2>2. ResultOK
      BY <1>8, SetResultType DEF save_action, Results, TypeOK
    <2>3. IdxOK
      BY <1>8, IndexType DEF save_action, TypeOK
    <2>4. seg' \in [OpId -> 1..MaxSegments]
      <3>1. CASE seg[t] < MaxSegments /\ seg' = [seg EXCEPT ![t] = @ + 1]
        <4>1. seg[t] + 1 \in 1..MaxSegments
          BY <3>1, ConstantsAssumption DEF TypeOK
        <4> QED
          BY <3>1, <4>1 DEF TypeOK
      <3> QED
        BY <1>8, <3>1 DEF save_action, TypeOK
    <2> QED
      BY <1>8, <2>1, <2>2, <2>3, <2>4 DEF save_action, TypeOK
  <1>9. CASE catch_exception(t)
    <2>1. PcOK
      BY <1>9, BecomeType DEF catch_exception, TaskPCs
    <2>2. ResultOK
      BY <1>9, SetResultType DEF catch_exception, failure, Results, TypeOK
    <2> QED
      BY <1>9, <2>1, <2>2 DEF catch_exception, TypeOK
  <1>10. CASE clear_actions(t)
    <2>1. PcOK
      BY <1>10, BecomeType DEF clear_actions, TaskPCs
    <2>2. ResultOK /\ ok' \in [OpId -> BOOLEAN]
      BY <1>10, NoActionsType DEF clear_actions, TypeOK
    <2> QED
      BY <1>10, <2>1, <2>2 DEF clear_actions, TypeOK
  <1>11. CASE remove_operation(t)
    <2>1. PcOK
      BY <1>11, BecomeType DEF remove_operation, TaskPCs
    <2> QED
      BY <1>11, <2>1 DEF remove_operation, SameWork, TypeOK
  <1>12. CASE end_task(t)
    <2>1. PcOK
      BY <1>12, BecomeType DEF end_task, TaskPCs
    <2> QED
      BY <1>12, <2>1 DEF end_task, SameWork, TypeOK
  <1>13. CASE worker_fails(t)
    <2>1. PcOK
      BY <1>13, BecomeType DEF worker_fails, TaskPCs
    <2> QED
      BY <1>13, <2>1 DEF worker_fails, SameWork, TypeOK, dbVars
  <1> QED
    BY <1>1, <1>2, <1>3, <1>4, <1>5, <1>6, <1>7, <1>8, <1>9, <1>10, <1>11, <1>12, <1>13
    DEF TaskNext

-----------------------------------------------------------------------------
(* Which rows an operation has and whether one of them failed depends on   *)
(* its own Action rows only.                                               *)
LEMMA SameRows ==
  ASSUME NEW t \in OpId, result'[t] = result[t]
  PROVE  (has_actions(t)' <=> has_actions(t)) /\ (has_failed(t)' <=> has_failed(t))
  BY DEF has_actions, has_failed

LEMMA NoRows ==
  ASSUME NEW t \in OpId, result'[t] = NoActions
  PROVE  ~has_actions(t)' /\ ~has_failed(t)'
  BY DEF has_actions, has_failed, NoActions

LEMMA FailedHasActions ==
  ASSUME NEW t \in OpId, has_failed(t)
  PROVE  has_actions(t)
  BY DEF has_actions, has_failed

(* Saving the current Action row marks the operation failed exactly if the *)
(* row is marked failed.                                                   *)
LEMMA SetRow ==
  ASSUME TypeOK, NEW t \in OpId, NEW v \in Results \ {"absent"}, ~has_failed(t),
         result' = [result EXCEPT ![t][idx[t]] = v]
  PROVE  /\ has_failed(t)' <=> v = "false"
         /\ has_actions(t)'
  <1>1. idx[t] \in 1..MaxActions /\ result'[t] = [result[t] EXCEPT ![idx[t]] = v]
    BY DEF TypeOK
  <1>2. result'[t][idx[t]] = v
    BY <1>1 DEF TypeOK
  <1>3. \A i \in 1..MaxActions : i # idx[t] => result'[t][i] = result[t][i]
    BY <1>1 DEF TypeOK
  <1> QED
    BY <1>1, <1>2, <1>3 DEF has_failed, has_actions

(* A step of the task of operation t that hands on its lease or gives it   *)
(* back keeps the invariant if it keeps what concerns t.                   *)
LEMMA TaskStep ==
  ASSUME IInv, TypeOK', NEW t \in OpId,
         UNCHANGED <<nextOp, req>>,
         \A s \in OpId \ {t} : /\ pc'[s] = pc[s] /\ plan'[s] = plan[s] /\ idx'[s] = idx[s]
                              /\ result'[s] = result[s] /\ late'[s] = late[s],
         lost \subseteq lost', 
         broker' \subseteq broker, broker \ {t} \subseteq broker',
         opRows' \subseteq opRows,
         t \notin broker',
         t \in broker \/ pc[t] # "none",
         pc'[t] # "none",
         pc[t] \in {"post", "ended"} => pc'[t] \in {"post", "ended"},
         TaskInv(t)'
  PROVE  IInv'
  <1>1. \A s \in OpId \ {t} : /\ has_actions(s)' <=> has_actions(s)
                              /\ has_failed(s)' <=> has_failed(s)
    BY SameRows
  <1>2. t < nextOp
    BY DEF IInv, FreshIds, TypeOK, OpId
  <1>3. FreshIds'
    BY <1>1, <1>2 DEF IInv, FreshIds, TypeOK, OpId
  <1>4. OneOperation'
    BY DEF IInv, OneOperation
  <1>5. QueuedOnce'
    <2>1. \A s \in broker' : pc'[s] = "none"
      BY DEF IInv, QueuedOnce, TypeOK
    <2>2. ASSUME NEW r \in Requests, req[r].pc = "delay"
          PROVE  req[r].op \in OpId /\ pc'[req[r].op] = "none" /\ req[r].op \notin broker'
      <3>1. req[r].op \in OpId
        BY <2>2 DEF IInv, TypeOK, RequestState
      <3>2. pc[req[r].op] = "none" /\ req[r].op \notin broker
        BY <2>2 DEF IInv, QueuedOnce
      <3> QED
        BY <3>1, <3>2
    <2> QED
      BY <2>1, <2>2 DEF IInv, QueuedOnce
  <1>6. OnlyFinishedReplaced'
    <2> SUFFICES ASSUME NEW r \in Requests, req[r].pc \in {"check", "delete_actions", "delete_op"},
                        req[r].view # "reset_operations"
                 PROVE  pc'[req[r].op] \in {"post", "ended"}
      BY DEF OnlyFinishedReplaced
    <2>1. req[r].op \in OpId
      BY DEF IInv, TypeOK, RequestState
    <2> QED
      BY <2>1 DEF IInv, OnlyFinishedReplaced
  <1>7. ASSUME NEW s \in OpId \ {t}
        PROVE  TaskInv(s)'
    <2>1. Attended(s) => Attended(s)'
      BY <1>1 DEF Attended, BeingQueued, BeingReplaced
    <2> QED
      BY <1>1, <2>1 DEF IInv, TaskInv, IndexInPlan, LateIsStopping, ActionsAfterWrap,
                        FailedIsOver, OverIsFailed
  <1> QED
    BY <1>3, <1>4, <1>5, <1>6, <1>7 DEF IInv

LEMMA TaskStepIInv ==
  ASSUME IInv, NEW t \in OpId, TaskNext(t) \/ worker_fails(t)
  PROVE  IInv'
  <1> USE DEF Become, SameWork, dbVars, taskVars
  <1>t. TypeOK /\ TypeOK'
    BY TaskTypeOK DEF IInv, TaskInv
  <1>i. TaskInv(t)
    BY DEF IInv
  <1>q. t \in broker => pc[t] = "none"
    BY DEF IInv, QueuedOnce
  <1>1. CASE fetch(t)
    <2>1. TaskInv(t)'
      <3>1. pc[t] = "none" /\ idx[t] = 1 /\ idx'[t] = 1 /\ late'[t] = 0 /\ ~has_actions(t)
        BY <1>1, <1>t, <1>i, <1>q DEF fetch, TaskInv, IndexInPlan, LateIsStopping,
           ActionsAfterWrap
      <3>2. ~has_actions(t)' /\ ~has_failed(t)'
        BY <1>1, <3>1, SameRows, FailedHasActions DEF fetch
      <3>3. \/ pc'[t] = "ended" /\ t \notin opRows'
            \/ pc'[t] = "wrap" /\ Len(plan'[t]) \in 1..MaxActions
            \/ pc'[t] = "drop_op"
        <4>1. t \in opRows => \A p \in Plans[opType[t]] : Len(p) \in 1..MaxActions
          BY <1>t, PlansAssumption DEF TypeOK
        <4> QED
          BY <1>1, <1>t, <4>1 DEF fetch, TypeOK
      <3> QED
        BY <3>1, <3>2, <3>3 DEF TaskInv, IndexInPlan, LateIsStopping, ActionsAfterWrap,
                                FailedIsOver, OverIsFailed, Attended
    <2> QED
      BY <1>1, <1>t, <1>q, <2>1, TaskStep DEF fetch, TypeOK
  <1>2. CASE drop_operation(t)
    <2>1. TaskInv(t)'
      <3>1. ~has_actions(t)
        BY <1>2, <1>i DEF drop_operation, TaskInv, ActionsAfterWrap
      <3>2. ~has_actions(t)' /\ ~has_failed(t)' /\ t \notin opRows'
        BY <1>2, <3>1, SameRows, FailedHasActions DEF drop_operation
      <3>3. pc'[t] = "ended" /\ late'[t] = 0
        BY <1>2, <1>t, <1>i DEF drop_operation, TypeOK, TaskInv, LateIsStopping
      <3> QED
        BY <3>2, <3>3 DEF TaskInv, IndexInPlan, LateIsStopping, ActionsAfterWrap,
                          FailedIsOver, OverIsFailed
    <2> QED
      BY <1>2, <1>t, <1>q, <2>1, TaskStep DEF drop_operation, TypeOK
  <1>3. CASE auto_run_operation_wrapper(t)
    <2>1. TaskInv(t)'
      <3>1. (has_actions(t)' <=> has_actions(t)) /\ (has_failed(t)' <=> has_failed(t))
        BY <1>3, SameRows DEF auto_run_operation_wrapper
      <3> QED
        BY <1>3, <1>t, <1>i, <3>1, FailedHasActions
        DEF auto_run_operation_wrapper, TypeOK, TaskInv, IndexInPlan, LateIsStopping,
            ActionsAfterWrap, FailedIsOver, OverIsFailed, Attended
    <2> QED
      BY <1>3, <1>t, <1>q, <2>1, TaskStep DEF auto_run_operation_wrapper, TypeOK
  <1>4. CASE add_action(t)
    <2>1. TaskInv(t)'
      <3>1. late'[t] = 0 /\ ~has_failed(t)
        BY <1>4, <1>i DEF add_action, TaskInv, LateIsStopping, FailedIsOver
      <3>2. CASE ~action_allowed(t)
        <4>1. pc'[t] = "ended" /\ t \notin opRows' /\ ~has_failed(t)'
          BY <1>4, <1>t, <3>1, <3>2, SameRows DEF add_action, action_allowed, TypeOK
        <4> QED
          BY <3>1, <4>1 DEF TaskInv, IndexInPlan, LateIsStopping, ActionsAfterWrap,
                            FailedIsOver, OverIsFailed
      <3>3. CASE action_allowed(t)
        <4>1. ~has_failed(t)'
          BY <1>4, <1>t, <3>1, <3>3, SetRow DEF add_action, Results
        <4>2. pc'[t] \in {"adding", "start"}
          BY <1>4, <1>t, <3>3 DEF add_action, TypeOK
        <4>3. Len(plan'[t]) \in 1..MaxActions /\ idx'[t] <= Len(plan'[t])
          <5>1. Len(plan[t]) \in 1..MaxActions /\ idx[t] <= Len(plan[t]) /\ idx[t] \in Nat
            BY <1>4, <1>t, <1>i DEF add_action, TypeOK, TaskInv, IndexInPlan
          <5>2. idx'[t] = 1 \/ (idx'[t] = idx[t] + 1 /\ idx[t] # Len(plan[t]))
            BY <1>4, <1>t, <3>3 DEF add_action, last_action, TypeOK
          <5> QED
            BY <1>4, <5>1, <5>2, ConstantsAssumption DEF add_action
        <4> QED
          BY <3>1, <4>1, <4>2, <4>3 DEF TaskInv, IndexInPlan, LateIsStopping,
             ActionsAfterWrap, FailedIsOver, OverIsFailed, Attended
      <3> QED
        BY <3>2, <3>3
    <2> QED
      BY <1>4, <1>t, <1>q, <2>1, TaskStep DEF add_action, TypeOK
  <1>5. CASE start_operation(t)
    <2>1. TaskInv(t)'
      <3>1. (has_actions(t)' <=> has_actions(t)) /\ (has_failed(t)' <=> has_failed(t))
        BY <1>5, SameRows DEF start_operation
      <3> QED
        BY <1>5, <1>t, <1>i, <3>1
        DEF start_operation, TypeOK, TaskInv, IndexInPlan, LateIsStopping,
            ActionsAfterWrap, FailedIsOver, OverIsFailed, Attended
    <2> QED
      BY <1>5, <1>t, <1>q, <2>1, TaskStep DEF start_operation, TypeOK
  <1>6. CASE start_action(t)
    <2>1. TaskInv(t)'
      <3>1. (has_actions(t)' <=> has_actions(t)) /\ (has_failed(t)' <=> has_failed(t))
        BY <1>6, SameRows DEF start_action
      <3>2. pc'[t] \in {"run", "catch"}
        BY <1>6, <1>t DEF start_action, TypeOK
      <3> QED
        BY <1>6, <1>t, <1>i, <3>1, <3>2
        DEF start_action, TaskInv, IndexInPlan, LateIsStopping,
            ActionsAfterWrap, FailedIsOver, OverIsFailed, Attended
    <2> QED
      BY <1>6, <1>t, <1>q, <2>1, TaskStep DEF start_action, TypeOK
  <1>7. CASE run_segment(t)
    <2>1. TaskInv(t)'
      <3>1. (has_actions(t)' <=> has_actions(t)) /\ (has_failed(t)' <=> has_failed(t))
        BY <1>7, SameRows DEF run_segment
      <3>2. pc'[t] \in {"save", "catch"}
        BY <1>7, <1>t DEF run_segment, TypeOK
      <3>3. late[t] = 0
        BY <1>7, <1>i DEF run_segment, TaskInv, LateIsStopping
      <3>4. IF t \in opRows THEN late'[t] = 0 ELSE late'[t] = 1
        BY <1>7, <1>t, <3>3 DEF run_segment, TypeOK
      <3> QED
        BY <1>7, <1>i, <3>1, <3>2, <3>4
        DEF run_segment, TaskInv, IndexInPlan, LateIsStopping,
            ActionsAfterWrap, FailedIsOver, OverIsFailed, Attended
    <2>2. \A s \in OpId \ {t} : late'[s] = late[s] /\ pc'[s] = pc[s]
      BY <1>7, <1>t DEF run_segment, TypeOK
    <2> QED
      BY <1>7, <1>t, <1>q, <2>1, <2>2, TaskStep DEF run_segment
  <1>8. CASE save_action(t)
    <2>1. TaskInv(t)'
      <3>1. ~has_failed(t)
        BY <1>8, <1>i DEF save_action, TaskInv, FailedIsOver
      <3>2. CASE ~action_allowed(t)
        <4>1. pc'[t] = "catch" /\ ~has_failed(t)'
          BY <1>8, <1>t, <3>1, <3>2, SameRows DEF save_action, action_allowed, TypeOK
        <4> QED
          BY <1>8, <1>i, <3>2, <4>1 DEF save_action, TaskInv, IndexInPlan, LateIsStopping,
             ActionsAfterWrap, FailedIsOver, OverIsFailed, Attended
      <3>3. CASE action_allowed(t)
        <4>1. ~has_failed(t)'
          BY <1>8, <1>t, <3>1, <3>3, SetRow DEF save_action, Results
        <4>2. pc'[t] \in {"run", "begin", "clear"} /\ late'[t] = 0
          BY <1>8, <1>t, <1>i, <3>3
          DEF save_action, TypeOK, TaskInv, LateIsStopping, action_allowed
        <4>3. Len(plan'[t]) \in 1..MaxActions /\ idx'[t] <= Len(plan'[t])
          <5>1. Len(plan[t]) \in 1..MaxActions /\ idx[t] <= Len(plan[t]) /\ idx[t] \in Nat
            BY <1>8, <1>t, <1>i DEF save_action, TypeOK, TaskInv, IndexInPlan
          <5>2. idx'[t] = idx[t] \/ (idx'[t] = idx[t] + 1 /\ idx[t] # Len(plan[t]))
            BY <1>8, <1>t, <3>3 DEF save_action, last_action, TypeOK
          <5> QED
            BY <1>8, <5>1, <5>2, ConstantsAssumption DEF save_action
        <4> QED
          BY <4>1, <4>2, <4>3 DEF TaskInv, IndexInPlan, LateIsStopping,
             ActionsAfterWrap, FailedIsOver, OverIsFailed, Attended
      <3> QED
        BY <3>2, <3>3
    <2> QED
      BY <1>8, <1>t, <1>q, <2>1, TaskStep DEF save_action, TypeOK
  <1>9. CASE catch_exception(t)
    <2>1. TaskInv(t)'
      <3>1. ~has_failed(t)
        BY <1>9, <1>i DEF catch_exception, TaskInv, FailedIsOver
      <3>2. CASE ~action_allowed(t)
        <4>1. pc'[t] = "ended" /\ t \notin opRows' /\ ~has_failed(t)'
          BY <1>9, <1>t, <3>1, <3>2, SameRows DEF catch_exception, action_allowed, TypeOK
        <4> QED
          BY <1>9, <1>i, <4>1 DEF catch_exception, TaskInv, IndexInPlan, LateIsStopping,
             ActionsAfterWrap, FailedIsOver, OverIsFailed
      <3>3. CASE action_allowed(t)
        <4>1. has_failed(t)'
          BY <1>9, <1>t, <3>1, <3>3, SetRow DEF catch_exception, failure, Results
        <4>2. pc'[t] = "post" /\ late'[t] = 0
          BY <1>9, <1>t, <1>i, <3>3
          DEF catch_exception, TypeOK, TaskInv, LateIsStopping, action_allowed
        <4> QED
          BY <1>9, <1>i, <4>1, <4>2 DEF catch_exception, TaskInv, IndexInPlan, LateIsStopping,
             ActionsAfterWrap, FailedIsOver, OverIsFailed, Attended
      <3> QED
        BY <3>2, <3>3
    <2> QED
      BY <1>9, <1>t, <1>q, <2>1, TaskStep DEF catch_exception, TypeOK
  <1>10. CASE clear_actions(t)
    <2>1. TaskInv(t)'
      <3>1. ~has_actions(t)' /\ ~has_failed(t)'
        BY <1>10, <1>t, NoRows DEF clear_actions, TypeOK
      <3>2. pc'[t] = "remove" /\ late'[t] = 0
        BY <1>10, <1>t, <1>i DEF clear_actions, TypeOK, TaskInv, LateIsStopping
      <3> QED
        BY <1>10, <1>i, <3>1, <3>2
        DEF clear_actions, TaskInv, IndexInPlan, LateIsStopping,
            ActionsAfterWrap, FailedIsOver, OverIsFailed, Attended
    <2> QED
      BY <1>10, <1>t, <1>q, <2>1, TaskStep DEF clear_actions, TypeOK
  <1>11. CASE remove_operation(t)
    <2>1. TaskInv(t)'
      <3>1. (has_actions(t)' <=> has_actions(t)) /\ (has_failed(t)' <=> has_failed(t))
        BY <1>11, SameRows DEF remove_operation
      <3>2. pc'[t] = "post" /\ late'[t] = 0 /\ t \notin opRows'
        BY <1>11, <1>t, <1>i DEF remove_operation, TypeOK, TaskInv, LateIsStopping
      <3> QED
        BY <1>11, <1>i, <3>1, <3>2
        DEF remove_operation, TaskInv, IndexInPlan, LateIsStopping,
            ActionsAfterWrap, FailedIsOver, OverIsFailed
    <2> QED
      BY <1>11, <1>t, <1>q, <2>1, TaskStep DEF remove_operation, TypeOK
  <1>12. CASE end_task(t)
    <2>1. TaskInv(t)'
      <3>1. (has_actions(t)' <=> has_actions(t)) /\ (has_failed(t)' <=> has_failed(t))
        BY <1>12, SameRows DEF end_task
      <3>2. pc'[t] = "ended"
        BY <1>12, <1>t DEF end_task, TypeOK
      <3> QED
        BY <1>12, <1>i, <3>1, <3>2
        DEF end_task, TaskInv, IndexInPlan, LateIsStopping, ActionsAfterWrap,
            FailedIsOver, OverIsFailed, Attended, BeingQueued, BeingReplaced
    <2> QED
      BY <1>12, <1>t, <1>q, <2>1, TaskStep DEF end_task, TypeOK
  <1>13. CASE worker_fails(t)
    <2>1. TaskInv(t)'
      <3>1. (has_actions(t)' <=> has_actions(t)) /\ (has_failed(t)' <=> has_failed(t))
        BY <1>13, SameRows DEF worker_fails
      <3>2. pc'[t] = "ended" /\ t \in lost'
        BY <1>13, <1>t DEF worker_fails, TypeOK
      <3> QED
        BY <1>13, <1>i, <3>1, <3>2
        DEF worker_fails, TaskInv, IndexInPlan, LateIsStopping, ActionsAfterWrap,
            FailedIsOver, OverIsFailed
    <2> QED
      BY <1>13, <1>t, <1>q, <2>1, TaskStep DEF worker_fails, TypeOK
  <1> QED
    BY <1>1, <1>2, <1>3, <1>4, <1>5, <1>6, <1>7, <1>8, <1>9, <1>10, <1>11, <1>12, <1>13
    DEF TaskNext

-----------------------------------------------------------------------------
(* A request that changes nothing but itself keeps the invariant, if it    *)
(* does not come to stand for an operation and, where it stood for one,    *)
(* the operation is lost.                                                  *)
LEMMA MoveStep ==
  ASSUME IInv, TypeOK', NEW r \in Requests,
         UNCHANGED <<opRows, nextOp, opType, result, broker, taskVars, late>>,
         lost \subseteq lost',
         \A q \in Requests \ {r} : req'[q] = req[q],
         req'[r].op < nextOp,
         req'[r].pc \notin {"delay", "delete_op"},
         req[r].pc \in {"delay", "delete_op"} => req[r].op \in lost',
         req'[r].pc \in {"check", "delete_actions"} /\ req'[r].view # "reset_operations"
           => pc[req'[r].op] \in {"post", "ended"}
  PROVE  IInv'
  <1> USE DEF taskVars
  <1>1. \A s \in OpId : /\ has_actions(s)' <=> has_actions(s)
                        /\ has_failed(s)' <=> has_failed(s)
    BY SameRows
  <1>2. FreshIds'
    BY <1>1 DEF IInv, FreshIds
  <1>3. OneOperation'
    BY DEF IInv, OneOperation
  <1>4. QueuedOnce'
    BY DEF IInv, QueuedOnce
  <1>5. OnlyFinishedReplaced'
    BY DEF IInv, OnlyFinishedReplaced
  <1>6. ASSUME NEW s \in OpId
        PROVE  TaskInv(s)'
    <2>1. s \notin lost' => (Attended(s) => Attended(s)')
      BY <1>1 DEF Attended, BeingQueued, BeingReplaced
    <2> QED
      BY <1>1, <2>1 DEF IInv, TaskInv, IndexInPlan, LateIsStopping, ActionsAfterWrap,
                        FailedIsOver, OverIsFailed
  <1> QED
    BY <1>2, <1>3, <1>4, <1>5, <1>6 DEF IInv

(* Everybody's request has an id that was handed out. *)
LEMMA RowIds ==
  ASSUME IInv
  PROVE  /\ \A t \in opRows : t \in OpId /\ t < nextOp
         /\ NoOp < nextOp
  BY DEF IInv, FreshIds, TypeOK, OpId, NoOp

LEMMA RequestStepIInv ==
  ASSUME IInv, NEW r \in Requests, RequestNext(r) \/ request_fails(r)
  PROVE  IInv'
  <1> USE DEF taskVars, dbVars
  <1>t. TypeOK /\ TypeOK'
    BY RequestTypeOK DEF IInv
  <1>1. CASE \E view, ty, where : /\ Goto(r, where, view, ty, NoOp)
                                  /\ where \in {"create", "wait_before"}
                                  /\ req[r].pc = "idle"
                                  /\ UNCHANGED <<opRows, nextOp, opType, result, broker,
                                                 taskVars, lost, late>>
    <2>1. /\ \A q \in Requests \ {r} : req'[q] = req[q]
          /\ req'[r].op = NoOp /\ req'[r].pc \in {"create", "wait_before"}
      BY <1>1, <1>t DEF Goto, TypeOK
    <2> QED
      BY <1>1, <1>t, <2>1, RowIds, MoveStep
  <1>2. CASE \E view, ty : \E t \in opRows :
               /\ \/ Goto(r, "delete_actions", view, ty, t)
                  \/ Goto(r, "check", view, ty, t)
               /\ has_failed(t) \/ view = "reset_operations"
               /\ req[r].pc = "idle"
               /\ UNCHANGED <<opRows, nextOp, opType, result, broker, taskVars, lost, late>>
    <2>1. PICK t \in opRows :
            /\ req'[r].op = t /\ req'[r].pc \in {"check", "delete_actions"}
            /\ has_failed(t) \/ req'[r].view = "reset_operations"
            /\ \A q \in Requests \ {r} : req'[q] = req[q]
      BY <1>2, <1>t DEF Goto, TypeOK
    <2>2. has_failed(t) => pc[t] \in {"post", "ended"}
      BY <1>t DEF IInv, TaskInv, FailedIsOver, TypeOK
    <2> QED
      BY <1>2, <1>t, <2>1, <2>2, RowIds, MoveStep
  <1>3. CASE delete_actions(r)
    <2>0. PICK o \in OpId : o = req[r].op
      BY <1>3, <1>t DEF delete_actions, TypeOK, RequestState
    <2>1. /\ o \in OpId /\ o < nextOp
          /\ req'[r].pc = "delete_op" /\ req'[r].op = o /\ req'[r].view = req[r].view
          /\ \A q \in Requests \ {r} : req'[q] = req[q]
      BY <1>3, <1>t, <2>0 DEF delete_actions, Step, TypeOK, RequestState, IInv, FreshIds
    <2>2. ~has_actions(o)' /\ ~has_failed(o)'
      BY <1>3, <1>t, <2>1, <2>0, NoRows DEF delete_actions, TypeOK
    <2>3. \A s \in OpId \ {o} : /\ has_actions(s)' <=> has_actions(s)
                                /\ has_failed(s)' <=> has_failed(s)
      BY <1>3, <1>t, <2>0, SameRows DEF delete_actions, TypeOK
    <2>4. FreshIds'
      BY <1>3, <2>0, <2>1, <2>2, <2>3 DEF delete_actions, IInv, FreshIds
    <2>5. OneOperation' /\ QueuedOnce'
      BY <1>3, <2>0, <2>1 DEF delete_actions, IInv, OneOperation, QueuedOnce
    <2>6. OnlyFinishedReplaced'
      BY <1>3, <2>0, <2>1 DEF delete_actions, IInv, OnlyFinishedReplaced
    <2>7. ASSUME NEW s \in OpId
          PROVE  TaskInv(s)'
      <3>1. (Attended(s) => Attended(s)') \/ s = o
        BY <1>3, <2>0, <2>1, <2>3 DEF delete_actions, Attended, BeingQueued, BeingReplaced
      <3>2. Attended(o)'
        BY <2>0, <2>1 DEF Attended, BeingReplaced
      <3> QED
        BY <1>3, <2>0, <2>2, <2>3, <3>1, <3>2 DEF delete_actions, IInv, TaskInv, IndexInPlan,
           LateIsStopping, ActionsAfterWrap, FailedIsOver, OverIsFailed
    <2> QED
      BY <1>t, <2>4, <2>5, <2>6, <2>7 DEF IInv
  <1>4. CASE delete_op(r)
    <2>0. PICK o \in OpId : o = req[r].op
      BY <1>4, <1>t DEF delete_op, TypeOK, RequestState
    <2>1. /\ o \in OpId /\ o < nextOp
          /\ \A q \in Requests \ {r} : req'[q] = req[q]
          /\ req'[r].pc \in {"idle", "create"} /\ req'[r].op < nextOp
      <3>1. req[r].op < nextOp
        BY DEF IInv, FreshIds
      <3>2. CASE req' = [req EXCEPT ![r] = Idle]
        BY <1>t, <2>0, <3>1, <3>2, RowIds, <1>4 DEF delete_op, Idle, TypeOK
      <3>3. CASE Step(r, "create")
        BY <1>t, <2>0, <3>1, <3>3, <1>4 DEF delete_op, Step, TypeOK, RequestState
      <3> QED
        BY <1>4, <3>2, <3>3 DEF delete_op
    <2>2. \A s \in OpId : /\ has_actions(s)' <=> has_actions(s)
                          /\ has_failed(s)' <=> has_failed(s)
      BY <1>4, SameRows DEF delete_op
    <2>3. opRows' \subseteq opRows /\ (o \notin opRows' \/ has_actions(o))
      BY <1>4, <2>0 DEF delete_op
    <2>4. FreshIds'
      BY <1>4, <2>0, <2>1, <2>2, <2>3 DEF delete_op, IInv, FreshIds
    <2>5. OneOperation' /\ QueuedOnce'
      BY <1>4, <2>0, <2>1, <2>3 DEF delete_op, IInv, OneOperation, QueuedOnce
    <2>6. OnlyFinishedReplaced'
      BY <1>4, <2>0, <2>1 DEF delete_op, IInv, OnlyFinishedReplaced
    <2>7. ASSUME NEW s \in OpId
          PROVE  TaskInv(s)'
      <3>1. (Attended(s) => Attended(s)') \/ s = o
        BY <1>4, <2>0, <2>1, <2>2 DEF delete_op, Attended, BeingQueued, BeingReplaced
      <3>2. o \in opRows' \ lost => Attended(o)'
        <4>1. o \in opRows' \ lost =>
                pc[o] \notin {"none", "post", "ended"} \/ has_failed(o)
          BY <2>0, <2>1, <2>3 DEF IInv, TaskInv, ActionsAfterWrap, OverIsFailed
        <4> QED
          BY <1>4, <2>0, <2>1, <2>2, <4>1 DEF delete_op, Attended
      <3> QED
        BY <1>4, <2>0, <2>2, <2>3, <3>1, <3>2 DEF delete_op, IInv, TaskInv, IndexInPlan,
           LateIsStopping, ActionsAfterWrap, FailedIsOver, OverIsFailed
    <2> QED
      BY <1>t, <2>4, <2>5, <2>6, <2>7 DEF IInv
  <1>5. CASE create_operation(r)
    <2>1. CASE UNCHANGED <<opRows, opType, nextOp>> /\ req' = [req EXCEPT ![r] = Idle]
      <3>1. req'[r] = Idle /\ \A q \in Requests \ {r} : req'[q] = req[q]
        BY <2>1, <1>t DEF TypeOK
      <3> QED
        BY <1>5, <1>t, <2>1, <3>1, RowIds, MoveStep DEF create_operation, Idle
    <2>2. CASE /\ operation_allowed /\ nextOp <= MaxOps /\ nextOp' = nextOp + 1
               /\ opRows' = opRows \union {nextOp}
               /\ req' = [req EXCEPT ![r].pc = "delay", ![r].op = nextOp]
      <3>1. nextOp \in OpId /\ opRows' = {nextOp} /\ nextOp' = nextOp + 1
        BY <2>2, <1>t DEF operation_allowed, TypeOK, OpId
      <3>2. /\ req'[r].pc = "delay" /\ req'[r].op = nextOp
            /\ \A q \in Requests \ {r} : req'[q] = req[q]
        BY <2>2, <1>t DEF TypeOK, RequestState
      <3>3. \A s \in OpId : /\ has_actions(s)' <=> has_actions(s)
                            /\ has_failed(s)' <=> has_failed(s)
        BY <1>5, SameRows DEF create_operation
      <3>4. /\ nextOp \notin broker /\ pc[nextOp] = "none" /\ late[nextOp] = 0
            /\ ~has_actions(nextOp)
            /\ \A q \in Requests : req[q].op # nextOp /\ req[q].op < nextOp'
        <4>1. \A q \in Requests : req[q].op < nextOp /\ req[q].op \in Nat
          BY <1>t DEF IInv, FreshIds, TypeOK, RequestState, OpId, NoOp
        <4> QED
          BY <3>1, <4>1, <1>t DEF IInv, FreshIds, TypeOK, OpId
      <3>5. FreshIds'
        <4>1. \A s \in OpId : s >= nextOp' => s >= nextOp /\ s # nextOp
          BY <3>1, <1>t DEF TypeOK, OpId
        <4>2. \A q \in Requests : req'[q].op < nextOp'
          BY <3>1, <3>2, <3>4, <1>t DEF OpId
        <4> QED
          BY <1>5, <3>1, <3>3, <4>1, <4>2 DEF create_operation, IInv, FreshIds
      <3>6. OneOperation'
        BY <3>1 DEF OneOperation
      <3>7. QueuedOnce'
        BY <1>5, <3>2, <3>4 DEF create_operation, IInv, QueuedOnce
      <3>8. OnlyFinishedReplaced'
        BY <1>5, <3>2 DEF create_operation, IInv, OnlyFinishedReplaced
      <3>9. ASSUME NEW s \in OpId
            PROVE  TaskInv(s)'
        <4>1. s = nextOp => Attended(s)'
          BY <3>2 DEF Attended, BeingQueued
        <4>2. s = nextOp \/ s \notin opRows'
          BY <3>1
        <4> QED
          BY <1>5, <3>3, <3>4, <4>1, <4>2
          DEF create_operation, IInv, TaskInv, IndexInPlan, LateIsStopping,
              ActionsAfterWrap, FailedIsOver, OverIsFailed
      <3> QED
        BY <1>t, <3>5, <3>6, <3>7, <3>8, <3>9 DEF IInv
    <2> QED
      BY <1>5, <2>1, <2>2 DEF create_operation
  <1>6. CASE delay(r)
    <2>0. PICK o \in OpId : o = req[r].op
      BY <1>6, <1>t DEF delay, TypeOK, RequestState
    <2>1. /\ o \in OpId /\ o < nextOp /\ nextOp \in Nat
          /\ \A q \in Requests \ {r} : req'[q] = req[q]
          /\ req'[r].pc \in {"idle", "wait_after"} /\ req'[r].op < nextOp
      <3>1. req[r].op < nextOp /\ nextOp \in Nat
        BY <1>t DEF IInv, FreshIds, TypeOK
      <3>2. CASE req' = [req EXCEPT ![r] = Idle]
        BY <1>t, <2>0, <3>1, <3>2, RowIds DEF Idle, TypeOK
      <3>3. CASE Step(r, "wait_after")
        BY <1>t, <2>0, <3>1, <3>3 DEF Step, TypeOK, RequestState
      <3> QED
        BY <1>6, <3>2, <3>3 DEF delay
    <2>2. \A s \in OpId : /\ has_actions(s)' <=> has_actions(s)
                          /\ has_failed(s)' <=> has_failed(s)
      BY <1>6, SameRows DEF delay
    <2>3. FreshIds'
      BY <1>6, <2>0, <2>1, <2>2 DEF delay, IInv, FreshIds, OpId
    <2>4. OneOperation'
      BY <1>6 DEF delay, IInv, OneOperation
    <2>5. QueuedOnce'
      BY <1>6, <2>0, <2>1 DEF delay, IInv, QueuedOnce
    <2>6. OnlyFinishedReplaced'
      BY <1>6, <2>0, <2>1 DEF delay, IInv, OnlyFinishedReplaced
    <2>7. ASSUME NEW s \in OpId
          PROVE  TaskInv(s)'
      <3>1. Attended(s) => Attended(s)'
        BY <1>6, <2>0, <2>1, <2>2 DEF delay, Attended, BeingQueued, BeingReplaced
      <3> QED
        BY <1>6, <2>2, <3>1 DEF delay, IInv, TaskInv, IndexInPlan, LateIsStopping,
           ActionsAfterWrap, FailedIsOver, OverIsFailed
    <2> QED
      BY <1>t, <2>3, <2>4, <2>5, <2>6, <2>7 DEF IInv
  <1>7. CASE wait_for_operation(r) \/ request_fails(r)
    <2>1. /\ UNCHANGED <<opRows, nextOp, opType, result, broker, taskVars, late>>
          /\ lost \subseteq lost'
          /\ req[r].pc \in {"delay", "delete_op"} => req[r].op \in lost'
      BY <1>7 DEF wait_for_operation, request_fails
    <2>2. /\ \A q \in Requests \ {r} : req'[q] = req[q]
          /\ req'[r].pc \in {"idle", "create"} /\ req'[r].op < nextOp
      <3>1. req[r].op < nextOp
        BY DEF IInv, FreshIds
      <3>2. CASE req' = [req EXCEPT ![r] = Idle]
        BY <1>t, <3>2, RowIds DEF Idle, TypeOK
      <3>3. CASE Step(r, "create")
        BY <1>t, <3>1, <3>3 DEF Step, TypeOK, RequestState
      <3> QED
        BY <1>7, <3>2, <3>3 DEF wait_for_operation, request_fails
    <2> QED
      BY <1>t, <2>1, <2>2, MoveStep
  <1>8. ASSUME NEW view, NEW ty, override_view(r, view, ty)
        PROVE  IInv'
    BY <1>8, <1>1, <1>2 DEF override_view
  <1>9. CASE check_recoverable(r)
    <2>1. req[r].op < nextOp /\ \A q \in Requests \ {r} : req'[q] = req[q]
      BY <1>9, <1>t DEF check_recoverable, Step, TypeOK, IInv, FreshIds
    <2>2. CASE req' = [req EXCEPT ![r] = Idle]
      <3>1. req'[r] = Idle
        BY <1>t, <2>2 DEF TypeOK
      <3> QED
        BY <1>9, <1>t, <2>1, <3>1, RowIds, MoveStep DEF check_recoverable, Idle
    <2>3. CASE Step(r, "delete_actions")
      <3>1. req'[r].pc = "delete_actions" /\ req'[r].op = req[r].op /\ req'[r].view = req[r].view
        BY <1>t, <2>3 DEF Step, TypeOK, RequestState
      <3>2. req[r].view # "reset_operations" => pc[req[r].op] \in {"post", "ended"}
        BY <1>9 DEF check_recoverable, IInv, OnlyFinishedReplaced
      <3> QED
        BY <1>9, <1>t, <2>1, <3>1, <3>2, MoveStep DEF check_recoverable
    <2> QED
      BY <1>9, <2>2, <2>3 DEF check_recoverable
  <1>10. CASE edit_meta_view(r)
    <2>1. UNCHANGED <<opRows, nextOp, opType, result, broker, taskVars, req, lost, late>>
      BY <1>10 DEF edit_meta_view
    <2> QED
      BY <1>t, <2>1
      DEF IInv, FreshIds, OneOperation, QueuedOnce, OnlyFinishedReplaced, TaskInv, IndexInPlan,
          LateIsStopping, ActionsAfterWrap, FailedIsOver, OverIsFailed, Attended, BeingQueued,
          BeingReplaced, has_actions, has_failed
  <1> QED
    BY <1>1, <1>2, <1>3, <1>4, <1>5, <1>6, <1>7, <1>8, <1>9, <1>10
    DEF RequestNext, create_view, plain_view, image_select_view, edit_names_view,
        reset_operations_view, operation_delete_fix_view, fix_sites

LEMMA InitIInv == Init => IInv
  <1> SUFFICES ASSUME Init
               PROVE  IInv
    OBVIOUS
  <1>1. TypeOK
    BY InitTypeOK
  <1>2. \A t \in OpId : ~has_actions(t) /\ ~has_failed(t)
    BY DEF Init, has_actions, has_failed, NoActions
  <1>3. FreshIds /\ OneOperation /\ QueuedOnce /\ OnlyFinishedReplaced
    BY <1>2 DEF Init, FreshIds, OneOperation, QueuedOnce, OnlyFinishedReplaced, Idle, NoOp
  <1>4. ASSUME NEW t \in OpId
        PROVE  TaskInv(t)
    BY <1>2 DEF Init, TaskInv, IndexInPlan, LateIsStopping, ActionsAfterWrap, FailedIsOver,
                OverIsFailed
  <1> QED
    BY <1>1, <1>3, <1>4 DEF IInv

LEMMA StutterIInv == IInv /\ UNCHANGED vars => IInv'
  BY DEF IInv, TypeOK, FreshIds, OneOperation, QueuedOnce, OnlyFinishedReplaced, TaskInv,
         IndexInPlan, LateIsStopping, ActionsAfterWrap, FailedIsOver, OverIsFailed,
         Attended, BeingQueued, BeingReplaced, has_actions, has_failed,
         vars, dbVars, taskVars

(* The invariant of the operation engine: whatever views, tasks, commands  *)
(* and faults do to the operations of a site, in whatever order.           *)
THEOREM InductiveInvariant == Spec => []IInv
  <1>1. IInv /\ [Next]_vars => IInv'
    BY RequestStepIInv, TaskStepIInv, StutterIInv DEF Next
  <1> QED
    BY InitIInv, <1>1, PTL DEF Spec

(* Every variable keeps its type, and no index of a task leaves its plan.  *)
THEOREM TypeCorrect == Spec => []TypeOK
  <1>1. IInv => TypeOK
    BY DEF IInv
  <1> QED
    BY <1>1, InductiveInvariant, PTL

(* No Operation row blocks its site without somebody about to act on it,   *)
(* or its being marked failed, unless a fault hit the operation.           *)
THEOREM NoOperationIsOrphaned == Spec => []NoOrphanOperation
  <1>1. IInv => NoOrphanOperation
    BY DEF IInv, TypeOK, TaskInv, NoOrphanOperation
  <1> QED
    BY <1>1, InductiveInvariant, PTL

(* A task whose Operation row was removed stops with the segment it is in. *)
THEOREM SupersededTasksStop == Spec => []SupersededTaskStops
  <1>1. IInv => SupersededTaskStops
    <2> SUFFICES ASSUME IInv, NEW t \in OpId
                 PROVE  late[t] <= 1
      BY DEF SupersededTaskStops
    <2>1. late[t] = 0 \/ late[t] = 1
      BY DEF IInv, TaskInv, LateIsStopping
    <2> QED
      BY <2>1
  <1> QED
    BY <1>1, InductiveInvariant, PTL

(* No view but reset_operations_view takes the operation of a task that    *)
(* still has something to do.                                              *)
THEOREM OnlyFinishedOperationsReplaced == Spec => []OnlyFinishedReplaced
  <1>1. IInv => OnlyFinishedReplaced
    BY DEF IInv
  <1> QED
    BY <1>1, InductiveInvariant, PTL

-----------------------------------------------------------------------------
(* While nobody resets, a task that has something to do holds its lease.   *)

ActivePCs == {"drop_op", "wrap", "adding", "start", "begin", "run", "save", "catch", "clear",
              "remove"}

Holding == \A t \in OpId : pc[t] \in ActivePCs => t \in opRows

OfViews == \A r \in Requests : req[r].pc # "idle" => req[r].view \in Views

OkIsOver == \A t \in OpId : ok[t] => pc[t] \in {"remove", "post", "ended"}

HoldInv == IInv /\ OfViews /\ Holding /\ OkIsOver

LEMMA TaskHolds ==
  ASSUME HoldInv, NEW t \in OpId, TaskNext(t) \/ worker_fails(t)
  PROVE  OfViews' /\ Holding' /\ OkIsOver'
  <1> USE DEF Become, SameWork, dbVars, taskVars
  <1>t. TypeOK
    BY DEF HoldInv, IInv
  <1>1. OfViews'
    <2>1. UNCHANGED req
      BY DEF TaskNext, fetch, drop_operation, auto_run_operation_wrapper, add_action,
             start_operation, start_action, run_segment, save_action, catch_exception,
             clear_actions, remove_operation, end_task, worker_fails
    <2> QED
      BY <2>1 DEF HoldInv, OfViews
  <1>2. \A s \in OpId \ {t} : pc'[s] = pc[s]
    BY <1>t DEF TypeOK, TaskNext, fetch, drop_operation, auto_run_operation_wrapper, add_action,
             start_operation, start_action, run_segment, save_action, catch_exception,
             clear_actions, remove_operation, end_task, worker_fails
  <1>6. OkIsOver'
    <2>1. \A s \in OpId \ {t} : ok'[s] = ok[s]
      BY <1>t DEF TypeOK, TaskNext, fetch, drop_operation, auto_run_operation_wrapper, add_action,
             start_operation, start_action, run_segment, save_action, catch_exception,
             clear_actions, remove_operation, end_task, worker_fails
    <2>2. ok[t] => pc[t] \in {"remove", "post", "ended"}
      BY DEF HoldInv, OkIsOver
    <2>3. ASSUME clear_actions(t)
          PROVE  pc'[t] = "remove"
      BY <2>3, <1>t DEF clear_actions, TypeOK
    <2>4. ASSUME remove_operation(t) \/ end_task(t) \/ worker_fails(t)
          PROVE  pc'[t] \in {"post", "ended"}
      BY <2>4, <1>t DEF remove_operation, end_task, worker_fails, TypeOK
    <2>5. ASSUME ~clear_actions(t), ~remove_operation(t), ~end_task(t), ~worker_fails(t)
          PROVE  ok'[t] => pc'[t] \in {"remove", "post", "ended"}
      <3>1. UNCHANGED ok
        BY <2>5 DEF TaskNext, fetch, drop_operation, auto_run_operation_wrapper, add_action,
             start_operation, start_action, run_segment, save_action, catch_exception
      <3>2. pc[t] \notin {"remove", "post", "ended"}
        BY <2>5 DEF TaskNext, fetch, drop_operation, auto_run_operation_wrapper, add_action,
             start_operation, start_action, run_segment, save_action, catch_exception,
             HoldInv, IInv, QueuedOnce
      <3> QED
        BY <2>2, <3>1, <3>2
    <2>6. ok'[t] => pc'[t] \in {"remove", "post", "ended"}
      BY <2>3, <2>4, <2>5
    <2> QED
      <3>1. ASSUME NEW s \in OpId, s # t, ok'[s]
            PROVE  pc'[s] \in {"remove", "post", "ended"}
        BY <1>2, <2>1, <3>1 DEF HoldInv, OkIsOver
      <3> QED
        BY <2>6, <3>1 DEF OkIsOver
  <1>3. CASE drop_operation(t)
    <2>1. t \in opRows /\ pc'[t] = "ended"
      BY <1>3, <1>t DEF drop_operation, HoldInv, Holding, ActivePCs, TypeOK
    <2>2. opRows = {t}
      BY <2>1, <1>t DEF HoldInv, IInv, OneOperation, TypeOK
    <2>3. \A s \in OpId : pc'[s] \in ActivePCs => FALSE
      BY <1>2, <2>1, <2>2 DEF HoldInv, Holding, ActivePCs
    <2> QED
      BY <1>1, <1>6, <2>3 DEF Holding
  <1>4. CASE remove_operation(t)
    <2>1. opRows' = opRows \ {t} /\ pc'[t] = "post"
      BY <1>4, <1>t DEF remove_operation, TypeOK
    <2> QED
      BY <1>1, <1>2, <1>6, <2>1 DEF HoldInv, Holding, ActivePCs
  <1>5. CASE ~drop_operation(t) /\ ~remove_operation(t)
    <2>1. UNCHANGED opRows
      BY <1>5 DEF TaskNext, fetch, auto_run_operation_wrapper, add_action,
             start_operation, start_action, run_segment, save_action, catch_exception,
             clear_actions, end_task, worker_fails
    <2>2. pc'[t] \in ActivePCs => pc[t] \in ActivePCs \/ t \in opRows
      BY <1>5, <1>t DEF TaskNext, fetch, auto_run_operation_wrapper, add_action,
             start_operation, start_action, run_segment, save_action, catch_exception,
             clear_actions, end_task, worker_fails, ActivePCs, TypeOK
    <2> QED
      BY <1>1, <1>2, <1>6, <2>1, <2>2 DEF HoldInv, Holding
  <1> QED
    BY <1>3, <1>4, <1>5

LEMMA RequestHolds ==
  ASSUME "reset_operations" \notin Views, HoldInv, NEW r \in Requests,
         RequestNext(r) \/ request_fails(r)
  PROVE  OfViews' /\ Holding' /\ OkIsOver'
  <1> USE DEF dbVars, taskVars
  <1>t. TypeOK /\ req \in [Requests -> RequestState]
    BY DEF HoldInv, IInv, TypeOK
  <1>1. UNCHANGED <<pc, ok>>
    BY DEF RequestNext, request_fails, create_view, plain_view, image_select_view,
       edit_names_view, override_view, check_recoverable, reset_operations_view,
       operation_delete_fix_view, delete_actions, delete_op, create_operation, delay, fix_sites,
       wait_for_operation, edit_meta_view
  <1>5. OkIsOver'
    BY <1>1 DEF HoldInv, OkIsOver
  <1>2. OfViews'
    <2>1. \A s \in Requests \ {r} : req'[s] = req[s]
      BY <1>t DEF RequestNext, request_fails, create_view, plain_view, image_select_view,
         edit_names_view, override_view, check_recoverable, reset_operations_view,
         operation_delete_fix_view, delete_actions, delete_op, create_operation, delay, fix_sites,
         wait_for_operation, edit_meta_view, Goto, Step
    <2>2. \/ req' = req
          \/ req' = [req EXCEPT ![r] = Idle]
          \/ \E where \in ReqPCs : Step(r, where) /\ req[r].pc # "idle"
          \/ \E n \in OpId : /\ req' = [req EXCEPT ![r].pc = "delay", ![r].op = n]
                             /\ req[r].pc # "idle"
          \/ \E where, ty, o : \E view \in Views : Goto(r, where, view, ty, o)
      <3>1. CASE create_operation(r)
        <4>1. nextOp <= MaxOps => nextOp \in OpId
          BY <1>t, ConstantsAssumption DEF TypeOK, OpId
        <4> QED
          BY <3>1, <4>1 DEF create_operation
      <3>2. CASE \/ create_view(r) \/ reset_operations_view(r) \/ operation_delete_fix_view(r)
                 \/ \E ty \in PlainTypes : plain_view(r, ty)
        BY <3>2 DEF create_view, plain_view, reset_operations_view, operation_delete_fix_view
      <3>3. CASE image_select_view(r) \/ edit_names_view(r)
        BY <3>3 DEF image_select_view, edit_names_view, override_view
      <3>4. CASE fix_sites(r)
        BY <3>4 DEF fix_sites
      <3>5. CASE \/ check_recoverable(r) \/ delete_actions(r) \/ delete_op(r) \/ delay(r)
                 \/ wait_for_operation(r)
        BY <3>5 DEF check_recoverable, delete_actions, delete_op, delay, wait_for_operation, ReqPCs
      <3>6. CASE edit_meta_view(r) \/ request_fails(r)
        BY <3>6 DEF edit_meta_view, request_fails
      <3> QED
        BY <3>1, <3>2, <3>3, <3>4, <3>5, <3>6 DEF RequestNext
    <2>3. req'[r].pc # "idle" => req'[r].view \in Views
      BY <1>t, <2>2 DEF HoldInv, OfViews, Goto, Step, Idle, RequestState
    <2> QED
      BY <2>1, <2>3 DEF HoldInv, OfViews
  <1>3. CASE delete_op(r)
    <2>1. req[r].pc = "delete_op" /\ (UNCHANGED opRows \/ opRows' = opRows \ {req[r].op})
      BY <1>3 DEF delete_op
    <2>2. req[r].view # "reset_operations"
      BY <2>1 DEF HoldInv, OfViews
    <2>3. pc[req[r].op] \in {"post", "ended"}
      BY <2>1, <2>2 DEF HoldInv, IInv, OnlyFinishedReplaced
    <2> QED
      BY <1>1, <1>2, <1>5, <2>1, <2>3 DEF HoldInv, Holding, ActivePCs
  <1>4. CASE ~delete_op(r)
    <2>1. opRows \subseteq opRows'
      BY <1>4 DEF RequestNext, request_fails, create_view, plain_view, image_select_view,
         edit_names_view, override_view, check_recoverable, reset_operations_view,
         operation_delete_fix_view, delete_actions, create_operation, delay, fix_sites,
         wait_for_operation, edit_meta_view
    <2> QED
      BY <1>1, <1>2, <1>5, <2>1 DEF HoldInv, Holding
  <1> QED
    BY <1>3, <1>4

LEMMA HoldInitially == Init => HoldInv
  <1> SUFFICES ASSUME Init PROVE OfViews /\ Holding /\ OkIsOver
    BY InitIInv DEF HoldInv
  <1> QED
    BY DEF Init, OfViews, Holding, ActivePCs, Idle, OkIsOver

LEMMA StepHolds ==
  ASSUME "reset_operations" \notin Views, HoldInv, [Next]_vars
  PROVE  HoldInv'
  <1>1. IInv'
    BY RequestStepIInv, TaskStepIInv, StutterIInv DEF Next, HoldInv
  <1>2. CASE UNCHANGED vars
    BY <1>1, <1>2 DEF HoldInv, OfViews, Holding, OkIsOver, vars, dbVars, taskVars
  <1>3. CASE Next
    BY <1>1, <1>3, TaskHolds, RequestHolds DEF Next, HoldInv
  <1> QED
    BY <1>2, <1>3

(* While nobody resets, the Operation row of a task is there as long as    *)
(* the task works, so that no other operation works on the site.           *)
THEOREM TasksHoldTheLease ==
  ASSUME "reset_operations" \notin Views
  PROVE  Spec => []HoldInv
  <1>1. HoldInv /\ [Next]_vars => HoldInv'
    BY StepHolds
  <1> QED
    BY HoldInitially, <1>1, PTL DEF Spec

-----------------------------------------------------------------------------
(* The Site row goes after delete_site only *)

(* A failed delete_site stays: its user cannot recover from it, so that no *)
(* view takes its row, and end_task finds that it protects the site.       *)
FailsForGood(t) ==
  /\ pc[t] # "drop_op"
  /\ pc[t] \in {"wrap", "adding", "start", "begin", "run", "save", "catch", "clear", "remove", "post"}
       => plan[t] \in Plans["delete_site"]
  /\ \A i \in 1..MaxActions : result[t][i] = "false" => plan[t][i] \notin Recoverable
  /\ pc[t] = "remove" => ok[t]
  /\ pc[t] = "post" => ok[t] \/ (t \in opRows /\ has_failed(t))
  /\ \A r \in Requests :
       req[r].op = t => /\ req[r].pc \notin {"delete_actions", "delete_op"}
                        /\ req[r].pc = "check" => has_failed(t)

WipeInv ==
  /\ HoldInv
  /\ \A t \in OpId : opType[t] = "delete_site" => FailsForGood(t)
  /\ DeletedAfterWipe

NoneRecoverable ==
  \A p \in Plans["delete_site"] : \A i \in 1..Len(p) : p[i] \notin Recoverable

LEMMA TaskWipes ==
  ASSUME NoneRecoverable, WipeInv, HoldInv', NEW t \in OpId, TaskNext(t) \/ worker_fails(t)
  PROVE  WipeInv'
  <1> USE DEF Become, SameWork, dbVars, taskVars
  <1>t. TypeOK /\ TypeOK'
    BY DEF WipeInv, HoldInv, IInv
  <1>1. UNCHANGED <<opType, req, nextOp>>
    BY DEF TaskNext, fetch, drop_operation, auto_run_operation_wrapper, add_action,
           start_operation, start_action, run_segment, save_action, catch_exception,
           clear_actions, remove_operation, end_task, worker_fails
  <1>2. \A s \in OpId \ {t} : pc'[s] = pc[s] /\ plan'[s] = plan[s] /\ result'[s] = result[s] /\ ok'[s] = ok[s]
    BY <1>t DEF TypeOK, TaskNext, fetch, drop_operation, auto_run_operation_wrapper, add_action,
           start_operation, start_action, run_segment, save_action, catch_exception,
           clear_actions, remove_operation, end_task, worker_fails
  <1>3. ok[t] => ok'[t]
    BY <1>t DEF TypeOK, TaskNext, fetch, drop_operation, auto_run_operation_wrapper, add_action,
           start_operation, start_action, run_segment, save_action, catch_exception,
           clear_actions, remove_operation, end_task, worker_fails
  <1>4. \A s \in opRows \ {t} : has_failed(s) => s \in opRows'
    BY FailedHasActions, <1>t DEF TypeOK, TaskNext, fetch, drop_operation, auto_run_operation_wrapper, add_action,
           start_operation, start_action, run_segment, save_action, catch_exception,
           clear_actions, remove_operation, end_task, worker_fails
  <1>5. ASSUME NEW s \in OpId \ {t}, opType[s] = "delete_site"
        PROVE  FailsForGood(s)'
    <2>1. has_failed(s)' <=> has_failed(s)
      BY <1>2, SameRows
    <2>2. FailsForGood(s)
      BY <1>5 DEF WipeInv
    <2>3. pc'[s] = "post" => ok'[s] \/ (s \in opRows' /\ has_failed(s)')
      BY <1>2, <1>4, <2>1, <2>2 DEF FailsForGood
    <2> QED
      BY <1>1, <1>2, <2>1, <2>2, <2>3 DEF FailsForGood
  <1>6. ASSUME opType[t] = "delete_site"
        PROVE  FailsForGood(t)'
    <2>1. FailsForGood(t) /\ TaskInv(t) /\ opType[t] = opType'[t]
      BY <1>1, <1>6 DEF WipeInv, HoldInv, IInv
    <2>3. has_failed(t) => pc[t] \in {"post", "ended"}
      BY <2>1 DEF TaskInv, FailedIsOver
    <2>4. ASSUME UNCHANGED <<result, ok, plan, opRows>>, pc[t] # "remove",
                 \/ pc'[t] \in {"wrap", "adding", "start", "begin", "run", "save", "catch", "clear"}
                    /\ pc[t] \in {"wrap", "adding", "start", "begin", "run", "save", "catch", "clear"}
                 \/ pc'[t] = "ended"
          PROVE  FailsForGood(t)'
      <3>1. has_failed(t)' <=> has_failed(t)
        BY <2>4, SameRows
      <3> QED
        BY <1>1, <2>1, <2>4, <3>1 DEF FailsForGood
    <2>5. ASSUME NEW v \in Results \ {"absent", "false"}, UNCHANGED <<ok, plan>>,
                 result' = result \/ result' = [result EXCEPT ![t][idx[t]] = v],
                 pc[t] \in {"adding", "save"},
                 pc'[t] \in {"adding", "start", "begin", "run", "save", "catch", "clear", "ended"}
          PROVE  FailsForGood(t)'
      <3>1. ~has_failed(t)
        BY <2>3, <2>5
      <3>2. \A i \in 1..MaxActions : result'[t][i] # "false"
        <4>1. \A i \in 1..MaxActions : result[t][i] # "false"
          BY <3>1 DEF has_failed
        <4>2. CASE result' = [result EXCEPT ![t][idx[t]] = v]
          <5>1. result'[t] = [result[t] EXCEPT ![idx[t]] = v] /\ DOMAIN result[t] = 1..MaxActions
            BY <1>t, <4>2 DEF TypeOK
          <5> QED
            BY <2>5, <4>1, <5>1
        <4> QED
          BY <2>5, <4>1, <4>2
      <3> QED
        BY <1>1, <2>1, <2>5, <3>1, <3>2 DEF FailsForGood
    <2>6. CASE fetch(t)
      <3>1. pc[t] = "none" /\ UNCHANGED <<result, ok>>
        BY <2>6 DEF fetch, WipeInv, HoldInv, IInv, QueuedOnce
      <3>2. ~has_actions(t)
        BY <2>1, <3>1 DEF TaskInv, ActionsAfterWrap
      <3>3. \A i \in 1..MaxActions : result[t][i] # "false"
        BY <3>2 DEF has_actions
      <3>4. pc'[t] = "ended" \/ (pc'[t] = "wrap" /\ plan'[t] \in Plans["delete_site"])
        BY <1>6, <1>t, <2>6 DEF fetch, TypeOK
      <3>5. ~has_failed(t)
        BY <3>3 DEF has_failed
      <3> QED
        BY <1>1, <2>1, <3>1, <3>3, <3>4, <3>5 DEF FailsForGood
    <2>7. CASE auto_run_operation_wrapper(t) \/ start_operation(t) \/ start_action(t) \/ run_segment(t)
      BY <1>t, <2>4, <2>7 DEF auto_run_operation_wrapper, start_operation, start_action, run_segment, TypeOK
    <2>8. CASE drop_operation(t)
      BY <2>1, <2>8 DEF drop_operation, FailsForGood
    <2>9. CASE add_action(t)
      <3>1. "unset" \in Results \ {"absent", "false"}
        BY DEF Results
      <3> QED
        BY <1>t, <2>5, <2>9, <3>1 DEF add_action, TypeOK
    <2>14. CASE save_action(t)
      <3>1. "unset" \in Results \ {"absent", "false"} /\ "true" \in Results \ {"absent", "false"}
        BY DEF Results
      <3>2. pc[t] = "save" /\ UNCHANGED <<ok, plan>>
        BY <2>14 DEF save_action
      <3>3. pc'[t] \in {"run", "begin", "clear", "catch"}
        BY <1>t, <2>14 DEF save_action, TypeOK
      <3>4. \/ result' = result
            \/ result' = [result EXCEPT ![t][idx[t]] = "unset"]
            \/ result' = [result EXCEPT ![t][idx[t]] = "true"]
        BY <2>14 DEF save_action
      <3> QED
        BY <2>5, <3>1, <3>2, <3>3, <3>4
    <2>10. CASE catch_exception(t)
      <3>1. pc[t] = "catch" /\ UNCHANGED <<ok, plan>>
        BY <2>10 DEF catch_exception
      <3>2. idx[t] \in 1..Len(plan[t]) /\ plan[t] \in Plans["delete_site"] /\ idx[t] \in 1..MaxActions
        <4>1. idx[t] \in 1..MaxActions /\ idx[t] <= Len(plan[t]) /\ Len(plan[t]) \in 1..MaxActions
          BY <1>t, <2>1, <3>1 DEF TypeOK, TaskInv, IndexInPlan
        <4> QED
          BY <2>1, <3>1, <4>1, ConstantsAssumption DEF FailsForGood
      <3>3. plan[t][idx[t]] \notin Recoverable
        BY <3>2 DEF NoneRecoverable
      <3>4. ~has_failed(t)
        BY <2>3, <3>1
      <3>5. CASE /\ action_allowed(t) /\ pc'[t] = "post"
                 /\ result' = [result EXCEPT ![t][idx[t]] = "false"]
        <4>1. has_failed(t)' /\ t \in opRows'
          BY <1>t, <2>10, <3>2, <3>4, <3>5, SetRow DEF catch_exception, action_allowed, Results
        <4>2. \A i \in 1..MaxActions : result'[t][i] = "false" => i = idx[t]
          <5>1. \A i \in 1..MaxActions : result[t][i] # "false"
            BY <3>4 DEF has_failed
          <5> QED
            BY <1>t, <3>5, <5>1 DEF TypeOK
        <4> QED
          BY <1>1, <2>1, <3>1, <3>2, <3>3, <3>4, <3>5, <4>1, <4>2 DEF FailsForGood
      <3>6. CASE pc'[t] = "ended" /\ UNCHANGED result
        BY <1>1, <2>1, <3>1, <3>4, <3>6 DEF FailsForGood, has_failed
      <3> QED
        BY <1>t, <2>10, <3>5, <3>6 DEF catch_exception, failure, TypeOK
    <2>11. CASE clear_actions(t)
      <3>1. pc[t] = "clear" /\ ok'[t] /\ pc'[t] = "remove" /\ result'[t] = NoActions /\ UNCHANGED plan
        BY <1>t, <2>11 DEF clear_actions, TypeOK
      <3>2. \A i \in 1..MaxActions : result'[t][i] # "false"
        BY <3>1 DEF NoActions
      <3> QED
        BY <1>1, <2>1, <2>3, <3>1, <3>2 DEF FailsForGood
    <2>12. CASE remove_operation(t)
      <3>1. pc[t] = "remove" /\ pc'[t] = "post" /\ ok'[t] /\ UNCHANGED <<plan, result>>
        BY <1>t, <2>1, <2>12 DEF remove_operation, TypeOK, FailsForGood
      <3>2. has_failed(t)' <=> has_failed(t)
        BY <3>1, SameRows
      <3> QED
        BY <1>1, <2>1, <3>1, <3>2 DEF FailsForGood
    <2>13. CASE end_task(t) \/ worker_fails(t)
      <3>1. pc'[t] = "ended" /\ UNCHANGED <<plan, result>>
        BY <1>t, <2>13 DEF end_task, worker_fails, TypeOK
      <3>2. has_failed(t)' <=> has_failed(t)
        BY <3>1, SameRows
      <3> QED
        BY <1>1, <2>1, <3>1, <3>2 DEF FailsForGood
    <2> QED
      BY <2>6, <2>7, <2>8, <2>9, <2>10, <2>11, <2>12, <2>13,
         <2>14 DEF TaskNext
  <1>7. DeletedAfterWipe'
    <2>1. CASE site' = "deleted" /\ site # "deleted"
      <3>1. opType[t] = "delete_site" /\ pc[t] = "post" /\ opRows = {}
        BY <2>1, <1>t DEF TypeOK, TaskNext, fetch, drop_operation, auto_run_operation_wrapper, add_action,
           start_operation, start_action, run_segment, save_action, catch_exception,
           clear_actions, remove_operation, end_task, worker_fails, site_deletable
      <3>2. ok[t]
        BY <3>1 DEF WipeInv, FailsForGood
      <3> QED
        BY <1>1, <1>3, <3>1, <3>2 DEF DeletedAfterWipe
    <2>2. CASE site' # "deleted" \/ site = "deleted"
      BY <1>1, <1>2, <1>3, <2>2 DEF WipeInv, DeletedAfterWipe
    <2> QED
      BY <2>1, <2>2
  <1> QED
    BY <1>1, <1>5, <1>6, <1>7 DEF WipeInv

LEMMA RequestWipes ==
  ASSUME "reset_operations" \notin Views, "operation_delete_fix" \notin Views,
         WipeInv, HoldInv', NEW r \in Requests, RequestNext(r) \/ request_fails(r)
  PROVE  WipeInv'
  <1> USE DEF dbVars, taskVars
  <1>t. TypeOK /\ TypeOK' /\ FreshIds
    BY DEF WipeInv, HoldInv, IInv
  <1>1. UNCHANGED <<pc, plan, ok>>
    BY DEF RequestNext, request_fails, create_view, plain_view, image_select_view,
       edit_names_view, override_view, check_recoverable, reset_operations_view,
       operation_delete_fix_view, delete_actions, delete_op, create_operation, delay, fix_sites,
       wait_for_operation, edit_meta_view
  <1>2. \A s \in Requests \ {r} : req'[s] = req[s]
    BY <1>t DEF TypeOK, RequestNext, request_fails, create_view, plain_view, image_select_view,
       edit_names_view, override_view, check_recoverable, reset_operations_view,
       operation_delete_fix_view, delete_actions, delete_op, create_operation, delay, fix_sites,
       wait_for_operation, edit_meta_view, Goto, Step
  <1>3. ASSUME NEW t \in OpId, opType'[t] = "delete_site"
        PROVE  FailsForGood(t)'
    <2>1. CASE create_operation(r) /\ opType' # opType /\ t = nextOp
      <3>1. pc[t] = "none" /\ ~has_actions(t) /\ UNCHANGED result
        BY <1>t, <2>1 DEF create_operation, FreshIds, TypeOK, OpId
      <3>2. req'[r].pc = "delay"
        BY <1>t, <2>1 DEF create_operation, TypeOK, RequestState
      <3>3. \A s \in Requests \ {r} : req'[s].op # t
        <4>1. \A s \in Requests \ {r} : req[s].op < nextOp /\ req[s].op \in Nat
          BY <1>t DEF FreshIds, TypeOK, RequestState, OpId, NoOp
        <4> QED
          BY <1>2, <2>1, <4>1
      <3>4. \A i \in 1..MaxActions : result'[t][i] # "false"
        BY <3>1 DEF has_actions
      <3> QED
        BY <1>1, <3>1, <3>2, <3>3, <3>4 DEF FailsForGood
    <2>2. CASE ~(create_operation(r) /\ opType' # opType /\ t = nextOp)
      <3>1. opType[t] = "delete_site"
        BY <1>t, <1>3, <2>2 DEF TypeOK, RequestNext, request_fails, create_view, plain_view, image_select_view,
           edit_names_view, override_view, check_recoverable, reset_operations_view,
           operation_delete_fix_view, delete_actions, delete_op, create_operation, delay, fix_sites,
           wait_for_operation, edit_meta_view
      <3>2. FailsForGood(t)
        BY <3>1 DEF WipeInv
      <3>3. req[r].op = t => req[r].pc \notin {"delete_actions", "delete_op"}
        BY <3>2 DEF FailsForGood
      <3>4. result'[t] = result[t]
        <4>1. CASE delete_actions(r)
          BY <1>t, <3>3, <4>1 DEF delete_actions, TypeOK
        <4>2. CASE ~delete_actions(r)
          BY <4>2 DEF RequestNext, request_fails, create_view, plain_view, image_select_view,
             edit_names_view, override_view, check_recoverable, reset_operations_view,
             operation_delete_fix_view, delete_op, create_operation, delay, fix_sites,
             wait_for_operation, edit_meta_view
        <4> QED
          BY <4>1, <4>2
      <3>5. t \in opRows => t \in opRows'
        <4>1. CASE delete_op(r)
          BY <3>3, <4>1 DEF delete_op
        <4>2. CASE ~delete_op(r)
          BY <4>2 DEF RequestNext, request_fails, create_view, plain_view, image_select_view,
             edit_names_view, override_view, check_recoverable, reset_operations_view,
             operation_delete_fix_view, delete_actions, create_operation, delay, fix_sites,
             wait_for_operation, edit_meta_view
        <4> QED
          BY <4>1, <4>2
      <3>6. has_failed(t)' <=> has_failed(t)
        BY <3>4, SameRows
      <3>7. req'[r].op = t => /\ req'[r].pc \notin {"delete_actions", "delete_op"}
                              /\ req'[r].pc = "check" => has_failed(t)
        <4>1. CASE req' = req
          BY <3>2, <3>3, <4>1 DEF FailsForGood
        <4>2. CASE req' = [req EXCEPT ![r] = Idle]
          BY <1>t, <4>2 DEF TypeOK, Idle
        <4>3. ASSUME NEW where \in {"create", "wait_after", "delay"}, req'[r].pc = where
              PROVE  req'[r].pc \notin {"delete_actions", "delete_op", "check"}
          BY <4>3
        <4>4. CASE check_recoverable(r)
          <5>1. req[r].op = t => has_failed(t) /\ ~is_failure_user_recoverable(t)
            BY <3>2, <4>4 DEF check_recoverable, FailsForGood, has_failed, is_failure_user_recoverable
          <5>2. req'[r].op = t => req[r].op = t \/ req' = [req EXCEPT ![r] = Idle]
            BY <1>t, <4>4 DEF check_recoverable, Step, TypeOK, RequestState
          <5> QED
            BY <4>2, <4>4, <5>1, <5>2 DEF check_recoverable
        <4>5. CASE delete_actions(r) \/ delete_op(r)
          <5>1. req[r].op # t
            BY <3>3, <4>5 DEF delete_actions, delete_op
          <5>2. req'[r].op = req[r].op \/ req' = [req EXCEPT ![r] = Idle]
            BY <1>t, <4>5 DEF delete_actions, delete_op, Step, TypeOK, RequestState
          <5> QED
            BY <4>2, <5>1, <5>2
        <4>6. CASE image_select_view(r) \/ edit_names_view(r)
          BY <1>t, <4>6 DEF image_select_view, edit_names_view, override_view, Goto, TypeOK
        <4>7. CASE create_operation(r)
          BY <1>t, <4>2, <4>7 DEF create_operation, TypeOK, RequestState
        <4>8. CASE delay(r) \/ wait_for_operation(r)
          BY <1>t, <4>2, <4>8 DEF delay, wait_for_operation, Step, TypeOK, RequestState
        <4>9. CASE create_view(r) \/ fix_sites(r) \/ \E ty \in PlainTypes : plain_view(r, ty)
          BY <1>t, <4>9 DEF create_view, fix_sites, plain_view, Goto, TypeOK
        <4>10. CASE \/ reset_operations_view(r) \/ operation_delete_fix_view(r)
                    \/ edit_meta_view(r) \/ request_fails(r)
          BY <4>1, <4>2, <4>10 DEF reset_operations_view, operation_delete_fix_view, edit_meta_view,
             request_fails
        <4> QED
          BY <4>4, <4>5, <4>6, <4>7, <4>8, <4>9, <4>10 DEF RequestNext
      <3> QED
        BY <1>1, <1>2, <3>2, <3>4, <3>5, <3>6, <3>7 DEF FailsForGood
    <2> QED
      BY <2>1, <2>2
  <1>4. DeletedAfterWipe'
    <2>1. site' = "deleted" => site = "deleted"
      BY DEF RequestNext, request_fails, create_view, plain_view, image_select_view,
         edit_names_view, override_view, check_recoverable, reset_operations_view,
         operation_delete_fix_view, delete_actions, delete_op, create_operation, delay, fix_sites,
         wait_for_operation, edit_meta_view
    <2>2. ASSUME NEW t \in OpId, opType[t] = "delete_site", ok[t]
          PROVE  opType'[t] = "delete_site"
      <3>1. t # nextOp
        <4>1. pc[t] # "none"
          BY <2>2 DEF WipeInv, HoldInv, OkIsOver
        <4> QED
          BY <1>t, <4>1 DEF FreshIds, TypeOK, OpId
      <3> QED
        BY <1>t, <2>2, <3>1 DEF TypeOK, RequestNext, request_fails, create_view, plain_view, image_select_view,
           edit_names_view, override_view, check_recoverable, reset_operations_view,
           operation_delete_fix_view, delete_actions, delete_op, create_operation, delay, fix_sites,
           wait_for_operation, edit_meta_view
    <2> QED
      BY <1>1, <2>1, <2>2 DEF WipeInv, DeletedAfterWipe
  <1> QED
    BY <1>3, <1>4 DEF WipeInv

(* The Site row goes only after a delete_site all of whose actions         *)
(* succeeded, whatever else fails, if nobody takes failed operations away  *)
(* and their users cannot recover from the failure of an action of         *)
(* delete_site.                                                            *)
THEOREM DeletedOnlyWhenWiped ==
  ASSUME "reset_operations" \notin Views, "operation_delete_fix" \notin Views, NoneRecoverable
  PROVE  Spec => []DeletedAfterWipe
  <1>1. Init => WipeInv
    <2> SUFFICES ASSUME Init PROVE /\ \A t \in OpId : opType[t] = "delete_site" => FailsForGood(t)
                                   /\ DeletedAfterWipe
      BY HoldInitially DEF WipeInv
    <2> QED
      BY DEF Init, DeletedAfterWipe, NoType
  <1>2. WipeInv /\ [Next]_vars => WipeInv'
    <2> SUFFICES ASSUME WipeInv, [Next]_vars PROVE WipeInv'
      OBVIOUS
    <2>1. HoldInv'
      BY StepHolds DEF WipeInv
    <2>2. CASE UNCHANGED vars
      BY <2>1, <2>2 DEF WipeInv, FailsForGood, has_failed, DeletedAfterWipe, vars, dbVars, taskVars
    <2> QED
      BY <2>1, <2>2, TaskWipes, RequestWipes DEF Next
  <1>3. WipeInv => DeletedAfterWipe
    BY DEF WipeInv
  <1> QED
    BY <1>1, <1>2, <1>3, PTL DEF Spec

-----------------------------------------------------------------------------
(* The refinement of OperationSlot *)

LEMMA StageOf ==
  ASSUME IInv, NEW t \in OpId
  PROVE  /\ t >= nextOp => stage_of(t) = "unborn"
         /\ t < nextOp /\ pc[t] \in {"none", "drop_op", "wrap", "adding", "start"}
              => stage_of(t) = "pending"
         /\ t < nextOp /\ pc[t] \in {"begin", "run", "save", "catch", "clear", "remove"}
              => stage_of(t) = IF late[t] = 0 THEN "working" ELSE "overrun"
         /\ t < nextOp /\ pc[t] \in {"post", "ended"} => stage_of(t) = "over"
  <1>1. t \in Nat /\ nextOp \in Nat
    BY DEF IInv, TypeOK, OpId
  <1> QED
    BY <1>1 DEF stage_of

(* A step of one task moves the stage of its operation only. *)
LEMMA StageMoves ==
  ASSUME IInv, NEW t \in OpId, UNCHANGED nextOp,
         \A s \in OpId \ {t} : pc'[s] = pc[s] /\ late'[s] = late[s]
  PROVE  stage' = [stage EXCEPT ![t] = stage_of(t)']
  <1>1. ASSUME NEW s \in OpId \ {t}
        PROVE  stage_of(s)' = stage_of(s)
    BY <1>1 DEF stage_of
  <1> QED
    BY <1>1 DEF stage

LEMMA TaskRefines ==
  ASSUME IInv, IInv', NEW t \in OpId, TaskNext(t) \/ worker_fails(t)
  PROVE  Slot!Next \/ UNCHANGED <<opRows, stage>>
  <1> USE DEF Become, SameWork, dbVars, taskVars
  <1>t. TypeOK /\ TypeOK' /\ stage[t] = stage_of(t)
    BY DEF IInv, stage
  <1>1. t < nextOp /\ UNCHANGED nextOp
    <2>1. t \in broker \/ pc[t] # "none"
      BY DEF TaskNext, fetch, drop_operation, auto_run_operation_wrapper, add_action,
             start_operation, start_action, run_segment, save_action, catch_exception,
             clear_actions, remove_operation, end_task, worker_fails
    <2>2. t < nextOp
      BY <2>1 DEF IInv, FreshIds, TypeOK, OpId
    <2> QED
      BY <2>2 DEF TaskNext, fetch, drop_operation, auto_run_operation_wrapper, add_action,
             start_operation, start_action, run_segment, save_action, catch_exception,
             clear_actions, remove_operation, end_task, worker_fails
  <1>2. \A s \in OpId \ {t} : pc'[s] = pc[s] /\ late'[s] = late[s]
    BY <1>t DEF TypeOK, TaskNext, fetch, drop_operation, auto_run_operation_wrapper, add_action,
             start_operation, start_action, run_segment, save_action, catch_exception,
             clear_actions, remove_operation, end_task, worker_fails
  <1>3. stage' = [stage EXCEPT ![t] = stage_of(t)']
    BY <1>1, <1>2, StageMoves
  <1>4. stage_of(t)' = stage[t] => UNCHANGED stage
    <2>1. stage \in [OpId -> {stage[s] : s \in OpId}]
      BY DEF stage
    <2> QED
      BY <1>3, <2>1
  <1> DEFINE Early == {"none", "drop_op", "wrap", "adding", "start"}
             Busy  == {"begin", "run", "save", "catch", "clear", "remove"}
             Over  == {"post", "ended"}
  <1>5. /\ pc[t] \in Early => stage[t] = "pending"
        /\ pc[t] \in Busy => stage[t] = IF late[t] = 0 THEN "working" ELSE "overrun"
        /\ pc[t] \in Over => stage[t] = "over"
    BY <1>1, <1>t, StageOf
  <1>6. /\ pc'[t] \in Early => stage_of(t)' = "pending"
        /\ pc'[t] \in Busy => stage_of(t)' = IF late'[t] = 0 THEN "working" ELSE "overrun"
        /\ pc'[t] \in Over => stage_of(t)' = "over"
    <2>1. t \in Nat /\ nextOp' \in Nat /\ t < nextOp'
      BY <1>1, <1>t DEF TypeOK, OpId
    <2> QED
      BY <2>1 DEF stage_of
  <1>7. late[t] # 0 => pc[t] \in {"save", "catch", "ended"} /\ t \notin opRows /\ late[t] = 1
    BY DEF IInv, TaskInv, LateIsStopping
  <1>8. ASSUME UNCHANGED opRows, pc'[t] = "ended"
        PROVE  Slot!Next \/ UNCHANGED <<opRows, stage>>
    <2>1. stage_of(t)' = "over"
      BY <1>6, <1>8
    <2>2. CASE pc[t] \in Over
      BY <1>4, <1>5, <1>8, <1>t, <2>1, <2>2
    <2>3. CASE pc[t] \in Early \union Busy
      <3>1. stage[t] \in {"pending", "working", "overrun"}
        BY <1>5, <2>3
      <3>2. Slot!Stop(t)
        BY <1>3, <1>8, <2>1, <3>1 DEF Slot!Stop, Slot!Move
      <3> QED
        BY <3>2 DEF Slot!Next
    <2> QED
      BY <1>t, <2>2, <2>3 DEF TypeOK, TaskPCs
  <1>9. ASSUME UNCHANGED <<opRows, late>>,
               \/ pc[t] \in Early /\ pc'[t] \in Early
               \/ pc[t] \in Busy /\ pc'[t] \in Busy
        PROVE  UNCHANGED <<opRows, stage>>
    BY <1>4, <1>5, <1>6, <1>9, <1>t
  <1>10. CASE fetch(t)
    <2>1. UNCHANGED <<opRows, late>> /\ pc[t] = "none" /\ pc'[t] \in {"ended", "wrap", "drop_op"}
      BY <1>10, <1>t DEF fetch, TypeOK, IInv, QueuedOnce
    <2> QED
      BY <2>1, <1>8, <1>9
  <1>11. CASE drop_operation(t)
    <2>1. pc[t] = "drop_op" /\ pc'[t] = "ended"
      BY <1>11, <1>t DEF drop_operation, TypeOK
    <2>2. CASE opRows' = {}
      <3>1. Slot!Drop(t)
        BY <1>3, <1>5, <1>6, <2>1, <2>2 DEF Slot!Drop, Slot!Move
      <3> QED
        BY <3>1 DEF Slot!Next
    <2>3. CASE opRows' # {}
      <3>1. UNCHANGED opRows
        BY <1>11, <2>3 DEF drop_operation, IInv, OneOperation
      <3> QED
        BY <1>8, <2>1, <3>1
    <2> QED
      BY <2>2, <2>3
  <1>12. CASE auto_run_operation_wrapper(t) \/ add_action(t)
    <2>1. UNCHANGED <<opRows, late>> /\ pc[t] \in Early /\ (pc'[t] = "ended" \/ pc'[t] \in Early)
      BY <1>12, <1>t DEF auto_run_operation_wrapper, add_action, TypeOK
    <2> QED
      BY <2>1, <1>8, <1>9
  <1>13. CASE start_operation(t)
    <2>1. UNCHANGED opRows /\ pc[t] = "start" /\ (pc'[t] = "ended" \/ (t \in opRows /\ pc'[t] = "begin"))
      <3>1. UNCHANGED opRows /\ pc[t] = "start"
        BY <1>13 DEF start_operation
      <3>2. t \in opRows => pc'[t] = "begin"
        BY <1>13, <1>t DEF start_operation, TypeOK
      <3>3. t \notin opRows => pc'[t] = "ended"
        BY <1>13, <1>t DEF start_operation, TypeOK
      <3> QED
        BY <3>1, <3>2, <3>3
    <2>2. ASSUME t \in opRows, pc'[t] = "begin"
          PROVE  Slot!Begin(t)
      <3>1. late'[t] = 0
        BY <1>13, <1>7 DEF start_operation
      <3> QED
        BY <1>3, <1>5, <1>6, <2>1, <2>2, <3>1 DEF Slot!Begin, Slot!Move
    <2> QED
      BY <1>8, <2>1, <2>2 DEF Slot!Next
  <1>14. CASE run_segment(t)
    <2>1. UNCHANGED opRows /\ pc[t] = "run" /\ pc'[t] \in {"save", "catch"} /\ late[t] = 0
      BY <1>14, <1>7, <1>t DEF run_segment, TypeOK
    <2>2. CASE t \in opRows
      BY <1>14, <1>9, <2>1, <2>2 DEF run_segment
    <2>3. CASE t \notin opRows
      <3>1. late'[t] = 1
        BY <1>14, <1>t, <2>1, <2>3 DEF run_segment, TypeOK
      <3>2. stage[t] = "working" /\ stage_of(t)' = "overrun"
        BY <1>5, <1>6, <2>1, <3>1
      <3>3. Slot!Overrun(t)
        BY <1>3, <2>1, <2>3, <3>2 DEF Slot!Overrun, Slot!Move
      <3> QED
        BY <3>3 DEF Slot!Next
    <2> QED
      BY <2>2, <2>3
  <1>15. CASE start_action(t) \/ save_action(t) \/ clear_actions(t)
    <2>1. UNCHANGED <<opRows, late>> /\ pc[t] \in Busy /\ pc'[t] \in Busy
      BY <1>15, <1>t DEF start_action, save_action, clear_actions, TypeOK
    <2> QED
      BY <2>1, <1>9
  <1>16. CASE catch_exception(t)
    <2>1. UNCHANGED opRows /\ pc[t] = "catch" /\ pc'[t] \in Over
      BY <1>16, <1>t DEF catch_exception, TypeOK
    <2>2. Slot!Stop(t)
      <3>1. stage_of(t)' = "over" /\ stage[t] \in {"working", "overrun"}
        BY <1>5, <1>6, <2>1
      <3> QED
        BY <1>3, <2>1, <3>1 DEF Slot!Stop, Slot!Move
    <2> QED
      BY <2>2 DEF Slot!Next
  <1>17. CASE remove_operation(t)
    <2>1. opRows' = opRows \ {t} /\ pc[t] = "remove" /\ pc'[t] = "post" /\ late[t] = 0
      BY <1>17, <1>7, <1>t DEF remove_operation, TypeOK
    <2>2. Slot!Finish(t)
      BY <1>3, <1>5, <1>6, <2>1 DEF Slot!Finish, Slot!Move
    <2> QED
      BY <2>2 DEF Slot!Next
  <1>18. CASE end_task(t) \/ worker_fails(t)
    <2>1. UNCHANGED opRows /\ pc'[t] = "ended"
      BY <1>18, <1>t DEF end_task, worker_fails, TypeOK
    <2> QED
      BY <2>1, <1>8
  <1> QED
    BY <1>10, <1>11, <1>12, <1>13, <1>14, <1>15, <1>16, <1>17, <1>18 DEF TaskNext

LEMMA RequestRefines ==
  ASSUME IInv, IInv', NEW r \in Requests, RequestNext(r) \/ request_fails(r)
  PROVE  Slot!Next \/ UNCHANGED <<opRows, stage>>
  <1> USE DEF dbVars, taskVars
  <1>1. ASSUME UNCHANGED <<nextOp, pc, late>>
        PROVE  UNCHANGED stage
    BY <1>1 DEF stage, stage_of
  <1>2. CASE delete_op(r)
    <2>1. UNCHANGED stage /\ (opRows' = opRows \/ opRows' = opRows \ {req[r].op})
      BY <1>1, <1>2 DEF delete_op
    <2>2. opRows' = opRows \/ opRows' = {}
      BY <2>1 DEF IInv, OneOperation
    <2> QED
      BY <2>1, <2>2 DEF Slot!Next, Slot!Revoke
  <1>3. CASE create_operation(r)
    <2>1. CASE UNCHANGED <<opRows, nextOp>>
      BY <1>1, <1>3, <2>1 DEF create_operation
    <2>2. CASE /\ operation_allowed /\ nextOp <= MaxOps /\ nextOp' = nextOp + 1
               /\ opRows' = opRows \union {nextOp}
      <3>1. PICK n \in OpId : n = nextOp
        BY <2>2 DEF IInv, TypeOK, OpId
      <3>2. opRows = {} /\ opRows' = {n}
        BY <2>2, <3>1 DEF operation_allowed
      <3>3. pc[n] = "none" /\ UNCHANGED <<pc, late>>
        BY <1>3, <3>1 DEF create_operation, IInv, FreshIds, TypeOK, OpId
      <3>4. stage_of(n) = "unborn" /\ stage_of(n)' = "pending"
        BY <2>2, <3>1, <3>3 DEF stage_of, OpId
      <3>5. ASSUME NEW s \in OpId \ {n}
            PROVE  stage_of(s)' = stage_of(s)
        <4>1. /\ s >= nextOp' <=> s >= nextOp
              /\ s < nextOp' <=> s < nextOp
          BY <2>2, <3>1 DEF OpId
        <4> QED
          BY <3>3, <4>1 DEF stage_of
      <3>6. Slot!Acquire(n)
        BY <3>2, <3>4, <3>5 DEF Slot!Acquire, Slot!Move, stage
      <3> QED
        BY <3>6 DEF Slot!Next
    <2> QED
      BY <1>3, <2>1, <2>2 DEF create_operation
  <1>4. CASE ~delete_op(r) /\ ~create_operation(r)
    <2>1. UNCHANGED <<opRows, nextOp, pc, late>>
      BY <1>4 DEF RequestNext, request_fails, create_view, plain_view, image_select_view,
         edit_names_view, override_view, check_recoverable, reset_operations_view, operation_delete_fix_view,
         delete_actions, delay, fix_sites, wait_for_operation, edit_meta_view
    <2> QED
      BY <1>1, <2>1
  <1> QED
    BY <1>2, <1>3, <1>4

(* The engine implements the lease: one operation holds the site at a      *)
(* time, starts to work while it does, and runs over by one segment at     *)
(* most once it lost the lease.                                            *)
THEOREM EngineImplementsSlot == Spec => ImplementsSlot
  <1>1. Init => Slot!Init
    <2> SUFFICES ASSUME Init
                 PROVE  stage = [o \in OpId |-> "unborn"]
      BY DEF Init, Slot!Init
    <2>1. \A t \in OpId : t >= nextOp
      BY DEF Init, OpId
    <2> QED
      BY <2>1, InitIInv, StageOf DEF stage
  <1>2. IInv /\ IInv' /\ [Next]_vars => [Slot!Next]_(Slot!vars)
    <2>1. UNCHANGED vars => UNCHANGED Slot!vars
      BY DEF vars, dbVars, taskVars, Slot!vars, stage, stage_of
    <2> QED
      BY <2>1, RequestRefines, TaskRefines DEF Next, Slot!vars
  <1> QED
    BY <1>1, <1>2, InductiveInvariant, PTL DEF Spec, ImplementsSlot, Slot!Spec
=============================================================================

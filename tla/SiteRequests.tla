---------------------------- MODULE SiteRequests ----------------------------
(***************************************************************************)
(* The request of a student for a site, which a teacher approves and then  *)
(* an administrator.  Each view reads the row of the request and saves all *)
(* of it later; nothing keeps the view of the teacher and that of an       *)
(* administrator, or two of one user, from running at the same time.  The  *)
(* email to the administrators is left out.                                *)
(*                                                                         *)
(* An approval is "none" (NULL), "accept" or "reject".                     *)
(***************************************************************************)
EXTENDS Naturals

CONSTANTS
  Teachers,      (* requests of the teacher's browser that may be sent      *)
  Admins         (* the same of the administrators                          *)

ASSUME RequestsAssumption == Teachers \cap Admins = {}

VARIABLES
  approval,    (* the row: [teacher, admin]                                 *)
  view,        (* where each view is                                        *)
  site_request,  (* the row as it read it                                   *)
  action,      (* what its user chose, "none" for neither button            *)
  decided,     (* auxiliary: what the teacher decided last                  *)
  crossed      (* auxiliary: two views were between read and save at once   *)

requestsvars == <<approval, view, site_request, action, decided, crossed>>

Users == Teachers \union Admins
Approvals == {"none", "accept", "reject"}
NewRequest == [teacher |-> "none", admin |-> "none"]

RequestsInit ==
  /\ approval = NewRequest
  /\ view = [u \in Users |-> "none"] /\ site_request = [u \in Users |-> NewRequest]
  /\ action = [u \in Users |-> "none"]
  /\ decided = "none" /\ crossed = FALSE

(* The query of the administrators' view finds approved requests only.     *)
may_decide(u) == u \in Admins => approval.teacher = "accept"

InView == {u \in Users : view[u] \in {"read", "comments"}}

read_request(u, choice) ==
  /\ view[u] = "none" /\ may_decide(u)
  /\ view' = [view EXCEPT ![u] = "read"]
  /\ site_request' = [site_request EXCEPT ![u] = approval]
  /\ action' = [action EXCEPT ![u] = choice]
  /\ crossed' = (crossed \/ InView # {})
  /\ UNCHANGED <<approval, decided>>

Mutant_approve_teacher_view(u) ==
  /\ u \in Teachers /\ view[u] = "read" /\ view' = [view EXCEPT ![u] = "end"]
  /\ approval' = [site_request[u] EXCEPT !.teacher = "accept"]
  /\ decided' = IF action[u] = "none" THEN decided ELSE action[u]
  /\ UNCHANGED <<site_request, action, crossed>>

approve_teacher_view(u) ==
  /\ u \in Teachers /\ view[u] = "read" /\ view' = [view EXCEPT ![u] = "end"]
  /\ \/ action[u] = "none" /\ UNCHANGED <<approval, decided>>
     \/ /\ action[u] # "none" /\ decided' = action[u]
        /\ approval' = [site_request[u] EXCEPT !.teacher = action[u]]
  /\ UNCHANGED <<site_request, action, crossed>>

(* approve_admin_view saves the comments and then the decision, from the   *)
(* one row it has read.                                                    *)
save_comments(u) ==
  /\ u \in Admins /\ view[u] = "read" /\ view' = [view EXCEPT ![u] = "comments"]
  /\ approval' = site_request[u]
  /\ UNCHANGED <<site_request, action, decided, crossed>>

approve_admin_view(u) ==
  /\ view[u] = "comments" /\ view' = [view EXCEPT ![u] = "end"]
  /\ \/ action[u] = "none" /\ UNCHANGED approval
     \/ action[u] # "none" /\ approval' = [site_request[u] EXCEPT !.admin = action[u]]
  /\ UNCHANGED <<site_request, action, decided, crossed>>

RequestsNext ==
  \E u \in Users :
    \/ \E choice \in Approvals : read_request(u, choice)
    \/ approve_teacher_view(u)
    \/ save_comments(u) \/ approve_admin_view(u)

RequestsSpec == RequestsInit /\ [][RequestsNext]_requestsvars

-----------------------------------------------------------------------------

RequestsTypeOK ==
  /\ approval \in [teacher : Approvals, admin : Approvals]
  /\ site_request \in [Users -> [teacher : Approvals, admin : Approvals]]
  /\ view \in [Users -> {"none", "read", "comments", "end"}]
  /\ \A u \in Teachers : view[u] # "comments"
  /\ action \in [Users -> Approvals] /\ decided \in Approvals /\ crossed \in BOOLEAN

(* The row says what the teacher decided last, unless two views ran at the *)
(* same time; then a full save of an administrator's view can undo it.     *)
TeacherIsHeard == crossed \/ approval.teacher = decided
=============================================================================

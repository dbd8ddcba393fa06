---------------------------- MODULE OperationSlot ----------------------------
(***************************************************************************)
(* What the Operation row of a site promises to the rest of the manager.   *)
(* It is a lease: at most one is held at a time, an operation starts to    *)
(* work while it holds the lease, and may lose it at any moment (somebody  *)
(* resets the site).  An operation that lost the lease is not stopped at   *)
(* once, but what it does without it is bounded: one overrun.              *)
(***************************************************************************)
CONSTANT Ops

VARIABLES
  held,     (* the operations that hold the lease, at most one              *)
  stage     (* how far each operation is                                    *)

vars == <<held, stage>>

Stages == {"unborn", "pending", "working", "overrun", "over"}

Init == held = {} /\ stage = [o \in Ops |-> "unborn"]

Move(o, from, to) == stage[o] \in from /\ stage' = [stage EXCEPT ![o] = to]

Acquire(o) == held = {} /\ held' = {o} /\ Move(o, {"unborn"}, "pending")

Begin(o) == o \in held /\ Move(o, {"pending"}, "working") /\ UNCHANGED held

(* Somebody else removes the lease, whatever its holder is doing. *)
Revoke == held' = {} /\ UNCHANGED stage

Overrun(o) == o \notin held /\ Move(o, {"working"}, "overrun") /\ UNCHANGED held

(* An operation that is done gives the lease back, if it still has it. *)
Finish(o) == held' = held \ {o} /\ Move(o, {"working"}, "over")

(* An operation that finds nothing to do drops the lease of the site, even *)
(* if somebody else acquired it meanwhile.                                 *)
Drop(o) == held' = {} /\ Move(o, {"pending"}, "over")

(* An operation that fails or dies keeps it, and blocks the site. *)
Stop(o) == Move(o, {"pending", "working", "overrun"}, "over") /\ UNCHANGED held

Next ==
  \/ Revoke
  \/ \E o \in Ops : Acquire(o) \/ Begin(o) \/ Overrun(o) \/ Finish(o) \/ Drop(o) \/ Stop(o)

Spec == Init /\ [][Next]_vars
=============================================================================

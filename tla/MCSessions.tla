----------------------------- MODULE MCSessions -----------------------------
(***************************************************************************)
(* The sessions of browsers for TLC: terminals, the pages with a site's    *)
(* status and those with its log.  They share no state, so a behaviour is  *)
(* one of a single part, which the initial state chooses; nobody opens a   *)
(* page or a terminal of the others.                                       *)
(***************************************************************************)
EXTENDS WebTerminal, LogFollower, SiteStatus

VARIABLE part

allvars == <<part, terminalvars, logvars, statusvars>>

SessionsInit ==
  /\ part \in {"terminal", "log", "status"}
  /\ TerminalInit /\ FollowInit /\ StatusInit

SessionsNext ==
  /\ UNCHANGED part
  /\ \/ part = "terminal" /\ TerminalNext /\ UNCHANGED <<logvars, statusvars>>
     \/ part = "log" /\ FollowNext /\ UNCHANGED <<terminalvars, statusvars>>
     \/ part = "status" /\ StatusNext /\ UNCHANGED <<terminalvars, logvars>>

(* What must go on is disabled in the parts that rest.                     *)
SessionsSpec ==
  /\ SessionsInit /\ [][SessionsNext]_allvars
  /\ TerminalFairness /\ FollowFairness /\ StatusFairness

(* The types of the parts, terminals, followers and pages, with what        *)
(* relates the variables of one part to each other.                         *)
SessionsTypeOK ==
  TerminalTypeOK /\ FollowTypeOK /\ StatusTypeOK
=============================================================================

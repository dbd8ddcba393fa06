-------------------------- MODULE MCSiteOperations --------------------------
(***************************************************************************)
(* SiteOperations for TLC.  Of each plan of the tasks the ping and the     *)
(* recoverable actions are kept, in their order: an only, a first, a       *)
(* middle and a last action and both kinds of failure is all the engine    *)
(* tells plans apart by.  MaxActions cuts the longest plan.                *)
(***************************************************************************)
EXTENDS SiteOperations, TLC

MCSlugs == {"find_pingable_appservers", "build_docker_image", "update_balancer_certbot"}

MCRecoverable == {"build_docker_image", "update_balancer_certbot"}

MCPlans ==
  [ty \in OpTypes |->
     CASE ty = "update_docker_image" -> {<<"find_pingable_appservers", "build_docker_image">>}
       [] ty = "edit_site_names" -> {<<"find_pingable_appservers", "update_balancer_certbot">>}
       [] ty = "fix_site" -> {SubSeq(<<"find_pingable_appservers", "build_docker_image",
                                      "update_balancer_certbot">>, 1, MaxActions)}
       [] OTHER -> {<<"find_pingable_appservers">>}]

MCSymmetry == Permutations(Requests)
=============================================================================

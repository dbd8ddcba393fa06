-------------------------- MODULE MCSiteDeployment --------------------------
(***************************************************************************)
(* SiteDeployment for TLC, with the plans its tasks make.                  *)
(***************************************************************************)
EXTENDS SiteDeployment, TLC

MCSlugs ==
  {"find_pingable_appservers", "update_appserver_nginx_config", "update_balancer_certbot",
   "update_balancer_nginx_config", "update_docker_service", "remove_docker_service",
   "create_real_site_database", "build_docker_image", "ensure_site_directories_exist",
   "delete_site_database_and_object", "remove_docker_image", "remove_appserver_nginx_config",
   "remove_balancer_nginx_config", "remove_all_site_files_dangerous", "change_site_name",
   "change_site_domains", "do_write_run_sh_file", "create_database_object",
   "regen_database_password", "update_resource_limits_object", "update_image_object",
   "restart_docker_service", "update_availability"}

MCRecoverable == {"build_docker_image", "update_balancer_certbot"}

MCPlans == [ty \in OpTypes |-> {plan_of(ty, s, a) : s \in SiteRow, a \in Args(ty)}]

MCSymmetry == Permutations(Requests) \union Permutations(Names)
=============================================================================

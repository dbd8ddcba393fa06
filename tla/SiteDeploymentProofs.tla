------------------------ MODULE SiteDeploymentProofs ------------------------
(***************************************************************************)
(* SiteDeployment adds effects to the steps of the engine and no step of   *)
(* its own that the engine could see, so what is proved of the engine is   *)
(* true of it too.                                                         *)
(***************************************************************************)
EXTENDS SiteDeployment, SiteOperationsProofs

LEMMA TaskStepIsEngineStep ==
  ASSUME NEW t \in OpId, DTask(t)
  PROVE  TaskNext(t) \/ worker_fails(t)
  BY DEF DTask, TaskNext, deploy_fetch, deploy_wrap, deploy_start, deploy_run, deploy_save,
         deploy_end

LEMMA RequestStepIsEngineStep ==
  ASSUME NEW r \in Requests, DRequest(r)
  PROVE  RequestNext(r) \/ request_fails(r) \/ UNCHANGED vars
  <1>1. CASE deploy_create(r) \/ deploy_request(r)
    BY <1>1 DEF deploy_create, deploy_request, RequestNext
  <1>2. CASE load_site(r)
    BY <1>2 DEF load_site
  <1>3. CASE create_database_view(r)
    BY <1>3 DEF create_database_view, RequestNext
  <1>4. CASE save_meta(r)
    <2>1. PICK s \in form[r] : edit_meta_view(r) \/ UNCHANGED vars
      BY <1>4 DEF save_meta
    <2> QED
      BY <2>1 DEF RequestNext
  <1> QED
    BY <1>1, <1>2, <1>3, <1>4 DEF DRequest

LEMMA InsertIsStutter ==
  ASSUME NEW t \in OpId, insert_row(t)
  PROVE  UNCHANGED vars
  BY DEF insert_row

(* The deployment runs on the engine: whatever its callbacks do to the     *)
(* site and the servers, rows, tasks and requests move as in Spec.         *)
THEOREM DeploymentImplementsEngine == DSpec => Spec
  <1>1. DInit => Init
    BY DEF DInit
  <1>2. [DNext]_<<vars, dvars, overtaken>> => [Next]_vars
    BY TaskStepIsEngineStep, RequestStepIsEngineStep, InsertIsStutter DEF DNext, Next
  <1> QED
    BY <1>1, <1>2, PTL DEF DSpec, Spec

(* So in a deployment, too, no operation blocks its site silently.         *)
THEOREM DeploymentNeverOrphans == DSpec => []NoOrphanOperation
  BY DeploymentImplementsEngine, NoOperationIsOrphaned, PTL

(* And a reset task ends after at most one more segment: NoSilentDrift     *)
(* excepts one segment of each task that was reset, not more.              *)
THEOREM DeploymentOverrunsOnce == DSpec => []SupersededTaskStops
  BY DeploymentImplementsEngine, SupersededTasksStop, PTL

-----------------------------------------------------------------------------
(* The slugs in the plans *)

DbSlugs(s) ==
  IF s.db = NoDb THEN {}
  ELSE {"create_real_site_database", "regen_database_password", "delete_site_database_and_object"}

ServiceSlugs == {"update_docker_service", "restart_docker_service"}

NginxSlugs == {"update_appserver_nginx_config"}

WipeSlugs ==
  {"remove_docker_service", "remove_appserver_nginx_config", "remove_all_site_files_dangerous"}

OtherSlugs ==
  {"find_pingable_appservers", "build_docker_image", "remove_docker_image",
   "update_resource_limits_object", "update_balancer_certbot", "update_balancer_nginx_config",
   "remove_balancer_nginx_config"}

SlugsOf(ty, s) ==
  OtherSlugs \union
    CASE ty = "create_site"            -> {"ensure_site_directories_exist"} \union ServiceSlugs \union NginxSlugs
      [] ty = "rename_site"            -> {"change_site_name"} \union NginxSlugs
      [] ty = "edit_site_names"        -> {"change_site_name", "change_site_domains"} \union NginxSlugs
      [] ty = "change_site_type"       -> {"do_write_run_sh_file", "remove_docker_service"} \union ServiceSlugs \union NginxSlugs
      [] ty = "regen_nginx_config"     -> NginxSlugs
      [] ty = "create_site_database"   -> {"create_database_object", "create_real_site_database"} \union ServiceSlugs
      [] ty = "delete_site_database"   -> {"delete_site_database_and_object"}
      [] ty = "regen_site_secrets"     -> (DbSlugs(s) \cap {"regen_database_password"}) \union ServiceSlugs
      [] ty = "update_resource_limits" -> ServiceSlugs \union NginxSlugs
      [] ty = "update_docker_image"    -> {"update_image_object", "do_write_run_sh_file"} \union ServiceSlugs
      [] ty = "update_availability"    -> {"update_availability"} \union ServiceSlugs \union NginxSlugs
      [] ty = "delete_site"            -> (DbSlugs(s) \cap {"delete_site_database_and_object"}) \union WipeSlugs
      [] ty = "restart_site"           -> ServiceSlugs
      [] ty = "fix_site"               -> (DbSlugs(s) \cap {"create_real_site_database"})
                                            \union {"ensure_site_directories_exist", "remove_docker_service"} \union ServiceSlugs \union NginxSlugs

LEMMA WhenType ==
  ASSUME NEW S, NEW c, NEW x, c => x \in S
  PROVE  When(c, x) \in Seq(S)
  <1>1. CASE c
    BY <1>1 DEF When
  <1>2. CASE ~c
    BY <1>2 DEF When
  <1> QED
    BY <1>1, <1>2

LEMMA PartsType ==
  ASSUME NEW S, OtherSlugs \subseteq S
  PROVE  /\ Ping \in Seq(S) /\ Balancers \in Seq(S)
         /\ NginxSlugs \subseteq S => Nginx \in Seq(S)
         /\ ServiceSlugs \subseteq S => \A s : Service(s) \in Seq(S)
         /\ ServiceSlugs \union {"remove_docker_service"} \subseteq S =>
              \A type : ServiceOrNone(type) \in Seq(S)
  <1>1. Ping \in Seq(S) /\ Balancers \in Seq(S)
    BY DEF OtherSlugs, Ping, Balancers
  <1>2. NginxSlugs \subseteq S => Nginx \in Seq(S)
    BY DEF NginxSlugs, Nginx
  <1>3. ASSUME ServiceSlugs \union {"remove_docker_service"} \subseteq S, NEW type
        PROVE  ServiceOrNone(type) \in Seq(S)
    <2>1. "update_docker_service" \in S /\ "remove_docker_service" \in S
      BY <1>3 DEF ServiceSlugs
    <2> QED
      BY <2>1 DEF ServiceOrNone
  <1>4. ASSUME ServiceSlugs \subseteq S, NEW s
        PROVE  Service(s) \in Seq(S)
    <2>1. "update_docker_service" \in S
      BY <1>4 DEF ServiceSlugs
    <2> QED
      BY <2>1, WhenType DEF Service
  <1> QED
    BY <1>1, <1>2, <1>3, <1>4

LEMMA PlanType ==
  ASSUME NEW ty \in OpTypes, NEW s \in SiteRow, NEW a
  PROVE  plan_of(ty, s, a) \in Seq(SlugsOf(ty, s))
  <1> DEFINE S == SlugsOf(ty, s)
  <1>p. /\ Ping \in Seq(S) /\ Balancers \in Seq(S)
        /\ NginxSlugs \subseteq S => Nginx \in Seq(S)
        /\ ServiceSlugs \subseteq S => Service(s) \in Seq(S)
        /\ ServiceSlugs \union {"remove_docker_service"} \subseteq S =>
             \A type : ServiceOrNone(type) \in Seq(S)
    <2>1. OtherSlugs \subseteq S
      BY DEF SlugsOf
    <2> QED
      BY <2>1, PartsType
  <1>d. \A x \in {"create_real_site_database", "regen_database_password", "delete_site_database_and_object"} :
          x \in S \/ DbSlugs(s) = {} => When(s.db # NoDb, x) \in Seq(S)
    BY WhenType DEF DbSlugs
  <1>1. CASE ty = "create_site"
    <2>1. Ping \in Seq(S) /\ <<"ensure_site_directories_exist">> \in Seq(S) /\ Service(s) \in Seq(S) /\ Nginx \in Seq(S)
      BY <1>1, <1>p, <1>d, WhenType DEF SlugsOf, OtherSlugs, ServiceSlugs, NginxSlugs, WipeSlugs, DbSlugs, WipeSite
    <2>2. plan_of(ty, s, a) = Ping \o <<"ensure_site_directories_exist">> \o Service(s) \o Nginx
      BY <1>1 DEF plan_of, create_site_plan
    <2> QED
      BY <2>1, <2>2
  <1>2. CASE ty = "rename_site"
    <2>1. Ping \in Seq(S) /\ <<"change_site_name">> \in Seq(S) /\ Nginx \in Seq(S) /\ Balancers \in Seq(S)
      BY <1>2, <1>p, <1>d, WhenType DEF SlugsOf, OtherSlugs, ServiceSlugs, NginxSlugs, WipeSlugs, DbSlugs, WipeSite
    <2>2. plan_of(ty, s, a) = Ping \o <<"change_site_name">> \o Nginx \o Balancers
      BY <1>2 DEF plan_of, rename_site_plan
    <2> QED
      BY <2>1, <2>2
  <1>3. CASE ty = "edit_site_names"
    <2>1. Ping \in Seq(S) /\ <<"change_site_name", "change_site_domains">> \in Seq(S) /\ Nginx \in Seq(S) /\ Balancers \in Seq(S)
      BY <1>3, <1>p, <1>d, WhenType DEF SlugsOf, OtherSlugs, ServiceSlugs, NginxSlugs, WipeSlugs, DbSlugs, WipeSite
    <2>2. plan_of(ty, s, a) = Ping \o <<"change_site_name", "change_site_domains">> \o Nginx \o Balancers
      BY <1>3 DEF plan_of, edit_site_names_plan
    <2> QED
      BY <2>1, <2>2
  <1>4. CASE ty = "change_site_type"
    <2>1. Ping \in Seq(S) /\ <<"do_write_run_sh_file">> \in Seq(S) /\ ServiceOrNone(a) \in Seq(S) /\ Nginx \in Seq(S)
      BY <1>4, <1>p, <1>d, WhenType DEF SlugsOf, OtherSlugs, ServiceSlugs, NginxSlugs, WipeSlugs, DbSlugs, WipeSite
    <2>2. plan_of(ty, s, a) = Ping \o <<"do_write_run_sh_file">> \o ServiceOrNone(a) \o Nginx
      BY <1>4 DEF plan_of, change_site_type_plan
    <2> QED
      BY <2>1, <2>2
  <1>5. CASE ty = "regen_nginx_config"
    <2>1. Ping \in Seq(S) /\ Nginx \in Seq(S) /\ <<"update_balancer_nginx_config">> \in Seq(S)
      BY <1>5, <1>p, <1>d, WhenType DEF SlugsOf, OtherSlugs, ServiceSlugs, NginxSlugs, WipeSlugs, DbSlugs, WipeSite
    <2>2. plan_of(ty, s, a) = Ping \o Nginx \o <<"update_balancer_nginx_config">>
      BY <1>5 DEF plan_of, regen_nginx_config_plan
    <2> QED
      BY <2>1, <2>2
  <1>6. CASE ty = "create_site_database"
    <2>1. Ping \in Seq(S) /\ <<"create_database_object", "create_real_site_database">> \in Seq(S) /\ Service(s) \in Seq(S)
      BY <1>6, <1>p, <1>d, WhenType DEF SlugsOf, OtherSlugs, ServiceSlugs, NginxSlugs, WipeSlugs, DbSlugs, WipeSite
    <2>2. plan_of(ty, s, a) = Ping \o <<"create_database_object", "create_real_site_database">> \o Service(s)
      BY <1>6 DEF plan_of, create_database_plan
    <2> QED
      BY <2>1, <2>2
  <1>7. CASE ty = "delete_site_database"
    <2>1. Ping \in Seq(S) /\ <<"delete_site_database_and_object">> \in Seq(S)
      BY <1>7, <1>p, <1>d, WhenType DEF SlugsOf, OtherSlugs, ServiceSlugs, NginxSlugs, WipeSlugs, DbSlugs, WipeSite
    <2>2. plan_of(ty, s, a) = Ping \o <<"delete_site_database_and_object">>
      BY <1>7 DEF plan_of, delete_database_plan
    <2> QED
      BY <2>1, <2>2
  <1>8. CASE ty = "regen_site_secrets"
    <2>1. Ping \in Seq(S) /\ When(s.db # NoDb, "regen_database_password") \in Seq(S) /\ Service(s) \in Seq(S)
      BY <1>8, <1>p, <1>d, WhenType DEF SlugsOf, OtherSlugs, ServiceSlugs, NginxSlugs, WipeSlugs, DbSlugs, WipeSite
    <2>2. plan_of(ty, s, a) = Ping \o When(s.db # NoDb, "regen_database_password") \o Service(s)
      BY <1>8 DEF plan_of, regen_site_secrets_plan
    <2> QED
      BY <2>1, <2>2
  <1>9. CASE ty = "update_resource_limits"
    <2>1. Ping \in Seq(S) /\ <<"update_resource_limits_object">> \in Seq(S) /\ Service(s) \in Seq(S) /\ Nginx \in Seq(S)
      BY <1>9, <1>p, <1>d, WhenType DEF SlugsOf, OtherSlugs, ServiceSlugs, NginxSlugs, WipeSlugs, DbSlugs, WipeSite
    <2>2. plan_of(ty, s, a) = Ping \o <<"update_resource_limits_object">> \o Service(s) \o Nginx
      BY <1>9 DEF plan_of, update_resource_limits_plan
    <2> QED
      BY <2>1, <2>2
  <1>10. CASE ty = "update_docker_image"
    <2>1. Ping \in Seq(S) /\ <<"update_image_object", "build_docker_image">> \in Seq(S) /\ When(a = "write_run_sh_file", "do_write_run_sh_file") \in Seq(S) /\ <<"update_docker_service", "restart_docker_service">> \in Seq(S)
      BY <1>10, <1>p, <1>d, WhenType DEF SlugsOf, OtherSlugs, ServiceSlugs, NginxSlugs, WipeSlugs, DbSlugs, WipeSite
    <2>2. plan_of(ty, s, a) = Ping \o <<"update_image_object", "build_docker_image">> \o When(a = "write_run_sh_file", "do_write_run_sh_file") \o <<"update_docker_service", "restart_docker_service">>
      BY <1>10 DEF plan_of, update_image_plan
    <2> QED
      BY <2>1, <2>2
  <1>11. CASE ty = "update_availability"
    <2>1. Ping \in Seq(S) /\ <<"update_availability">> \in Seq(S) /\ Nginx \in Seq(S) /\ Service(s) \in Seq(S)
      BY <1>11, <1>p, <1>d, WhenType DEF SlugsOf, OtherSlugs, ServiceSlugs, NginxSlugs, WipeSlugs, DbSlugs, WipeSite
    <2>2. plan_of(ty, s, a) = Ping \o <<"update_availability">> \o Nginx \o Service(s)
      BY <1>11 DEF plan_of, update_availability_plan
    <2> QED
      BY <2>1, <2>2
  <1>12. CASE ty = "delete_site"
    <2>1. Ping \in Seq(S) /\ When(s.db # NoDb, "delete_site_database_and_object") \in Seq(S) /\ WipeSite \in Seq(S)
      BY <1>12, <1>p, <1>d, WhenType DEF SlugsOf, OtherSlugs, ServiceSlugs, NginxSlugs, WipeSlugs, DbSlugs, WipeSite
    <2>2. plan_of(ty, s, a) = Ping \o When(s.db # NoDb, "delete_site_database_and_object") \o WipeSite
      BY <1>12 DEF plan_of, delete_site_plan
    <2> QED
      BY <2>1, <2>2
  <1>13. CASE ty = "restart_site"
    <2>1. Ping \in Seq(S) /\ When(s.type = "dynamic", "restart_docker_service") \in Seq(S)
      BY <1>13, <1>p, <1>d, WhenType DEF SlugsOf, OtherSlugs, ServiceSlugs, NginxSlugs, WipeSlugs, DbSlugs, WipeSite
    <2>2. plan_of(ty, s, a) = Ping \o When(s.type = "dynamic", "restart_docker_service")
      BY <1>13 DEF plan_of, restart_service_plan
    <2> QED
      BY <2>1, <2>2
  <1>14. CASE ty = "fix_site"
    <2>1. Ping \in Seq(S) /\ When(s.db # NoDb, "create_real_site_database") \in Seq(S) /\ <<"build_docker_image", "ensure_site_directories_exist">> \in Seq(S) /\ ServiceOrNone(s.type) \in Seq(S) /\ Nginx \in Seq(S) /\ Balancers \in Seq(S)
      BY <1>14, <1>p, <1>d, WhenType DEF SlugsOf, OtherSlugs, ServiceSlugs, NginxSlugs, WipeSlugs, DbSlugs, WipeSite
    <2>2. plan_of(ty, s, a) = Ping \o When(s.db # NoDb, "create_real_site_database") \o <<"build_docker_image", "ensure_site_directories_exist">> \o ServiceOrNone(s.type) \o Nginx \o Balancers
      BY <1>14 DEF plan_of, fix_site_plan
    <2> QED
      BY <2>1, <2>2
  <1> QED
    BY <1>1, <1>2, <1>3, <1>4, <1>5, <1>6, <1>7, <1>8, <1>9, <1>10, <1>11, <1>12, <1>13, <1>14 DEF OpTypes

-----------------------------------------------------------------------------
(* Types of the deployment *)

Planning == {"wrap", "adding", "start", "begin", "run", "save", "catch"}

(* A task works on a plan of its own type.                                 *)
Planned(t) ==
  pc[t] \in Planning =>
    /\ opType[t] \in OpTypes /\ arg[t] \in Args(opType[t])
    /\ \E s \in SiteRow : plan[t] = plan_of(opType[t], s, arg[t])

(* It runs the plan from its first action on.                              *)
Started(t) == pc[t] = "start" => idx[t] = 1

DTypeInv ==
  /\ IInv /\ DTypeOK
  /\ \A t \in OpId : Planned(t) /\ Started(t) /\ (pc[t] = "none" => arg[t] = NoArg)

LEMMA DeployedType ==
  ASSUME NEW s \in SiteRow
  PROVE  /\ {nginx_of(s)} \in AtMostOne([name : Names, type : Types, served : BOOLEAN])
         /\ {} \in AtMostOne([name : Names, type : Types, served : BOOLEAN])
         /\ docker_service(s) \in AtMostOne([served : BOOLEAN, db : 0..MaxDb, custom : BOOLEAN])
         /\ {} \in AtMostOne([served : BOOLEAN, db : 0..MaxDb, custom : BOOLEAN])
         /\ {s} \in AtMostOne(SiteRow) /\ {} \in AtMostOne(SiteRow)
  <1>1. nginx_of(s) \in [name : Names, type : Types, served : BOOLEAN]
    BY DEF nginx_of, SiteRow
  <1>2. service_of(s) \in [served : BOOLEAN, db : 0..MaxDb, custom : BOOLEAN]
    BY DEF service_of, SiteRow
  <1>3. \A S : {} \in AtMostOne(S) /\ \A x \in S : {x} \in AtMostOne(S)
    BY DEF AtMostOne
  <1> QED
    BY <1>1, <1>2, <1>3 DEF docker_service

LEMMA SavedType ==
  ASSUME DTypeOK, NEW t \in OpId, NEW s \in SiteRow, save_site(t, s)
  PROVE  row' \in SiteRow /\ copy' \in [OpId -> SiteRow]
  BY DEF save_site, DTypeOK

(* Which types of operation the slugs that use their argument belong to.   *)
LEMMA ArgumentType ==
  ASSUME IInv, NEW t \in OpId, Planned(t), pc[t] = "run"
  PROVE  /\ plan[t][idx[t]] = "change_site_name" => arg[t] \in Names
         /\ plan[t][idx[t]] = "update_availability" => arg[t] \in Avail
         /\ opType[t] = "change_site_type" => arg[t] \in Types
  <1>1. PICK s \in SiteRow : plan[t] = plan_of(opType[t], s, arg[t])
    BY DEF Planned, Planning
  <1>2. opType[t] \in OpTypes /\ arg[t] \in Args(opType[t])
    BY DEF Planned, Planning
  <1>3. idx[t] \in 1..Len(plan[t])
    <2>1. idx[t] \in 1..MaxActions /\ Len(plan[t]) \in 1..MaxActions /\ idx[t] <= Len(plan[t])
      BY DEF IInv, TypeOK, TaskInv, IndexInPlan
    <2> QED
      BY <2>1, ConstantsAssumption
  <1>4. plan[t][idx[t]] \in SlugsOf(opType[t], s)
    BY <1>1, <1>2, <1>3, PlanType
  <1>5. plan[t][idx[t]] = "change_site_name" => opType[t] \in {"rename_site", "edit_site_names"}
    BY <1>2, <1>4 DEF SlugsOf, OpTypes, DbSlugs, ServiceSlugs, NginxSlugs, WipeSlugs, OtherSlugs
  <1>6. plan[t][idx[t]] = "update_availability" => opType[t] = "update_availability"
    BY <1>2, <1>4 DEF SlugsOf, OpTypes, DbSlugs, ServiceSlugs, NginxSlugs, WipeSlugs, OtherSlugs
  <1> QED
    BY <1>2, <1>5, <1>6 DEF Args

(* What a callback does to the variables of the deployment is of the type. *)
LEMMA CallbackTypeOK ==
  ASSUME DTypeInv, NEW t \in OpId, deploy_run(t), overtaken' \in BOOLEAN
  PROVE  DTypeOK'
  <1> USE DEF data, remote, local, dvars
  <1>1. pc[t] = "run" /\ UNCHANGED opType /\ (row \in SiteRow) /\ (copy[t] \in SiteRow)
    BY DEF deploy_run, run_segment, DTypeInv, DTypeOK
  <1>2. /\ plan[t][idx[t]] = "change_site_name" => arg[t] \in Names
        /\ plan[t][idx[t]] = "update_availability" => arg[t] \in Avail
        /\ opType[t] = "change_site_type" => arg[t] \in Types
    BY <1>1, ArgumentType DEF DTypeInv
  <1>d. DTypeOK /\ overtaken' \in BOOLEAN
    BY DEF DTypeInv
  <1>s. ASSUME NEW s \in SiteRow, save_site(t, s) \/ save_raises(t)
        PROVE  row' \in SiteRow /\ copy' \in [OpId -> SiteRow]
    BY <1>1, <1>d, <1>s, SavedType DEF save_raises, DTypeOK
  <1>u. ASSUME save_new_row(t)
        PROVE  /\ row' \in SiteRow /\ copy' \in [OpId -> SiteRow]
               /\ unsaved' \in [OpId -> AtMostOne(SiteRow)]
    <2>1. CASE save_raises(t) /\ UNCHANGED unsaved
      BY <1>1, <1>d, <2>1 DEF save_raises, DTypeOK
    <2>2. CASE ~(save_raises(t) /\ UNCHANGED unsaved)
      <3>1. PICK s \in unsaved[t] : save_site(t, s) /\ unsaved' = [unsaved EXCEPT ![t] = {}]
        BY <1>u, <2>2 DEF save_new_row
      <3>2. s \in SiteRow
        BY <1>d DEF DTypeOK, AtMostOne
      <3>3. unsaved' \in [OpId -> AtMostOne(SiteRow)]
        BY <1>1, <1>d, <3>1, DeployedType DEF DTypeOK
      <3> QED
        BY <1>s, <3>1, <3>2, <3>3
    <2> QED
      BY <2>1, <2>2
  <1>3. CASE change_site_name(t)
    <2>1. row' \in SiteRow /\ copy' \in [OpId -> SiteRow]
      <3>1. \/ UNCHANGED <<row, copy>>
            \/ /\ row' = [row EXCEPT !.name = arg[t]]
               /\ copy' = [copy EXCEPT ![t].name = arg[t]]
        BY <1>3 DEF change_site_name
      <3>2. arg[t] \in Names
        BY <1>2, <1>3 DEF change_site_name, Running
      <3>3. [row EXCEPT !.name = arg[t]] \in SiteRow /\ [copy[t] EXCEPT !.name = arg[t]] \in SiteRow
        BY <1>1, <3>2 DEF SiteRow
      <3>4. copy \in [OpId -> SiteRow] /\ [copy EXCEPT ![t].name = arg[t]] \in [OpId -> SiteRow]
        BY <1>d, <3>3 DEF DTypeOK
      <3> QED
        BY <1>1, <3>1, <3>3, <3>4
    <2> QED
      BY <1>1, <1>3, <1>d, <2>1 DEF change_site_name, DTypeOK
  <1>4. CASE change_site_domains(t)
    BY <1>1, <1>4, <1>d DEF change_site_domains, DTypeOK
  <1>5. CASE change_site_type(t)
    <2>1. [copy[t] EXCEPT !.type = arg[t]] \in SiteRow
      BY <1>1, <1>2, <1>5 DEF change_site_type, SiteRow
    <2> QED
      BY <1>1, <1>5, <1>d, <1>s, <2>1 DEF change_site_type, DTypeOK
  <1>6. CASE update_availability(t)
    <2>1. [copy[t] EXCEPT !.avail = arg[t]] \in SiteRow
      BY <1>1, <1>2, <1>6 DEF update_availability, Running, SiteRow
    <2> QED
      BY <1>1, <1>6, <1>d, <1>s, <2>1 DEF update_availability, DTypeOK
  <1>7. CASE create_database_object(t)
    BY <1>1, <1>7, <1>d, <1>u DEF create_database_object, DTypeOK
  <1>8. CASE update_image_object(t)
    <2>1. /\ row' \in SiteRow /\ copy' \in [OpId -> SiteRow]
          /\ unsaved' \in [OpId -> AtMostOne(SiteRow)]
      BY <1>8, <1>d, <1>u DEF update_image_object, DTypeOK
    <2> QED
      BY <1>1, <1>8, <1>d, <2>1 DEF update_image_object, DTypeOK
  <1>9. CASE other_callback(t)
    BY <1>1, <1>9, <1>d DEF other_callback, DTypeOK
  <1>10. CASE update_docker_service(t) \/ remove_docker_service(t) \/ restart_docker_service(t)
    BY <1>1, <1>10, <1>d, DeployedType
       DEF update_docker_service, remove_docker_service, restart_docker_service, DTypeOK
  <1>11. CASE update_appserver_nginx_config(t)
    <2>1. failing' \in [OpId -> BOOLEAN]
      BY <1>11, <1>d DEF update_appserver_nginx_config, DTypeOK
    <2>2. nginx' \in {nginx, {}, {nginx_of(copy[t])}}
      BY <1>11 DEF update_appserver_nginx_config
    <2>3. nginx' \in AtMostOne([name : Names, type : Types, served : BOOLEAN])
      BY <1>1, <1>d, <2>2, DeployedType DEF DTypeOK
    <2> QED
      BY <1>1, <1>11, <1>d, <2>1, <2>3 DEF update_appserver_nginx_config, DTypeOK
  <1>12. CASE remove_appserver_nginx_config(t)
    BY <1>1, <1>12, <1>d, DeployedType DEF remove_appserver_nginx_config, DTypeOK
  <1>13. CASE ensure_site_directories_exist(t) \/ remove_all_site_files_dangerous(t)
    BY <1>1, <1>13, <1>d DEF ensure_site_directories_exist, remove_all_site_files_dangerous, DTypeOK
  <1>14. CASE create_real_site_database(t) \/ regen_database_password(t)
    BY <1>1, <1>14, <1>d DEF create_real_site_database, regen_database_password, DTypeOK
  <1>15. CASE delete_site_database_and_object(t)
    <2>1. row' \in SiteRow
      <3>1. NoDb \in 0..MaxDb
        BY DeploymentAssumption DEF NoDb
      <3>2. [row EXCEPT !.db = NoDb] \in SiteRow
        BY <1>1, <3>1 DEF SiteRow
      <3> QED
        BY <1>1, <1>15, <3>2 DEF delete_site_database_and_object
    <2>2. databases' \subseteq 1..MaxDb /\ realdb' \in BOOLEAN
      BY <1>15, <1>d DEF delete_site_database_and_object, DTypeOK
    <2> QED
      BY <1>1, <1>15, <1>d, <2>1, <2>2 DEF delete_site_database_and_object, DTypeOK
  <1> QED
    BY <1>3, <1>4, <1>5, <1>6, <1>7, <1>8, <1>9, <1>10, <1>11, <1>12, <1>13, <1>14, <1>15
       DEF deploy_run, callback

(* A task changes what is its own and what it deploys.                     *)
LEMMA TaskFrame ==
  ASSUME TypeOK, DTypeOK, NEW t \in OpId, DTask(t)
  PROVE  /\ UNCHANGED <<opType, nextOp, req, form>>
         /\ \A s \in OpId \ {t} :
              /\ pc'[s] = pc[s] /\ plan'[s] = plan[s] /\ idx'[s] = idx[s] /\ seg'[s] = seg[s]
              /\ ok'[s] = ok[s] /\ late'[s] = late[s]
              /\ copy'[s] = copy[s] /\ arg'[s] = arg[s] /\ failing'[s] = failing[s]
              /\ unsaved'[s] = unsaved[s]
         /\ pc'[t] # "none"
  <1> USE DEF data, remote, local, dvars, Become, SameWork, dbVars, taskVars
  <1>1. TaskNext(t) \/ worker_fails(t)
    BY TaskStepIsEngineStep
  <1>2. /\ UNCHANGED <<opType, nextOp, req>>
        /\ \A s \in OpId \ {t} :
             /\ pc'[s] = pc[s] /\ plan'[s] = plan[s] /\ idx'[s] = idx[s] /\ seg'[s] = seg[s]
             /\ ok'[s] = ok[s] /\ late'[s] = late[s]
    BY <1>1 DEF TypeOK, TaskNext, fetch, drop_operation, auto_run_operation_wrapper, add_action,
           start_operation, start_action, run_segment, save_action, catch_exception,
           clear_actions, remove_operation, end_task, worker_fails
  <1>3. pc'[t] # "none"
    BY <1>1 DEF TypeOK, TaskNext, fetch, drop_operation, auto_run_operation_wrapper, add_action,
           start_operation, start_action, run_segment, save_action, catch_exception,
           clear_actions, remove_operation, end_task, worker_fails
  <1>4. /\ UNCHANGED form
        /\ \A s \in OpId \ {t} :
             /\ copy'[s] = copy[s] /\ arg'[s] = arg[s] /\ failing'[s] = failing[s]
             /\ unsaved'[s] = unsaved[s]
    <2>1. ASSUME callback(t)
          PROVE  /\ UNCHANGED <<form, arg>>
                 /\ \A s \in OpId \ {t} :
                      copy'[s] = copy[s] /\ failing'[s] = failing[s] /\ unsaved'[s] = unsaved[s]
      <3>1. CASE \/ change_site_name(t) \/ change_site_domains(t) \/ change_site_type(t)
                 \/ update_availability(t) \/ create_database_object(t) \/ update_image_object(t)
        BY <3>1 DEF change_site_name, change_site_domains, change_site_type, update_availability,
           create_database_object, update_image_object, save_new_row, save_site, save_raises, DTypeOK
      <3>2. CASE ~(\/ change_site_name(t) \/ change_site_domains(t) \/ change_site_type(t)
                   \/ update_availability(t) \/ create_database_object(t) \/ update_image_object(t))
        <4>1. UNCHANGED <<form, arg, copy, unsaved>>
          BY <2>1, <3>2 DEF callback, other_callback, update_docker_service, remove_docker_service,
             restart_docker_service, update_appserver_nginx_config, remove_appserver_nginx_config,
             ensure_site_directories_exist, remove_all_site_files_dangerous,
             create_real_site_database, regen_database_password, delete_site_database_and_object
        <4>2. failing' = failing \/ failing' = [failing EXCEPT ![t] = TRUE]
          BY <2>1, <3>2 DEF callback, other_callback, update_docker_service, remove_docker_service,
             restart_docker_service, update_appserver_nginx_config, remove_appserver_nginx_config,
             ensure_site_directories_exist, remove_all_site_files_dangerous,
             create_real_site_database, regen_database_password, delete_site_database_and_object
        <4> QED
          BY <4>1, <4>2 DEF DTypeOK
      <3> QED
        BY <3>1, <3>2
    <2>2. CASE deploy_run(t)
      BY <2>1, <2>2 DEF deploy_run
    <2>3. CASE deploy_wrap(t) \/ deploy_start(t)
      BY <2>3 DEF deploy_wrap, deploy_start, DTypeOK
    <2>4. CASE deploy_fetch(t)
      <3>1. \/ arg' = arg
            \/ \E a \in Args(opType[t]) : arg' = [arg EXCEPT ![t] = a]
        BY <2>4 DEF deploy_fetch
      <3> QED
        BY <2>4, <3>1 DEF deploy_fetch, DTypeOK
    <2>5. CASE UNCHANGED dvars
      BY <2>5
    <2> QED
      BY <2>2, <2>3, <2>4, <2>5 DEF DTask, deploy_save, deploy_end
  <1> QED
    BY <1>2, <1>3, <1>4

LEMMA TaskDTypeInv ==
  ASSUME DTypeInv, NEW t \in OpId, DTask(t)
  PROVE  DTypeInv'
  <1> USE DEF data, remote, local, dvars
  <1>t. TypeOK /\ DTypeOK /\ IInv /\ overtaken' \in BOOLEAN
    BY DEF DTypeInv, IInv, DTask
  <1>0. IInv'
    BY <1>t, TaskStepIsEngineStep, TaskStepIInv
  <1>1. /\ UNCHANGED <<opType, nextOp, req, form>>
        /\ \A s \in OpId \ {t} :
             pc'[s] = pc[s] /\ plan'[s] = plan[s] /\ arg'[s] = arg[s] /\ idx'[s] = idx[s]
        /\ pc'[t] # "none"
    BY <1>t, TaskFrame
  <1>2. CASE deploy_fetch(t)
    <2>1. UNCHANGED <<data, remote, copy, failing, unsaved>>
      BY <1>2 DEF deploy_fetch
    <2>2. CASE pc'[t] = "wrap"
      <3>1. PICK a \in Args(opType[t]) :
              plan'[t] = plan_of(opType[t], row, a) /\ arg' = [arg EXCEPT ![t] = a]
        BY <1>2, <2>2 DEF deploy_fetch
      <3>2. opType[t] \in OpTypes
        BY <1>2, <1>t, <2>2 DEF deploy_fetch, fetch, Become, TypeOK
      <3>3. arg' \in [OpId -> {NoArg} \union UNION {Args(ty) : ty \in OpTypes}]
        BY <1>t, <3>1, <3>2 DEF DTypeOK
      <3>4. arg'[t] = a
        BY <1>t, <3>1 DEF DTypeOK
      <3>5. DTypeOK'
        BY <1>1, <1>t, <2>1, <3>3, <3>4 DEF DTypeOK
      <3>6. Planned(t)'
        BY <1>1, <1>t, <2>1, <3>1, <3>2, <3>4 DEF Planned, DTypeOK
      <3> QED
        BY <1>0, <1>1, <2>2, <3>5, <3>6 DEF DTypeInv, Planned, Started
    <2>3. CASE pc'[t] # "wrap"
      <3>1. pc'[t] \in {"ended", "drop_op"} /\ UNCHANGED arg
        BY <1>2, <1>t, <2>3 DEF deploy_fetch, fetch, Become, TypeOK
      <3>2. DTypeOK'
        BY <1>1, <1>t, <2>1, <3>1 DEF DTypeOK
      <3> QED
        BY <1>0, <1>1, <3>1, <3>2 DEF DTypeInv, Planned, Planning, Started
    <2> QED
      BY <2>2, <2>3
  <1>3. CASE ~deploy_fetch(t)
    <2>1. UNCHANGED arg
      <3>1. callback(t) => UNCHANGED arg
        BY DEF callback, change_site_name, change_site_domains, change_site_type,
           update_availability, create_database_object, update_image_object, other_callback,
           update_docker_service, remove_docker_service, restart_docker_service,
           update_appserver_nginx_config, remove_appserver_nginx_config,
           ensure_site_directories_exist, remove_all_site_files_dangerous,
           create_real_site_database, regen_database_password, delete_site_database_and_object
      <3> QED
        BY <1>3, <3>1 DEF DTask, deploy_wrap, deploy_start, deploy_run, deploy_save, deploy_end
    <2>2. UNCHANGED plan /\ (pc'[t] \in Planning => pc[t] \in Planning)
      BY <1>3, <1>t DEF DTask, deploy_wrap, deploy_start, deploy_run, deploy_save, deploy_end,
         TypeOK, drop_operation, auto_run_operation_wrapper, add_action,
         start_operation, start_action, run_segment, save_action, catch_exception,
         clear_actions, remove_operation, end_task, worker_fails, Become, SameWork, Planning,
         taskVars
    <2>3. DTypeOK'
      <3>1. CASE deploy_run(t)
        BY <1>t, <3>1, CallbackTypeOK
      <3>2. CASE deploy_wrap(t) \/ deploy_start(t)
        BY <1>1, <1>t, <3>2 DEF deploy_wrap, deploy_start, DTypeOK
      <3>3. CASE UNCHANGED dvars
        BY <1>1, <1>t, <3>3 DEF DTypeOK
      <3> QED
        BY <1>3, <3>1, <3>2, <3>3 DEF DTask, deploy_save, deploy_end
    <2>4. Started(t)'
      BY <1>3, <1>t DEF DTask, deploy_wrap, deploy_start, deploy_run, deploy_save, deploy_end,
         TypeOK, drop_operation, auto_run_operation_wrapper, add_action,
         start_operation, start_action, run_segment, save_action, catch_exception,
         clear_actions, remove_operation, end_task, worker_fails, Become, SameWork, Started
    <2> QED
      BY <1>0, <1>1, <2>1, <2>2, <2>3, <2>4 DEF DTypeInv, Planned, Started
  <1> QED
    BY <1>2, <1>3

(* A request changes the Site row and what it has read of it.              *)
LEMMA RequestFrame ==
  ASSUME IInv, DTypeOK, NEW r \in Requests, DRequest(r)
  PROVE  /\ UNCHANGED <<pc, plan, idx, seg, ok, late>>
         /\ UNCHANGED <<databases, nextDb, doubled, customImage, domains, remote, copy, arg, failing, unsaved>>
         /\ \/ UNCHANGED <<row, form>>
            \/ \E n \in Names, ty \in Types : create_view(r) /\ row' = NewSite(n, ty) /\ UNCHANGED form
            \/ UNCHANGED row /\ form' = [form EXCEPT ![r] = {row}]
            \/ UNCHANGED row /\ form' = [form EXCEPT ![r] = {}]
            \/ /\ "edit_meta" \in Views /\ row' \in SiteRow /\ form' = [form EXCEPT ![r] = {}]
               /\ row'.db \in databases \union {NoDb}
         /\ \/ UNCHANGED opType
            \/ nextOp \in OpId /\ create_operation(r)
                 /\ opType' = [opType EXCEPT ![nextOp] = req[r].type]
  <1> USE DEF data, remote, local, dvars, dbVars, taskVars
  <1>1. RequestNext(r) \/ request_fails(r) \/ UNCHANGED vars
    BY RequestStepIsEngineStep
  <1>2. UNCHANGED <<pc, plan, idx, seg, ok, late>>
    BY <1>1 DEF vars, RequestNext, request_fails, create_view, plain_view, image_select_view,
       edit_names_view, override_view, check_recoverable, reset_operations_view,
       operation_delete_fix_view, delete_actions, delete_op, create_operation, delay, fix_sites,
       wait_for_operation, edit_meta_view
  <1>3. \/ UNCHANGED opType
        \/ nextOp \in OpId /\ create_operation(r)
             /\ opType' = [opType EXCEPT ![nextOp] = req[r].type]
    <2>1. CASE create_operation(r)
      <3>1. nextOp \in 1..(MaxOps + 1)
        BY DEF IInv, TypeOK
      <3> QED
        BY <2>1, <3>1, ConstantsAssumption DEF create_operation, OpId
    <2>2. CASE ~create_operation(r)
      BY <1>1, <2>2 DEF vars, RequestNext, request_fails, create_view, plain_view, image_select_view,
         edit_names_view, override_view, check_recoverable, reset_operations_view,
         operation_delete_fix_view, delete_actions, delete_op, delay, fix_sites,
         wait_for_operation, edit_meta_view
    <2> QED
      BY <2>1, <2>2
  <1>4. CASE deploy_create(r)
    BY <1>2, <1>3, <1>4 DEF deploy_create
  <1>5. CASE deploy_request(r)
    BY <1>2, <1>3, <1>5 DEF deploy_request
  <1>6. CASE load_site(r)
    BY <1>2, <1>3, <1>6 DEF load_site
  <1>7. CASE create_database_view(r)
    BY <1>2, <1>3, <1>7 DEF create_database_view
  <1>8. CASE save_meta(r)
    <2>1. PICK s \in SiteRow : form[r] = {s}
      BY <1>8 DEF save_meta, DTypeOK, AtMostOne
    <2>2. \/ s.db \in databases \union {NoDb} /\ row' = s
          \/ UNCHANGED row
      BY <1>8, <2>1 DEF save_meta
    <2> QED
      BY <1>2, <1>3, <1>8, <2>1, <2>2 DEF save_meta
  <1> QED
    BY <1>4, <1>5, <1>6, <1>7, <1>8 DEF DRequest

LEMMA RequestDTypeInv ==
  ASSUME DTypeInv, NEW r \in Requests, DRequest(r)
  PROVE  DTypeInv'
  <1> USE DEF data, remote, local
  <1>t. IInv /\ DTypeOK /\ TypeOK /\ FreshIds /\ overtaken' \in BOOLEAN
    BY DEF DTypeInv, IInv, DRequest
  <1>0. IInv'
    BY <1>t, RequestStepIsEngineStep, RequestStepIInv, StutterIInv
  <1>f. /\ UNCHANGED <<pc, plan, idx, arg>>
        /\ UNCHANGED <<databases, nextDb, doubled, customImage, domains, remote, copy, failing, unsaved>>
        /\ \/ UNCHANGED <<row, form>>
           \/ \E n \in Names, ty \in Types : row' = NewSite(n, ty) /\ UNCHANGED form
           \/ UNCHANGED row /\ form' = [form EXCEPT ![r] = {row}]
           \/ UNCHANGED row /\ form' = [form EXCEPT ![r] = {}]
           \/ row' \in SiteRow /\ form' = [form EXCEPT ![r] = {}]
        /\ \/ UNCHANGED opType
           \/ nextOp \in OpId /\ opType' = [opType EXCEPT ![nextOp] = req[r].type]
    BY <1>t, RequestFrame
  <1>1. row' \in SiteRow /\ form' \in [Requests -> AtMostOne(SiteRow)]
    <2>1. \A n \in Names, ty \in Types : NewSite(n, ty) \in SiteRow
      BY DeploymentAssumption DEF NewSite, SiteRow, Avail, NoDb
    <2>2. \A s \in SiteRow : {s} \in AtMostOne(SiteRow) /\ {} \in AtMostOne(SiteRow)
      BY DeployedType
    <2>3. row \in SiteRow /\ form \in [Requests -> AtMostOne(SiteRow)]
      BY <1>t DEF DTypeOK
    <2> QED
      BY <1>f, <2>1, <2>2, <2>3
  <1>2. \A t \in OpId : pc[t] # "none" => opType'[t] = opType[t]
    <2>1. \A t \in OpId : t = nextOp => pc[t] = "none"
      BY <1>t DEF FreshIds, TypeOK, OpId
    <2> QED
      BY <1>f, <1>t, <2>1 DEF TypeOK
  <1>3. \A t \in OpId : Planned(t)'
    BY <1>2, <1>f DEF DTypeInv, Planned, Planning
  <1>4. \A t \in OpId : arg'[t] \in {NoArg} \union Args(opType'[t])
    BY <1>2, <1>f, <1>t DEF DTypeInv, DTypeOK
  <1>5. DTypeOK'
    BY <1>1, <1>4, <1>f, <1>t DEF DTypeOK
  <1> QED
    BY <1>0, <1>3, <1>5, <1>f DEF DTypeInv, Started

(* Between its two queries nothing moves but the rows and what is unsaved. *)
LEMMA InsertDTypeInv ==
  ASSUME DTypeInv, NEW t \in OpId, insert_row(t)
  PROVE  DTypeInv'
  <1> USE DEF remote
  <1>1. UNCHANGED <<vars, row, domains, remote, copy, arg, failing, form, overtaken>>
    BY DEF insert_row
  <1>2. IInv' /\ DTypeOK /\ MaxDb \in Nat
    BY <1>1, StutterIInv, DeploymentAssumption DEF DTypeInv
  <1> SUFFICES DTypeOK'
    BY <1>1, <1>2 DEF DTypeInv, Planned, Started, vars, dbVars, taskVars
  <1>3. CASE insert_database(t)
    <2>1. nextDb \in 1..MaxDb /\ nextDb + 1 \in 1..(MaxDb + 1) /\ nextDb \in 0..MaxDb
      BY <1>2, <1>3 DEF insert_database, DTypeOK
    <2>2. [copy[t] EXCEPT !.db = nextDb] \in SiteRow
      BY <1>2, <2>1 DEF DTypeOK, SiteRow
    <2>3. unsaved' \in [OpId -> AtMostOne(SiteRow)]
      BY <1>2, <1>3, <2>2, DeployedType DEF insert_database, DTypeOK
    <2>4. doubled' \in BOOLEAN
      BY <1>2, <1>3 DEF insert_database, DTypeOK
    <2> QED
      BY <1>1, <1>2, <1>3, <2>1, <2>3, <2>4 DEF insert_database, DTypeOK, vars, dbVars
  <1>4. CASE insert_image(t)
    <2>1. [copy[t] EXCEPT !.custom = TRUE] \in SiteRow
      BY <1>2 DEF DTypeOK, SiteRow
    <2>2. unsaved' \in [OpId -> AtMostOne(SiteRow)]
      BY <1>2, <1>4, <2>1, DeployedType DEF insert_image, DTypeOK
    <2> QED
      BY <1>1, <1>2, <1>4, <2>2 DEF insert_image, DTypeOK, vars, dbVars
  <1> QED
    BY <1>3, <1>4 DEF insert_row

LEMMA InitDTypeInv == DInit => DTypeInv
  <1> SUFFICES ASSUME DInit PROVE DTypeInv
    OBVIOUS
  <1>1. IInv /\ \A t \in OpId : pc[t] = "none"
    BY InitIInv DEF DInit, Init
  <1>2. row \in SiteRow
    BY DeploymentAssumption DEF DInit, NewSite, SiteRow, Avail, NoDb
  <1>3. DTypeOK
    <2>1. nextDb \in 1..(MaxDb + 1) /\ databases \subseteq 1..MaxDb
      BY DeploymentAssumption DEF DInit
    <2>2. nginx \in AtMostOne([name : Names, type : Types, served : BOOLEAN])
      BY <1>2, DeployedType DEF DInit
    <2>3. service \in AtMostOne([served : BOOLEAN, db : 0..MaxDb, custom : BOOLEAN])
      BY <1>2, DeployedType DEF DInit
    <2>4. {} \in AtMostOne(SiteRow)
      BY <1>2, DeployedType
    <2> QED
      BY <1>2, <2>1, <2>2, <2>3, <2>4 DEF DInit, DTypeOK
  <1> QED
    BY <1>1, <1>3 DEF DTypeInv, Planned, Planning, Started, DInit

LEMMA StutterDTypeInv == DTypeInv /\ UNCHANGED <<vars, dvars, overtaken>> => DTypeInv'
  <1> SUFFICES ASSUME DTypeInv, UNCHANGED <<vars, dvars, overtaken>> PROVE DTypeInv'
    OBVIOUS
  <1>1. IInv'
    BY StutterIInv DEF DTypeInv
  <1>2. DTypeOK'
    BY DEF DTypeInv, DTypeOK, dvars, data, remote, local, vars, dbVars
  <1> QED
    BY <1>1, <1>2 DEF DTypeInv, Planned, Started, dvars, local, vars, dbVars, taskVars

LEMMA StepDTypeInv == DTypeInv /\ [DNext]_<<vars, dvars, overtaken>> => DTypeInv'
  BY TaskDTypeInv, InsertDTypeInv, RequestDTypeInv, StutterDTypeInv DEF DNext

(* Every variable of the deployment has its type, whatever is deployed and *)
(* whichever step of it fails.                                             *)
THEOREM DeploymentTypeCorrect == DSpec => []DTypeOK
  <1>1. DTypeInv => DTypeOK
    BY DEF DTypeInv
  <1> QED
    BY <1>1, InitDTypeInv, StepDTypeInv, PTL DEF DSpec

-----------------------------------------------------------------------------
(* Rows of databases and images stay linked to the site *)

(* A deployment in which nobody resets: one task at a time is at work.     *)
DHoldInv == DTypeInv /\ HoldInv

LEMMA OneAtWork ==
  ASSUME HoldInv, NEW s \in OpId, NEW t \in OpId, pc[s] \in ActivePCs, pc[t] \in ActivePCs
  PROVE  s = t
  BY DEF HoldInv, Holding, IInv, OneOperation

LEMMA InitDHoldInv == DInit => DHoldInv
  BY InitDTypeInv, HoldInitially DEF DInit, DHoldInv

LEMMA StepDHoldInv ==
  ASSUME "reset_operations" \notin Views, DHoldInv, [DNext]_<<vars, dvars, overtaken>>
  PROVE  DHoldInv'
  <1>1. [Next]_vars
    BY TaskStepIsEngineStep, RequestStepIsEngineStep, InsertIsStutter DEF DNext, Next
  <1> QED
    BY <1>1, StepDTypeInv, StepHolds DEF DHoldInv

(* From the moment its wrapper has read the site, a task has a copy of it. *)
Engaged == {"adding", "start", "begin", "run", "save", "catch"}

Unlinking == {"delete_site", "delete_site_database"}

Linked ==
  /\ row.db \in databases \union {NoDb}
  /\ doubled \/ \A d \in databases : d = row.db \/ LeftDatabase(d)
  /\ row.custom => customImage
  /\ customImage => row.custom \/ LeftImage

NotYet == site = "none" => nextOp = 1 /\ databases = {} /\ ~customImage

(* No one else saves the site while a task works, so that its copy stays   *)
(* what the row is, but for the database the task itself has deleted.      *)
CopyIsCurrent(t) ==
  pc[t] \in Engaged =>
    \/ copy[t] = row
    \/ opType[t] \in Unlinking /\ row = [copy[t] EXCEPT !.db = NoDb]

(* A task has nothing unsaved but in the callback that inserts the row and *)
(* after it was cut there; what it is about to save is its copy of the     *)
(* site with the new row.                                                  *)
Unsaved(t) ==
  \A s \in unsaved[t] :
    /\ pc[t] \in {"run", "catch", "post", "ended"}
    /\ pc[t] = "run" =>
         \/ /\ Running(t, "create_database_object")
            /\ s = [copy[t] EXCEPT !.db = s.db]
            /\ s.db \in databases /\ s.db # NoDb
            /\ copy[t].db = NoDb \/ doubled
         \/ /\ Running(t, "update_image_object")
            /\ s = [copy[t] EXCEPT !.custom = TRUE]
            /\ ~copy[t].custom /\ customImage

(* A callback of the plan that needs a database finds one in the copy.     *)
PlanFitsCopy(t) ==
  /\ pc[t] = "wrap" =>
       /\ plan[t] = plan_of(opType[t], row, arg[t])
       /\ opType[t] = "delete_site_database" => row.db # NoDb
  /\ pc[t] \in Engaged =>
       \E s \in SiteRow :
         /\ plan[t] = plan_of(opType[t], s, arg[t])
         /\ s.db # NoDb \/ opType[t] = "delete_site_database" => copy[t].db # NoDb
  /\ (/\ opType[t] = "create_site_database"
      /\ \/ pc[t] \in {"begin", "run", "save", "catch"} /\ idx[t] >= 3
         \/ pc[t] = "save" /\ idx[t] = 2)
       => copy[t].db # NoDb

LinkInv ==
  /\ DHoldInv /\ Linked /\ NotYet
  /\ \A t \in OpId : CopyIsCurrent(t) /\ PlanFitsCopy(t) /\ Unsaved(t)

(* The types of operation the slugs that save the site belong to.          *)
LEMMA SavingTypes ==
  ASSUME DTypeInv, NEW t \in OpId, pc[t] = "run"
  PROVE  /\ plan[t][idx[t]] = "change_site_name" => opType[t] \in {"rename_site", "edit_site_names"}
         /\ plan[t][idx[t]] = "update_availability" => opType[t] = "update_availability"
         /\ plan[t][idx[t]] = "create_database_object" => opType[t] = "create_site_database"
         /\ plan[t][idx[t]] = "update_image_object" => opType[t] = "update_docker_image"
         /\ plan[t][idx[t]] = "delete_site_database_and_object" => opType[t] \in Unlinking
         /\ plan[t][idx[t]] \in {"update_appserver_nginx_config", "ensure_site_directories_exist"}
              => opType[t] # "delete_site"
         /\ plan[t][idx[t]] = "create_real_site_database"
              => opType[t] \in {"create_site_database", "fix_site"}
         /\ plan[t][idx[t]] = "regen_database_password" => opType[t] = "regen_site_secrets"
         /\ idx[t] \in 1..Len(plan[t])
  <1>1. PICK s \in SiteRow : plan[t] = plan_of(opType[t], s, arg[t])
    BY DEF DTypeInv, Planned, Planning
  <1>2. opType[t] \in OpTypes
    BY DEF DTypeInv, Planned, Planning
  <1>3. idx[t] \in 1..Len(plan[t])
    <2>1. idx[t] \in 1..MaxActions /\ Len(plan[t]) \in 1..MaxActions /\ idx[t] <= Len(plan[t])
      BY DEF DTypeInv, IInv, TypeOK, TaskInv, IndexInPlan
    <2> QED
      BY <2>1, ConstantsAssumption
  <1>4. plan[t][idx[t]] \in SlugsOf(opType[t], s)
    BY <1>1, <1>2, <1>3, PlanType
  <1> QED
    BY <1>2, <1>3, <1>4 DEF SlugsOf, OpTypes, DbSlugs, ServiceSlugs, NginxSlugs, WipeSlugs,
       OtherSlugs, Unlinking

(* What the other tasks have left stays as it is.                          *)
LEMMA OthersLeft ==
  ASSUME UNCHANGED opType, NEW t \in OpId, \A s \in OpId \ {t} : unsaved'[s] = unsaved[s],
         NEW d
  PROVE  /\ LeftDatabase(d) => LeftDatabase(d)' \/ \E s \in unsaved[t] : s.db = d
         /\ LeftImage => LeftImage' \/ unsaved[t] # {}
         /\ unsaved'[t] = unsaved[t] =>
              /\ LeftDatabase(d) => LeftDatabase(d)'
              /\ LeftImage => LeftImage'
  BY DEF LeftDatabase, LeftImage

LEMMA CallbackLinks ==
  ASSUME LinkInv, NEW t \in OpId, deploy_run(t)
  PROVE  /\ Linked' /\ CopyIsCurrent(t)' /\ Unsaved(t)'
         /\ copy[t].db # NoDb => copy'[t].db # NoDb
         /\ Running(t, "create_database_object") /\ pc'[t] = "save" => copy'[t].db # NoDb
  <1> USE DEF data, remote, local, dvars
  <1>1. /\ pc[t] = "run" /\ UNCHANGED opType /\ (pc'[t] # "catch" => pc'[t] = "save")
        /\ (\A s \in OpId \ {t} : unsaved'[s] = unsaved[s])
    <2>1. \A s \in OpId \ {t} : unsaved'[s] = unsaved[s]
      BY DEF deploy_run, callback, change_site_name, change_site_domains, change_site_type,
         update_availability, create_database_object, update_image_object, other_callback,
         update_docker_service, remove_docker_service, restart_docker_service,
         update_appserver_nginx_config, remove_appserver_nginx_config,
         ensure_site_directories_exist, remove_all_site_files_dangerous,
         create_real_site_database, regen_database_password, delete_site_database_and_object,
         save_new_row, LinkInv, DHoldInv, DTypeInv, DTypeOK
    <2> QED
      BY <2>1 DEF deploy_run, run_segment, Become, LinkInv, DHoldInv, DTypeInv, IInv, TypeOK
  <1>2. /\ row \in SiteRow /\ copy \in [OpId -> SiteRow] /\ databases \subseteq 1..MaxDb
        /\ nextDb \in 1..(MaxDb + 1) /\ MaxDb \in Nat
        /\ unsaved \in [OpId -> AtMostOne(SiteRow)]
    BY DeploymentAssumption DEF LinkInv, DHoldInv, DTypeInv, DTypeOK
  <1>3. DTypeInv /\ Linked /\ CopyIsCurrent(t) /\ Unsaved(t)
    BY DEF LinkInv, DHoldInv
  <1>4. opType[t] \notin Unlinking => copy[t] = row
    BY <1>1, <1>3 DEF CopyIsCurrent, Engaged
  <1>l. ASSUME UNCHANGED <<databases, doubled, customImage, unsaved>>,
               row'.db = row.db, row'.custom = row.custom
        PROVE  Linked'
    BY <1>1, <1>3, <1>l DEF Linked, LeftDatabase, LeftImage
  <1>e. ASSUME ~Running(t, "create_database_object"), ~Running(t, "update_image_object"),
               UNCHANGED unsaved
        PROVE  Unsaved(t)'
    BY <1>1, <1>3, <1>e DEF Unsaved
  <1>5. ASSUME copy[t] = row, NEW s \in SiteRow, save_site(t, s) \/ save_raises(t),
               s.db = row.db, s.custom = row.custom,
               UNCHANGED <<databases, doubled, customImage, unsaved>>
        PROVE  /\ Linked' /\ CopyIsCurrent(t)' /\ copy'[t].db = copy[t].db
    <2>1. CASE save_site(t, s)
      <3>1. row' = s /\ copy'[t] = s
        BY <1>2, <2>1 DEF save_site
      <3> QED
        BY <1>5, <1>l, <3>1 DEF CopyIsCurrent
    <2>2. CASE save_raises(t)
      BY <1>5, <1>l, <2>2 DEF save_raises, CopyIsCurrent
    <2> QED
      BY <1>5, <2>1, <2>2
  <1>6. CASE change_site_name(t)
    <2>1. copy[t] = row
      BY <1>1, <1>3, <1>4, <1>6, SavingTypes DEF change_site_name, Running, Unlinking
    <2>2. /\ UNCHANGED <<databases, doubled, customImage, unsaved>>
          /\ \/ UNCHANGED <<row, copy>>
             \/ row' = [row EXCEPT !.name = arg[t]] /\ copy' = [copy EXCEPT ![t].name = arg[t]]
      BY <1>6 DEF change_site_name
    <2>3. copy'[t] = row' /\ row'.db = row.db /\ row'.custom = row.custom
      BY <1>2, <2>1, <2>2 DEF SiteRow
    <2>4. ~Running(t, "create_database_object") /\ ~Running(t, "update_image_object")
      BY <1>6 DEF change_site_name, Running
    <2>5. Linked' /\ Unsaved(t)'
      BY <1>e, <1>l, <2>2, <2>3, <2>4
    <2> QED
      BY <2>1, <2>3, <2>4, <2>5 DEF CopyIsCurrent
  <1>7. CASE change_site_type(t)
    <2>1. /\ copy[t] = row
          /\ ~Running(t, "create_database_object") /\ ~Running(t, "update_image_object")
      BY <1>4, <1>7 DEF change_site_type, Unlinking, Running
    <2>2. [copy[t] EXCEPT !.type = arg[t]] \in SiteRow
      BY <1>1, <1>2, <1>3, <1>7, ArgumentType DEF change_site_type, SiteRow, DTypeInv
    <2>3. /\ [copy[t] EXCEPT !.type = arg[t]].db = row.db
          /\ [copy[t] EXCEPT !.type = arg[t]].custom = row.custom
      BY <1>2, <2>1 DEF SiteRow
    <2>4. /\ UNCHANGED <<databases, doubled, customImage, unsaved>>
          /\ save_site(t, [copy[t] EXCEPT !.type = arg[t]]) \/ save_raises(t)
      BY <1>7 DEF change_site_type
    <2> QED
      BY <1>5, <1>e, <2>1, <2>2, <2>3, <2>4
  <1>8. CASE update_availability(t)
    <2>1. /\ copy[t] = row
          /\ ~Running(t, "create_database_object") /\ ~Running(t, "update_image_object")
      BY <1>1, <1>3, <1>4, <1>8, SavingTypes DEF update_availability, Running, Unlinking
    <2>2. [copy[t] EXCEPT !.avail = arg[t]] \in SiteRow
      BY <1>1, <1>2, <1>3, <1>8, ArgumentType DEF update_availability, SiteRow, DTypeInv, Running
    <2>3. /\ [copy[t] EXCEPT !.avail = arg[t]].db = row.db
          /\ [copy[t] EXCEPT !.avail = arg[t]].custom = row.custom
      BY <1>2, <2>1 DEF SiteRow
    <2>4. /\ UNCHANGED <<databases, doubled, customImage, unsaved>>
          /\ save_site(t, [copy[t] EXCEPT !.avail = arg[t]]) \/ save_raises(t)
      BY <1>8 DEF update_availability
    <2> QED
      BY <1>5, <1>e, <2>1, <2>2, <2>3, <2>4
  <1>r. ASSUME copy[t] = row, save_raises(t), UNCHANGED <<databases, doubled, customImage, unsaved>>
        PROVE  /\ Linked' /\ CopyIsCurrent(t)' /\ Unsaved(t)' /\ UNCHANGED copy
    <2>1. UNCHANGED <<row, copy>> /\ pc'[t] = "catch"
      BY <1>r DEF save_raises, Raises
    <2> QED
      BY <1>l, <1>r, <2>1 DEF CopyIsCurrent, Unsaved
  <1>9. CASE create_database_object(t)
    <2>1. copy[t] = row /\ Running(t, "create_database_object")
      BY <1>1, <1>3, <1>4, <1>9, SavingTypes DEF create_database_object, Running, Unlinking
    <2>2. UNCHANGED <<databases, doubled, customImage>>
      BY <1>9 DEF create_database_object
    <2>3. CASE save_raises(t) /\ UNCHANGED unsaved
      <3>1. pc'[t] # "save" /\ UNCHANGED copy
        BY <2>3 DEF save_raises, Raises
      <3> QED
        BY <1>r, <2>1, <2>2, <2>3, <3>1
    <2>4. CASE ~(save_raises(t) /\ UNCHANGED unsaved)
      <3>1. PICK s \in unsaved[t] : save_site(t, s) /\ unsaved' = [unsaved EXCEPT ![t] = {}]
        BY <1>9, <2>4 DEF create_database_object, save_new_row
      <3>2. unsaved[t] = {s}
        BY <1>2, <3>1 DEF AtMostOne
      <3>3. /\ s = [row EXCEPT !.db = s.db] /\ s.db \in databases /\ s.db # NoDb
            /\ row.db = NoDb \/ doubled
        BY <1>1, <1>3, <2>1 DEF Unsaved, Running
      <3>4. row' = s /\ copy'[t] = s /\ unsaved'[t] = {}
        BY <1>2, <3>1 DEF save_site
      <3>5. s.custom = row.custom
        BY <1>2, <3>3 DEF SiteRow
      <3>6. LeftImage => LeftImage'
        <4>1. opType[t] # "update_docker_image"
          BY <1>1, <1>3, <2>1, SavingTypes DEF Running
        <4> QED
          BY <1>1, <4>1 DEF LeftImage
      <3>7. ASSUME NEW d \in databases, ~doubled
            PROVE  d = row'.db \/ LeftDatabase(d)'
        <4>1. d # NoDb
          BY <1>2 DEF NoDb
        <4>2. LeftDatabase(d)
          BY <1>3, <3>3, <3>7, <4>1 DEF Linked
        <4> QED
          BY <1>1, <3>2, <3>4, <4>2, OthersLeft
      <3>8. Linked'
        BY <1>3, <2>2, <3>3, <3>4, <3>5, <3>6, <3>7 DEF Linked
      <3> QED
        BY <3>3, <3>4, <3>8 DEF CopyIsCurrent, Unsaved
    <2> QED
      BY <2>3, <2>4
  <1>10. CASE update_image_object(t)
    <2>1. /\ copy[t] = row /\ Running(t, "update_image_object")
          /\ ~Running(t, "create_database_object")
      BY <1>1, <1>3, <1>4, <1>10, SavingTypes DEF update_image_object, Running, Unlinking
    <2>2. UNCHANGED <<databases, doubled, customImage>>
      BY <1>10 DEF update_image_object
    <2>3. CASE save_raises(t) /\ UNCHANGED unsaved
      BY <1>r, <2>1, <2>2, <2>3
    <2>4. CASE copy[t].custom /\ UNCHANGED <<site, row, copy, unsaved>>
      <3>1. unsaved[t] = {}
        BY <1>1, <1>3, <2>1, <2>4 DEF Unsaved
      <3>2. Linked' /\ CopyIsCurrent(t)'
        BY <1>l, <2>1, <2>2, <2>4 DEF CopyIsCurrent
      <3> QED
        BY <2>1, <2>4, <3>1, <3>2 DEF Unsaved
    <2>5. CASE \E s \in unsaved[t] : save_site(t, s) /\ unsaved' = [unsaved EXCEPT ![t] = {}]
      <3>1. PICK s \in unsaved[t] : save_site(t, s) /\ unsaved' = [unsaved EXCEPT ![t] = {}]
        BY <2>5
      <3>2. s = [row EXCEPT !.custom = TRUE] /\ customImage
        BY <1>1, <1>3, <2>1 DEF Unsaved
      <3>3. row' = s /\ copy'[t] = s /\ unsaved'[t] = {}
        BY <1>2, <3>1 DEF save_site
      <3>4. s.custom /\ s.db = row.db
        BY <1>2, <3>2 DEF SiteRow
      <3>5. \A d : LeftDatabase(d) => LeftDatabase(d)'
        <4>1. opType[t] # "create_site_database"
          BY <1>1, <1>3, <2>1, SavingTypes DEF Running
        <4> QED
          BY <1>1, <4>1 DEF LeftDatabase
      <3>6. Linked'
        BY <1>3, <2>2, <3>2, <3>3, <3>4, <3>5 DEF Linked
      <3> QED
        BY <2>1, <3>3, <3>4, <3>6 DEF CopyIsCurrent, Unsaved
    <2> QED
      BY <1>10, <2>3, <2>4, <2>5 DEF update_image_object, save_new_row
  <1>11. CASE delete_site_database_and_object(t)
    <2>1. /\ opType[t] \in Unlinking
          /\ ~Running(t, "create_database_object") /\ ~Running(t, "update_image_object")
      BY <1>1, <1>3, <1>11, SavingTypes DEF delete_site_database_and_object, Running
    <2>2. UNCHANGED <<copy, doubled, customImage, unsaved>> /\ Unsaved(t)'
      BY <1>11, <1>e, <2>1 DEF delete_site_database_and_object
    <2>3. CASE UNCHANGED <<row, databases>>
      BY <1>1, <1>3, <1>l, <2>1, <2>2, <2>3 DEF CopyIsCurrent, Engaged
    <2>4. CASE /\ databases' = databases \ {copy[t].db}
               /\ row' = IF row.db = copy[t].db THEN [row EXCEPT !.db = NoDb] ELSE row
      <3>1. copy[t] = row \/ row = [copy[t] EXCEPT !.db = NoDb]
        BY <1>1, <1>3 DEF CopyIsCurrent, Engaged
      <3>2. row' = [copy[t] EXCEPT !.db = NoDb] /\ row'.db = NoDb /\ row'.custom = row.custom
        BY <1>2, <2>4, <3>1 DEF SiteRow, NoDb
      <3>3. ASSUME NEW d \in databases', ~doubled'
            PROVE  d = row'.db \/ LeftDatabase(d)'
        <4>1. d \in databases /\ d # copy[t].db /\ d # NoDb
          BY <1>2, <2>4 DEF NoDb
        <4>2. d # row.db
          BY <1>2, <3>1, <4>1 DEF SiteRow
        <4> QED
          BY <1>1, <1>3, <2>2, <3>3, <4>1, <4>2 DEF Linked, LeftDatabase
      <3>4. LeftImage => LeftImage'
        BY <1>1, <2>2 DEF LeftImage
      <3>5. Linked'
        BY <1>3, <2>2, <3>2, <3>3, <3>4 DEF Linked
      <3> QED
        BY <1>1, <2>1, <2>2, <3>2, <3>5 DEF CopyIsCurrent
    <2> QED
      BY <1>11, <2>3, <2>4 DEF delete_site_database_and_object
  <1>12. ASSUME UNCHANGED <<row, databases, doubled, customImage, copy, unsaved>>,
                ~Running(t, "create_database_object"), ~Running(t, "update_image_object")
         PROVE  /\ Linked' /\ CopyIsCurrent(t)' /\ Unsaved(t)'
                /\ copy[t].db # NoDb => copy'[t].db # NoDb
                /\ Running(t, "create_database_object") /\ pc'[t] = "save" => copy'[t].db # NoDb
    BY <1>1, <1>3, <1>e, <1>l, <1>12 DEF CopyIsCurrent, Engaged
  <1>13. CASE \/ update_docker_service(t) \/ remove_docker_service(t) \/ restart_docker_service(t)
              \/ update_appserver_nginx_config(t) \/ remove_appserver_nginx_config(t)
              \/ ensure_site_directories_exist(t) \/ remove_all_site_files_dangerous(t)
              \/ create_real_site_database(t) \/ regen_database_password(t)
              \/ change_site_domains(t) \/ other_callback(t)
    BY <1>12, <1>13 DEF update_docker_service, remove_docker_service, restart_docker_service,
       update_appserver_nginx_config, remove_appserver_nginx_config,
       ensure_site_directories_exist, remove_all_site_files_dangerous, create_real_site_database,
       regen_database_password, change_site_domains, other_callback, Running
  <1> QED
    BY <1>6, <1>7, <1>8, <1>9, <1>10, <1>11, <1>13 DEF deploy_run, callback

LEMMA DatabasePlan ==
  ASSUME NEW s \in SiteRow, NEW a
  PROVE  /\ plan_of("create_site_database", s, a)[1] = "find_pingable_appservers"
         /\ plan_of("create_site_database", s, a)[2] = "create_database_object"
  <1>1. plan_of("create_site_database", s, a)
          = <<"find_pingable_appservers">>
              \o <<"create_database_object", "create_real_site_database">>
              \o When(s.type = "dynamic", "update_docker_service")
    BY DEF plan_of, create_database_plan, Ping, Service
  <1>2. CASE s.type = "dynamic"
    BY <1>1, <1>2 DEF When
  <1>3. CASE s.type # "dynamic"
    BY <1>1, <1>3 DEF When
  <1> QED
    BY <1>2, <1>3

(* What a task step does to the others: while it works, they do not.       *)
LEMMA OthersLinked ==
  ASSUME LinkInv, NEW t \in OpId, DTask(t),
         UNCHANGED <<row, databases, doubled, customImage>> \/ pc[t] \in ActivePCs,
         NEW s \in OpId \ {t}
  PROVE  CopyIsCurrent(s)' /\ PlanFitsCopy(s)' /\ Unsaved(s)'
  <1>1. /\ opType'[s] = opType[s] /\ pc'[s] = pc[s] /\ plan'[s] = plan[s] /\ idx'[s] = idx[s]
        /\ copy'[s] = copy[s] /\ arg'[s] = arg[s] /\ unsaved'[s] = unsaved[s]
    BY TaskFrame DEF LinkInv, DHoldInv, DTypeInv, IInv
  <1>2. CopyIsCurrent(s) /\ PlanFitsCopy(s) /\ Unsaved(s)
    BY DEF LinkInv
  <1>3. CASE UNCHANGED <<row, databases, doubled, customImage>>
    BY <1>1, <1>2, <1>3 DEF CopyIsCurrent, PlanFitsCopy, Unsaved, Running
  <1>4. CASE pc[t] \in ActivePCs
    <2>1. pc[s] \notin ActivePCs
      BY <1>4, OneAtWork DEF LinkInv, DHoldInv
    <2>2. pc'[s] # "run" /\ Unsaved(s)'
      BY <1>1, <1>2, <2>1 DEF Unsaved, ActivePCs
    <2> QED
      BY <1>1, <2>1, <2>2 DEF CopyIsCurrent, PlanFitsCopy, ActivePCs, Engaged
  <1> QED
    BY <1>3, <1>4

LEMMA NoTaskBefore ==
  ASSUME LinkInv, NEW t \in OpId, DTask(t)
  PROVE  site # "none" /\ site' # "none"
  <1> USE DEF Become, SameWork, dbVars, taskVars
  <1>1. TaskNext(t) \/ worker_fails(t)
    BY TaskStepIsEngineStep
  <1>2. TypeOK /\ FreshIds
    BY DEF LinkInv, DHoldInv, HoldInv, IInv
  <1>3. t \in broker \/ pc[t] # "none"
    BY <1>1 DEF TaskNext, fetch, drop_operation, auto_run_operation_wrapper, add_action,
           start_operation, start_action, run_segment, save_action, catch_exception,
           clear_actions, remove_operation, end_task, worker_fails
  <1>4. nextOp # 1
    BY <1>2, <1>3, ConstantsAssumption DEF FreshIds, OpId
  <1>5. site # "none"
    BY <1>4 DEF LinkInv, NotYet
  <1>6. site' \in {site, "present", "deleted"}
    BY <1>1 DEF TaskNext, fetch, drop_operation, auto_run_operation_wrapper, add_action,
           start_operation, start_action, run_segment, save_action, catch_exception,
           clear_actions, remove_operation, end_task, worker_fails
  <1> QED
    BY <1>5, <1>6

LEMMA TaskLinks ==
  ASSUME LinkInv, DHoldInv', NEW t \in OpId, DTask(t)
  PROVE  LinkInv'
  <1> USE DEF data, remote, local, dvars
  <1>t. /\ TypeOK /\ DTypeOK /\ Linked /\ TypeOK' /\ Started(t)
        /\ CopyIsCurrent(t) /\ PlanFitsCopy(t) /\ Unsaved(t)
    BY DEF LinkInv, DHoldInv, DTypeInv, IInv
  <1>n. NotYet'
    BY NoTaskBefore DEF NotYet
  <1>o. opType'[t] = opType[t]
    BY <1>t, TaskFrame
  <1>1. ASSUME Linked', CopyIsCurrent(t)', PlanFitsCopy(t)', Unsaved(t)',
               UNCHANGED <<row, databases, doubled, customImage>> \/ pc[t] \in ActivePCs
        PROVE  LinkInv'
    BY <1>1, <1>n, OthersLinked DEF LinkInv
  <1>f. UNCHANGED opType
    BY <1>t, TaskFrame
  <1>l. ASSUME UNCHANGED <<row, databases, doubled, customImage, unsaved>>
        PROVE  Linked'
    BY <1>f, <1>l, <1>t DEF Linked, LeftDatabase, LeftImage
  <1>u. ASSUME UNCHANGED unsaved,
               \/ pc[t] \notin {"run", "catch", "post", "ended"}
               \/ pc'[t] \in {"catch", "post", "ended"}
        PROVE  Unsaved(t)'
    BY <1>t, <1>u DEF Unsaved
  <1>2. CASE deploy_fetch(t)
    <2>1. UNCHANGED <<row, databases, doubled, customImage, copy, unsaved>> /\ Linked'
      BY <1>2, <1>l DEF deploy_fetch
    <2>2. pc'[t] \in {"ended", "wrap", "drop_op"} /\ Unsaved(t)'
      <3>1. pc[t] = "none"
        BY <1>2 DEF deploy_fetch, fetch, LinkInv, DHoldInv, DTypeInv, IInv, QueuedOnce
      <3> QED
        BY <1>2, <1>t, <1>u, <2>1, <3>1 DEF deploy_fetch, fetch, Become, TypeOK
    <2>3. CASE pc'[t] = "wrap"
      <3>1. opType[t] = "delete_site_database" => row.db # NoDb
        BY <1>2, <2>3 DEF deploy_fetch
      <3>2. PICK a \in Args(opType[t]) :
              plan'[t] = plan_of(opType[t], row, a) /\ arg' = [arg EXCEPT ![t] = a]
        BY <1>2, <2>3 DEF deploy_fetch
      <3>3. arg'[t] = a
        BY <1>t, <3>2 DEF DTypeOK
      <3>4. PlanFitsCopy(t)' /\ CopyIsCurrent(t)'
        BY <1>o, <2>1, <2>3, <3>1, <3>2, <3>3 DEF PlanFitsCopy, CopyIsCurrent, Engaged
      <3> QED
        BY <1>1, <2>1, <2>2, <3>4
    <2>4. CASE pc'[t] # "wrap"
      <3>1. PlanFitsCopy(t)' /\ CopyIsCurrent(t)'
        BY <2>2, <2>4 DEF PlanFitsCopy, CopyIsCurrent, Engaged
      <3> QED
        BY <1>1, <2>1, <2>2, <3>1
    <2> QED
      BY <2>3, <2>4
  <1>3. CASE deploy_wrap(t)
    <2>1. UNCHANGED <<row, databases, doubled, customImage, unsaved, arg, plan>> /\ Linked'
      BY <1>3, <1>l DEF deploy_wrap, auto_run_operation_wrapper, SameWork
    <2>2. pc[t] = "wrap" /\ pc'[t] \in {"adding", "ended"}
      BY <1>3, <1>t DEF deploy_wrap, auto_run_operation_wrapper, Become, TypeOK
    <2>3. pc'[t] = "adding" => copy'[t] = row
      BY <1>3, <1>t DEF deploy_wrap, DTypeOK
    <2>4. row \in SiteRow
      BY <1>t DEF DTypeOK
    <2>5. PlanFitsCopy(t)'
      BY <1>o, <1>t, <2>1, <2>2, <2>3, <2>4 DEF PlanFitsCopy, Engaged
    <2>6. CopyIsCurrent(t)'
      BY <2>1, <2>2, <2>3 DEF CopyIsCurrent, Engaged
    <2>7. Unsaved(t)'
      BY <1>u, <2>1, <2>2
    <2> QED
      BY <1>1, <2>1, <2>5, <2>6, <2>7
  <1>4. CASE deploy_run(t)
    <2>1. /\ Linked' /\ CopyIsCurrent(t)' /\ Unsaved(t)'
          /\ copy[t].db # NoDb => copy'[t].db # NoDb
          /\ Running(t, "create_database_object") /\ pc'[t] = "save" => copy'[t].db # NoDb
      BY <1>4, CallbackLinks
    <2>2. pc[t] = "run" /\ pc'[t] \in {"save", "catch"} /\ UNCHANGED <<plan, idx>>
      BY <1>4, <1>t DEF deploy_run, run_segment, Become, SameWork, TypeOK
    <2>3. UNCHANGED arg
      BY <1>4 DEF deploy_run, callback, change_site_name, change_site_domains, change_site_type,
           update_availability, create_database_object, update_image_object, other_callback,
           update_docker_service, remove_docker_service, restart_docker_service,
           update_appserver_nginx_config, remove_appserver_nginx_config,
           ensure_site_directories_exist, remove_all_site_files_dangerous,
           create_real_site_database, regen_database_password, delete_site_database_and_object
    <2>4. PICK s \in SiteRow :
            /\ plan[t] = plan_of(opType[t], s, arg[t])
            /\ s.db # NoDb \/ opType[t] = "delete_site_database" => copy[t].db # NoDb
      BY <1>t, <2>2 DEF PlanFitsCopy, Engaged
    <2>5. opType[t] = "create_site_database" /\ idx[t] = 2 => Running(t, "create_database_object")
      BY <2>4, DatabasePlan DEF Running
    <2>6. PlanFitsCopy(t)'
      BY <1>o, <1>t, <2>1, <2>2, <2>3, <2>4, <2>5 DEF PlanFitsCopy, Engaged
    <2> QED
      BY <1>1, <2>1, <2>2, <2>6 DEF ActivePCs
  <1>5. CASE ~deploy_fetch(t) /\ ~deploy_wrap(t) /\ ~deploy_run(t)
    <2>1. UNCHANGED <<row, databases, doubled, customImage, unsaved, copy, arg>> /\ Linked'
      BY <1>5, <1>l DEF DTask, deploy_start, deploy_save, deploy_end
    <2>4. Unsaved(t)'
      <3>1. \/ pc[t] \notin {"run", "catch", "post", "ended"}
            \/ pc'[t] \in {"catch", "post", "ended"}
        BY <1>5, <1>t DEF DTask, deploy_start, deploy_save, deploy_end, TypeOK, drop_operation,
           add_action, start_operation, start_action, save_action, catch_exception,
           clear_actions, remove_operation, end_task, worker_fails, Become
      <3> QED
        BY <1>u, <2>1, <3>1
    <2>2. UNCHANGED plan
      BY <1>5 DEF DTask, deploy_start, deploy_save, deploy_end, drop_operation, add_action,
         start_operation, start_action, save_action, catch_exception, clear_actions,
         remove_operation, end_task, worker_fails, SameWork, taskVars
    <2>3. CopyIsCurrent(t)' /\ PlanFitsCopy(t)'
      <3>1. ASSUME pc'[t] \in Engaged => pc[t] \in Engaged, pc'[t] # "wrap",
                   \/ pc'[t] \notin {"begin", "run", "save", "catch"}
                   \/ pc[t] \in {"begin", "run", "save", "catch"} /\ pc'[t] # "save" /\ idx'[t] = idx[t]
                   \/ pc'[t] = "begin" /\ idx'[t] = 1
                   \/ pc[t] = "save" /\ pc'[t] = "begin" /\ idx'[t] = idx[t] + 1
            PROVE  CopyIsCurrent(t)' /\ PlanFitsCopy(t)'
        <4>1. CopyIsCurrent(t)'
          BY <1>o, <1>t, <2>1, <3>1 DEF CopyIsCurrent
        <4>2. idx[t] \in Nat
          BY <1>t, ConstantsAssumption DEF TypeOK
        <4>3. (/\ opType[t] = "create_site_database"
               /\ pc'[t] \in {"begin", "run", "save", "catch"} /\ idx'[t] >= 3)
                => copy[t].db # NoDb
          BY <1>t, <3>1, <4>2 DEF PlanFitsCopy
        <4>4. pc'[t] = "save" => FALSE
          BY <3>1
        <4> QED
          BY <1>o, <1>t, <2>1, <2>2, <3>1, <4>1, <4>3, <4>4 DEF PlanFitsCopy
      <3>2. CASE deploy_start(t)
        <4>1. pc[t] = "begin" /\ pc'[t] \in {"run", "catch"} /\ idx'[t] = idx[t]
          BY <1>t, <3>2 DEF deploy_start, start_action, Become, TypeOK
        <4> QED
          BY <3>1, <4>1 DEF Engaged
      <3>3. CASE deploy_save(t)
        <4>1. /\ pc[t] = "save"
              /\ \/ pc'[t] \in {"catch", "run"} /\ idx'[t] = idx[t]
                 \/ pc'[t] = "begin" /\ idx'[t] = idx[t] + 1
                 \/ pc'[t] = "clear"
          BY <1>t, <3>3 DEF deploy_save, save_action, Become, TypeOK
        <4> QED
          BY <3>1, <4>1 DEF Engaged
      <3>4. CASE add_action(t)
        <4>1. pc[t] = "adding" /\ pc'[t] \in {"adding", "ended", "start"}
          BY <1>t, <3>4 DEF add_action, Become, TypeOK
        <4> QED
          BY <3>1, <4>1 DEF Engaged
      <3>5. CASE start_operation(t)
        <4>1. pc[t] = "start" /\ pc'[t] \in {"begin", "ended"} /\ idx'[t] = idx[t]
          BY <1>t, <3>5 DEF start_operation, Become, SameWork, TypeOK
        <4>2. idx[t] = 1
          BY <1>t, <4>1 DEF Started
        <4> QED
          BY <3>1, <4>1, <4>2 DEF Engaged
      <3>6. CASE \/ drop_operation(t) \/ catch_exception(t) \/ clear_actions(t)
                 \/ remove_operation(t) \/ worker_fails(t) \/ deploy_end(t)
        <4>1. pc'[t] \in {"ended", "post", "remove"}
          BY <1>t, <3>6 DEF drop_operation, catch_exception, clear_actions, remove_operation,
             worker_fails, deploy_end, end_task, Become, TypeOK
        <4> QED
          BY <3>1, <4>1 DEF Engaged
      <3> QED
        BY <1>5, <3>2, <3>3, <3>4, <3>5, <3>6 DEF DTask
    <2> QED
      BY <1>1, <2>1, <2>3, <2>4
  <1> QED
    BY <1>2, <1>3, <1>4, <1>5

(* The new row belongs to the task until it has saved the site.            *)
LEMMA InsertLinks ==
  ASSUME LinkInv, DHoldInv', NEW t \in OpId, insert_row(t)
  PROVE  LinkInv'
  <1> USE DEF remote
  <1>1. /\ pc[t] = "run" /\ unsaved[t] = {}
        /\ UNCHANGED <<vars, row, domains, copy, arg, failing, form, overtaken>>
    BY DEF insert_row
  <1>2. /\ UNCHANGED <<site, nextOp, opType, pc, plan, idx>>
    BY <1>1 DEF vars, dbVars, taskVars
  <1>3. /\ row \in SiteRow /\ copy \in [OpId -> SiteRow] /\ databases \subseteq 1..MaxDb
        /\ nextDb \in 1..(MaxDb + 1) /\ MaxDb \in Nat
        /\ unsaved \in [OpId -> AtMostOne(SiteRow)]
    BY DeploymentAssumption DEF LinkInv, DHoldInv, DTypeInv, DTypeOK
  <1>4. /\ DTypeInv /\ Linked /\ CopyIsCurrent(t) /\ Unsaved(t) /\ site # "none"
    <2>1. t < nextOp
      BY <1>1 DEF LinkInv, DHoldInv, DTypeInv, IInv, FreshIds, TypeOK, OpId
    <2> QED
      BY <2>1 DEF LinkInv, DHoldInv, NotYet, OpId
  <1>5. /\ plan[t][idx[t]] = "create_database_object" => opType[t] = "create_site_database"
        /\ plan[t][idx[t]] = "update_image_object" => opType[t] = "update_docker_image"
    BY <1>1, <1>4, SavingTypes
  <1>6. copy[t] = row
    BY <1>1, <1>4, <1>5 DEF CopyIsCurrent, Engaged, Unlinking, insert_row, insert_database,
       insert_image, Running
  <1>7. ASSUME NEW s \in OpId \ {t}, unsaved'[s] = unsaved[s]
        PROVE  Unsaved(s)'
    <2>1. pc[s] # "run"
      BY <1>1, OneAtWork DEF LinkInv, DHoldInv, ActivePCs
    <2> QED
      BY <1>2, <1>7, <2>1 DEF LinkInv, Unsaved
  <1>8. CASE insert_database(t)
    <2>1. /\ Running(t, "create_database_object") /\ nextDb \in 1..MaxDb
          /\ databases' = databases \union {nextDb}
          /\ doubled' = (doubled \/ copy[t].db # NoDb)
          /\ unsaved' = [unsaved EXCEPT ![t] = {[copy[t] EXCEPT !.db = nextDb]}]
          /\ UNCHANGED customImage
      BY <1>3, <1>8 DEF insert_database
    <2>2. /\ unsaved'[t] = {[copy[t] EXCEPT !.db = nextDb]}
          /\ \A s \in OpId \ {t} : unsaved'[s] = unsaved[s]
      BY <1>3, <2>1
    <2>3. [copy[t] EXCEPT !.db = nextDb].db = nextDb /\ nextDb # NoDb
      BY <1>3, <2>1 DEF SiteRow, NoDb
    <2>4. opType[t] = "create_site_database"
      BY <1>5, <2>1 DEF Running
    <2>5. Unsaved(t)'
      BY <1>1, <1>2, <2>1, <2>2, <2>3 DEF Unsaved, Running
    <2>6. /\ LeftImage => LeftImage'
          /\ \A d : LeftDatabase(d) \/ d = nextDb => LeftDatabase(d)'
      BY <1>1, <1>2, <2>2, <2>3, <2>4 DEF LeftDatabase, LeftImage
    <2>7. Linked'
      BY <1>1, <1>4, <2>1, <2>6 DEF Linked
    <2> QED
      BY <1>1, <1>2, <1>4, <1>7, <2>2, <2>5, <2>7
         DEF LinkInv, NotYet, CopyIsCurrent, PlanFitsCopy
  <1>9. CASE insert_image(t)
    <2>1. /\ Running(t, "update_image_object") /\ ~copy[t].custom /\ customImage' = TRUE
          /\ unsaved' = [unsaved EXCEPT ![t] = {[copy[t] EXCEPT !.custom = TRUE]}]
          /\ UNCHANGED <<databases, doubled>>
      BY <1>9 DEF insert_image
    <2>2. /\ unsaved'[t] = {[copy[t] EXCEPT !.custom = TRUE]}
          /\ \A s \in OpId \ {t} : unsaved'[s] = unsaved[s]
      BY <1>3, <2>1
    <2>4. opType[t] = "update_docker_image"
      BY <1>5, <2>1 DEF Running
    <2>5. Unsaved(t)'
      BY <1>1, <1>2, <2>1, <2>2 DEF Unsaved, Running
    <2>6. LeftImage' /\ \A d : LeftDatabase(d) => LeftDatabase(d)'
      BY <1>1, <1>2, <2>2, <2>4 DEF LeftDatabase, LeftImage
    <2>7. Linked'
      BY <1>1, <1>4, <2>1, <2>6 DEF Linked
    <2> QED
      BY <1>1, <1>2, <1>4, <1>7, <2>2, <2>5, <2>7
         DEF LinkInv, NotYet, CopyIsCurrent, PlanFitsCopy
  <1> QED
    BY <1>8, <1>9 DEF insert_row

LEMMA RequestLinks ==
  ASSUME "edit_meta" \notin Views, LinkInv, DHoldInv', NEW r \in Requests, DRequest(r)
  PROVE  LinkInv'
  <1>t. IInv /\ DTypeOK /\ TypeOK /\ FreshIds /\ NotYet /\ Linked
    BY DEF LinkInv, DHoldInv, DTypeInv, IInv
  <1>1. /\ UNCHANGED <<pc, plan, idx>>
        /\ UNCHANGED <<databases, doubled, customImage, unsaved, copy, arg>>
        /\ \/ UNCHANGED row
           \/ \E n \in Names, ty \in Types : create_view(r) /\ row' = NewSite(n, ty)
        /\ \/ UNCHANGED opType
           \/ nextOp \in OpId /\ create_operation(r)
                /\ opType' = [opType EXCEPT ![nextOp] = req[r].type]
    BY <1>t, RequestFrame
  <1>2. \A t \in OpId : pc[t] # "none" => opType'[t] = opType[t]
    <2>1. \A t \in OpId : t = nextOp => pc[t] = "none"
      BY <1>t DEF FreshIds, TypeOK, OpId
    <2> QED
      BY <1>1, <1>t, <2>1 DEF TypeOK
  <1>3. NotYet'
    <2>1. RequestNext(r) \/ request_fails(r) \/ UNCHANGED vars
      BY RequestStepIsEngineStep
    <2>2. site' = "none" => site = "none" /\ UNCHANGED nextOp
      BY <2>1 DEF vars, dbVars, taskVars, RequestNext, request_fails, create_view, plain_view,
       image_select_view, edit_names_view, override_view, check_recoverable, reset_operations_view,
       operation_delete_fix_view, delete_actions, delete_op, create_operation, operation_allowed,
       delay, fix_sites, wait_for_operation, edit_meta_view
    <2> QED
      BY <1>1, <1>t, <2>2 DEF NotYet
  <1>u. \A t \in OpId : Unsaved(t) /\ Unsaved(t)'
    BY <1>1 DEF LinkInv, Unsaved, Running
  <1>4. CASE UNCHANGED row
    <2>1. Linked'
      <3>1. \A t \in OpId : unsaved[t] # {} => opType'[t] = opType[t]
        BY <1>2, <1>u DEF Unsaved
      <3>2. (LeftImage => LeftImage') /\ \A d : LeftDatabase(d) => LeftDatabase(d)'
        BY <1>1, <3>1 DEF LeftDatabase, LeftImage
      <3> QED
        BY <1>1, <1>4, <1>t, <3>2 DEF Linked
    <2>2. ASSUME NEW t \in OpId
          PROVE  CopyIsCurrent(t)' /\ PlanFitsCopy(t)' /\ Unsaved(t)'
      <3>1. CopyIsCurrent(t) /\ PlanFitsCopy(t)
        BY DEF LinkInv
      <3>2. CASE pc[t] = "none"
        BY <1>1, <1>u, <3>2 DEF CopyIsCurrent, PlanFitsCopy, Engaged
      <3>3. CASE pc[t] # "none"
        BY <1>1, <1>2, <1>4, <1>u, <3>1, <3>3 DEF CopyIsCurrent, PlanFitsCopy
      <3> QED
        BY <3>2, <3>3
    <2> QED
      BY <1>3, <2>1, <2>2 DEF LinkInv
  <1>5. CASE \E n \in Names, ty \in Types : create_view(r) /\ row' = NewSite(n, ty)
    <2>1. site = "none"
      BY <1>5 DEF create_view
    <2>2. nextOp = 1 /\ databases = {} /\ ~customImage
      BY <1>t, <2>1 DEF NotYet
    <2>3. \A t \in OpId : pc[t] = "none"
      BY <1>t, <2>2 DEF FreshIds, OpId
    <2>4. row'.db = NoDb /\ ~row'.custom
      BY <1>5 DEF NewSite
    <2>5. Linked'
      BY <1>1, <2>2, <2>4 DEF Linked
    <2> QED
      BY <1>1, <1>3, <1>u, <2>3, <2>5 DEF LinkInv, CopyIsCurrent, PlanFitsCopy, Engaged
  <1> QED
    BY <1>1, <1>4, <1>5

LEMMA InitLinkInv == DInit => LinkInv
  <1> SUFFICES ASSUME DInit PROVE LinkInv
    OBVIOUS
  <1>1. \A t \in OpId : pc[t] = "none"
    BY DEF DInit, Init
  <1>2. row.db = NoDb /\ ~row.custom
    BY DEF DInit, NewSite
  <1>3. Linked /\ NotYet
    BY <1>2 DEF DInit, Init, Linked, NotYet
  <1> QED
    BY <1>1, <1>3, InitDHoldInv DEF DInit, LinkInv, CopyIsCurrent, PlanFitsCopy, Unsaved, Engaged

LEMMA StepLinkInv ==
  ASSUME "reset_operations" \notin Views, "edit_meta" \notin Views,
         LinkInv, [DNext]_<<vars, dvars, overtaken>>
  PROVE  LinkInv'
  <1>1. DHoldInv'
    BY StepDHoldInv DEF LinkInv
  <1>2. CASE UNCHANGED <<vars, dvars, overtaken>>
    BY <1>1, <1>2 DEF LinkInv, Linked, LeftDatabase, LeftImage, NotYet, CopyIsCurrent,
       PlanFitsCopy, Unsaved, Running, vars, dbVars, taskVars, dvars, data, local
  <1> QED
    BY <1>1, <1>2, TaskLinks, InsertLinks, RequestLinks DEF DNext

(* While nobody resets and no stale form is saved, every Database row and  *)
(* the image row belong to the site, so that delete_database, delete_site  *)
(* and update_image_object find them; but for a row whose own task was cut *)
(* between the query that inserts it and the save() that links it.  No     *)
(* other failure and no other task, before or after, leaves one behind.    *)
THEOREM RowsStayLinked ==
  ASSUME "reset_operations" \notin Views, "edit_meta" \notin Views
  PROVE  DSpec => []RowsAreLinked
  <1>1. LinkInv /\ [DNext]_<<vars, dvars, overtaken>> => LinkInv'
    BY StepLinkInv
  <1>2. LinkInv => RowsAreLinked
    BY DEF LinkInv, Linked, RowsAreLinked, NoOrphanDatabase, ImageLinked
  <1> QED
    BY <1>1, <1>2, InitLinkInv, PTL DEF DSpec

(* Under the same conditions the assertions of the callbacks that need a   *)
(* database hold, although the plan was made for an earlier instance.      *)
THEOREM DatabaseIsThere ==
  ASSUME "reset_operations" \notin Views, "edit_meta" \notin Views
  PROVE  DSpec => []DatabaseAsserted
  <1>1. LinkInv /\ [DNext]_<<vars, dvars, overtaken>> => LinkInv'
    BY StepLinkInv
  <1>2. LinkInv => DatabaseAsserted
    <2> SUFFICES ASSUME LinkInv, NEW t \in OpId, pc[t] = "run",
                        plan[t][idx[t]] \in {"create_real_site_database",
                          "regen_database_password", "delete_site_database_and_object"}
                 PROVE  copy[t].db # NoDb
      BY DEF DatabaseAsserted
    <2>1. PlanFitsCopy(t) /\ DTypeInv
      BY DEF LinkInv, DHoldInv
    <2>2. PICK s \in SiteRow :
            /\ plan[t] = plan_of(opType[t], s, arg[t])
            /\ s.db # NoDb \/ opType[t] = "delete_site_database" => copy[t].db # NoDb
      BY <2>1 DEF PlanFitsCopy, Engaged
    <2>3. opType[t] \in OpTypes /\ idx[t] \in 1..Len(plan[t])
      BY <2>1, SavingTypes DEF DTypeInv, Planned, Planning
    <2>4. CASE opType[t] = "create_site_database"
      <3>1. idx[t] # 1 /\ idx[t] # 2
        BY <2>2, <2>4, DatabasePlan
      <3>2. idx[t] >= 3
        BY <2>3, <3>1
      <3> QED
        BY <2>1, <2>4, <3>2 DEF PlanFitsCopy
    <2>5. CASE opType[t] # "create_site_database"
      <3>1. plan[t][idx[t]] \in SlugsOf(opType[t], s)
        BY <2>2, <2>3, PlanType
      <3>2. s.db # NoDb \/ opType[t] = "delete_site_database"
        BY <2>3, <2>5, <3>1 DEF SlugsOf, OpTypes, DbSlugs, ServiceSlugs, NginxSlugs, WipeSlugs,
           OtherSlugs
      <3> QED
        BY <2>2, <3>2
    <2> QED
      BY <2>4, <2>5
  <1> QED
    BY <1>1, <1>2, InitLinkInv, PTL DEF DSpec

-----------------------------------------------------------------------------
(* What delete_site leaves behind *)

(* What the callbacks of delete_site achieve.                              *)
Achieved(slug) ==
  /\ slug = "remove_docker_service" => service = {}
  /\ slug = "remove_appserver_nginx_config" => nginx = {}
  /\ slug = "remove_all_site_files_dangerous" => ~files

Wiped == service = {} /\ nginx = {} /\ ~files

(* The action is over, or its callback has done its (first) segment.       *)
Passed(t, i) ==
  \/ i < idx[t]
  \/ i = idx[t] /\ (pc[t] = "save" \/ (pc[t] = "run" /\ seg[t] # 1))

WipeProgress(t) ==
  opType[t] = "delete_site" /\ pc[t] \in {"begin", "run", "save"} =>
    \A i \in 1..Len(plan[t]) : Passed(t, i) => Achieved(plan[t][i])

(* A delete_site that succeeded, until another operation is inserted.      *)
StaysWiped(t) ==
  opType[t] = "delete_site" /\ (pc[t] = "clear" \/ ok[t]) /\ nextOp = t + 1 =>
    Wiped /\ opRows \subseteq {t}

(* What is known between the two segments of a callback.                   *)
BetweenSegments(t) ==
  (pc[t] = "save" /\ seg[t] = 1) \/ (pc[t] = "run" /\ seg[t] = 2) =>
    /\ Running(t, "delete_site_database_and_object") => ~realdb
    /\ Running(t, "regen_database_password") => copy[t].db \in databases

WipedInv ==
  /\ DHoldInv
  /\ realdb => databases # {}
  /\ \A t \in OpId : WipeProgress(t) /\ StaysWiped(t) /\ BetweenSegments(t)

LEMMA DeletePlan ==
  ASSUME NEW s \in SiteRow, NEW a, NEW p, p = plan_of("delete_site", s, a)
  PROVE  /\ \E i \in 1..Len(p) : p[i] = "remove_docker_service"
         /\ \E i \in 1..Len(p) : p[i] = "remove_appserver_nginx_config"
         /\ \E i \in 1..Len(p) : p[i] = "remove_all_site_files_dangerous"
  <1>1. p = <<"find_pingable_appservers">>
              \o When(s.db # NoDb, "delete_site_database_and_object")
              \o <<"remove_docker_service", "remove_docker_image", "remove_appserver_nginx_config",
                   "remove_balancer_nginx_config", "remove_all_site_files_dangerous">>
    BY DEF plan_of, delete_site_plan, Ping, WipeSite
  <1>2. CASE s.db # NoDb
    <2>1. Len(p) = 7 /\ p[3] = "remove_docker_service" /\ p[5] = "remove_appserver_nginx_config"
          /\ p[7] = "remove_all_site_files_dangerous"
      BY <1>1, <1>2 DEF When
    <2> QED
      BY <2>1
  <1>3. CASE s.db = NoDb
    <2>1. Len(p) = 6 /\ p[2] = "remove_docker_service" /\ p[4] = "remove_appserver_nginx_config"
          /\ p[6] = "remove_all_site_files_dangerous"
      BY <1>1, <1>3 DEF When
    <2> QED
      BY <2>1
  <1> QED
    BY <1>2, <1>3

(* Only callbacks touch what is modelled here.                             *)
LEMMA DataFrame ==
  ASSUME NEW t \in OpId, DTask(t), ~deploy_run(t)
  PROVE  UNCHANGED <<data, remote>>
  BY DEF DTask, deploy_fetch, deploy_wrap, deploy_start, deploy_save, deploy_end, dvars

LEMMA RemoteFrame ==
  ASSUME NEW t \in OpId, DTask(t), ~deploy_run(t)
  PROVE  UNCHANGED <<nginx, service, realdb, files, databases>>
  BY DataFrame DEF data, remote

(* A step of one task leaves the others where they are, as only the one at *)
(* work runs callbacks.                                                    *)
LEMMA OthersWiped ==
  ASSUME WipedInv, NEW t \in OpId, DTask(t), NEW s \in OpId \ {t}
  PROVE  WipeProgress(s)' /\ StaysWiped(s)' /\ BetweenSegments(s)'
  <1>t. TypeOK /\ DTypeOK
    BY DEF WipedInv, DHoldInv, DTypeInv, IInv
  <1>1. /\ opType'[s] = opType[s] /\ pc'[s] = pc[s] /\ plan'[s] = plan[s] /\ idx'[s] = idx[s]
        /\ copy'[s] = copy[s] /\ seg'[s] = seg[s] /\ ok'[s] = ok[s] /\ nextOp' = nextOp
    BY <1>t, TaskFrame
  <1>2. opRows' \subseteq opRows
    BY TaskStepIsEngineStep DEF TaskNext, fetch, drop_operation, auto_run_operation_wrapper,
       add_action, start_operation, start_action, run_segment, save_action, catch_exception,
       clear_actions, remove_operation, end_task, worker_fails, dbVars
  <1>3. WipeProgress(s) /\ StaysWiped(s) /\ BetweenSegments(s)
    BY DEF WipedInv
  <1>4. CASE deploy_run(t)
    <2>1. pc[t] = "run"
      BY <1>4 DEF deploy_run, run_segment
    <2>2. pc[s] \notin ActivePCs
      BY <2>1, OneAtWork DEF WipedInv, DHoldInv, ActivePCs
    <2>3. t \in opRows
      BY <2>1 DEF WipedInv, DHoldInv, HoldInv, Holding, ActivePCs
    <2>4. ~(opType[s] = "delete_site" /\ (pc[s] = "clear" \/ ok[s]) /\ nextOp = s + 1)
      BY <1>3, <2>3 DEF StaysWiped
    <2> QED
      BY <1>1, <2>2, <2>4 DEF WipeProgress, StaysWiped, BetweenSegments, ActivePCs
  <1>5. CASE ~deploy_run(t)
    <2>1. UNCHANGED <<nginx, service, realdb, files, databases>>
      BY <1>5, RemoteFrame
    <2> QED
      BY <1>1, <1>2, <1>3, <2>1 DEF WipeProgress, StaysWiped, BetweenSegments, Wiped, Passed,
         Achieved, Running
  <1> QED
    BY <1>4, <1>5

(* What a segment of delete_site has done, and that it undoes nothing.     *)
LEMMA SegmentWipes ==
  ASSUME DTypeInv, NEW t \in OpId, deploy_run(t), opType[t] = "delete_site"
  PROVE  /\ \A x : Achieved(x) => Achieved(x)'
         /\ pc'[t] = "save" /\ seg[t] = 1 => Achieved(plan[t][idx[t]])'
         /\ pc'[t] = "save" /\ seg[t] # 1 /\ Achieved(plan[t][idx[t]]) => Achieved(plan[t][idx[t]])'
  <1> DEFINE slug == plan[t][idx[t]]
  <1>1. pc[t] = "run" /\ UNCHANGED <<plan, idx>> /\ (pc'[t] = "save" => ~Raises(t))
    BY DEF deploy_run, run_segment, SameWork, Raises
  <1>2. slug \in WipeSlugs \union OtherSlugs \union {"delete_site_database_and_object"}
    <2>1. PICK s \in SiteRow : plan[t] = plan_of(opType[t], s, arg[t])
      BY <1>1 DEF DTypeInv, Planned, Planning
    <2>2. idx[t] \in 1..Len(plan[t])
      BY <1>1, SavingTypes
    <2>3. slug \in SlugsOf("delete_site", s)
      BY <2>1, <2>2, PlanType DEF OpTypes
    <2> QED
      BY <2>3 DEF SlugsOf, DbSlugs
  <1>3. callback(t)
    BY DEF deploy_run
  <1>4. CASE slug = "remove_docker_service"
    <2>1. remove_docker_service(t)
      BY <1>3, <1>4 DEF callback, Running, change_site_name, change_site_domains, change_site_type,
         update_availability, create_database_object, update_image_object, other_callback,
         update_docker_service, restart_docker_service, update_appserver_nginx_config,
         remove_appserver_nginx_config, ensure_site_directories_exist,
         remove_all_site_files_dangerous, create_real_site_database, regen_database_password,
         delete_site_database_and_object
    <2> QED
      BY <1>1, <1>4, <2>1 DEF remove_docker_service, Achieved
  <1>5. CASE slug = "remove_appserver_nginx_config"
    <2>1. remove_appserver_nginx_config(t)
      BY <1>3, <1>5 DEF callback, Running, change_site_name, change_site_domains, change_site_type,
         update_availability, create_database_object, update_image_object, other_callback,
         update_docker_service, remove_docker_service, restart_docker_service,
         update_appserver_nginx_config, ensure_site_directories_exist,
         remove_all_site_files_dangerous, create_real_site_database, regen_database_password,
         delete_site_database_and_object
    <2> QED
      BY <1>1, <1>5, <2>1 DEF remove_appserver_nginx_config, Achieved
  <1>6. CASE slug = "remove_all_site_files_dangerous"
    <2>1. remove_all_site_files_dangerous(t)
      BY <1>3, <1>6 DEF callback, Running, change_site_name, change_site_domains, change_site_type,
         update_availability, create_database_object, update_image_object, other_callback,
         update_docker_service, remove_docker_service, restart_docker_service,
         update_appserver_nginx_config, remove_appserver_nginx_config,
         ensure_site_directories_exist, create_real_site_database, regen_database_password,
         delete_site_database_and_object
    <2> QED
      BY <1>1, <1>6, <2>1 DEF remove_all_site_files_dangerous, Achieved
  <1>7. CASE slug \notin WipeSlugs
    <2>1. delete_site_database_and_object(t) \/ other_callback(t)
      BY <1>2, <1>3, <1>7 DEF WipeSlugs, OtherSlugs, callback, Running, change_site_name,
         change_site_domains, change_site_type, update_availability, create_database_object,
         update_image_object, update_docker_service, remove_docker_service,
         restart_docker_service, update_appserver_nginx_config, remove_appserver_nginx_config,
         ensure_site_directories_exist, remove_all_site_files_dangerous,
         create_real_site_database, regen_database_password
    <2>2. UNCHANGED <<nginx, service, files>>
      BY <2>1 DEF delete_site_database_and_object, other_callback, dvars, remote
    <2> QED
      BY <1>1, <1>7, <2>2 DEF Achieved, WipeSlugs
  <1> QED
    BY <1>4, <1>5, <1>6, <1>7 DEF WipeSlugs

LEMMA TaskWiped ==
  ASSUME WipedInv, DHoldInv', NEW t \in OpId, DTask(t)
  PROVE  WipedInv'
  <1>t. TypeOK /\ DTypeOK /\ TypeOK' /\ DTypeInv /\ Started(t)
    BY DEF WipedInv, DHoldInv, DTypeInv, IInv
  <1>w. WipeProgress(t) /\ StaysWiped(t) /\ BetweenSegments(t) /\ (realdb => databases # {})
    BY DEF WipedInv
  <1>o. UNCHANGED <<opType, nextOp>>
    BY <1>t, TaskFrame
  <1>r. opRows' \subseteq opRows
    BY TaskStepIsEngineStep DEF TaskNext, fetch, drop_operation, auto_run_operation_wrapper,
       add_action, start_operation, start_action, run_segment, save_action, catch_exception,
       clear_actions, remove_operation, end_task, worker_fails, dbVars
  <1>h. pc'[t] \in ActivePCs => opRows' \subseteq {t}
    <2>1. \A s \in opRows' : s \in OpId /\ (pc'[t] \in ActivePCs => s = t)
      BY <1>t DEF DHoldInv, HoldInv, IInv, OneOperation, Holding, TypeOK
    <2> QED
      BY <2>1
  <1>1. ASSUME WipeProgress(t)', StaysWiped(t)', BetweenSegments(t)', (realdb => databases # {})'
        PROVE  WipedInv'
    BY <1>1, OthersWiped DEF WipedInv
  <1>2. CASE deploy_run(t)
    <2>1. /\ pc[t] = "run" /\ pc'[t] \in {"save", "catch"} /\ UNCHANGED <<plan, idx, seg, ok>>
      BY <1>2, <1>t DEF deploy_run, run_segment, Become, SameWork, TypeOK
    <2>2. WipeProgress(t)'
      <3> SUFFICES ASSUME opType[t] = "delete_site", pc'[t] = "save", NEW i \in 1..Len(plan[t]),
                          i < idx[t] \/ i = idx[t]
                   PROVE  Achieved(plan[t][i])'
        BY <1>o, <2>1 DEF WipeProgress, Passed
      <3>1. CASE i < idx[t]
        <4>1. Achieved(plan[t][i])
          BY <1>w, <2>1, <3>1 DEF WipeProgress, Passed
        <4> QED
          BY <1>2, <1>t, <2>1, <4>1, SegmentWipes
      <3>2. CASE i = idx[t] /\ seg[t] = 1
        BY <1>2, <1>t, <2>1, <3>2, SegmentWipes
      <3>3. CASE i = idx[t] /\ seg[t] # 1
        <4>1. Achieved(plan[t][i])
          BY <1>w, <2>1, <3>3 DEF WipeProgress, Passed
        <4> QED
          BY <1>2, <1>t, <2>1, <3>3, <4>1, SegmentWipes
      <3> QED
        BY <3>1, <3>2, <3>3
    <2>3. StaysWiped(t)'
      <3>1. ~ok[t]
        BY <2>1 DEF WipedInv, DHoldInv, HoldInv, OkIsOver
      <3> QED
        BY <2>1, <3>1 DEF StaysWiped
    <2>4. (realdb => databases # {})' /\ BetweenSegments(t)'
      <3>1. callback(t)
        BY <1>2 DEF deploy_run
      <3>2. CASE delete_site_database_and_object(t)
        <4>1. UNCHANGED copy /\ plan[t][idx[t]] = "delete_site_database_and_object"
          BY <3>2 DEF delete_site_database_and_object, local, Running
        <4>2. CASE /\ seg[t] = 1 /\ UNCHANGED databases
                   /\ realdb' = FALSE \/ (Raises(t) /\ UNCHANGED realdb)
          BY <1>w, <2>1, <4>1, <4>2 DEF BetweenSegments, Running, Raises
        <4>3. CASE seg[t] = 2 /\ UNCHANGED realdb
          BY <1>w, <2>1, <4>1, <4>3 DEF BetweenSegments, Running
        <4> QED
          BY <3>2, <4>2, <4>3 DEF delete_site_database_and_object
      <3>3. CASE regen_database_password(t)
        <4>1. UNCHANGED <<copy, databases>> /\ plan[t][idx[t]] = "regen_database_password"
          BY <3>3 DEF regen_database_password, local, data, Running
        <4>2. CASE seg[t] = 1 /\ (has_no_database(t) => Raises(t)) /\ UNCHANGED realdb
          BY <1>w, <2>1, <4>1, <4>2 DEF BetweenSegments, Running, Raises, has_no_database
        <4>3. CASE seg[t] = 2 /\ (realdb' = TRUE \/ UNCHANGED realdb)
          BY <1>w, <2>1, <4>1, <4>3 DEF BetweenSegments, Running
        <4> QED
          BY <3>3, <4>2, <4>3 DEF regen_database_password
      <3>4. CASE create_real_site_database(t)
        BY <1>w, <2>1, <3>4 DEF create_real_site_database, has_no_database, data, Running,
           BetweenSegments
      <3>5. CASE create_database_object(t)
        BY <1>w, <2>1, <3>5 DEF create_database_object, remote, Running, BetweenSegments
      <3>6. CASE ~delete_site_database_and_object(t) /\ ~regen_database_password(t)
                 /\ ~create_real_site_database(t) /\ ~create_database_object(t)
        <4>1. UNCHANGED <<realdb, databases>>
          BY <3>1, <3>6 DEF callback, change_site_name, change_site_domains, change_site_type,
             update_availability, update_image_object, other_callback, dvars, data, remote,
             update_docker_service, remove_docker_service, restart_docker_service,
             update_appserver_nginx_config, remove_appserver_nginx_config,
             ensure_site_directories_exist, remove_all_site_files_dangerous
        <4>2. plan[t][idx[t]] \notin {"delete_site_database_and_object", "regen_database_password"}
          BY <3>1, <3>6 DEF callback, change_site_name, change_site_domains, change_site_type,
             update_availability, update_image_object, other_callback, Running,
             update_docker_service, remove_docker_service, restart_docker_service,
             update_appserver_nginx_config, remove_appserver_nginx_config,
             ensure_site_directories_exist, remove_all_site_files_dangerous
        <4> QED
          BY <1>w, <2>1, <4>1, <4>2 DEF BetweenSegments, Running
      <3> QED
        BY <3>2, <3>3, <3>4, <3>5, <3>6
    <2> QED
      BY <1>1, <2>2, <2>3, <2>4
  <1>3. CASE ~deploy_run(t)
    <2>1. UNCHANGED <<nginx, service, realdb, files, databases>>
      BY <1>3, RemoteFrame
    <2>2. ASSUME pc'[t] \notin {"begin", "run", "save", "clear"}, ok'[t] = ok[t] \/ pc[t] = "clear"
          PROVE  WipedInv'
      <3>1. StaysWiped(t)'
        BY <1>o, <1>r, <1>w, <2>1, <2>2 DEF StaysWiped, Wiped
      <3> QED
        BY <1>1, <1>w, <2>1, <2>2, <3>1 DEF WipeProgress, BetweenSegments
    <2>3. CASE start_operation(t)
      <3>1. pc[t] = "start" /\ pc'[t] \in {"begin", "ended"} /\ UNCHANGED <<idx, ok>> /\ idx[t] = 1
        BY <1>t, <2>3 DEF start_operation, Become, SameWork, TypeOK, Started
      <3>2. WipeProgress(t)'
        BY <3>1 DEF WipeProgress, Passed
      <3>3. StaysWiped(t)'
        BY <1>o, <1>r, <1>w, <2>1, <3>1 DEF StaysWiped, Wiped
      <3> QED
        BY <1>1, <1>w, <2>1, <3>1, <3>2, <3>3 DEF BetweenSegments
    <2>4. CASE deploy_start(t)
      <3>1. /\ pc[t] = "begin" /\ pc'[t] \in {"run", "catch"} /\ UNCHANGED <<plan, idx, ok>>
            /\ seg'[t] = 1
        BY <1>t, <2>4 DEF deploy_start, start_action, Become, TypeOK
      <3>2. WipeProgress(t)'
        BY <1>o, <1>w, <2>1, <3>1 DEF WipeProgress, Passed, Achieved
      <3>3. StaysWiped(t)'
        BY <1>o, <1>r, <1>w, <2>1, <3>1 DEF StaysWiped, Wiped
      <3> QED
        BY <1>1, <1>w, <2>1, <3>1, <3>2, <3>3 DEF BetweenSegments
    <2>5. CASE deploy_save(t)
      <3>1. pc[t] = "save" /\ UNCHANGED <<plan, ok, copy>>
        BY <2>5 DEF deploy_save, save_action, dvars, local
      <3>2. ~ok[t]
        BY <3>1 DEF WipedInv, DHoldInv, HoldInv, OkIsOver
      <3>3. idx[t] \in 1..MaxActions /\ Len(plan[t]) \in 1..MaxActions /\ seg[t] \in Nat
        <4>1. IndexInPlan(t)
          BY DEF WipedInv, DHoldInv, HoldInv, IInv, TaskInv
        <4>2. seg[t] \in 1..MaxSegments /\ MaxSegments \in Nat
          BY <1>t, ConstantsAssumption DEF TypeOK
        <4> QED
          BY <1>t, <3>1, <4>1, <4>2 DEF TypeOK, IndexInPlan
      <3>4. CASE pc'[t] = "catch"
        BY <2>2, <3>1, <3>4
      <3>5. CASE pc'[t] = "run"
        <4>1. idx'[t] = idx[t] /\ seg'[t] = seg[t] + 1
          BY <1>t, <2>5, <3>5 DEF deploy_save, save_action, Become, TypeOK
        <4>2. WipeProgress(t)'
          BY <1>o, <1>w, <2>1, <3>1, <3>5, <4>1 DEF WipeProgress, Passed, Achieved
        <4>3. seg'[t] = 2 => seg[t] = 1
          BY <3>3, <4>1
        <4>4. BetweenSegments(t)'
          BY <1>w, <2>1, <3>1, <3>5, <4>1, <4>3 DEF BetweenSegments, Running
        <4> QED
          BY <1>1, <1>w, <2>1, <3>1, <3>2, <3>5, <4>2, <4>4 DEF StaysWiped
      <3>6. CASE pc'[t] = "begin"
        <4>1. idx'[t] = idx[t] + 1
          BY <1>t, <2>5, <3>6 DEF deploy_save, save_action, Become, TypeOK
        <4>2. \A i \in 1..Len(plan[t]) : i < idx[t] + 1 => i < idx[t] \/ i = idx[t]
          BY <3>3, ConstantsAssumption
        <4>3. WipeProgress(t)'
          BY <1>o, <1>w, <2>1, <3>1, <3>6, <4>1, <4>2 DEF WipeProgress, Passed, Achieved
        <4> QED
          BY <1>1, <1>w, <2>1, <3>1, <3>2, <3>6, <4>3 DEF StaysWiped, BetweenSegments
      <3>7. CASE pc'[t] = "clear"
        <4>1. idx[t] = Len(plan[t])
          BY <1>t, <2>5, <3>7 DEF deploy_save, save_action, Become, last_action, TypeOK
        <4>2. opType[t] = "delete_site" => Wiped
          <5> SUFFICES ASSUME opType[t] = "delete_site" PROVE Wiped
            OBVIOUS
          <5>1. \A i \in 1..Len(plan[t]) : i < idx[t] \/ i = idx[t]
            BY <3>3, <4>1, ConstantsAssumption
          <5>2. \A i \in 1..Len(plan[t]) : Achieved(plan[t][i])
            BY <1>w, <3>1, <5>1 DEF WipeProgress, Passed
          <5>3. PICK s \in SiteRow : plan[t] = plan_of("delete_site", s, arg[t])
            BY <1>t, <3>1 DEF DTypeInv, Planned, Planning
          <5> QED
            BY <5>2, <5>3, DeletePlan DEF Achieved, Wiped
        <4>3. StaysWiped(t)'
          BY <1>h, <1>o, <2>1, <3>7, <4>2 DEF StaysWiped, Wiped, ActivePCs
        <4> QED
          BY <1>1, <1>w, <2>1, <3>7, <4>3 DEF WipeProgress, BetweenSegments
      <3> QED
        BY <1>t, <2>5, <3>4, <3>5, <3>6, <3>7 DEF deploy_save, save_action, Become, TypeOK
    <2>6. CASE clear_actions(t)
      <3>1. pc[t] = "clear" /\ pc'[t] = "remove"
        BY <1>t, <2>6 DEF clear_actions, Become, TypeOK
      <3> QED
        BY <2>2, <3>1
    <2>7. CASE \/ deploy_fetch(t) \/ deploy_wrap(t) \/ drop_operation(t) \/ add_action(t)
               \/ catch_exception(t) \/ remove_operation(t) \/ worker_fails(t) \/ deploy_end(t)
      <3>1. UNCHANGED ok
        BY <2>7 DEF deploy_fetch, fetch, deploy_wrap, auto_run_operation_wrapper, drop_operation,
           add_action, catch_exception, remove_operation, worker_fails, deploy_end, end_task,
           SameWork
      <3>2. pc'[t] \notin {"begin", "run", "save", "clear"}
        BY <1>t, <2>7 DEF deploy_fetch, fetch, deploy_wrap, auto_run_operation_wrapper,
           drop_operation, add_action, catch_exception, remove_operation, worker_fails,
           deploy_end, end_task, Become, TypeOK
      <3> QED
        BY <2>2, <3>1, <3>2
    <2> QED
      BY <1>3, <2>3, <2>4, <2>5, <2>6, <2>7 DEF DTask
  <1> QED
    BY <1>2, <1>3

LEMMA RequestWiped ==
  ASSUME WipedInv, DHoldInv', NEW r \in Requests, DRequest(r)
  PROVE  WipedInv'
  <1>t. IInv /\ DTypeOK /\ TypeOK /\ FreshIds /\ TypeOK'
    BY DEF WipedInv, DHoldInv, DTypeInv, IInv
  <1>1. /\ UNCHANGED <<pc, plan, idx, seg, ok, copy, databases, nginx, service, realdb, files>>
        /\ \/ UNCHANGED opType
           \/ nextOp \in OpId /\ create_operation(r)
                /\ opType' = [opType EXCEPT ![nextOp] = req[r].type]
    BY <1>t, RequestFrame DEF remote
  <1>2. RequestNext(r) \/ request_fails(r) \/ UNCHANGED vars
    BY RequestStepIsEngineStep
  <1>3. \/ nextOp' = nextOp /\ opRows' \subseteq opRows
        \/ nextOp' = nextOp + 1
    BY <1>2 DEF vars, dbVars, taskVars, RequestNext, request_fails, create_view, plain_view,
       image_select_view, edit_names_view, override_view, check_recoverable, reset_operations_view,
       operation_delete_fix_view, delete_actions, delete_op, create_operation,
       delay, fix_sites, wait_for_operation, edit_meta_view
  <1>4. ASSUME NEW t \in OpId
        PROVE  WipeProgress(t)' /\ StaysWiped(t)' /\ BetweenSegments(t)'
    <2>1. WipeProgress(t) /\ StaysWiped(t) /\ BetweenSegments(t)
      BY DEF WipedInv
    <2>2. CASE pc[t] = "none"
      <3>1. ~ok[t]
        BY <2>2 DEF WipedInv, DHoldInv, HoldInv, OkIsOver
      <3> QED
        BY <1>1, <2>2, <3>1 DEF WipeProgress, StaysWiped, BetweenSegments
    <2>3. CASE pc[t] # "none"
      <3>1. t < nextOp /\ t # nextOp /\ t \in Nat /\ nextOp \in Nat
        BY <1>t, <2>3, ConstantsAssumption DEF FreshIds, TypeOK, OpId
      <3>2. opType'[t] = opType[t]
        BY <1>1, <1>t, <3>1 DEF TypeOK
      <3>3. nextOp' = t + 1 => nextOp = t + 1 /\ opRows' \subseteq opRows
        BY <1>3, <3>1
      <3> QED
        BY <1>1, <2>1, <3>2, <3>3 DEF WipeProgress, StaysWiped, BetweenSegments, Wiped, Passed,
           Achieved, Running
    <2> QED
      BY <2>2, <2>3
  <1> QED
    BY <1>1, <1>4 DEF WipedInv

(* A new Database row undoes nothing of this.                              *)
LEMMA InsertWiped ==
  ASSUME WipedInv, DHoldInv', NEW t \in OpId, insert_row(t)
  PROVE  WipedInv'
  <1>1. /\ UNCHANGED <<vars, remote, copy>> /\ databases \subseteq databases'
        /\ (databases # {} => databases' # {})
    BY DEF insert_row, insert_database, insert_image
  <1> QED
    BY <1>1 DEF WipedInv, WipeProgress, StaysWiped, BetweenSegments, Wiped, Passed,
       Achieved, Running, vars, dbVars, taskVars, remote

(* While nobody resets, a delete_site that succeeded leaves nothing of the *)
(* site on the servers before another operation is inserted, but a real    *)
(* database of which a Database row is left.                               *)
THEOREM DeletedSiteIsWiped ==
  ASSUME "reset_operations" \notin Views
  PROVE  DSpec => []DeletedIsWiped
  <1>1. DInit => WipedInv
    <2> SUFFICES ASSUME DInit PROVE WipedInv
      OBVIOUS
    <2>1. \A t \in OpId : pc[t] = "none" /\ ~ok[t]
      BY DEF DInit, Init
    <2> QED
      BY <2>1, InitDHoldInv DEF DInit, WipedInv, WipeProgress, StaysWiped, BetweenSegments
  <1>2. WipedInv /\ [DNext]_<<vars, dvars, overtaken>> => WipedInv'
    <2> SUFFICES ASSUME WipedInv, [DNext]_<<vars, dvars, overtaken>> PROVE WipedInv'
      OBVIOUS
    <2>1. DHoldInv'
      BY StepDHoldInv DEF WipedInv
    <2>2. CASE UNCHANGED <<vars, dvars, overtaken>>
      BY <2>1, <2>2 DEF WipedInv, WipeProgress, StaysWiped, BetweenSegments, Wiped, Passed,
         Achieved, Running, vars, dbVars, taskVars, dvars, data, remote, local
    <2> QED
      BY <2>1, <2>2, TaskWiped, InsertWiped, RequestWiped DEF DNext
  <1>3. WipedInv => DeletedIsWiped
    BY DEF WipedInv, StaysWiped, Wiped, DeletedIsWiped
  <1> QED
    BY <1>1, <1>2, <1>3, PTL DEF DSpec

-----------------------------------------------------------------------------
(* Nothing is forgotten: what an operation owes the site *)

(* What has to be right in the end, and the callbacks that make it so.     *)
Parts == {"nginx", "service", "files", "database"}

Right(p) ==
  CASE p = "nginx"    -> NginxMatches
    [] p = "service"  -> ServiceMatches
    [] p = "files"    -> files
    [] p = "database" -> (row.db # NoDb => realdb)

Restorers(p) ==
  CASE p = "nginx"    -> {"update_appserver_nginx_config"}
    [] p = "service"  -> {"update_docker_service"}
    [] p = "files"    -> {"ensure_site_directories_exist"}
    [] p = "database" -> {"create_real_site_database", "delete_site_database_and_object"}

(* The operations that restore a part whatever has happened to it.         *)
Repairs(p) == IF p = "database" THEN {"fix_site"} ELSE {"fix_site", "create_site"}

Promised(p) ==
  \E r \in Requests : /\ req[r].pc = "create" /\ req[r].view \in Restoring
                      /\ req[r].type \in Repairs(p)

ToDo(t, p) ==
  \/ pc[t] \in {"none", "wrap"} /\ opType[t] \in Repairs(p)
  \/ pc[t] \in {"adding", "start"} /\ \E i \in 1..Len(plan[t]) : plan[t][i] \in Restorers(p)
  \/ pc[t] \in {"begin", "run", "save"} /\ \E i \in idx[t]..Len(plan[t]) : plan[t][i] \in Restorers(p)

(* A task that failed leaves an operation that only a fix_site replaces.   *)
Owed(t, p) == opType[t] = "delete_site" \/ pc[t] \in {"catch", "post", "ended"} \/ ToDo(t, p)

Answered(p) == Right(p) \/ Promised(p) \/ \E t \in opRows : Owed(t, p)

(* What a view that restores the site inserts.                             *)
ViewInserts(r) ==
  req[r].pc # "idle" =>
    /\ req[r].view \in Views
    /\ req[r].pc \in {"check", "delete_actions", "delete_op"} =>
         req[r].view \in {"image_select", "edit_names", "reset_operations", "operation_delete_fix"}
    /\ req[r].view = "create" => req[r].type = "create_site"
    /\ req[r].view \in {"reset_operations", "operation_delete_fix"} => req[r].type = "fix_site"

(* The plan was made for a site of the type the site has.                  *)
PlanIsCurrent(t) ==
  /\ pc[t] = "wrap" => plan[t] = plan_of(opType[t], row, arg[t])
  /\ pc[t] \in Engaged =>
       \E s \in SiteRow : /\ plan[t] = plan_of(opType[t], s, arg[t])
                          /\ opType[t] # "change_site_type" => s.type = row.type
  /\ (/\ opType[t] = "change_site_type"
      /\ \/ pc[t] \in {"begin", "run", "save"} /\ idx[t] >= 3
         \/ pc[t] = "save" /\ idx[t] = 2)
       => row.type = arg[t]

(* A callback that is done has done it; nginx is restarted after its file  *)
(* was written.                                                            *)
Delivered(t) ==
  /\ pc[t] = "save" /\ ~yields(t) =>
       \A p \in Parts : plan[t][idx[t]] \in Restorers(p) => Right(p)
  /\ pc[t] = "save" \/ (pc[t] = "run" /\ seg[t] # 1) =>
       (Running(t, "update_appserver_nginx_config") /\ ~failing[t] => Right("nginx"))

AtItsEnd(t) ==
  /\ pc[t] = "remove" => ok[t]
  /\ pc[t] = "drop_op" => opType[t] = "delete_site_database"

AtWork(t) == CopyIsCurrent(t) /\ PlanIsCurrent(t) /\ Delivered(t)

(* So far nothing has happened that NoSilentDrift excepts.                 *)
Clean == (\A t \in OpId : late[t] = 0) /\ ~overtaken /\ ~DeleteDone

Accounted ==
  /\ opRows # {} => site = "present"
  /\ \A t \in opRows : AtItsEnd(t) /\ (opType[t] # "delete_site" => AtWork(t))
  /\ site = "present" => \A p \in Parts : Answered(p)

(* What a task is about to save is its copy of the site with the new row.  *)
UnsavedIsCopy(t) ==
  \A s \in unsaved[t] :
    /\ pc[t] \in {"run", "catch", "post", "ended"}
    /\ pc[t] = "run" =>
         \/ Running(t, "create_database_object") /\ s = [copy[t] EXCEPT !.db = s.db]
         \/ /\ Running(t, "update_image_object") /\ ~copy[t].custom
            /\ s = [copy[t] EXCEPT !.custom = TRUE]

DriftInv ==
  /\ DTypeInv /\ OkIsOver
  /\ \A t \in OpId : UnsavedIsCopy(t)
  /\ \A r \in Requests : ViewInserts(r)
  /\ Clean => Accounted

-----------------------------------------------------------------------------
(* The order of the actions in the plans *)

Later(p, i, slug) == \E j \in i..Len(p) : p[j] = slug

(* What changes the nginx file or the service comes before the callback    *)
(* that brings the change to the appservers.                               *)
LEMMA RowChangesAreFollowed ==
  ASSUME NEW s \in SiteRow, NEW a, NEW ty \in OpTypes, NEW p, p = plan_of(ty, s, a),
         NEW i \in 1..Len(p)
  PROVE  /\ p[i] \in {"change_site_name", "update_availability"}
              => Later(p, i, "update_appserver_nginx_config")
         /\ ty = "change_site_type" /\ p[i] = "do_write_run_sh_file" =>
              /\ i = 2 /\ Later(p, i, "update_appserver_nginx_config")
              /\ a = "dynamic" => Later(p, i, "update_docker_service")
         /\ ty = "change_site_type" /\ p[i] = "remove_docker_service" => i = 3 /\ a # "dynamic"
         /\ ty = "change_site_type" /\ i = 2 => p[i] = "do_write_run_sh_file"
         /\ p[i] \in {"update_availability", "create_database_object"} /\ s.type = "dynamic"
              => Later(p, i, "update_docker_service")
         /\ p[i] = "update_image_object" => Later(p, i, "update_docker_service")
         /\ p[i] = "create_database_object" => Later(p, i, "create_real_site_database")
         /\ p[i] = "remove_docker_service" =>
              \/ ty \in {"change_site_type", "delete_site"}
              \/ ty = "fix_site" /\ s.type # "dynamic"
  <1>0. p[i] \in SlugsOf(ty, s)
    BY PlanType
  <1> USE DEF Later
  <1>1. CASE ty = "rename_site"
    <2>1. p = <<"find_pingable_appservers">> \o <<"change_site_name">>
                \o <<"update_appserver_nginx_config">>
                \o <<"update_balancer_certbot", "update_balancer_nginx_config">>
      BY <1>1 DEF plan_of, rename_site_plan, Ping, Nginx, Balancers
    <2>2. Len(p) = 5 /\ p[1] = "find_pingable_appservers" /\ p[2] = "change_site_name"
          /\ p[3] = "update_appserver_nginx_config" /\ p[4] = "update_balancer_certbot"
          /\ p[5] = "update_balancer_nginx_config"
      BY <2>1
    <2> QED
      BY <1>1, <2>2
  <1>2. CASE ty = "edit_site_names"
    <2>1. p = <<"find_pingable_appservers">> \o <<"change_site_name", "change_site_domains">>
                \o <<"update_appserver_nginx_config">>
                \o <<"update_balancer_certbot", "update_balancer_nginx_config">>
      BY <1>2 DEF plan_of, edit_site_names_plan, Ping, Nginx, Balancers
    <2>2. Len(p) = 6 /\ p[1] = "find_pingable_appservers" /\ p[2] = "change_site_name"
          /\ p[3] = "change_site_domains" /\ p[4] = "update_appserver_nginx_config"
          /\ p[5] = "update_balancer_certbot" /\ p[6] = "update_balancer_nginx_config"
      BY <2>1
    <2> QED
      BY <1>2, <2>2
  <1>3. CASE ty = "change_site_type"
    <2>1. p = <<"find_pingable_appservers">> \o <<"do_write_run_sh_file">>
                \o ServiceOrNone(a) \o <<"update_appserver_nginx_config">>
      BY <1>3 DEF plan_of, change_site_type_plan, Ping, Nginx
    <2>2. Len(p) = 4 /\ p[1] = "find_pingable_appservers" /\ p[2] = "do_write_run_sh_file"
          /\ p[3] = (IF a = "dynamic" THEN "update_docker_service" ELSE "remove_docker_service")
          /\ p[4] = "update_appserver_nginx_config"
      BY <2>1 DEF ServiceOrNone
    <2> QED
      BY <1>3, <2>2
  <1>4. CASE ty = "update_availability"
    <2>1. p = <<"find_pingable_appservers">> \o <<"update_availability">>
                \o <<"update_appserver_nginx_config">> \o When(s.type = "dynamic", "update_docker_service")
      BY <1>4 DEF plan_of, update_availability_plan, Ping, Nginx, Service
    <2>2. p[1] = "find_pingable_appservers" /\ p[2] = "update_availability"
          /\ p[3] = "update_appserver_nginx_config"
          /\ IF s.type = "dynamic" THEN Len(p) = 4 /\ p[4] = "update_docker_service" ELSE Len(p) = 3
      BY <2>1 DEF When
    <2> QED
      BY <1>4, <2>2
  <1>5. CASE ty = "create_site_database"
    <2>1. p = <<"find_pingable_appservers">>
                \o <<"create_database_object", "create_real_site_database">>
                \o When(s.type = "dynamic", "update_docker_service")
      BY <1>5 DEF plan_of, create_database_plan, Ping, Service
    <2>2. p[1] = "find_pingable_appservers" /\ p[2] = "create_database_object"
          /\ p[3] = "create_real_site_database"
          /\ IF s.type = "dynamic" THEN Len(p) = 4 /\ p[4] = "update_docker_service" ELSE Len(p) = 3
      BY <2>1 DEF When
    <2> QED
      BY <1>5, <2>2
  <1>6. CASE ty = "update_docker_image"
    <2>1. p = <<"find_pingable_appservers">> \o <<"update_image_object", "build_docker_image">>
                \o When(a = "write_run_sh_file", "do_write_run_sh_file")
                \o <<"update_docker_service", "restart_docker_service">>
      BY <1>6 DEF plan_of, update_image_plan, Ping
    <2>2. p[1] = "find_pingable_appservers" /\ p[2] = "update_image_object"
          /\ p[3] = "build_docker_image"
          /\ IF a = "write_run_sh_file"
             THEN /\ Len(p) = 6 /\ p[4] = "do_write_run_sh_file" /\ p[5] = "update_docker_service"
                  /\ p[6] = "restart_docker_service"
             ELSE Len(p) = 5 /\ p[4] = "update_docker_service" /\ p[5] = "restart_docker_service"
      BY <2>1 DEF When
    <2>3. CASE a = "write_run_sh_file"
      BY <1>6, <2>2, <2>3
    <2>4. CASE a # "write_run_sh_file"
      BY <1>6, <2>2, <2>4
    <2> QED
      BY <2>3, <2>4
  <1>7. CASE ty = "fix_site"
    <2>1. s.type = "dynamic" => p[i] # "remove_docker_service"
      <3> SUFFICES ASSUME s.type = "dynamic" PROVE p[i] # "remove_docker_service"
        OBVIOUS
      <3>1. p = <<"find_pingable_appservers">> \o When(s.db # NoDb, "create_real_site_database")
                  \o <<"build_docker_image", "ensure_site_directories_exist">>
                  \o <<"update_docker_service">> \o <<"update_appserver_nginx_config">>
                  \o <<"update_balancer_certbot", "update_balancer_nginx_config">>
        BY <1>7 DEF plan_of, fix_site_plan, Ping, Nginx, Balancers, ServiceOrNone
      <3>2. CASE s.db # NoDb
        BY <3>1, <3>2 DEF When
      <3>3. CASE s.db = NoDb
        BY <3>1, <3>3 DEF When
      <3> QED
        BY <3>2, <3>3
    <2> QED
      BY <1>0, <1>7, <2>1 DEF SlugsOf, DbSlugs, ServiceSlugs, NginxSlugs, OtherSlugs
  <1>8. CASE ty \notin {"rename_site", "edit_site_names", "change_site_type", "update_availability",
                        "create_site_database", "update_docker_image", "fix_site"}
    BY <1>0, <1>8 DEF OpTypes, SlugsOf, DbSlugs, ServiceSlugs, NginxSlugs, WipeSlugs, OtherSlugs
  <1> QED
    BY <1>1, <1>2, <1>3, <1>4, <1>5, <1>6, <1>7, <1>8

(* fix_site restores every part that the site has, and so does create_site *)
(* for a site that has no database yet.                                    *)
LEMMA RepairsRestore ==
  ASSUME NEW s \in SiteRow, NEW a, NEW ty \in {"fix_site", "create_site"},
         NEW p, p = plan_of(ty, s, a)
  PROVE  /\ \E i \in 1..Len(p) : p[i] = "update_appserver_nginx_config"
         /\ \E i \in 1..Len(p) : p[i] = "ensure_site_directories_exist"
         /\ s.type = "dynamic" => \E i \in 1..Len(p) : p[i] = "update_docker_service"
         /\ ty = "fix_site" /\ s.db # NoDb => \E i \in 1..Len(p) : p[i] = "create_real_site_database"
  <1>1. CASE ty = "create_site"
    <2>1. p = <<"find_pingable_appservers">> \o <<"ensure_site_directories_exist">>
                \o When(s.type = "dynamic", "update_docker_service")
                \o <<"update_appserver_nginx_config">>
      BY <1>1 DEF plan_of, create_site_plan, Ping, Nginx, Service
    <2>2. /\ p[2] = "ensure_site_directories_exist"
          /\ IF s.type = "dynamic"
             THEN Len(p) = 4 /\ p[3] = "update_docker_service" /\ p[4] = "update_appserver_nginx_config"
             ELSE Len(p) = 3 /\ p[3] = "update_appserver_nginx_config"
      BY <2>1 DEF When
    <2> QED
      BY <1>1, <2>2
  <1>2. CASE ty = "fix_site"
    <2>1. p = <<"find_pingable_appservers">> \o When(s.db # NoDb, "create_real_site_database")
                \o <<"build_docker_image", "ensure_site_directories_exist">>
                \o ServiceOrNone(s.type) \o <<"update_appserver_nginx_config">>
                \o <<"update_balancer_certbot", "update_balancer_nginx_config">>
      BY <1>2 DEF plan_of, fix_site_plan, Ping, Nginx, Balancers
    <2>2. CASE s.db # NoDb
      <3>1. /\ Len(p) = 8 /\ p[2] = "create_real_site_database"
            /\ p[4] = "ensure_site_directories_exist" /\ p[6] = "update_appserver_nginx_config"
            /\ s.type = "dynamic" => p[5] = "update_docker_service"
        BY <2>1, <2>2 DEF When, ServiceOrNone
      <3> QED
        BY <3>1
    <2>3. CASE s.db = NoDb
      <3>1. /\ Len(p) = 7
            /\ p[3] = "ensure_site_directories_exist" /\ p[5] = "update_appserver_nginx_config"
            /\ s.type = "dynamic" => p[4] = "update_docker_service"
        BY <2>1, <2>3 DEF When, ServiceOrNone
      <3> QED
        BY <2>3, <3>1
    <2> QED
      BY <2>2, <2>3
  <1> QED
    BY <1>1, <1>2

(* What a new row leaves right while nothing is deployed.                  *)
LEMMA SameDeployment ==
  ASSUME DTypeOK, row' \in SiteRow, UNCHANGED remote
  PROVE  /\ row'.name = row.name /\ row'.type = row.type /\ row'.avail = row.avail
              => (Right("nginx") => Right("nginx")')
         /\ (/\ row'.type = row.type /\ row'.avail = row.avail /\ row'.custom = row.custom
             /\ row'.db = row.db)
              => (Right("service") => Right("service")')
         /\ row'.type # "dynamic" => Right("service")'
         /\ Right("files") => Right("files")'
         /\ row'.db = row.db => (Right("database") => Right("database")')
  <1> USE DEF remote
  <1>t. row \in SiteRow
    BY DEF DTypeOK
  <1>1. row'.name = row.name /\ row'.type = row.type /\ row'.avail = row.avail
          => (Right("nginx") => Right("nginx")')
    BY DEF Right, NginxMatches, nginx_of
  <1>2. row'.type # "dynamic" => Right("service")'
    BY DEF Right, ServiceMatches
  <1>3. ASSUME row'.type = row.type, row'.avail = row.avail, row'.custom = row.custom,
               row'.db = row.db, Right("service")
        PROVE  Right("service")'
    <2>1. docker_service(row') = docker_service(row)
      BY <1>3 DEF docker_service, service_of
    <2>2. \A d \in 0..MaxDb : docker_service([row' EXCEPT !.db = d]) = docker_service([row EXCEPT !.db = d])
      BY <1>3, <1>t DEF docker_service, service_of, SiteRow
    <2> QED
      BY <1>3, <2>1, <2>2 DEF Right, ServiceMatches
  <1>4. Right("files") => Right("files")'
    BY DEF Right
  <1>5. row'.db = row.db => (Right("database") => Right("database")')
    BY DEF Right
  <1> QED
    BY <1>1, <1>2, <1>3, <1>4, <1>5

LEMMA TaskUnsaved ==
  ASSUME DTypeInv, NEW t \in OpId, DTask(t), \A s \in OpId : UnsavedIsCopy(s)
  PROVE  \A s \in OpId : UnsavedIsCopy(s)'
  <1> USE DEF data, remote, local, dvars
  <1>t. TypeOK /\ DTypeOK /\ QueuedOnce
    BY DEF DTypeInv, IInv
  <1>1. ASSUME NEW s \in OpId \ {t}
        PROVE  UnsavedIsCopy(s)'
    BY <1>t, TaskFrame DEF UnsavedIsCopy, Running
  <1>2. CASE deploy_run(t)
    <2>1. pc[t] = "run" /\ pc'[t] \in {"save", "catch"}
      BY <1>2, <1>t DEF deploy_run, run_segment, Become, TypeOK
    <2>2. CASE pc'[t] = "catch"
      <3>1. UnsavedIsCopy(t)'
        BY <2>2 DEF UnsavedIsCopy
      <3> QED
        BY <1>1, <3>1
    <2>3. CASE pc'[t] = "save"
      <3>1. ~Raises(t)
        BY <2>3 DEF Raises
      <3>2. unsaved'[t] = {}
        <4>1. CASE create_database_object(t)
          BY <1>t, <3>1, <4>1 DEF create_database_object, save_new_row, save_raises, DTypeOK
        <4>2. CASE update_image_object(t)
          <5>1. ~copy[t].custom \/ unsaved[t] = {}
            BY <2>1, <4>2 DEF update_image_object, UnsavedIsCopy, Running
          <5> QED
            BY <1>t, <3>1, <4>2, <5>1 DEF update_image_object, save_new_row, save_raises, DTypeOK
        <4>3. CASE ~create_database_object(t) /\ ~update_image_object(t)
          <5>1. UNCHANGED unsaved
            BY <1>2, <4>3 DEF deploy_run, callback, change_site_name, change_site_domains,
               change_site_type, update_availability, other_callback,
               update_docker_service, remove_docker_service, restart_docker_service,
               update_appserver_nginx_config, remove_appserver_nginx_config,
               ensure_site_directories_exist, remove_all_site_files_dangerous,
               create_real_site_database, regen_database_password, delete_site_database_and_object
          <5>2. ~Running(t, "create_database_object") /\ ~Running(t, "update_image_object")
            BY <1>2, <4>3 DEF deploy_run, callback, change_site_name, change_site_domains,
               change_site_type, update_availability, other_callback,
               update_docker_service, remove_docker_service, restart_docker_service,
               update_appserver_nginx_config, remove_appserver_nginx_config,
               ensure_site_directories_exist, remove_all_site_files_dangerous,
               create_real_site_database, regen_database_password,
               delete_site_database_and_object, Running
          <5> QED
            BY <2>1, <5>1, <5>2 DEF UnsavedIsCopy
        <4> QED
          BY <4>1, <4>2, <4>3
      <3>3. UnsavedIsCopy(t)'
        BY <3>2 DEF UnsavedIsCopy
      <3> QED
        BY <1>1, <3>3
    <2> QED
      BY <2>1, <2>2, <2>3
  <1>3. CASE ~deploy_run(t)
    <2>1. UNCHANGED unsaved
      BY <1>3 DEF DTask, deploy_fetch, deploy_wrap, deploy_start, deploy_save, deploy_end
    <2>2. \/ pc[t] \notin {"run", "catch", "post", "ended"}
          \/ pc'[t] \in {"catch", "post", "ended"}
      BY <1>3, <1>t DEF DTask, deploy_fetch, fetch, deploy_wrap, auto_run_operation_wrapper,
         deploy_start, deploy_save, deploy_end, TypeOK, QueuedOnce, drop_operation,
         add_action, start_operation, start_action, save_action, catch_exception,
         clear_actions, remove_operation, end_task, worker_fails, Become
    <2>3. UnsavedIsCopy(t)'
      BY <2>1, <2>2 DEF UnsavedIsCopy
    <2> QED
      BY <1>1, <2>3
  <1> QED
    BY <1>2, <1>3

LEMMA InsertUnsaved ==
  ASSUME DTypeInv, NEW t \in OpId, insert_row(t), \A s \in OpId : UnsavedIsCopy(s)
  PROVE  \A s \in OpId : UnsavedIsCopy(s)'
  <1>1. UNCHANGED <<pc, plan, idx, copy>> /\ pc[t] = "run"
    BY DEF insert_row, vars, taskVars
  <1>2. /\ copy[t] \in SiteRow /\ unsaved \in [OpId -> AtMostOne(SiteRow)]
        /\ nextDb \in 0..MaxDb \/ ~insert_database(t)
    BY DeploymentAssumption DEF DTypeInv, DTypeOK, insert_database
  <1>3. ASSUME NEW s \in OpId \ {t}
        PROVE  UnsavedIsCopy(s)'
    <2>1. unsaved'[s] = unsaved[s]
      BY <1>2 DEF insert_row, insert_database, insert_image
    <2> QED
      BY <1>1, <2>1 DEF UnsavedIsCopy, Running
  <1>4. CASE insert_database(t)
    <2>1. unsaved'[t] = {[copy[t] EXCEPT !.db = nextDb]} /\ Running(t, "create_database_object")
      BY <1>2, <1>4 DEF insert_database
    <2>2. [copy[t] EXCEPT !.db = nextDb].db = nextDb
      BY <1>2 DEF SiteRow
    <2>3. UnsavedIsCopy(t)'
      BY <1>1, <2>1, <2>2 DEF UnsavedIsCopy, Running
    <2> QED
      BY <1>3, <2>3
  <1>5. CASE insert_image(t)
    <2>1. /\ unsaved'[t] = {[copy[t] EXCEPT !.custom = TRUE]} /\ ~copy[t].custom
          /\ Running(t, "update_image_object")
      BY <1>2, <1>5 DEF insert_image
    <2>2. UnsavedIsCopy(t)'
      BY <1>1, <2>1 DEF UnsavedIsCopy, Running
    <2> QED
      BY <1>3, <2>2
  <1> QED
    BY <1>4, <1>5 DEF insert_row

(* A callback that does not raise breaks a part only if a later action of  *)
(* the plan, or the rest of its own, restores it.                          *)
LEMMA CallbackOwes ==
  ASSUME DTypeInv, NEW t \in OpId, deploy_run(t), ~Raises(t), opType[t] # "delete_site",
         CopyIsCurrent(t), PlanIsCurrent(t), Delivered(t), UnsavedIsCopy(t)
  PROVE  /\ \A p \in Parts :
              Right(p) => \/ Right(p)'
                          \/ \E j \in idx[t]..Len(plan[t]) : plan[t][j] \in Restorers(p)
         /\ CopyIsCurrent(t)' /\ PlanIsCurrent(t)' /\ Delivered(t)'
  <1> DEFINE slug == plan[t][idx[t]]
             Keeps(p) == Right(p) => Right(p)' \/ \E j \in idx[t]..Len(plan[t]) : plan[t][j] \in Restorers(p)
             Rest == CopyIsCurrent(t)' /\ PlanIsCurrent(t)' /\ Delivered(t)'
             All == /\ Keeps("nginx") /\ Keeps("service") /\ Keeps("files") /\ Keeps("database")
                    /\ Rest
  <1> SUFFICES All
    BY DEF Parts
  <1>t. DTypeOK /\ row \in SiteRow /\ copy \in [OpId -> SiteRow] /\ failing \in [OpId -> BOOLEAN]
    BY DEF DTypeInv, DTypeOK
  <1>1. pc[t] = "run" /\ pc'[t] = "save" /\ UNCHANGED <<opType, plan, idx, seg>>
    <2>1. pc[t] = "run" /\ pc'[t] \in {"save", "catch"} /\ UNCHANGED <<opType, plan, idx, seg>>
      BY DEF deploy_run, run_segment, Become, SameWork, DTypeInv, IInv, TypeOK
    <2> QED
      BY <2>1 DEF Raises
  <1>2. UNCHANGED arg
    BY DEF deploy_run, callback, change_site_name, change_site_domains, change_site_type,
       update_availability, create_database_object, update_image_object, other_callback,
       update_docker_service, remove_docker_service, restart_docker_service,
       update_appserver_nginx_config, remove_appserver_nginx_config,
       ensure_site_directories_exist, remove_all_site_files_dangerous,
       create_real_site_database, regen_database_password, delete_site_database_and_object,
       local, dvars
  <1>3. PICK s \in SiteRow : /\ plan[t] = plan_of(opType[t], s, arg[t])
                             /\ opType[t] # "change_site_type" => s.type = row.type
    BY <1>1 DEF PlanIsCurrent, Engaged
  <1>4. idx[t] \in 1..Len(plan[t])
    BY <1>1, SavingTypes
  <1>5. opType[t] \in OpTypes
    BY <1>1 DEF DTypeInv, Planned, Planning
  <1>6. slug \in SlugsOf(opType[t], s)
    BY <1>3, <1>4, <1>5, PlanType
  <1>f. /\ slug \in {"change_site_name", "update_availability"}
             => Later(plan[t], idx[t], "update_appserver_nginx_config")
        /\ opType[t] = "change_site_type" /\ slug = "do_write_run_sh_file" =>
             /\ idx[t] = 2 /\ Later(plan[t], idx[t], "update_appserver_nginx_config")
             /\ arg[t] = "dynamic" => Later(plan[t], idx[t], "update_docker_service")
        /\ opType[t] = "change_site_type" /\ slug = "remove_docker_service"
             => idx[t] = 3 /\ arg[t] # "dynamic"
        /\ opType[t] = "change_site_type" /\ idx[t] = 2 => slug = "do_write_run_sh_file"
        /\ slug \in {"update_availability", "create_database_object"} /\ s.type = "dynamic"
             => Later(plan[t], idx[t], "update_docker_service")
        /\ slug = "update_image_object" => Later(plan[t], idx[t], "update_docker_service")
        /\ slug = "create_database_object" => Later(plan[t], idx[t], "create_real_site_database")
        /\ slug = "remove_docker_service"
             => opType[t] = "change_site_type" \/ (opType[t] = "fix_site" /\ s.type # "dynamic")
    BY <1>3, <1>4, <1>5, RowChangesAreFollowed
  <1>l. /\ Later(plan[t], idx[t], "update_appserver_nginx_config") => Keeps("nginx")
        /\ Later(plan[t], idx[t], "update_docker_service") => Keeps("service")
        /\ Later(plan[t], idx[t], "create_real_site_database") => Keeps("database")
        /\ \A p : slug \in Restorers(p) => Keeps(p)
    <2>1. idx[t] \in idx[t]..Len(plan[t])
      BY <1>4
    <2> QED
      BY <2>1 DEF Later, Restorers
  <1>c. opType[t] \notin Unlinking => copy[t] = row
    BY <1>1 DEF CopyIsCurrent, Engaged
  <1>p. ASSUME row'.type = row.type, ~(opType[t] = "change_site_type" /\ idx[t] = 2)
        PROVE  PlanIsCurrent(t)'
    BY <1>1, <1>2, <1>3, <1>p DEF PlanIsCurrent
  <1>d. ASSUME \A p \in Parts : slug \notin Restorers(p)
        PROVE  Delivered(t)'
    <2>1. slug # "update_appserver_nginx_config"
      BY <1>d DEF Parts, Restorers
    <2> QED
      BY <1>1, <1>d, <2>1 DEF Delivered, Running
  <1>s. ASSUME NEW x \in SiteRow, save_site(t, x), opType[t] \notin Unlinking, UNCHANGED remote
        PROVE  row' = x /\ copy'[t] = x /\ CopyIsCurrent(t)'
    <2>1. row' = x /\ copy'[t] = x
      BY <1>s, <1>t DEF save_site
    <2> QED
      BY <2>1 DEF CopyIsCurrent
  <1>7. CASE change_site_name(t)
    <2>1. slug = "change_site_name" /\ UNCHANGED remote
      BY <1>7 DEF change_site_name, Running
    <2>2. opType[t] \in {"rename_site", "edit_site_names"} /\ arg[t] \in Names
      <3>1. opType[t] \in {"rename_site", "edit_site_names"}
        BY <1>1, <2>1, SavingTypes
      <3> QED
        BY <1>1, <2>1, <3>1, ArgumentType DEF DTypeInv
    <2>3. copy[t] = row
      BY <1>c, <2>2 DEF Unlinking
    <2>4. row' = [row EXCEPT !.name = arg[t]] /\ copy'[t] = [copy[t] EXCEPT !.name = arg[t]]
      BY <1>7, <1>t DEF change_site_name
    <2>5. row' \in SiteRow /\ row'.type = row.type /\ row'.avail = row.avail /\ row'.db = row.db
          /\ row'.custom = row.custom
      BY <1>t, <2>2, <2>4 DEF SiteRow
    <2>6. CopyIsCurrent(t)'
      BY <2>3, <2>4 DEF CopyIsCurrent
    <2>7. PlanIsCurrent(t)'
      BY <1>p, <2>2, <2>5
    <2>8. Delivered(t)'
      BY <1>d, <2>1 DEF Parts, Restorers
    <2> QED
      BY <1>f, <1>l, <1>t, <2>1, <2>5, <2>6, <2>7, <2>8, SameDeployment
  <1>8. CASE \/ change_site_domains(t) \/ other_callback(t) \/ restart_docker_service(t)
    <2>1. UNCHANGED <<row, copy, remote>>
      BY <1>8 DEF change_site_domains, other_callback, restart_docker_service, dvars, data, local
    <2>2. /\ slug \notin {"update_appserver_nginx_config", "update_docker_service",
               "ensure_site_directories_exist", "create_real_site_database", "delete_site_database_and_object"}
          /\ slug = "do_write_run_sh_file" => opType[t] = "update_docker_image"
      BY <1>8 DEF change_site_domains, other_callback, restart_docker_service, Running
    <2>3. PlanIsCurrent(t)'
      BY <1>f, <1>p, <2>1, <2>2
    <2>4. Delivered(t)'
      BY <1>d, <2>2 DEF Parts, Restorers
    <2>5. CopyIsCurrent(t)'
      BY <1>1, <2>1 DEF CopyIsCurrent, Engaged
    <2> QED
      BY <1>t, <2>1, <2>3, <2>4, <2>5, SameDeployment
  <1>9. CASE change_site_type(t)
    <2>1. slug = "do_write_run_sh_file" /\ opType[t] = "change_site_type" /\ UNCHANGED remote
          /\ save_site(t, [copy[t] EXCEPT !.type = arg[t]])
      BY <1>9 DEF change_site_type, Running, save_raises
    <2>2. copy[t] = row /\ arg[t] \in Types
      <3>1. arg[t] \in Types
        BY <1>1, <2>1, ArgumentType DEF DTypeInv
      <3> QED
        BY <1>c, <2>1, <3>1 DEF Unlinking
    <2>3. [copy[t] EXCEPT !.type = arg[t]] \in SiteRow
      BY <1>t, <2>2 DEF SiteRow
    <2>4. row' = [row EXCEPT !.type = arg[t]] /\ CopyIsCurrent(t)'
      BY <1>s, <2>1, <2>2, <2>3 DEF Unlinking
    <2>5. row' \in SiteRow /\ row'.type = arg[t] /\ row'.db = row.db
      BY <1>t, <2>2, <2>3, <2>4 DEF SiteRow
    <2>6. PlanIsCurrent(t)'
      BY <1>1, <1>2, <1>3, <2>1, <2>5 DEF PlanIsCurrent
    <2>7. Delivered(t)'
      BY <1>d, <2>1 DEF Parts, Restorers
    <2>8. Keeps("nginx")
      BY <1>f, <1>l, <2>1
    <2>9. Keeps("service")
      BY <1>f, <1>l, <1>t, <2>1, <2>5, SameDeployment
    <2>10. Keeps("files") /\ Keeps("database")
      BY <1>t, <2>1, <2>5, SameDeployment
    <2> QED
      BY <2>4, <2>6, <2>7, <2>8, <2>9, <2>10
  <1>10. CASE update_availability(t)
    <2>1. slug = "update_availability" /\ UNCHANGED remote
          /\ save_site(t, [copy[t] EXCEPT !.avail = arg[t]])
      BY <1>10 DEF update_availability, Running, save_raises
    <2>2. opType[t] = "update_availability" /\ arg[t] \in Avail
      <3>1. opType[t] = "update_availability"
        BY <1>1, <2>1, SavingTypes
      <3> QED
        BY <1>1, <2>1, <3>1, ArgumentType DEF DTypeInv
    <2>3. copy[t] = row /\ [copy[t] EXCEPT !.avail = arg[t]] \in SiteRow
      BY <1>c, <1>t, <2>2 DEF Unlinking, SiteRow
    <2>4. row' = [row EXCEPT !.avail = arg[t]] /\ CopyIsCurrent(t)'
      BY <1>s, <2>1, <2>2, <2>3 DEF Unlinking
    <2>5. row' \in SiteRow /\ row'.type = row.type /\ row'.db = row.db
      BY <1>t, <2>3, <2>4 DEF SiteRow
    <2>6. PlanIsCurrent(t)'
      BY <1>p, <2>2, <2>5
    <2>7. Delivered(t)'
      BY <1>d, <2>1 DEF Parts, Restorers
    <2>8. Keeps("nginx")
      BY <1>f, <1>l, <2>1
    <2>9. Keeps("service")
      BY <1>3, <1>f, <1>l, <1>t, <2>1, <2>2, <2>5, SameDeployment
    <2>10. Keeps("files") /\ Keeps("database")
      BY <1>t, <2>1, <2>5, SameDeployment
    <2> QED
      BY <2>4, <2>6, <2>7, <2>8, <2>9, <2>10
  <1>11. CASE create_database_object(t)
    <2>1. slug = "create_database_object" /\ UNCHANGED remote
      BY <1>11 DEF create_database_object, Running
    <2>2. opType[t] = "create_site_database" /\ copy[t] = row
      BY <1>1, <1>c, <2>1, SavingTypes DEF Unlinking
    <2>3. PICK x \in unsaved[t] : save_site(t, x)
      BY <1>11 DEF create_database_object, save_new_row, save_raises
    <2>4. /\ x \in SiteRow /\ x = [row EXCEPT !.db = x.db]
          /\ row' = x /\ CopyIsCurrent(t)'
      <3>1. x \in SiteRow
        BY <1>t DEF DTypeOK, AtMostOne
      <3>2. x = [row EXCEPT !.db = x.db]
        BY <1>1, <2>1, <2>2 DEF UnsavedIsCopy, Running
      <3> QED
        BY <1>s, <2>1, <2>2, <2>3, <3>1, <3>2 DEF Unlinking
    <2>5. row' \in SiteRow /\ row'.type = row.type /\ row'.avail = row.avail /\ row'.name = row.name
      BY <1>t, <2>4 DEF SiteRow
    <2>6. PlanIsCurrent(t)'
      BY <1>p, <2>2, <2>5
    <2>7. Delivered(t)'
      BY <1>d, <2>1 DEF Parts, Restorers
    <2>8. Keeps("database")
      BY <1>f, <1>l, <2>1
    <2>9. Keeps("service")
      BY <1>3, <1>f, <1>l, <1>t, <2>1, <2>2, <2>5, SameDeployment
    <2>10. Keeps("files") /\ Keeps("nginx")
      BY <1>t, <2>1, <2>5, SameDeployment
    <2> QED
      BY <2>4, <2>6, <2>7, <2>8, <2>9, <2>10
  <1>12. CASE update_image_object(t)
    <2>1. slug = "update_image_object" /\ UNCHANGED remote
      BY <1>12 DEF update_image_object, Running
    <2>2. opType[t] = "update_docker_image"
      BY <1>1, <2>1, SavingTypes
    <2>3. copy[t] = row /\ [copy[t] EXCEPT !.custom = TRUE] \in SiteRow
      BY <1>c, <1>t, <2>2 DEF Unlinking, SiteRow
    <2>4. CASE \E x \in unsaved[t] : save_site(t, x)
      <3>0. PICK x \in unsaved[t] : save_site(t, x)
        BY <2>4
      <3>1. row' = [row EXCEPT !.custom = TRUE] /\ CopyIsCurrent(t)'
        <4>1. x = [copy[t] EXCEPT !.custom = TRUE]
          BY <1>1, <2>1 DEF UnsavedIsCopy, Running
        <4> QED
          BY <1>s, <2>1, <2>2, <2>3, <3>0, <4>1 DEF Unlinking
      <3>2. row' \in SiteRow /\ row'.type = row.type /\ row'.avail = row.avail /\ row'.name = row.name
            /\ row'.db = row.db
        BY <1>t, <2>3, <3>1 DEF SiteRow
      <3>3. PlanIsCurrent(t)'
        BY <1>p, <2>2, <3>2
      <3>4. Delivered(t)'
        BY <1>d, <2>1 DEF Parts, Restorers
      <3> QED
        BY <1>f, <1>l, <1>t, <2>1, <3>1, <3>2, <3>3, <3>4, SameDeployment
    <2>5. CASE UNCHANGED <<row, copy>>
      <3>1. PlanIsCurrent(t)' /\ CopyIsCurrent(t)'
        BY <1>1, <1>p, <2>2, <2>5 DEF CopyIsCurrent, Engaged
      <3>2. Delivered(t)'
        BY <1>d, <2>1 DEF Parts, Restorers
      <3> QED
        BY <1>t, <2>1, <2>5, <3>1, <3>2, SameDeployment
    <2> QED
      BY <1>12, <2>4, <2>5 DEF update_image_object, save_new_row, save_raises
  <1>13. CASE update_docker_service(t)
    <2>1. slug = "update_docker_service" /\ UNCHANGED <<row, copy, nginx, realdb, files>>
          /\ service' = docker_service(copy[t])
      BY <1>13 DEF update_docker_service, Running, data, local
    <2>2. opType[t] \notin Unlinking
      BY <1>5, <1>6, <2>1 DEF SlugsOf, OpTypes, DbSlugs, ServiceSlugs, NginxSlugs, WipeSlugs,
         OtherSlugs, Unlinking
    <2>3. copy[t] = row
      BY <1>c, <2>2
    <2>4. Right("service")'
      <3>1. row.db \in 0..MaxDb /\ [row EXCEPT !.db = row.db] = row
        BY <1>t DEF SiteRow
      <3>2. service' = docker_service(row')
        BY <2>1, <2>3
      <3>3. service' = docker_service([row' EXCEPT !.db = row.db])
        BY <2>1, <3>1, <3>2
      <3> QED
        BY <3>1, <3>2, <3>3 DEF Right, ServiceMatches
    <2>5. CopyIsCurrent(t)' /\ PlanIsCurrent(t)'
      <3>1. ~(opType[t] = "change_site_type" /\ idx[t] = 2)
        BY <1>f, <2>1
      <3> QED
        BY <1>1, <1>p, <2>1, <2>3, <3>1 DEF CopyIsCurrent
    <2>6. Delivered(t)'
      <3>1. \A p \in Parts : slug \in Restorers(p) => p = "service"
        BY <2>1 DEF Parts, Restorers
      <3> QED
        BY <1>1, <2>1, <2>4, <3>1 DEF Delivered, Running
    <2>7. Keeps("nginx") /\ Keeps("files") /\ Keeps("database")
      BY <2>1 DEF Right, NginxMatches
    <2> QED
      BY <2>4, <2>5, <2>6, <2>7
  <1>14. CASE remove_docker_service(t)
    <2>1. slug = "remove_docker_service" /\ UNCHANGED <<row, copy, nginx, realdb, files>>
      BY <1>14 DEF remove_docker_service, Running, data, local
    <2>2. opType[t] \in {"change_site_type", "fix_site"}
      BY <1>f, <2>1
    <2>3. row.type # "dynamic"
      <3>1. opType[t] = "change_site_type" => row.type = arg[t]
        BY <1>1, <1>f, <2>1 DEF PlanIsCurrent
      <3> QED
        BY <1>3, <1>f, <2>1, <2>2, <3>1
    <2>4. Right("service")'
      BY <2>1, <2>3 DEF Right, ServiceMatches
    <2>5. CopyIsCurrent(t)' /\ PlanIsCurrent(t)'
      <3>1. ~(opType[t] = "change_site_type" /\ idx[t] = 2)
        BY <1>f, <2>1
      <3> QED
        BY <1>1, <1>p, <2>1, <3>1 DEF CopyIsCurrent, Engaged
    <2>6. Delivered(t)'
      BY <1>d, <2>1 DEF Parts, Restorers
    <2>7. Keeps("nginx") /\ Keeps("files") /\ Keeps("database")
      BY <2>1 DEF Right, NginxMatches
    <2> QED
      BY <2>4, <2>5, <2>6, <2>7
  <1>15. CASE update_appserver_nginx_config(t)
    <2>1. slug = "update_appserver_nginx_config" /\ UNCHANGED <<row, copy, service, realdb, files>>
      BY <1>15 DEF update_appserver_nginx_config, Running, data
    <2>2. opType[t] \notin Unlinking
      BY <1>5, <1>6, <2>1 DEF SlugsOf, OpTypes, DbSlugs, ServiceSlugs, NginxSlugs, WipeSlugs,
         OtherSlugs, Unlinking
    <2>3. copy[t] = row
      BY <1>c, <2>2
    <2>4. ~failing'[t] => Right("nginx")'
      <3>1. ASSUME ~failing'[t]
            PROVE  \/ nginx' = {nginx_of(copy[t])}
                   \/ ~failing[t] /\ seg[t] = 2 /\ UNCHANGED nginx
        BY <1>15, <1>t, <3>1 DEF update_appserver_nginx_config
      <3>2. ~failing[t] /\ seg[t] = 2 => Right("nginx")
        BY <1>1, <2>1 DEF Delivered, Running
      <3> QED
        BY <2>1, <2>3, <3>1, <3>2 DEF Right, NginxMatches
    <2>5. CopyIsCurrent(t)' /\ PlanIsCurrent(t)'
      <3>1. ~(opType[t] = "change_site_type" /\ idx[t] = 2)
        BY <1>f, <2>1
      <3> QED
        BY <1>1, <1>p, <2>1, <2>3, <3>1 DEF CopyIsCurrent
    <2>6. Delivered(t)'
      <3>1. \A p \in Parts : slug \in Restorers(p) => p = "nginx"
        BY <2>1 DEF Parts, Restorers
      <3> QED
        BY <1>1, <2>1, <2>4, <3>1 DEF Delivered, Running, yields
    <2>7. Keeps("service") /\ Keeps("files") /\ Keeps("database")
      BY <2>1 DEF Right, ServiceMatches
    <2>8. Keeps("nginx")
      BY <1>l, <2>1 DEF Restorers
    <2> QED
      BY <2>5, <2>6, <2>7, <2>8
  <1>16. CASE ensure_site_directories_exist(t)
    <2>1. slug = "ensure_site_directories_exist" /\ UNCHANGED <<row, copy, service, realdb, nginx>>
          /\ files' = TRUE
      BY <1>16 DEF ensure_site_directories_exist, Running, data, local
    <2>2. CopyIsCurrent(t)' /\ PlanIsCurrent(t)'
      <3>1. ~(opType[t] = "change_site_type" /\ idx[t] = 2)
        BY <1>f, <2>1
      <3> QED
        BY <1>1, <1>p, <2>1, <3>1 DEF CopyIsCurrent, Engaged
    <2>3. Delivered(t)'
      <3>1. \A p \in Parts : slug \in Restorers(p) => p = "files"
        BY <2>1 DEF Parts, Restorers
      <3> QED
        BY <1>1, <2>1, <3>1 DEF Delivered, Running, Right
    <2>4. Keeps("nginx") /\ Keeps("service") /\ Keeps("files") /\ Keeps("database")
      BY <2>1 DEF Right, ServiceMatches, NginxMatches
    <2> QED
      BY <2>2, <2>3, <2>4
  <1>17. CASE create_real_site_database(t) \/ regen_database_password(t)
    <2>1. /\ UNCHANGED <<row, copy, service, files, nginx>> /\ (realdb => realdb')
          /\ slug \in {"create_real_site_database", "regen_database_password"}
          /\ slug = "create_real_site_database" => realdb'
      BY <1>17 DEF create_real_site_database, regen_database_password, Running, data, local
    <2>2. CopyIsCurrent(t)' /\ PlanIsCurrent(t)'
      <3>1. ~(opType[t] = "change_site_type" /\ idx[t] = 2)
        BY <1>f, <2>1
      <3> QED
        BY <1>1, <1>p, <2>1, <3>1 DEF CopyIsCurrent, Engaged
    <2>3. Delivered(t)'
      <3>1. \A p \in Parts : slug \in Restorers(p) => p = "database" /\ slug = "create_real_site_database"
        BY <2>1 DEF Parts, Restorers
      <3> QED
        BY <1>1, <2>1, <3>1 DEF Delivered, Running, Right
    <2>4. Keeps("nginx") /\ Keeps("service") /\ Keeps("files")
      BY <2>1 DEF Right, ServiceMatches, NginxMatches
    <2>5. Keeps("database")
      BY <2>1 DEF Right
    <2> QED
      BY <2>2, <2>3, <2>4, <2>5
  <1>18. CASE delete_site_database_and_object(t)
    <2>1. slug = "delete_site_database_and_object" /\ UNCHANGED <<copy, service, files, nginx>>
      BY <1>18 DEF delete_site_database_and_object, Running, local
    <2>2. opType[t] = "delete_site_database"
      BY <1>1, <2>1, SavingTypes DEF Unlinking
    <2>3. Keeps("database")
      BY <1>l, <2>1 DEF Restorers
    <2>4. \A p \in Parts : slug \in Restorers(p) => p = "database"
      BY <2>1 DEF Parts, Restorers
    <2>5. CASE seg[t] = 1
      <3>1. UNCHANGED row
        BY <1>18, <2>5 DEF delete_site_database_and_object
      <3>2. Keeps("nginx") /\ Keeps("service") /\ Keeps("files")
        BY <2>1, <3>1 DEF Right, ServiceMatches, NginxMatches
      <3>3. CopyIsCurrent(t)' /\ PlanIsCurrent(t)'
        BY <1>1, <1>p, <2>1, <2>2, <3>1 DEF CopyIsCurrent, Engaged
      <3>4. yields(t)'
        BY <1>1, <2>1, <2>5 DEF yields, TwoSegments
      <3>5. Delivered(t)'
        BY <1>1, <2>1, <3>4 DEF Delivered, Running
      <3> QED
        BY <2>3, <3>2, <3>3, <3>5
    <2>6. CASE seg[t] # 1
      <3>1. row' = IF row.db = copy[t].db THEN [row EXCEPT !.db = NoDb] ELSE row
        BY <1>18, <2>6 DEF delete_site_database_and_object
      <3>2. copy[t] = row \/ row = [copy[t] EXCEPT !.db = NoDb]
        BY <1>1 DEF CopyIsCurrent, Engaged
      <3>3. row' = [copy[t] EXCEPT !.db = NoDb] /\ row'.db = NoDb /\ row'.type = row.type
            /\ row'.avail = row.avail /\ row'.name = row.name /\ row'.custom = row.custom
            /\ row' = [row EXCEPT !.db = NoDb]
        BY <1>t, <3>1, <3>2 DEF SiteRow, NoDb
      <3>4. CopyIsCurrent(t)' /\ PlanIsCurrent(t)'
        BY <1>1, <1>p, <2>1, <2>2, <3>3 DEF CopyIsCurrent, Unlinking
      <3>5. Right("database")' /\ Delivered(t)'
        BY <1>1, <2>1, <2>4, <3>3 DEF Delivered, Running, Right
      <3>6. Keeps("nginx") /\ Keeps("files")
        BY <2>1, <3>3 DEF Right, NginxMatches, nginx_of
      <3>7. Keeps("service")
        <4>1. row.db \in 0..MaxDb /\ [row EXCEPT !.db = row.db] = row
          BY <1>t DEF SiteRow
        <4>2. \A d \in 0..MaxDb : [row' EXCEPT !.db = d] = [row EXCEPT !.db = d]
          BY <1>t, <3>3 DEF SiteRow
        <4>3. Right("service") /\ row.type = "dynamic" => \E d \in 0..MaxDb : service = docker_service([row EXCEPT !.db = d])
          BY <4>1 DEF Right, ServiceMatches
        <4>4. Right("service") /\ row'.type = "dynamic" => \E d \in 0..MaxDb : service' = docker_service([row' EXCEPT !.db = d])
          BY <2>1, <3>3, <4>2, <4>3
        <4> QED
          BY <3>3, <4>4 DEF Right, ServiceMatches
      <3> QED
        BY <3>4, <3>5, <3>6, <3>7
    <2> QED
      BY <2>5, <2>6
  <1>19. ~remove_appserver_nginx_config(t) /\ ~remove_all_site_files_dangerous(t)
    BY <1>5, <1>6 DEF remove_appserver_nginx_config, remove_all_site_files_dangerous, Running,
       SlugsOf, OpTypes, DbSlugs, ServiceSlugs, NginxSlugs, WipeSlugs, OtherSlugs
  <1> QED
    BY <1>7, <1>8, <1>9, <1>10, <1>11, <1>12, <1>13, <1>14, <1>15, <1>16, <1>17, <1>18, <1>19
       DEF deploy_run, callback

-----------------------------------------------------------------------------
(* What NoSilentDrift excepts is never forgotten either.                   *)
LEMMA TaskOk ==
  ASSUME DTypeInv, OkIsOver, NEW t \in OpId, DTask(t)
  PROVE  /\ OkIsOver'
         /\ ok[t] => ok'[t]
         /\ late[t] # 0 => late'[t] # 0
         /\ late'[t] # late[t] => deploy_run(t)
         /\ ok'[t] /\ ~ok[t] => clear_actions(t)
  <1> USE DEF Become, SameWork, dbVars, taskVars
  <1>t. TypeOK /\ DTypeOK /\ QueuedOnce
    BY DEF DTypeInv, IInv
  <1>1. TaskNext(t) \/ worker_fails(t)
    BY TaskStepIsEngineStep
  <1>2. \A s \in OpId \ {t} : pc'[s] = pc[s] /\ ok'[s] = ok[s]
    BY <1>t, TaskFrame
  <1>3. ok[t] => pc[t] \in {"remove", "post", "ended"}
    BY DEF OkIsOver
  <1>4. CASE clear_actions(t)
    <2>1. pc'[t] = "remove" /\ ok'[t] /\ UNCHANGED late
      BY <1>4, <1>t DEF clear_actions, TypeOK
    <2> QED
      BY <1>2, <1>4, <2>1 DEF OkIsOver
  <1>5. CASE ~clear_actions(t)
    <2>1. UNCHANGED ok
      BY <1>1, <1>5 DEF TaskNext, fetch, drop_operation, auto_run_operation_wrapper, add_action,
         start_operation, start_action, run_segment, save_action, catch_exception,
         remove_operation, end_task, worker_fails
    <2>2. pc[t] \in {"remove", "post", "ended"} => pc'[t] \in {"remove", "post", "ended"}
      BY <1>1, <1>5, <1>t DEF TaskNext, fetch, drop_operation, auto_run_operation_wrapper,
         add_action, start_operation, start_action, run_segment, save_action, catch_exception,
         remove_operation, end_task, worker_fails, TypeOK, QueuedOnce
    <2>3. OkIsOver'
      BY <1>2, <1>3, <2>1, <2>2 DEF OkIsOver
    <2>4. CASE run_segment(t)
      <3>1. late'[t] \in {late[t], late[t] + 1} /\ late[t] \in Nat
        BY <1>t, <2>4 DEF run_segment, TypeOK
      <3>2. deploy_run(t)
        BY <1>t, <2>4 DEF DTask, deploy_run, deploy_fetch, deploy_wrap, deploy_start, deploy_save,
           deploy_end, fetch, drop_operation, auto_run_operation_wrapper,
           add_action, start_operation, start_action, run_segment, save_action, catch_exception,
           clear_actions, remove_operation, end_task, worker_fails, TypeOK, QueuedOnce
      <3> QED
        BY <2>1, <2>3, <3>1, <3>2
    <2>5. CASE ~run_segment(t)
      <3>1. UNCHANGED late
        BY <1>1, <1>5, <2>5 DEF TaskNext, fetch, drop_operation, auto_run_operation_wrapper,
           add_action, start_operation, start_action, save_action, catch_exception,
           remove_operation, end_task, worker_fails
      <3> QED
        BY <2>1, <2>3, <3>1
    <2> QED
      BY <2>4, <2>5
  <1> QED
    BY <1>4, <1>5

LEMMA TaskStaysClean ==
  ASSUME DTypeInv, OkIsOver, NEW t \in OpId, DTask(t), Clean'
  PROVE  Clean
  <1>1. UNCHANGED opType /\ \A s \in OpId \ {t} : ok'[s] = ok[s] /\ late'[s] = late[s]
    BY TaskFrame DEF DTypeInv, IInv
  <1>2. ~overtaken
    BY DEF Clean, DTask
  <1> QED
    BY <1>1, <1>2, TaskOk DEF Clean, DeleteDone

LEMMA RequestStaysClean ==
  ASSUME DTypeInv, OkIsOver, NEW r \in Requests, DRequest(r)
  PROVE  OkIsOver' /\ (Clean' => Clean)
  <1>t. TypeOK /\ DTypeOK /\ IInv /\ FreshIds
    BY DEF DTypeInv, IInv
  <1>1. /\ UNCHANGED <<pc, ok, late>>
        /\ \/ UNCHANGED opType
           \/ nextOp \in OpId /\ opType' = [opType EXCEPT ![nextOp] = req[r].type]
    BY <1>t, RequestFrame
  <1>2. overtaken => overtaken'
    BY DEF DRequest
  <1>3. \A t \in OpId : ok[t] => opType'[t] = opType[t]
    <2>1. nextOp \in OpId => pc[nextOp] = "none"
      BY <1>t DEF FreshIds, TypeOK, OpId
    <2> QED
      BY <1>1, <1>t, <2>1 DEF OkIsOver, TypeOK
  <1> QED
    BY <1>1, <1>2, <1>3 DEF OkIsOver, Clean, DeleteDone
-----------------------------------------------------------------------------
(* The steps of the task whose operation the site has *)

LEMMA SameRight ==
  ASSUME UNCHANGED <<row, remote>>
  PROVE  \A p \in Parts : Right(p)' <=> Right(p)
  <1> SUFFICES ASSUME NEW p \in Parts PROVE Right(p)' <=> Right(p)
    OBVIOUS
  <1>1. ServiceMatches' <=> ServiceMatches
    BY DEF ServiceMatches, remote
  <1> QED
    BY <1>1 DEF Right, NginxMatches, remote, Parts

LEMMA SamePromises ==
  ASSUME UNCHANGED req
  PROVE  \A p : Promised(p)' <=> Promised(p)
  BY DEF Promised

LEMMA TakingUp ==
  ASSUME DriftInv, ~Faults, NEW t \in opRows, DTask(t), AtItsEnd(t),
         opType[t] # "delete_site" => AtWork(t), deploy_fetch(t) \/ deploy_wrap(t)
  PROVE  /\ UNCHANGED opRows
         /\ AtItsEnd(t)' /\ (opType[t] # "delete_site" => AtWork(t)')
         /\ \A p \in Parts : Owed(t, p) => Right(p) \/ Owed(t, p)'
  <1>t. TypeOK /\ DTypeOK /\ t \in OpId /\ row \in SiteRow /\ opType'[t] = opType[t]
    <2>1. TypeOK /\ DTypeOK /\ t \in OpId
      BY DEF DriftInv, DTypeInv, IInv, TypeOK
    <2> QED
      BY <2>1, TaskFrame DEF DTypeOK
  <1>0. UNCHANGED <<opRows, row>>
    BY DEF deploy_fetch, deploy_wrap, fetch, auto_run_operation_wrapper, dbVars, data
  <1>1. CASE deploy_fetch(t)
    <2>1. pc[t] = "none" /\ pc'[t] \in {"wrap", "drop_op"}
      <3>1. t \in broker /\ pc'[t] \in {"wrap", "drop_op"}
        BY <1>1, <1>t DEF deploy_fetch, fetch, Become, TypeOK
      <3> QED
        BY <3>1 DEF DriftInv, DTypeInv, IInv, QueuedOnce
    <2>2. CASE pc'[t] = "wrap"
      <3>1. PICK a \in Args(opType[t]) :
              plan'[t] = plan_of(opType[t], row, a) /\ arg' = [arg EXCEPT ![t] = a]
        BY <1>1, <2>2 DEF deploy_fetch
      <3>2. arg'[t] = a
        BY <1>t, <3>1 DEF DTypeOK
      <3>3. AtWork(t)'
        BY <1>0, <1>t, <2>2, <3>1, <3>2
           DEF AtWork, CopyIsCurrent, Engaged, PlanIsCurrent, Delivered
      <3> QED
        BY <1>0, <1>t, <2>1, <2>2, <3>3 DEF AtItsEnd, Owed, ToDo
    <2>3. CASE pc'[t] = "drop_op"
      <3>1. opType[t] = "delete_site_database"
        BY <1>1, <1>t, <2>3 DEF deploy_fetch, fetch, Become, TypeOK
      <3>2. AtWork(t)'
        BY <2>3 DEF AtWork, CopyIsCurrent, Engaged, PlanIsCurrent, Delivered
      <3>3. \A p \in Parts : ~Owed(t, p)
        BY <2>1, <3>1 DEF Owed, ToDo, Repairs
      <3> QED
        BY <1>0, <1>t, <2>3, <3>1, <3>2, <3>3 DEF AtItsEnd
    <2> QED
      BY <2>1, <2>2, <2>3
  <1>2. CASE deploy_wrap(t)
    <2>1. /\ pc[t] = "wrap" /\ pc'[t] = "adding" /\ UNCHANGED <<plan, arg>>
          /\ copy'[t] = row
      <3>1. pc[t] = "wrap" /\ pc'[t] = "adding" /\ UNCHANGED <<plan, arg>>
        BY <1>2, <1>t DEF deploy_wrap, auto_run_operation_wrapper, SameWork, Become, TypeOK
      <3> QED
        BY <1>2, <1>t, <3>1 DEF deploy_wrap, DTypeOK
    <2>2. CASE opType[t] = "delete_site"
      BY <1>0, <1>t, <2>1, <2>2 DEF AtItsEnd, Owed
    <2>3. CASE opType[t] # "delete_site"
      <3>1. plan[t] = plan_of(opType[t], row, arg[t])
        BY <2>1, <2>3 DEF AtWork, PlanIsCurrent
      <3>2. AtWork(t)'
        BY <1>0, <1>t, <2>1, <3>1 DEF AtWork, CopyIsCurrent, PlanIsCurrent, Delivered
      <3>3. ASSUME NEW p \in Parts, Owed(t, p)
            PROVE  Right(p) \/ ToDo(t, p)'
        <4>1. opType[t] \in Repairs(p)
          BY <2>1, <2>3, <3>3 DEF Owed, ToDo
        <4>2. opType[t] \in {"fix_site", "create_site"} /\ (p = "database" => opType[t] = "fix_site")
          BY <4>1 DEF Repairs
        <4>3. Right(p) \/ \E i \in 1..Len(plan[t]) : plan[t][i] \in Restorers(p)
          <5>1. /\ \E i \in 1..Len(plan[t]) : plan[t][i] = "update_appserver_nginx_config"
                /\ \E i \in 1..Len(plan[t]) : plan[t][i] = "ensure_site_directories_exist"
                /\ row.type = "dynamic" =>
                     \E i \in 1..Len(plan[t]) : plan[t][i] = "update_docker_service"
                /\ opType[t] = "fix_site" /\ row.db # NoDb =>
                     \E i \in 1..Len(plan[t]) : plan[t][i] = "create_real_site_database"
            <6>1. row \in SiteRow /\ opType[t] \in {"fix_site", "create_site"}
              BY <1>t, <4>2
            <6> QED
              BY <3>1, <6>1, RepairsRestore
          <5>2. CASE p = "nginx"
            BY <5>1, <5>2 DEF Restorers
          <5>3. CASE p = "service"
            BY <5>1, <5>3 DEF Restorers, Right, ServiceMatches
          <5>4. CASE p = "files"
            BY <5>1, <5>4 DEF Restorers
          <5>5. CASE p = "database"
            BY <4>2, <5>1, <5>5 DEF Restorers, Right
          <5> QED
            BY <5>2, <5>3, <5>4, <5>5 DEF Parts
        <4> QED
          BY <2>1, <4>3 DEF ToDo
      <3> QED
        BY <1>0, <1>t, <2>1, <3>2, <3>3 DEF AtItsEnd, Owed
    <2> QED
      BY <2>2, <2>3
  <1> QED
    BY <1>1, <1>2

LEMMA Preparing ==
  ASSUME DriftInv, NEW t \in opRows, DTask(t), AtItsEnd(t),
         opType[t] # "delete_site" => AtWork(t),
         add_action(t) \/ start_operation(t) \/ deploy_start(t),
         UNCHANGED <<row, remote>>
  PROVE  /\ UNCHANGED opRows
         /\ AtItsEnd(t)' /\ (opType[t] # "delete_site" => AtWork(t)')
         /\ \A p \in Parts : Owed(t, p) => Owed(t, p)'
  <1>t. TypeOK /\ DTypeOK /\ t \in OpId /\ opType'[t] = opType[t] /\ Started(t)
    <2>1. TypeOK /\ DTypeOK /\ t \in OpId
      BY DEF DriftInv, DTypeInv, IInv, TypeOK
    <2> QED
      BY <2>1, TaskFrame DEF DriftInv, DTypeInv
  <1>0. UNCHANGED <<opRows, row, plan, ok>>
    BY DEF add_action, start_operation, deploy_start, start_action, SameWork, dbVars
  <1>1. UNCHANGED <<arg, copy>>
    <2>1. CASE deploy_start(t)
      BY <2>1 DEF deploy_start
    <2>2. CASE add_action(t) \/ start_operation(t)
      <3>1. pc[t] \in {"adding", "start"}
        BY <2>2 DEF add_action, start_operation
      <3>2. UNCHANGED dvars
        BY <1>t, <2>2, <3>1 DEF DTask, deploy_fetch, deploy_wrap, deploy_start, deploy_run,
           deploy_save, deploy_end, fetch, auto_run_operation_wrapper, start_action, run_segment,
           save_action, end_task, drop_operation, catch_exception, clear_actions, remove_operation,
           worker_fails, DriftInv, DTypeInv, IInv, QueuedOnce
      <3> QED
        BY <3>2 DEF dvars, local
    <2> QED
      BY <2>1, <2>2
  <1>2. CASE add_action(t)
    <2>1. pc[t] = "adding" /\ pc'[t] \in {"adding", "start"}
      BY <1>2, <1>t DEF add_action, Become, action_allowed, TypeOK
    <2>2. opType[t] # "delete_site" => AtWork(t)'
      BY <1>0, <1>1, <1>t, <2>1 DEF AtWork, CopyIsCurrent, PlanIsCurrent, Delivered, Engaged
    <2> QED
      BY <1>0, <1>t, <2>1, <2>2 DEF AtItsEnd, Owed, ToDo
  <1>3. CASE start_operation(t)
    <2>1. pc[t] = "start" /\ pc'[t] = "begin" /\ idx'[t] = 1 /\ UNCHANGED idx
      BY <1>3, <1>t DEF start_operation, Become, SameWork, TypeOK, Started
    <2>2. opType[t] # "delete_site" => AtWork(t)'
      BY <1>0, <1>1, <1>t, <2>1 DEF AtWork, CopyIsCurrent, PlanIsCurrent, Delivered, Engaged
    <2> QED
      BY <1>0, <1>t, <2>1, <2>2 DEF AtItsEnd, Owed, ToDo
  <1>4. CASE deploy_start(t)
    <2>1. /\ pc[t] = "begin" /\ pc'[t] \in {"run", "catch"} /\ UNCHANGED idx /\ seg'[t] = 1
      BY <1>4, <1>t DEF deploy_start, start_action, Become, TypeOK
    <2>2. opType[t] # "delete_site" => AtWork(t)'
      BY <1>0, <1>1, <1>t, <2>1 DEF AtWork, CopyIsCurrent, PlanIsCurrent, Delivered, Engaged
    <2> QED
      BY <1>0, <1>t, <2>1, <2>2 DEF AtItsEnd, Owed, ToDo
  <1> QED
    BY <1>2, <1>3, <1>4

(* A return of a callback is worth what Delivered says.                    *)
LEMMA Returning ==
  ASSUME DriftInv, NEW t \in opRows, DTask(t), AtItsEnd(t),
         opType[t] # "delete_site" => AtWork(t), deploy_save(t)
  PROVE  /\ UNCHANGED opRows
         /\ AtItsEnd(t)' /\ (opType[t] # "delete_site" => AtWork(t)')
         /\ \A p \in Parts : Owed(t, p) => Right(p) \/ Owed(t, p)'
  <1>t. TypeOK /\ DTypeOK /\ t \in OpId /\ opType'[t] = opType[t]
    <2>1. TypeOK /\ DTypeOK /\ t \in OpId
      BY DEF DriftInv, DTypeInv, IInv, TypeOK
    <2> QED
      BY <2>1, TaskFrame
  <1>0. pc[t] = "save" /\ UNCHANGED <<opRows, plan, ok, row, remote, arg, copy, failing>>
    BY DEF deploy_save, save_action, dvars, data, local
  <1>1. idx[t] \in Nat /\ Len(plan[t]) \in Nat /\ seg[t] \in Nat /\ seg[t] >= 1
    <2>1. idx[t] \in 1..MaxActions /\ Len(plan[t]) \in 1..MaxActions /\ seg[t] \in 1..MaxSegments
      BY <1>0, <1>t DEF DriftInv, DTypeInv, IInv, TaskInv, IndexInPlan, TypeOK
    <2> QED
      BY <2>1, ConstantsAssumption
  <1>r. \A p \in Parts : Right(p)' <=> Right(p)
    BY <1>0, SameRight
  <1>2. \/ pc'[t] = "run" /\ yields(t) /\ UNCHANGED idx
        \/ pc'[t] \in {"begin", "clear"} /\ ~yields(t)
    <2>1. pc'[t] \in {"run", "begin", "clear"}
      BY <1>t DEF deploy_save, save_action, action_allowed, Become, TypeOK
    <2>2. pc'[t] = "run" => UNCHANGED idx
      BY <1>t DEF deploy_save, save_action, action_allowed, Become, TypeOK
    <2> QED
      BY <2>1, <2>2 DEF deploy_save
  <1>3. CASE pc'[t] = "run" /\ UNCHANGED idx
    <2>1. opType[t] # "delete_site" => AtWork(t)'
      <3> SUFFICES ASSUME opType[t] # "delete_site" PROVE AtWork(t)'
        OBVIOUS
      <3>1. CopyIsCurrent(t)' /\ PlanIsCurrent(t)'
        BY <1>0, <1>3, <1>t DEF AtWork, CopyIsCurrent, PlanIsCurrent, Engaged
      <3>2. Delivered(t)'
        BY <1>0, <1>3, <1>r, <1>t DEF AtWork, Delivered, Running, Parts
      <3> QED
        BY <3>1, <3>2 DEF AtWork
    <2> QED
      BY <1>0, <1>3, <1>t, <2>1 DEF AtItsEnd, Owed, ToDo
  <1>4. CASE pc'[t] \in {"begin", "clear"} /\ ~yields(t)
    <2>1. \/ pc'[t] = "begin" /\ idx'[t] = idx[t] + 1
          \/ pc'[t] = "clear" /\ idx[t] = Len(plan[t])
      BY <1>4, <1>t DEF deploy_save, save_action, action_allowed, Become, last_action, TypeOK
    <2>2. CASE opType[t] = "delete_site"
      BY <1>0, <1>4, <1>t, <2>2 DEF AtItsEnd, Owed
    <2>3. CASE opType[t] # "delete_site"
      <3>1. CopyIsCurrent(t)' /\ Delivered(t)'
        BY <1>0, <1>4, <1>t, <2>3 DEF AtWork, CopyIsCurrent, Engaged, Delivered
      <3>2. PlanIsCurrent(t)'
        <4>1. /\ \E s \in SiteRow : /\ plan[t] = plan_of(opType[t], s, arg[t])
                                    /\ opType[t] # "change_site_type" => s.type = row.type
              /\ opType[t] = "change_site_type" /\ idx[t] >= 2 => row.type = arg[t]
          <5>1. idx[t] >= 2 => idx[t] = 2 \/ idx[t] >= 3
            BY <1>1
          <5> QED
            BY <1>0, <2>3, <5>1 DEF AtWork, PlanIsCurrent, Engaged
        <4>2. pc'[t] = "begin" /\ idx'[t] >= 3 => idx[t] >= 2
          BY <1>1, <2>1
        <4> QED
          BY <1>0, <1>4, <1>t, <4>1, <4>2 DEF PlanIsCurrent, Engaged
      <3>3. ASSUME NEW p \in Parts, Owed(t, p), ~Right(p)
            PROVE  ToDo(t, p)'
        <4>1. PICK i \in idx[t]..Len(plan[t]) : plan[t][i] \in Restorers(p)
          BY <1>0, <2>3, <3>3 DEF Owed, ToDo
        <4>2. i # idx[t]
          BY <1>0, <1>4, <2>3, <3>3, <4>1 DEF AtWork, Delivered
        <4>3. pc'[t] = "begin" /\ i \in (idx[t] + 1)..Len(plan[t])
          BY <1>1, <2>1, <4>1, <4>2
        <4> QED
          BY <1>0, <2>1, <4>1, <4>3 DEF ToDo
      <3> QED
        BY <1>0, <1>4, <1>t, <3>1, <3>2, <3>3 DEF AtItsEnd, AtWork, Owed
    <2> QED
      BY <2>2, <2>3
  <1> QED
    BY <1>2, <1>3, <1>4

LEMMA Working ==
  ASSUME DriftInv, NEW t \in opRows, DTask(t), AtItsEnd(t), site = "present",
         opType[t] # "delete_site" => AtWork(t), deploy_run(t)
  PROVE  /\ UNCHANGED opRows /\ site' = "present"
         /\ AtItsEnd(t)' /\ (opType[t] # "delete_site" => AtWork(t)')
         /\ \A p \in Parts : Right(p) \/ Owed(t, p) => Right(p)' \/ Owed(t, p)'
  <1>t. TypeOK /\ DTypeOK /\ t \in OpId /\ opType'[t] = opType[t]
    <2>1. TypeOK /\ DTypeOK /\ t \in OpId
      BY DEF DriftInv, DTypeInv, IInv, TypeOK
    <2> QED
      BY <2>1, TaskFrame
  <1>0. /\ pc[t] = "run" /\ pc'[t] \in {"save", "catch"} /\ UNCHANGED <<opRows, plan, idx, ok>>
        /\ site' = "present"
    BY <1>t DEF deploy_run, run_segment, SameWork, Become, TypeOK
  <1>a. AtItsEnd(t)'
    BY <1>0 DEF AtItsEnd
  <1>1. CASE opType[t] = "delete_site"
    BY <1>0, <1>1, <1>a, <1>t DEF Owed
  <1>2. CASE opType[t] # "delete_site" /\ Raises(t)
    <2>1. ASSUME UNCHANGED <<row, copy, arg>>
          PROVE  AtWork(t)'
      BY <1>0, <1>2, <1>t, <2>1
         DEF AtWork, CopyIsCurrent, PlanIsCurrent, Delivered, Engaged, Raises
    <2>2. ASSUME create_database_object(t) \/ update_image_object(t), ~UNCHANGED <<row, copy>>
          PROVE  AtWork(t)'
      <3>1. UNCHANGED arg
        BY <2>2 DEF create_database_object, update_image_object
      <3>2. PICK s \in unsaved[t] : save_site(t, s)
        BY <2>2 DEF create_database_object, update_image_object, save_new_row, save_raises
      <3>3. s \in SiteRow /\ row' = s /\ copy'[t] = s
        BY <1>t, <3>2 DEF save_site, DTypeOK, AtMostOne
      <3>4. opType[t] \notin Unlinking
        <4>1. DTypeInv
          BY DEF DriftInv
        <4>2. Running(t, "create_database_object") \/ Running(t, "update_image_object")
          BY <2>2 DEF create_database_object, update_image_object
        <4>3. t \in OpId /\ pc[t] = "run"
          BY <1>0, <1>t
        <4>4. opType[t] \in {"create_site_database", "update_docker_image"}
          BY <4>1, <4>2, <4>3, SavingTypes DEF Running
        <4> QED
          BY <4>4 DEF Unlinking
      <3>5. copy[t] = row /\ row \in SiteRow
        BY <1>0, <1>2, <1>t, <3>4 DEF AtWork, CopyIsCurrent, Engaged, DTypeOK
      <3>6. s.type = row.type
        <4>1. s = [row EXCEPT !.db = s.db] \/ s = [row EXCEPT !.custom = TRUE]
          BY <1>0, <1>t, <3>5 DEF DriftInv, UnsavedIsCopy
        <4> QED
          BY <3>5, <4>1 DEF SiteRow
      <3>7. pc'[t] = "catch"
        BY <1>2 DEF Raises
      <3> QED
        BY <1>0, <1>2, <1>t, <3>1, <3>3, <3>6, <3>7
           DEF AtWork, CopyIsCurrent, PlanIsCurrent, Delivered, Engaged
    <2>3. UNCHANGED <<row, copy, arg>> \/ create_database_object(t) \/ update_image_object(t)
      BY <1>2 DEF deploy_run, callback, change_site_name, change_site_domains, change_site_type,
         update_availability, other_callback,
         update_docker_service, remove_docker_service, restart_docker_service,
         update_appserver_nginx_config, remove_appserver_nginx_config,
         ensure_site_directories_exist, remove_all_site_files_dangerous,
         create_real_site_database, regen_database_password, delete_site_database_and_object,
         save_raises, data, local, dvars
    <2>4. UNCHANGED <<row, copy>> => UNCHANGED <<row, copy, arg>>
      BY <2>3 DEF create_database_object, update_image_object
    <2>5. AtWork(t)'
      BY <2>1, <2>2, <2>3, <2>4
    <2> QED
      BY <1>0, <1>2, <1>a, <2>5 DEF Owed, Raises
  <1>3. CASE opType[t] # "delete_site" /\ ~Raises(t)
    <2>1. /\ \A p \in Parts :
               Right(p) => \/ Right(p)'
                           \/ \E j \in idx[t]..Len(plan[t]) : plan[t][j] \in Restorers(p)
          /\ AtWork(t)'
      BY <1>3, <1>t, CallbackOwes DEF AtWork, DriftInv
    <2>2. pc'[t] = "save"
      BY <1>0, <1>3 DEF Raises
    <2> QED
      BY <1>0, <1>3, <1>a, <2>1, <2>2 DEF Owed, ToDo
  <1> QED
    BY <1>1, <1>2, <1>3

LEMMA Ending ==
  ASSUME DriftInv, NEW t \in opRows, DTask(t), AtItsEnd(t), ~DeleteDone', ~DeleteDone,
         opType[t] # "delete_site" => AtWork(t), UNCHANGED <<row, remote>>,
         \/ catch_exception(t) \/ clear_actions(t) \/ remove_operation(t)
         \/ drop_operation(t) \/ deploy_end(t)
  PROVE  /\ opRows' \subseteq opRows /\ site' = site
         /\ t \in opRows' =>
              /\ AtItsEnd(t)' /\ (opType[t] # "delete_site" => AtWork(t)')
         /\ \A p \in Parts : Owed(t, p) => t \in opRows' /\ Owed(t, p)'
  <1>t. TypeOK /\ DTypeOK /\ t \in OpId /\ opType'[t] = opType[t]
    <2>1. TypeOK /\ DTypeOK /\ t \in OpId
      BY DEF DriftInv, DTypeInv, IInv, TypeOK
    <2> QED
      BY <2>1, TaskFrame
  <1>1. CASE catch_exception(t)
    <2>1. pc[t] = "catch" /\ pc'[t] = "post" /\ UNCHANGED <<site, opRows>>
      BY <1>1, <1>t DEF catch_exception, action_allowed, Become, TypeOK
    <2> QED
      BY <2>1 DEF AtItsEnd, AtWork, CopyIsCurrent, PlanIsCurrent, Delivered, Engaged, Owed
  <1>2. CASE clear_actions(t)
    <2>1. pc[t] = "clear" /\ pc'[t] = "remove" /\ UNCHANGED <<site, opRows>> /\ ok'[t]
      BY <1>2, <1>t DEF clear_actions, Become, TypeOK
    <2>2. opType[t] # "delete_site"
      BY <1>t, <2>1 DEF DeleteDone
    <2> QED
      BY <2>1, <2>2 DEF AtItsEnd, AtWork, CopyIsCurrent, PlanIsCurrent, Delivered, Engaged, Owed, ToDo
  <1>3. CASE remove_operation(t)
    <2>1. pc[t] = "remove" /\ opRows' = opRows \ {t} /\ UNCHANGED site
      BY <1>3 DEF remove_operation
    <2>2. opType[t] # "delete_site"
      BY <1>t, <2>1 DEF DeleteDone, AtItsEnd
    <2> QED
      BY <2>1, <2>2 DEF Owed, ToDo
  <1>4. CASE drop_operation(t)
    <2>1. pc[t] = "drop_op" /\ opRows' \subseteq opRows /\ UNCHANGED site
      BY <1>4 DEF drop_operation
    <2>2. t \notin opRows'
      BY <1>4, <1>t, <2>1 DEF drop_operation, DriftInv, DTypeInv, IInv, TaskInv, ActionsAfterWrap
    <2>3. opType[t] = "delete_site_database"
      BY <2>1 DEF AtItsEnd
    <2> QED
      BY <2>1, <2>2, <2>3 DEF Owed, ToDo
  <1>5. CASE deploy_end(t)
    <2>1. pc[t] = "post" /\ pc'[t] = "ended" /\ UNCHANGED <<site, opRows>>
      BY <1>5, <1>t DEF deploy_end, end_task, site_deletable, Become, TypeOK
    <2> QED
      BY <2>1 DEF AtItsEnd, AtWork, CopyIsCurrent, PlanIsCurrent, Delivered, Engaged, Owed
  <1> QED
    BY <1>1, <1>2, <1>3, <1>4, <1>5

LEMMA HolderAccounts ==
  ASSUME DriftInv, ~Faults, Clean, Clean', NEW t \in opRows, DTask(t), DTypeInv'
  PROVE  Accounted'
  <1>t. TypeOK /\ DTypeOK /\ t \in OpId /\ opRows \subseteq {t} /\ UNCHANGED <<opType, req>>
    <2>1. TypeOK /\ DTypeOK /\ t \in OpId /\ opRows \subseteq {t}
      BY DEF DriftInv, DTypeInv, IInv, TypeOK, OneOperation
    <2> QED
      BY <2>1, TaskFrame
  <1>a. /\ site = "present" /\ AtItsEnd(t) /\ (opType[t] # "delete_site" => AtWork(t))
        /\ \A p \in Parts : Right(p) \/ Promised(p) \/ Owed(t, p)
    BY <1>t DEF DriftInv, Accounted, Answered
  <1>p. \A p : Promised(p)' <=> Promised(p)
    BY <1>t, SamePromises
  <1>1. ASSUME opRows' \subseteq opRows, site' = "present",
               t \in opRows' => AtItsEnd(t)' /\ (opType[t] # "delete_site" => AtWork(t)'),
               \A p \in Parts : Right(p) \/ Owed(t, p) => Right(p)' \/ (t \in opRows' /\ Owed(t, p)')
        PROVE  Accounted'
    <2>1. \A p \in Parts : Answered(p)'
      BY <1>1, <1>a, <1>p DEF Answered
    <2>2. \A s \in opRows' : AtItsEnd(s)' /\ (opType'[s] # "delete_site" => AtWork(s)')
      BY <1>1, <1>t
    <2> QED
      BY <1>1, <2>1, <2>2 DEF Accounted
  <1>2. CASE deploy_run(t)
    BY <1>1, <1>2, <1>a, Working
  <1>3. CASE ~deploy_run(t)
    <2>1. UNCHANGED <<row, remote>>
      BY <1>3, <1>t, DataFrame DEF data
    <2>r. \A p \in Parts : Right(p)' <=> Right(p)
      BY <2>1, SameRight
    <2>2. CASE deploy_fetch(t) \/ deploy_wrap(t)
      <3>1. site' = site
        BY <2>2 DEF deploy_fetch, fetch, deploy_wrap, auto_run_operation_wrapper, dbVars
      <3> QED
        BY <1>1, <1>a, <2>2, <2>r, <3>1, TakingUp
    <2>3. CASE add_action(t) \/ start_operation(t) \/ deploy_start(t)
      <3>1. site' = site
        BY <2>3 DEF add_action, start_operation, deploy_start, start_action, dbVars
      <3> QED
        BY <1>1, <1>a, <2>1, <2>3, <2>r, <3>1, Preparing
    <2>4. CASE deploy_save(t)
      <3>1. site' = site
        BY <2>4 DEF deploy_save, save_action
      <3> QED
        BY <1>1, <1>a, <2>4, <2>r, <3>1, Returning
    <2>5. CASE \/ catch_exception(t) \/ clear_actions(t) \/ remove_operation(t)
               \/ drop_operation(t) \/ deploy_end(t)
      BY <1>1, <1>a, <2>1, <2>5, <2>r, Ending DEF Clean
    <2> QED
      BY <1>3, <2>2, <2>3, <2>4, <2>5 DEF DTask, worker_fails
  <1> QED
    BY <1>2, <1>3

(* Whoever has no operation may at most delete the site that has none.     *)
LEMMA OtherAccounts ==
  ASSUME DriftInv, ~Faults, Clean, Clean', NEW t \in OpId \ opRows, DTask(t)
  PROVE  Accounted'
  <1>t. TypeOK /\ DTypeOK
    BY DEF DriftInv, DTypeInv, IInv
  <1>f. /\ UNCHANGED <<opType, req>>
        /\ \A s \in OpId \ {t} :
              /\ pc'[s] = pc[s] /\ plan'[s] = plan[s] /\ idx'[s] = idx[s] /\ seg'[s] = seg[s]
              /\ ok'[s] = ok[s] /\ copy'[s] = copy[s] /\ arg'[s] = arg[s] /\ failing'[s] = failing[s]
    BY <1>t, TaskFrame
  <1>1. ~deploy_run(t)
    <2> SUFFICES ASSUME deploy_run(t) PROVE FALSE
      OBVIOUS
    <2>1. late'[t] = late[t] + 1 /\ late[t] = 0
      BY <1>t DEF deploy_run, run_segment, Clean, TypeOK
    <2> QED
      BY <2>1 DEF Clean
  <1>2. UNCHANGED <<row, remote>>
    BY <1>1, DataFrame DEF data
  <1>3. UNCHANGED opRows
    <2>1. CASE drop_operation(t)
      <3>1. opRows' \subseteq opRows /\ pc[t] = "drop_op" /\ ~drops_another(t)
        BY <2>1 DEF drop_operation, Clean, DTask
      <3> QED
        BY <3>1 DEF drops_another
    <2>2. CASE ~drop_operation(t)
      BY <1>1, <2>2, TaskStepIsEngineStep DEF TaskNext, fetch, auto_run_operation_wrapper,
         add_action, start_operation, start_action, run_segment, save_action, catch_exception,
         clear_actions, remove_operation, end_task, worker_fails, dbVars
    <2> QED
      BY <2>1, <2>2
  <1>4. UNCHANGED site \/ (opRows = {} /\ site' = "deleted")
    <2>1. CASE deploy_end(t)
      BY <2>1 DEF deploy_end, end_task, site_deletable
    <2>2. CASE ~deploy_end(t)
      BY <1>1, <2>2 DEF DTask, deploy_fetch, deploy_wrap, deploy_start, deploy_save, fetch,
         auto_run_operation_wrapper, drop_operation, add_action, start_operation, start_action,
         save_action, catch_exception, clear_actions, remove_operation, worker_fails, dbVars
    <2> QED
      BY <2>1, <2>2
  <1>5. \A s \in opRows : s \in OpId \ {t}
    BY <1>t DEF TypeOK
  <1>6. \A s \in opRows : AtItsEnd(s)' /\ (opType[s] # "delete_site" => AtWork(s)')
    <2> SUFFICES ASSUME NEW s \in opRows
                 PROVE  AtItsEnd(s)' /\ (opType[s] # "delete_site" => AtWork(s)')
      OBVIOUS
    <2>1. AtItsEnd(s) /\ (opType[s] # "delete_site" => AtWork(s))
      BY DEF DriftInv, Accounted
    <2>2. AtItsEnd(s)'
      BY <1>5, <1>f, <2>1 DEF AtItsEnd
    <2>3. CopyIsCurrent(s) => CopyIsCurrent(s)'
      BY <1>2, <1>5, <1>f DEF CopyIsCurrent
    <2>4. PlanIsCurrent(s) => PlanIsCurrent(s)'
      BY <1>2, <1>5, <1>f DEF PlanIsCurrent
    <2>5. Delivered(s) => Delivered(s)'
      <3>1. \A p \in Parts : Right(p)' <=> Right(p)
        BY <1>2, SameRight
      <3>2. yields(s)' <=> yields(s)
        BY <1>5, <1>f DEF yields
      <3>3. Running(s, "update_appserver_nginx_config")' <=> Running(s, "update_appserver_nginx_config")
        BY <1>5, <1>f DEF Running
      <3>4. plan'[s][idx'[s]] = plan[s][idx[s]]
        BY <1>5, <1>f
      <3> QED
        BY <1>5, <1>f, <3>1, <3>2, <3>3, <3>4 DEF Delivered, Parts
    <2> QED
      BY <2>1, <2>2, <2>3, <2>4, <2>5 DEF AtWork
  <1>7. site' = "present" => \A p \in Parts : Answered(p)'
    <2>1. \A p \in Parts : Right(p)' <=> Right(p)
      BY <1>2, SameRight
    <2>2. \A p : Promised(p)' <=> Promised(p)
      BY <1>f, SamePromises
    <2>3. \A p \in Parts : \A s \in opRows : Owed(s, p)' <=> Owed(s, p)
      BY <1>5, <1>f DEF Owed, ToDo
    <2> QED
      BY <1>3, <1>4, <2>1, <2>2, <2>3 DEF DriftInv, Accounted, Answered
  <1> QED
    BY <1>3, <1>4, <1>6, <1>7, <1>f DEF DriftInv, Accounted
-----------------------------------------------------------------------------
(* The steps of the requests *)

LEMMA ViewsKept ==
  ASSUME DriftInv, ~Faults, NEW r \in Requests, DRequest(r)
  PROVE  /\ \A s \in Requests \ {r} : req'[s] = req[s]
         /\ \A s \in Requests : ViewInserts(s)'
  <1>t. req \in [Requests -> RequestState] /\ req[r] \in RequestState
    BY DEF DriftInv, DTypeInv, IInv, TypeOK
  <1>1. RequestNext(r) \/ UNCHANGED vars
    BY RequestStepIsEngineStep DEF request_fails
  <1>2. \A s \in Requests \ {r} : req'[s] = req[s]
    BY <1>1, <1>t DEF RequestNext, create_view, plain_view, image_select_view,
       edit_names_view, override_view, check_recoverable, reset_operations_view,
       operation_delete_fix_view, delete_actions, delete_op, create_operation, delay, fix_sites,
       wait_for_operation, edit_meta_view, Goto, Step, vars
  <1>v. ViewInserts(r)
    BY DEF DriftInv
  <1>3. ViewInserts(r)'
    <2>1. CASE req' = req \/ req' = [req EXCEPT ![r] = Idle]
      BY <1>t, <1>v, <2>1 DEF ViewInserts, Idle
    <2>2. ASSUME NEW where, req[r].pc # "idle",
                 where \in {"check", "delete_actions", "delete_op"}
                   => req[r].pc \in {"check", "delete_actions", "delete_op"},
                 req'[r].pc = where, req'[r].view = req[r].view, req'[r].type = req[r].type
          PROVE  ViewInserts(r)'
      BY <1>v, <2>2 DEF ViewInserts
    <2>3. CASE check_recoverable(r) \/ delete_actions(r) \/ delete_op(r) \/ delay(r) \/ wait_for_operation(r)
      <3>1. \/ req' = [req EXCEPT ![r] = Idle]
            \/ /\ req[r].pc = "check" /\ Step(r, "delete_actions")
            \/ /\ req[r].pc = "delete_actions" /\ Step(r, "delete_op")
            \/ /\ req[r].pc = "delete_op" /\ Step(r, "create")
            \/ /\ req[r].pc = "delay" /\ Step(r, "wait_after")
            \/ /\ req[r].pc = "wait_before" /\ Step(r, "create")
        BY <2>3 DEF check_recoverable, delete_actions, delete_op, delay, wait_for_operation
      <3>2. \A where : Step(r, where) =>
              req'[r].pc = where /\ req'[r].view = req[r].view /\ req'[r].type = req[r].type
        BY <1>t DEF Step, RequestState
      <3> QED
        BY <2>1, <2>2, <3>1, <3>2
    <2>4. CASE create_operation(r)
      <3>1. \/ req' = [req EXCEPT ![r] = Idle]
            \/ req' = [req EXCEPT ![r].pc = "delay", ![r].op = nextOp]
        BY <2>4 DEF create_operation
      <3>2. req[r].pc = "create"
        BY <2>4 DEF create_operation
      <3>3. CASE req' = [req EXCEPT ![r].pc = "delay", ![r].op = nextOp]
        <4>1. req'[r].pc = "delay" /\ req'[r].view = req[r].view /\ req'[r].type = req[r].type
          BY <1>t, <3>3 DEF RequestState
        <4> QED
          BY <2>2, <3>2, <4>1
      <3> QED
        BY <2>1, <3>1, <3>3
    <2>5. CASE \/ create_view(r) \/ (\E ty \in PlainTypes : plain_view(r, ty))
               \/ image_select_view(r) \/ edit_names_view(r) \/ reset_operations_view(r)
               \/ operation_delete_fix_view(r) \/ fix_sites(r)
      <3>1. \E where, ty, o : \E view \in Views :
              /\ Goto(r, where, view, ty, o)
              /\ where \in {"check", "delete_actions", "delete_op"} =>
                   view \in {"image_select", "edit_names", "reset_operations", "operation_delete_fix"}
              /\ view = "create" => ty = "create_site"
              /\ view \in {"reset_operations", "operation_delete_fix"} => ty = "fix_site"
        <4>1. CASE create_view(r)
          BY <4>1 DEF create_view
        <4>2. CASE \E ty \in PlainTypes : plain_view(r, ty)
          BY <4>2 DEF plain_view
        <4>3. CASE image_select_view(r) \/ edit_names_view(r)
          <5>1. \E view \in {"image_select", "edit_names"} : \E ty : override_view(r, view, ty)
            BY <4>3 DEF image_select_view, edit_names_view
          <5> QED
            BY <5>1 DEF override_view
        <4>4. CASE reset_operations_view(r)
          BY <4>4 DEF reset_operations_view
        <4>5. CASE operation_delete_fix_view(r)
          BY <4>5 DEF operation_delete_fix_view
        <4>6. CASE fix_sites(r)
          BY <4>6 DEF fix_sites
        <4> QED
          BY <2>5, <4>1, <4>2, <4>3, <4>4, <4>5, <4>6
      <3> QED
        BY <1>t, <3>1 DEF Goto, ViewInserts
    <2>6. CASE edit_meta_view(r) \/ UNCHANGED vars
      BY <2>1, <2>6 DEF edit_meta_view, vars
    <2> QED
      BY <1>1, <2>3, <2>4, <2>5, <2>6 DEF RequestNext
  <1>4. \A s \in Requests \ {r} : ViewInserts(s)'
    BY <1>2 DEF DriftInv, ViewInserts
  <1> QED
    BY <1>2, <1>3, <1>4

(* A request takes an operation away only to put a fix_site in its place.  *)
LEMMA RequestAccounts ==
  ASSUME DriftInv, DTypeInv', ~Faults, "image_select" \notin Views, "edit_names" \notin Views,
         "edit_meta" \notin Views, Clean, Clean', NEW r \in Requests, DRequest(r)
  PROVE  Accounted'
  <1>t. /\ TypeOK /\ DTypeOK /\ IInv /\ Accounted
        /\ row \in SiteRow /\ row' \in SiteRow
        /\ nextOp \in Nat /\ OpId \subseteq Nat
        /\ req \in [Requests -> RequestState] /\ req[r] \in RequestState
    <2>1. TypeOK /\ DTypeOK /\ IInv /\ Accounted
      BY DEF DriftInv, DTypeInv, IInv
    <2>2. row \in SiteRow /\ row' \in SiteRow
      BY <2>1 DEF DTypeInv, DTypeOK
    <2>3. nextOp \in 1..(MaxOps + 1) /\ req \in [Requests -> RequestState]
      BY <2>1 DEF TypeOK
    <2>4. nextOp \in Nat /\ OpId \subseteq Nat
      BY <2>3, ConstantsAssumption DEF OpId
    <2> QED
      BY <2>1, <2>2, <2>3, <2>4
  <1>v. ViewInserts(r)
    BY DEF DriftInv
  <1>f. /\ UNCHANGED <<pc, plan, idx, seg, ok, remote, copy, arg, failing, unsaved>>
        /\ \/ UNCHANGED row
           \/ \E n \in Names, ty \in Types : create_view(r) /\ row' = NewSite(n, ty)
        /\ UNCHANGED opType \/ create_operation(r)
    BY <1>t, RequestFrame
  <1>q. \A s \in Requests \ {r} : req'[s] = req[s]
    BY ViewsKept
  <1>1. RequestNext(r) \/ UNCHANGED vars
    BY RequestStepIsEngineStep DEF request_fails
  (* What does not disturb the rows *)
  <1>2. ASSUME UNCHANGED <<row, opType, site>>, opRows' \subseteq opRows,
               \A p \in Parts : Promised(p) => Promised(p)',
               opRows' # opRows => \A p \in Parts : Promised(p)'
        PROVE  Accounted'
    <2>1. \A p \in Parts : Right(p)' <=> Right(p)
      BY <1>2, <1>f, SameRight
    <2>2. ASSUME NEW s \in opRows
          PROVE  AtItsEnd(s)' /\ (opType'[s] # "delete_site" => AtWork(s)')
      <3>1. AtItsEnd(s) /\ (opType[s] # "delete_site" => AtWork(s))
        BY <1>t DEF Accounted
      <3>2. CopyIsCurrent(s) => CopyIsCurrent(s)'
        BY <1>2, <1>f DEF CopyIsCurrent
      <3>3. PlanIsCurrent(s) => PlanIsCurrent(s)'
        BY <1>2, <1>f DEF PlanIsCurrent
      <3>4. Delivered(s) => Delivered(s)'
        BY <1>f, <2>1 DEF Delivered, yields, Running, Parts
      <3> QED
        BY <1>2, <1>f, <3>1, <3>2, <3>3, <3>4 DEF AtItsEnd, AtWork
    <2>3. \A p \in Parts : \A s \in opRows : Owed(s, p)' <=> Owed(s, p)
      BY <1>2, <1>f DEF Owed, ToDo
    <2>4. site' = "present" => \A p \in Parts : Answered(p)'
      <3> SUFFICES ASSUME site' = "present", NEW p \in Parts PROVE Answered(p)'
        OBVIOUS
      <3>1. Answered(p)
        BY <1>2, <1>t DEF Accounted
      <3>2. CASE opRows' = opRows
        BY <1>2, <2>1, <2>3, <3>1, <3>2 DEF Answered
      <3>3. CASE opRows' # opRows
        BY <1>2, <3>3 DEF Answered
      <3> QED
        BY <3>2, <3>3
    <2> QED
      BY <1>2, <1>t, <2>2, <2>4 DEF Accounted
  <1>3. ASSUME req[r].pc # "create" \/ req'[r] = req[r], NEW p \in Parts, Promised(p)
        PROVE  Promised(p)'
    BY <1>3, <1>q DEF Promised
  <1>4. CASE create_view(r)
    <2>1. /\ opRows' = {} /\ site' = "present"
          /\ req'[r].pc = "create" /\ req'[r].view = "create" /\ req'[r].type = "create_site"
      <3>1. opRows = {}
        BY <1>4, <1>t DEF create_view, Accounted
      <3> QED
        BY <1>4, <1>t, <3>1 DEF create_view, Goto
    <2>2. \A p \in {"nginx", "service", "files"} : Promised(p)'
      BY <2>1 DEF Promised, Repairs, Restoring
    <2>3. Right("database")'
      <3>1. site' # site
        BY <1>4 DEF create_view
      <3>2. deploy_create(r)
        BY <3>1 DEF DRequest, deploy_request, load_site, create_database_view, save_meta, plain_view,
           image_select_view, edit_names_view, override_view, check_recoverable,
           reset_operations_view, operation_delete_fix_view, delete_actions, delete_op,
           create_operation, delay, fix_sites, wait_for_operation, request_fails, vars, dbVars
      <3> QED
        BY <3>2 DEF deploy_create, NewSite, Right
    <2> QED
      BY <2>1, <2>2, <2>3 DEF Accounted, Answered, Parts
  <1>5. CASE delete_op(r)
    <2>1. req[r].pc = "delete_op" /\ UNCHANGED <<site, opType>>
      BY <1>5 DEF delete_op
    <2>2. req[r].view \in {"reset_operations", "operation_delete_fix"} /\ req[r].type = "fix_site"
      BY <1>v, <2>1 DEF ViewInserts
    <2>3. UNCHANGED row
      BY <1>f, <2>1 DEF create_view
    <2>4. CASE UNCHANGED opRows
      BY <1>2, <1>3, <2>1, <2>3, <2>4
    <2>5. CASE ~UNCHANGED opRows
      <3>1. opRows' \subseteq opRows /\ Step(r, "create")
        BY <1>5, <2>5 DEF delete_op
      <3>2. req'[r].pc = "create" /\ req'[r].view = req[r].view /\ req'[r].type = "fix_site"
        BY <1>t, <2>2, <3>1 DEF Step, RequestState
      <3>3. \A p \in Parts : Promised(p)'
        BY <2>2, <3>2 DEF Promised, Repairs, Restoring
      <3> QED
        BY <1>2, <2>1, <2>3, <3>1, <3>3
    <2> QED
      BY <2>4, <2>5
  <1>6. CASE create_operation(r)
    <2>1. req[r].pc = "create" /\ UNCHANGED site
      BY <1>6 DEF create_operation
    <2>2. UNCHANGED row
      BY <1>f, <2>1 DEF create_view
    <2>3. CASE ~operation_allowed
      <3>1. UNCHANGED <<opRows, opType>>
        BY <1>6, <2>3 DEF create_operation
      <3>2. req[r].view \notin Restoring
        BY <2>1, <2>3 DEF Clean, DRequest, refused
      <3>3. \A p \in Parts : Promised(p) => Promised(p)'
        BY <1>q, <3>2 DEF Promised
      <3> QED
        BY <1>2, <2>1, <2>2, <3>1, <3>3
    <2>4. CASE operation_allowed
      <3>1. /\ site = "present" /\ opRows = {} /\ nextOp \in OpId
            /\ opRows' = opRows \union {nextOp} /\ opType' = [opType EXCEPT ![nextOp] = req[r].type]
        <4>1. nextOp <= MaxOps /\ nextOp \in 1..(MaxOps + 1)
          BY <1>6, <1>t, <2>4 DEF create_operation, TypeOK
        <4> QED
          BY <1>6, <2>4, <4>1, ConstantsAssumption DEF create_operation, operation_allowed, OpId
      <3>2. PICK t \in OpId : opRows' = {t} /\ pc[t] = "none" /\ opType'[t] = req[r].type
        BY <1>t, <3>1 DEF IInv, FreshIds, TypeOK
      <3>3. AtItsEnd(t)' /\ AtWork(t)'
        BY <1>f, <3>2 DEF AtItsEnd, AtWork, CopyIsCurrent, PlanIsCurrent, Delivered, Engaged
      <3>4. ASSUME NEW p \in Parts
            PROVE  Answered(p)'
        <4>1. Right(p) \/ Promised(p)
          BY <1>t, <3>1 DEF Accounted, Answered
        <4>2. CASE Right(p)
          BY <1>f, <2>2, <4>2, SameRight DEF Answered
        <4>3. CASE Promised(p)
          <5>1. PICK s \in Requests : /\ req[s].pc = "create" /\ req[s].view \in Restoring
                                      /\ req[s].type \in Repairs(p)
            BY <4>3 DEF Promised
          <5>2. CASE s = r
            <6>1. ToDo(t, p)'
              BY <1>f, <3>2, <5>1, <5>2 DEF ToDo
            <6> QED
              BY <3>2, <6>1 DEF Answered, Owed
          <5>3. CASE s # r
            BY <1>q, <5>1, <5>3 DEF Promised, Answered
          <5> QED
            BY <5>2, <5>3
        <4> QED
          BY <4>1, <4>2, <4>3
      <3> QED
        BY <2>1, <3>1, <3>2, <3>3, <3>4 DEF Accounted
    <2> QED
      BY <2>3, <2>4
  <1>7. CASE ~create_view(r) /\ ~delete_op(r) /\ ~create_operation(r)
    <2>1. UNCHANGED <<row, opType>>
      BY <1>7, <1>f
    <2>2. ~edit_meta_view(r)
      BY DEF edit_meta_view
    <2>3. UNCHANGED <<opRows, site>>
      BY <1>1, <1>7, <2>2 DEF RequestNext, plain_view, image_select_view,
         edit_names_view, override_view, check_recoverable, reset_operations_view,
         operation_delete_fix_view, delete_actions, delay, fix_sites,
         wait_for_operation, vars, dbVars
    <2>4. req[r].pc # "create" \/ req'[r] = req[r]
      BY <1>1, <1>7, <2>2 DEF RequestNext, plain_view, image_select_view,
         edit_names_view, override_view, check_recoverable, reset_operations_view,
         operation_delete_fix_view, delete_actions, delay, fix_sites,
         wait_for_operation, vars
    <2> QED
      BY <1>2, <1>3, <2>1, <2>3, <2>4
  <1> QED
    BY <1>4, <1>5, <1>6, <1>7

LEMMA InitDrift == DInit => DriftInv
  <1> SUFFICES ASSUME DInit PROVE DriftInv
    OBVIOUS
  <1>1. /\ DTypeInv /\ row \in SiteRow /\ opRows = {}
        /\ \A t \in OpId : ~ok[t] /\ unsaved[t] = {}
        /\ \A r \in Requests : req[r] = Idle
    <2>1. DTypeInv
      BY InitDTypeInv
    <2> QED
      BY <2>1 DEF DInit, Init, DTypeInv, DTypeOK
  <1>2. \A r \in Requests : ViewInserts(r)
    BY <1>1 DEF ViewInserts, Idle
  <1>3. ASSUME site = "present"
        PROVE  \A p \in Parts : Right(p)
    <2>1. /\ row.db = NoDb /\ nginx = {nginx_of(row)} /\ files
          /\ row.type = "dynamic" => service = docker_service(row)
      <3>1. row.db = NoDb
        BY DEF DInit, NewSite
      <3>2. files
        BY <1>3 DEF DInit
      <3>3. nginx = {nginx_of(row)} /\ (row.type = "dynamic" => service = docker_service(row))
        BY <1>3 DEF DInit
      <3> QED
        BY <3>1, <3>2, <3>3
    <2>2. row.db \in 0..MaxDb /\ [row EXCEPT !.db = row.db] = row
      BY <1>1 DEF SiteRow
    <2>3. ServiceMatches
      BY <2>1, <2>2 DEF ServiceMatches
    <2> QED
      BY <2>1, <2>3 DEF Right, NginxMatches, Parts
  <1> QED
    BY <1>1, <1>2, <1>3 DEF DriftInv, UnsavedIsCopy, OkIsOver, Accounted, Answered

(* Nor does a new row that the site does not yet refer to.                 *)
LEMMA StutterDrift ==
  ASSUME DriftInv, UNCHANGED <<vars, row, remote, copy, arg, failing, overtaken>>,
         DTypeInv', \A t \in OpId : UnsavedIsCopy(t)'
  PROVE  DriftInv'
  <1>2. UNCHANGED <<opRows, site, opType, pc, plan, idx, seg, ok, late, req, row, remote, copy, arg,
                    failing, overtaken>>
    BY DEF vars, dbVars, taskVars
  <1>3. OkIsOver' /\ \A r \in Requests : ViewInserts(r)'
    BY <1>2 DEF DriftInv, OkIsOver, ViewInserts
  <1>4. ASSUME Clean'
        PROVE  Accounted'
    <2>1. Accounted
      BY <1>2, <1>4 DEF DriftInv, Clean, DeleteDone
    <2>2. \A p \in Parts : Right(p)' <=> Right(p)
      BY <1>2, SameRight
    <2>3. \A t \in opRows : AtItsEnd(t)' /\ (opType'[t] # "delete_site" => AtWork(t)')
      BY <1>2, <2>1, <2>2 DEF Accounted, AtItsEnd, AtWork, CopyIsCurrent, PlanIsCurrent, Delivered,
         Running, yields, Parts
    <2>4. site' = "present" => \A p \in Parts : Answered(p)'
      BY <1>2, <2>1, <2>2 DEF Accounted, Answered, Promised, Owed, ToDo
    <2> QED
      BY <1>2, <2>1, <2>3, <2>4 DEF Accounted
  <1> QED
    BY <1>3, <1>4 DEF DriftInv

(* A site that is not what its row says is always on somebody's list: an   *)
(* operation of it has the repair still to do or has failed, or a view is  *)
(* about to insert a fix_site.  What the exceptions of NoSilentDrift say   *)
(* apart, no interleaving of requests and tasks loses the last entry.      *)
THEOREM NothingForgotten ==
  ASSUME ~Faults, "image_select" \notin Views, "edit_names" \notin Views, "edit_meta" \notin Views
  PROVE  DSpec => []NoSilentDrift
  <1>1. DriftInv /\ [DNext]_<<vars, dvars, overtaken>> => DriftInv'
    <2> SUFFICES ASSUME DriftInv, [DNext]_<<vars, dvars, overtaken>> PROVE DriftInv'
      OBVIOUS
    <2>0. DTypeInv /\ OkIsOver /\ DTypeInv'
      BY StepDTypeInv DEF DriftInv
    <2>1. CASE UNCHANGED <<vars, dvars, overtaken>>
      <3>1. UNCHANGED <<vars, row, remote, copy, arg, failing, overtaken>> /\ UNCHANGED unsaved
        BY <2>1 DEF dvars, data, local
      <3>2. \A t \in OpId : UnsavedIsCopy(t)'
        BY <3>1 DEF DriftInv, UnsavedIsCopy, Running, vars, taskVars
      <3> QED
        BY <2>0, <3>1, <3>2, StutterDrift
    <2>4. ASSUME NEW t \in OpId, insert_row(t)
          PROVE  DriftInv'
      <3>1. UNCHANGED <<vars, row, remote, copy, arg, failing, overtaken>>
        BY <2>4 DEF insert_row
      <3> QED
        BY <2>0, <2>4, <3>1, InsertUnsaved, StutterDrift DEF DriftInv
    <2>2. ASSUME NEW t \in OpId, DTask(t)
          PROVE  DriftInv'
      <3>1. OkIsOver' /\ (Clean' => Clean)
        BY <2>0, <2>2, TaskOk, TaskStaysClean
      <3>2. UNCHANGED req
        BY <2>0, <2>2, TaskFrame DEF DTypeInv, IInv
      <3>3. \A r \in Requests : ViewInserts(r)'
        BY <3>2 DEF DriftInv, ViewInserts
      <3>4. Clean' => Accounted'
        BY <2>0, <2>2, <3>1, HolderAccounts, OtherAccounts
      <3> QED
        BY <2>0, <2>2, <3>1, <3>3, <3>4, TaskUnsaved DEF DriftInv
    <2>3. ASSUME NEW r \in Requests, DRequest(r)
          PROVE  DriftInv'
      <3>1. OkIsOver' /\ (Clean' => Clean)
        BY <2>0, <2>3, RequestStaysClean
      <3>2. \A s \in Requests : ViewInserts(s)'
        BY <2>3, ViewsKept
      <3>3. Clean' => Accounted'
        BY <2>0, <2>3, <3>1, RequestAccounts
      <3>4. \A t \in OpId : UnsavedIsCopy(t)'
        <4>1. UNCHANGED <<pc, plan, idx, copy, unsaved>>
          BY <2>0, <2>3, RequestFrame DEF DTypeInv
        <4> QED
          BY <4>1 DEF DriftInv, UnsavedIsCopy, Running
      <3> QED
        BY <2>0, <3>1, <3>2, <3>3, <3>4 DEF DriftInv
    <2> QED
      BY <2>1, <2>2, <2>3, <2>4 DEF DNext
  <1>2. DriftInv => NoSilentDrift
    <2> SUFFICES ASSUME DriftInv, Quiet, Clean, site = "present" PROVE Consistent
      BY DEF NoSilentDrift, Clean, Consistent
    <2>1. opRows = {} /\ \A p : ~Promised(p)
      BY DEF Quiet, Promised
    <2>2. \A p \in Parts : Right(p)
      BY <2>1 DEF DriftInv, Accounted, Answered
    <2>3. Right("nginx") /\ Right("service") /\ Right("files") /\ Right("database")
      BY <2>2 DEF Parts
    <2> QED
      BY <2>3 DEF Consistent, Right
  <1> QED
    BY <1>1, <1>2, InitDrift, PTL DEF DSpec
=============================================================================

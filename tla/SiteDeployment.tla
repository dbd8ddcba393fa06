--------------------------- MODULE SiteDeployment ---------------------------
(***************************************************************************)
(* What the operations of a site do: every callback of every task, against *)
(* the Site row and against what is deployed for the site (the nginx file  *)
(* and the Docker service on the appservers, the real database, the        *)
(* files).  The steps are those of SiteOperations, each with its effect.   *)
(*                                                                         *)
(* A task reads the site twice and keeps the second instance for all its   *)
(* callbacks: copy[t].  Site.save() writes every column of such a copy.    *)
(* Effects of an HTTP request that raises may have happened or not.  What  *)
(* happens to images in the registry, certificates and the balancers is    *)
(* left out, but not that the callbacks concerned may raise.               *)
(* settings: DEBUG = False and both SITE_DELETION_REMOVE_* = True.         *)
(***************************************************************************)
EXTENDS SiteOperations

CONSTANTS
  Names,       (* names of the site                                         *)
  MaxDb        (* bound: Database rows ever inserted                        *)

ASSUME DeploymentAssumption ==
  /\ MaxDb \in Nat /\ Names # {} /\ MaxSegments >= 3

VARIABLES
  row,         (* the columns of the Site row                               *)
  databases,   (* ids of the Database rows                                  *)
  nextDb,      (* the id the next one gets                                  *)
  doubled,     (* auxiliary: a database was created for a site that had one *)
  customImage, (* the DockerImage row site_NNNN exists                      *)
  domains,     (* the site has Domain rows                                  *)
  nginx,       (* {} or the one configuration file of the site              *)
  service,     (* {} or the one Docker service of the site                  *)
  realdb,      (* the database exists on its host                           *)
  files,       (* the site's directories exist                              *)
  copy,        (* the Site instance of each task's wrapper                  *)
  arg,         (* the argument of each task                                 *)
  failing,     (* the callback is in its except branch                      *)
  unsaved,     (* {} or the Site instance that refers to the row a callback *)
               (* has inserted, and that is not saved                       *)
  form,        (* {} or the Site instance a request has read                *)
  overtaken    (* auxiliary: an operation that was to restore the site was  *)
               (* not inserted, or was removed, because of another one      *)

data   == <<row, databases, nextDb, doubled, customImage, domains>>
remote == <<nginx, service, realdb, files>>
local  == <<copy, arg, failing, unsaved, form>>
dvars  == <<data, remote, local>>

Types   == {"static", "dynamic"}
Avail   == {"enabled", "not-served", "disabled"}
NoArg   == "noarg"
NoDb    == 0
SiteRow == [name : Names, type : Types, avail : Avail, db : 0..MaxDb, custom : BOOLEAN]

(* serialize_for_appserver, as far as it ends up in the nginx file ... *)
nginx_of(s) == [name |-> s.name, type |-> s.type, served |-> s.avail = "enabled"]

(* ... and in the Docker service. *)
Mutant_service_of(s) == [served |-> s.avail = "enabled", db |-> s.db]

service_of(s) == [served |-> s.avail = "enabled", db |-> s.db, custom |-> s.custom]

docker_service(s) == IF s.avail = "disabled" THEN {} ELSE {service_of(s)}

NewSite(n, ty) == [name |-> n, type |-> ty, avail |-> "enabled", db |-> NoDb, custom |-> FALSE]

(* A site that does not exist yet, or one that create_site has deployed. *)
DInit ==
  /\ Init
  /\ \E n \in Names, ty \in Types : row = NewSite(n, ty)
  /\ databases = {} /\ nextDb = 1 /\ doubled = FALSE /\ customImage = FALSE /\ domains = FALSE
  /\ nginx = IF site = "present" THEN {nginx_of(row)} ELSE {}
  /\ service = IF site = "present" /\ row.type = "dynamic" THEN docker_service(row) ELSE {}
  /\ realdb = FALSE /\ files = (site = "present")
  /\ copy = [t \in OpId |-> row] /\ arg = [t \in OpId |-> NoArg]
  /\ failing = [t \in OpId |-> FALSE] /\ unsaved = [t \in OpId |-> {}]
  /\ form = [r \in Requests |-> {}] /\ overtaken = FALSE

-----------------------------------------------------------------------------
(* The plans of the tasks *)

Args(ty) ==
  CASE ty \in {"rename_site", "edit_site_names"} -> Names
    [] ty = "change_site_type"    -> Types
    [] ty = "update_availability" -> Avail
    [] ty = "update_docker_image" -> {NoArg, "write_run_sh_file"}
    [] OTHER                      -> {NoArg}

Ping == <<"find_pingable_appservers">>
Nginx == <<"update_appserver_nginx_config">>
Balancers == <<"update_balancer_certbot", "update_balancer_nginx_config">>
When(condition, slug) == IF condition THEN <<slug>> ELSE <<>>

ServiceOrNone(type) ==
  IF type = "dynamic" THEN <<"update_docker_service">> ELSE <<"remove_docker_service">>

Service(s) == When(s.type = "dynamic", "update_docker_service")

rename_site_plan == Ping \o <<"change_site_name">> \o Nginx \o Balancers

edit_site_names_plan ==
  Ping \o <<"change_site_name", "change_site_domains">> \o Nginx \o Balancers

regen_nginx_config_plan == Ping \o Nginx \o <<"update_balancer_nginx_config">>

create_database_plan(s) ==
  Ping \o <<"create_database_object", "create_real_site_database">> \o Service(s)

update_resource_limits_plan(s) ==
  Ping \o <<"update_resource_limits_object">> \o Service(s) \o Nginx

update_availability_plan(s) == Ping \o <<"update_availability">> \o Nginx \o Service(s)

regen_site_secrets_plan(s) ==
  Ping \o When(s.db # NoDb, "regen_database_password") \o Service(s)

delete_database_plan == Ping \o <<"delete_site_database_and_object">>

restart_service_plan(s) == Ping \o When(s.type = "dynamic", "restart_docker_service")

update_image_plan(a) ==
  Ping \o <<"update_image_object", "build_docker_image">>
    \o When(a = "write_run_sh_file", "do_write_run_sh_file")
    \o <<"update_docker_service", "restart_docker_service">>

create_site_plan(s) == Ping \o <<"ensure_site_directories_exist">> \o Service(s) \o Nginx

Mutant_WipeSite ==
  <<"remove_docker_service", "remove_docker_image", "remove_balancer_nginx_config",
    "remove_all_site_files_dangerous">>

WipeSite ==
  <<"remove_docker_service", "remove_docker_image", "remove_appserver_nginx_config",
    "remove_balancer_nginx_config", "remove_all_site_files_dangerous">>

delete_site_plan(s) ==
  Ping \o When(s.db # NoDb, "delete_site_database_and_object") \o WipeSite

(* The callback of change_site_type_task has the name of another one. *)
change_site_type_plan(a) == Ping \o <<"do_write_run_sh_file">> \o ServiceOrNone(a) \o Nginx

Mutant_fix_site_plan(s) ==
  Ping \o When(s.db # NoDb, "create_real_site_database")
    \o <<"build_docker_image", "ensure_site_directories_exist">> \o Nginx \o Balancers

Mutant_fix_site_database(s) ==
  Ping \o <<"create_real_site_database", "build_docker_image", "ensure_site_directories_exist">>
    \o ServiceOrNone(s.type) \o Nginx \o Balancers

fix_site_plan(s) ==
  Ping \o When(s.db # NoDb, "create_real_site_database")
    \o <<"build_docker_image", "ensure_site_directories_exist">>
    \o ServiceOrNone(s.type) \o Nginx \o Balancers

plan_of(ty, s, a) ==
  CASE ty = "create_site"            -> create_site_plan(s)
    [] ty = "rename_site"            -> rename_site_plan
    [] ty = "edit_site_names"        -> edit_site_names_plan
    [] ty = "change_site_type"       -> change_site_type_plan(a)
    [] ty = "regen_nginx_config"     -> regen_nginx_config_plan
    [] ty = "create_site_database"   -> create_database_plan(s)
    [] ty = "delete_site_database"   -> delete_database_plan
    [] ty = "regen_site_secrets"     -> regen_site_secrets_plan(s)
    [] ty = "update_resource_limits" -> update_resource_limits_plan(s)
    [] ty = "update_docker_image"    -> update_image_plan(a)
    [] ty = "update_availability"    -> update_availability_plan(s)
    [] ty = "delete_site"            -> delete_site_plan(s)
    [] ty = "restart_site"           -> restart_service_plan(s)
    [] ty = "fix_site"               -> fix_site_plan(s)

ASSUME PlansOfTasks ==
  \A ty \in OpTypes, s \in SiteRow : \A a \in Args(ty) : plan_of(ty, s, a) \in Plans[ty]

-----------------------------------------------------------------------------
(* Callbacks.  A segment that Raises ends the callback with an exception,  *)
(* one that does not ends in a yield or returns.                           *)

Running(t, slug) == plan[t][idx[t]] = slug

Raises(t) == pc'[t] = "catch"

(* site.save(): an IntegrityError if the Database row it refers to is gone *)
Savable(s) == s.db \in databases \union {NoDb}

Mutant_save_site(t, s) == copy' = [copy EXCEPT ![t] = s] /\ UNCHANGED <<row, site>>

save_site(t, s) ==
  /\ Savable(s)
  /\ row' = s /\ site' = "present"
  /\ copy' = [copy EXCEPT ![t] = s]

(* Its clean() and the query may raise, too.                               *)
save_raises(t) == Raises(t) /\ UNCHANGED <<row, site, copy>>

(* site.database: None, or a query for a row that may be gone *)
has_no_database(t) == copy[t].db \notin databases

change_site_name(t) ==
  /\ Running(t, "change_site_name")
  /\ \/ /\ site = "present" /\ ~Raises(t)
        /\ row' = [row EXCEPT !.name = arg[t]]
        /\ copy' = [copy EXCEPT ![t].name = arg[t]]
     \/ Raises(t) /\ UNCHANGED <<row, copy>>              (* name taken, or no row *)
  /\ UNCHANGED <<site, databases, nextDb, doubled, customImage, domains, remote, arg, failing, unsaved, form>>

change_site_domains(t) ==
  /\ Running(t, "change_site_domains")
  /\ \/ site = "present" /\ domains' \in BOOLEAN
     \/ Raises(t) /\ UNCHANGED domains
  /\ UNCHANGED <<site, row, databases, nextDb, doubled, customImage, remote, local>>

change_site_type(t) ==
  /\ Running(t, "do_write_run_sh_file") /\ opType[t] = "change_site_type"
  /\ UNCHANGED <<databases, nextDb, doubled, customImage, domains, remote, arg, failing, unsaved, form>>
  /\ \/ ~Raises(t) /\ save_site(t, [copy[t] EXCEPT !.type = arg[t]])
     \/ save_raises(t)

update_availability(t) ==
  /\ Running(t, "update_availability")
  /\ UNCHANGED <<databases, nextDb, doubled, customImage, domains, remote, arg, failing, unsaved, form>>
  /\ \/ ~Raises(t) /\ save_site(t, [copy[t] EXCEPT !.avail = arg[t]])
     \/ save_raises(t)

(* Database.objects.create() and the site.save() that follows it are two   *)
(* queries, each a transaction of its own ...                              *)
insert_database(t) ==
  /\ Running(t, "create_database_object")
  /\ nextDb <= MaxDb
  /\ databases' = databases \union {nextDb} /\ nextDb' = nextDb + 1
  /\ doubled' = (doubled \/ copy[t].db # NoDb)
  /\ unsaved' = [unsaved EXCEPT ![t] = {[copy[t] EXCEPT !.db = nextDb]}]
  /\ UNCHANGED customImage

(* ... and so are DockerImage.objects.create(), with the unique name       *)
(* site_NNNN, and its site.save().                                         *)
insert_image(t) ==
  /\ Running(t, "update_image_object")
  /\ ~copy[t].custom /\ ~customImage
  /\ customImage' = TRUE
  /\ unsaved' = [unsaved EXCEPT ![t] = {[copy[t] EXCEPT !.custom = TRUE]}]
  /\ UNCHANGED <<databases, nextDb, doubled>>

insert_row(t) ==
  /\ pc[t] = "run" /\ unsaved[t] = {}
  /\ insert_database(t) \/ insert_image(t)
  /\ UNCHANGED <<vars, row, domains, remote, copy, arg, failing, form, overtaken>>

(* The second query.  What the callback does after it may raise as well;   *)
(* without the first query there is nothing to save, only to raise.        *)
save_new_row(t) ==
  \/ \E s \in unsaved[t] : save_site(t, s) /\ unsaved' = [unsaved EXCEPT ![t] = {}]
  \/ save_raises(t) /\ UNCHANGED unsaved

create_database_object(t) ==
  /\ Running(t, "create_database_object")
  /\ UNCHANGED <<databases, nextDb, doubled, customImage, domains, remote, arg, failing, form>>
  /\ save_new_row(t)

update_image_object(t) ==
  /\ Running(t, "update_image_object")
  /\ UNCHANGED <<databases, nextDb, doubled, customImage, domains, remote, arg, failing, form>>
  /\ \/ save_new_row(t)
     \/ copy[t].custom /\ UNCHANGED <<site, row, copy, unsaved>>

(* Callbacks that touch nothing of what is modelled *)
other_callback(t) ==
  /\ \/ plan[t][idx[t]] \in
          {"find_pingable_appservers", "build_docker_image", "remove_docker_image",
           "update_resource_limits_object", "update_balancer_certbot",
           "update_balancer_nginx_config", "remove_balancer_nginx_config"}
     \/ Running(t, "do_write_run_sh_file") /\ opType[t] = "update_docker_image"
  /\ UNCHANGED <<site, dvars>>

update_docker_service(t) ==
  /\ Running(t, "update_docker_service")
  /\ \/ service' = docker_service(copy[t])
     \/ Raises(t) /\ UNCHANGED service
  /\ UNCHANGED <<site, data, nginx, realdb, files, local>>

remove_docker_service(t) ==
  /\ Running(t, "remove_docker_service")
  /\ \/ service' = {}
     \/ Raises(t) /\ UNCHANGED service
  /\ UNCHANGED <<site, data, nginx, realdb, files, local>>

restart_docker_service(t) ==
  /\ Running(t, "restart_docker_service")
  /\ copy[t].avail # "disabled" /\ service = {} => Raises(t)
  /\ UNCHANGED <<site, dvars>>

(* The file is written in the first segment and nginx reloaded in the      *)
(* second; an error of either is yielded, then the file is moved away and  *)
(* the error raised again.                                                 *)
update_appserver_nginx_config(t) ==
  /\ Running(t, "update_appserver_nginx_config")
  /\ \/ /\ ~failing[t] /\ seg[t] = 1 /\ ~Raises(t)
        /\ nginx' = {nginx_of(copy[t])} /\ UNCHANGED failing
     \/ /\ ~failing[t] /\ seg[t] = 1 /\ ~Raises(t)
        /\ nginx' \in {nginx, {}, {nginx_of(copy[t])}}
        /\ failing' = [failing EXCEPT ![t] = TRUE]
     \/ /\ ~failing[t] /\ seg[t] = 1 /\ Raises(t)      (* no pingable appserver *)
        /\ UNCHANGED <<nginx, failing>>
     \/ /\ ~failing[t] /\ seg[t] = 2 /\ ~Raises(t)
        /\ failing' \in {failing, [failing EXCEPT ![t] = TRUE]} /\ UNCHANGED nginx
     \/ failing[t] /\ Raises(t) /\ nginx' \in {{}, nginx} /\ UNCHANGED failing
  /\ UNCHANGED <<site, data, service, realdb, files, copy, arg, unsaved, form>>

(* Removes the file, then reloads nginx. *)
remove_appserver_nginx_config(t) ==
  /\ Running(t, "remove_appserver_nginx_config")
  /\ \/ seg[t] = 1 /\ (nginx' = {} \/ (Raises(t) /\ UNCHANGED nginx))
     \/ seg[t] = 2 /\ UNCHANGED nginx
  /\ UNCHANGED <<site, data, service, realdb, files, local>>

ensure_site_directories_exist(t) ==
  /\ Running(t, "ensure_site_directories_exist")
  /\ \/ files' = TRUE
     \/ Raises(t) /\ UNCHANGED files
  /\ UNCHANGED <<site, data, nginx, service, realdb, local>>

remove_all_site_files_dangerous(t) ==
  /\ Running(t, "remove_all_site_files_dangerous")
  /\ \/ files' = FALSE
     \/ Raises(t) /\ UNCHANGED files
  /\ UNCHANGED <<site, data, nginx, service, realdb, local>>

create_real_site_database(t) ==
  /\ Running(t, "create_real_site_database")
  /\ \/ ~has_no_database(t) /\ realdb' = TRUE
     \/ Raises(t) /\ UNCHANGED realdb
  /\ UNCHANGED <<site, data, nginx, service, files, local>>

(* The new password is saved first and sent to the database host then. *)
regen_database_password(t) ==
  /\ Running(t, "regen_database_password")
  /\ \/ seg[t] = 1 /\ (has_no_database(t) => Raises(t)) /\ UNCHANGED realdb
     \/ seg[t] = 2 /\ (realdb' = TRUE \/ (Raises(t) /\ UNCHANGED realdb))
  /\ UNCHANGED <<site, data, nginx, service, files, local>>

(* Site.database is on_delete=SET_NULL. *)
delete_site_database_and_object(t) ==
  /\ Running(t, "delete_site_database_and_object")
  /\ \/ /\ seg[t] = 1
        /\ (~has_no_database(t) /\ realdb' = FALSE) \/ (Raises(t) /\ UNCHANGED realdb)
        /\ UNCHANGED <<row, databases>>
     \/ /\ seg[t] = 2 /\ ~Raises(t)
        /\ databases' = databases \ {copy[t].db}
        /\ row' = IF row.db = copy[t].db THEN [row EXCEPT !.db = NoDb] ELSE row
        /\ UNCHANGED realdb
  /\ UNCHANGED <<site, nextDb, doubled, customImage, domains, nginx, service, files, local>>

callback(t) ==
  \/ change_site_name(t) \/ change_site_domains(t) \/ change_site_type(t)
  \/ update_availability(t) \/ create_database_object(t) \/ update_image_object(t)
  \/ update_docker_service(t) \/ remove_docker_service(t) \/ restart_docker_service(t)
  \/ update_appserver_nginx_config(t) \/ remove_appserver_nginx_config(t)
  \/ ensure_site_directories_exist(t) \/ remove_all_site_files_dangerous(t)
  \/ create_real_site_database(t) \/ regen_database_password(t)
  \/ delete_site_database_and_object(t) \/ other_callback(t)

(* The callback goes on after a yield, as the code it is in demands. *)
TwoSegments == {"update_appserver_nginx_config", "remove_appserver_nginx_config",
                "regen_database_password", "delete_site_database_and_object"}

yields(t) == failing[t] \/ (seg[t] = 1 /\ plan[t][idx[t]] \in TwoSegments)

-----------------------------------------------------------------------------
(* The steps of the engine with their effects *)

deploy_fetch(t) ==
  /\ fetch(t)
  /\ pc'[t] = "drop_op" => row.db = NoDb
  /\ \/ /\ pc'[t] = "wrap"
        /\ opType[t] = "delete_site_database" => row.db # NoDb
        /\ \E a \in Args(opType[t]) :
             /\ plan'[t] = plan_of(opType[t], row, a)
             /\ arg' = [arg EXCEPT ![t] = a]
     \/ pc'[t] # "wrap" /\ UNCHANGED arg
  /\ UNCHANGED <<data, remote, copy, failing, unsaved, form>>

deploy_wrap(t) ==
  /\ auto_run_operation_wrapper(t)
  /\ copy' = IF pc'[t] = "adding" THEN [copy EXCEPT ![t] = row] ELSE copy
  /\ UNCHANGED <<data, remote, arg, failing, unsaved, form>>

deploy_start(t) ==
  /\ start_action(t)
  /\ failing' = [failing EXCEPT ![t] = FALSE]
  /\ UNCHANGED <<data, remote, copy, arg, unsaved, form>>

deploy_run(t) == run_segment(t) /\ callback(t)

deploy_save(t) ==
  /\ save_action(t)
  /\ pc'[t] # "catch" => (pc'[t] = "run" <=> yields(t))
  /\ UNCHANGED dvars

(* site.delete() raises a ProtectedError if the site has Domain rows. *)
deploy_end(t) ==
  /\ end_task(t)
  /\ site' # site <=> (opType[t] = "delete_site" /\ site = "present"
                         /\ site_deletable /\ ~domains)
  /\ UNCHANGED dvars

deploy_create(r) ==
  /\ create_view(r) /\ form[r] = {}
  /\ \E n \in Names, ty \in Types : row' = NewSite(n, ty)
  /\ UNCHANGED <<databases, nextDb, doubled, customImage, domains, remote, local>>

(* Other requests: what they find in the Site row does not matter. *)
deploy_request(r) ==
  /\ form[r] = {}
  /\ \/ \E ty \in PlainTypes \ {"create_site_database"} : plain_view(r, ty)
     \/ image_select_view(r) \/ edit_names_view(r) \/ check_recoverable(r)
     \/ reset_operations_view(r) \/ operation_delete_fix_view(r)
     \/ delete_actions(r) \/ delete_op(r) \/ create_operation(r) \/ delay(r)
     \/ fix_sites(r) \/ wait_for_operation(r) \/ request_fails(r)
  /\ UNCHANGED dvars

(* get_object_or_404 of a view that uses the columns it reads *)
load_site(r) ==
  /\ "edit_meta" \in Views \/ "create_site_database" \in PlainTypes
  /\ req[r].pc = "idle" /\ form[r] = {} /\ site = "present"
  /\ form' = [form EXCEPT ![r] = {row}]
  /\ UNCHANGED <<vars, data, remote, copy, arg, failing, unsaved>>

(* Checks the database of the instance first and the operation second. *)
create_database_view(r) ==
  /\ form[r] # {}
  /\ form' = [form EXCEPT ![r] = {}]
  /\ \/ /\ "create_site_database" \in PlainTypes
        /\ \A s \in form[r] : s.db = NoDb
        /\ plain_view(r, "create_site_database")
     \/ /\ \/ has_operation
           \/ \A s \in form[r] : s.db # NoDb
        /\ UNCHANGED vars
  /\ UNCHANGED <<data, remote, copy, arg, failing, unsaved>>

save_meta(r) ==
  /\ "edit_meta" \in Views /\ form[r] # {}
  /\ form' = [form EXCEPT ![r] = {}]
  /\ \A s \in form[r] :
       \/ /\ s.db \in databases \union {NoDb}
          /\ edit_meta_view(r) /\ row' = s
       \/ /\ s.db \notin databases \union {NoDb}
          /\ UNCHANGED <<vars, row>>
  /\ UNCHANGED <<databases, nextDb, doubled, customImage, domains, remote, copy, arg, failing, unsaved>>

(* A view that replaced an operation, or inserted a site, finds that some  *)
(* other view has inserted an operation before.                            *)
Restoring == {"create", "reset_operations", "operation_delete_fix"}

refused(r) == req[r].pc = "create" /\ req[r].view \in Restoring /\ ~operation_allowed

drops_another(t) == pc[t] = "drop_op" /\ opRows \ {t} # opRows' \ {t}

DTask(t) ==
  /\ \/ deploy_fetch(t) \/ deploy_wrap(t) \/ deploy_start(t) \/ deploy_run(t) \/ deploy_save(t)
     \/ deploy_end(t)
     \/ /\ \/ drop_operation(t) \/ add_action(t) \/ start_operation(t) \/ catch_exception(t)
           \/ clear_actions(t) \/ remove_operation(t) \/ worker_fails(t)
        /\ UNCHANGED dvars
  /\ overtaken' = (overtaken \/ drops_another(t))

DRequest(r) ==
  /\ \/ deploy_create(r) \/ deploy_request(r)
     \/ load_site(r) \/ create_database_view(r) \/ save_meta(r)
  /\ overtaken' = (overtaken \/ refused(r))

DNext ==
  \/ \E r \in Requests : DRequest(r)
  \/ \E t \in OpId : DTask(t) \/ insert_row(t)

DSpec == DInit /\ [][DNext]_<<vars, dvars, overtaken>>

-----------------------------------------------------------------------------
(* Properties *)

AtMostOne(S) == {{}} \union {{x} : x \in S}

(* Every variable of the deployment has its type. *)
DTypeOK ==
  /\ row \in SiteRow /\ copy \in [OpId -> SiteRow]
  /\ databases \subseteq 1..MaxDb /\ nextDb \in 1..(MaxDb + 1)
  /\ \A b \in {doubled, customImage, domains, realdb, files, overtaken} : b \in BOOLEAN
  /\ nginx \in AtMostOne([name : Names, type : Types, served : BOOLEAN])
  /\ service \in AtMostOne([served : BOOLEAN, db : 0..MaxDb, custom : BOOLEAN])
  /\ arg \in [OpId -> {NoArg} \union UNION {Args(ty) : ty \in OpTypes}]
  /\ \A t \in OpId : arg[t] \in {NoArg} \union Args(opType[t])
  /\ failing \in [OpId -> BOOLEAN] /\ unsaved \in [OpId -> AtMostOne(SiteRow)]
  /\ form \in [Requests -> AtMostOne(SiteRow)]

Quiet ==
  /\ opRows = {} /\ broker = {}
  /\ \A t \in OpId : pc[t] \in {"none", "ended"}
  /\ \A r \in Requests : req[r].pc = "idle"

DeleteDone == \E t \in OpId : opType[t] = "delete_site" /\ ok[t]

(* What is deployed is what the row says.  A static site is served without *)
(* its service if it has one (update_image_task deploys it regardless of   *)
(* the type), and delete_database_task leaves the service as it is.        *)
NginxMatches == nginx = {nginx_of(row)}

ServiceMatches ==
  row.type = "dynamic" =>
    IF row.db = NoDb
    THEN \E d \in 0..MaxDb : service = docker_service([row EXCEPT !.db = d])
    ELSE service = docker_service(row)

Consistent ==
  site = "present" =>
    NginxMatches /\ ServiceMatches /\ files /\ (row.db # NoDb => realdb)

(* Whatever failed on the way, once no operation is left, failed or not,   *)
(* what is deployed is what the Site row says: an operation that did half  *)
(* of its work is never forgotten.  There are two exceptions.  A task that *)
(* reset_operations_view superseded runs one more segment, and the         *)
(* fix_site of the reset may be over before.  And between the two queries  *)
(* that delete an operation and insert its fix_site, another request may   *)
(* insert one, so that the fix_site is refused.                            *)
NoSilentDrift ==
  Quiet /\ ~DeleteDone => Consistent \/ overtaken \/ \E t \in OpId : late[t] # 0

(* When delete_site is over, the site has left nothing on the servers that *)
(* the database does not know of: at most the real database, of which the  *)
(* Database row is left too (edit_meta_view may unlink it from the site).  *)
(* An operation created after delete_site gave its lease back excepted.    *)
DeletedIsWiped ==
  \A d \in OpId :
    (opType[d] = "delete_site" /\ ok[d] /\ nextOp = d + 1 /\ site = "deleted") =>
      nginx = {} /\ service = {} /\ ~files /\ (realdb => databases # {})

(* OPERATION_TYPES: delete_site deletes the site.  This is about a         *)
(* delete_site after which nobody has started another operation.           *)
DeleteDeletes ==
  \A t \in OpId :
    opType[t] = "delete_site" /\ ok[t] /\ pc[t] = "ended" /\ nextOp = t + 1 =>
      site = "deleted"

(* "assert site.database is not None" in three callbacks: the plan was     *)
(* made for an instance read earlier than the one they get.                *)
DatabaseAsserted ==
  \A t \in OpId :
    (/\ pc[t] = "run" /\ seg[t] = 1
     /\ plan[t][idx[t]] \in {"create_real_site_database", "regen_database_password",
                             "delete_site_database_and_object"})
      => copy[t].db # NoDb

(* Rows of tasks that were cut between their two queries                  *)
LeftDatabase(d) ==
  \E t \in OpId : opType[t] = "create_site_database" /\ \E s \in unsaved[t] : s.db = d

LeftImage == \E t \in OpId : opType[t] = "update_docker_image" /\ unsaved[t] # {}

(* Every Database row belongs to the site, so that delete_database and     *)
(* delete_site find it, but for one whose create_site_database ended       *)
(* between its insertion and site.save().  Also excepted is what           *)
(* `doubled' marks: create_database_view looks at a site it read earlier,  *)
(* and a second one passed before the first was done.                      *)
NoOrphanDatabase ==
  Quiet /\ ~doubled => \A d \in databases : d = row.db \/ LeftDatabase(d)

(* While no operation was reset, the custom image of a site is linked to   *)
(* its row or does not exist, so that update_image_object can create it,   *)
(* unless an update_docker_image ended between insertion and site.save().  *)
ImageLinked ==
  Quiet /\ site = "present" =>
    /\ row.custom => customImage
    /\ customImage => row.custom \/ LeftImage

(* A row of a database or an image that no site leads to is only left by a *)
(* task that raised or died between the query that inserts it and the one  *)
(* that links it; no other failure, and no other operation or request,     *)
(* loses one, and the site leads to no image that is gone.                 *)
RowsAreLinked == NoOrphanDatabase /\ ImageLinked
=============================================================================

--------------------------- MODULE SiteDatabases ---------------------------
(***************************************************************************)
(* The database of a site: its row in Director and the user and database   *)
(* on the database host.  An operation asks an appserver, which sends the  *)
(* host one statement after the other; each takes effect at once.  The     *)
(* manager waits half a minute; the appserver goes on without it.          *)
(*                                                                         *)
(* Passwords are numbered; the host has the DBMS of one of DBMSs.          *)
(***************************************************************************)
EXTENDS Naturals

CONSTANTS
  Requests,      (* requests to an appserver, of one operation each         *)
  DBMSs,         (* {"postgres", "mysql"} or one of them                    *)
  MaxErrors      (* bound: statements and answers that fail                 *)

ASSUME DatabaseAssumption ==
  DBMSs \subseteq {"postgres", "mysql"} /\ DBMSs # {} /\ MaxErrors \in Nat

VARIABLES
  dbms,
  row,         (* the password in Director's row, 0 if there is no row       *)
  passwords,   (* passwords generated so far                                *)
  db_user,     (* the password of the user on the host, 0 if there is none   *)
  db_name,     (* the database exists on the host                           *)
  refusing,    (* it allows no connections                                  *)
  granted,     (* the user may use it                                       *)
  on_schema,   (* the user's privileges on the schema public of the          *)
               (* database "postgres", where the appserver is connected      *)
  request,     (* what each request is for                                  *)
  password,    (* the password it was sent with                             *)
  statement,   (* the statement it comes to next                            *)
  found,       (* what its last lookup found                                *)
  answer,      (* what the operation was told                               *)
  last,        (* auxiliary: the request of the last operation              *)
  overlap,     (* auxiliary: two requests ran at the same time              *)
  cut,         (* auxiliary: a delete ended between making the database      *)
               (* refuse connections and dropping it                        *)
  clean,       (* auxiliary: nothing has failed since the last operation    *)
               (* began                                                     *)
  errors

hostvars == <<db_user, db_name, granted, on_schema>>
accessvars == <<refusing, cut>>
requestvars == <<request, password, statement, found, answer>>
databasevars == <<dbms, row, passwords, hostvars, accessvars, requestvars, last,
                  overlap, clean, errors>>

DatabaseInit ==
  /\ dbms \in DBMSs
  /\ row = 0 /\ passwords = 0 /\ db_user = 0 /\ db_name = FALSE /\ granted = FALSE
  /\ on_schema = FALSE /\ refusing = FALSE /\ cut = FALSE
  /\ request = [r \in Requests |-> "none"] /\ password = [r \in Requests |-> 0]
  /\ statement = [r \in Requests |-> "none"] /\ found = [r \in Requests |-> FALSE]
  /\ answer = [r \in Requests |-> "none"]
  /\ last = {} /\ overlap = FALSE /\ clean = TRUE /\ errors = 0

DatabaseError == errors < MaxErrors /\ errors' = errors + 1 /\ clean' = FALSE

NoError == UNCHANGED <<errors, clean>>

Running(r) == statement[r] \notin {"none", "end"}

-----------------------------------------------------------------------------
(* The operations: one at a time, each with its request *)

Ask(r, what, first, pw) ==
  /\ request[r] = "none" /\ \A q \in Requests : answer[q] # "waiting"
  /\ request' = [request EXCEPT ![r] = what]
  /\ password' = [password EXCEPT ![r] = pw]
  /\ statement' = [statement EXCEPT ![r] = first]
  /\ answer' = [answer EXCEPT ![r] = "waiting"]
  /\ last' = {r} /\ clean' = TRUE
  /\ overlap' = (overlap \/ \E q \in Requests : Running(q))
  /\ UNCHANGED <<dbms, hostvars, accessvars, found, errors>>

(* create_database_task: a row with a new password, then the real one.     *)
create_database_task(r) ==
  /\ row = 0
  /\ row' = passwords + 1 /\ passwords' = passwords + 1
  /\ Ask(r, "create", "find_user", row')

Mutant_regen_database_password(r) ==
  /\ row # 0
  /\ row' = passwords + 1 /\ passwords' = passwords + 1
  /\ Ask(r, "regen", "find_user", row)

(* regen_database_password: the row is saved first.                        *)
regen_database_password(r) ==
  /\ row # 0
  /\ row' = passwords + 1 /\ passwords' = passwords + 1
  /\ Ask(r, "regen", "find_user", row')

(* fix_site_task                                                           *)
create_real_site_database(r) ==
  /\ row # 0
  /\ Ask(r, "fix", "find_user", row)
  /\ UNCHANGED <<row, passwords>>

delete_site_database(r) ==
  /\ row # 0
  /\ Ask(r, "delete", "drop_database", row)
  /\ UNCHANGED <<row, passwords>>

(* The answer: after a delete the row is deleted, too.                     *)
answered(r, a) ==
  /\ answer[r] = "waiting" /\ answer' = [answer EXCEPT ![r] = a]
  /\ row' = IF request[r] = "delete" /\ a = "success" THEN 0 ELSE row
  /\ UNCHANGED <<dbms, passwords, hostvars, accessvars, request, password, found, last, overlap>>

(* AppserverTimeoutError: the statements go on.                            *)
request_times_out(r) ==
  /\ answered(r, "error") /\ DatabaseError
  /\ UNCHANGED statement

-----------------------------------------------------------------------------
(* create_database and delete_database on the appserver *)

At(r, s) == statement[r] = s /\ UNCHANGED <<dbms, passwords, request, password, last, overlap>>

Then(r, s) == statement' = [statement EXCEPT ![r] = s] /\ NoError /\ UNCHANGED <<row, answer>>

(* The page answers 500, if somebody still waits for it.                   *)
Fails(r) ==
  /\ statement' = [statement EXCEPT ![r] = "end"]
  /\ answer' = [answer EXCEPT ![r] = IF @ = "waiting" THEN "error" ELSE @]
  /\ UNCHANGED row

Succeeds(r) ==
  /\ statement[r] = "success"
  /\ statement' = [statement EXCEPT ![r] = "end"]
  /\ NoError
  /\ IF answer[r] = "waiting" THEN answered(r, "success")
     ELSE UNCHANGED <<dbms, row, passwords, hostvars, accessvars, request, password, found,
                      answer, last, overlap>>

find_user(r) ==
  /\ At(r, "find_user") /\ Then(r, "set_user")
  /\ found' = [found EXCEPT ![r] = db_user # 0]
  /\ UNCHANGED <<hostvars, accessvars>>

(* CREATE USER or ALTER USER, as the lookup said; either fails if that is  *)
(* not so any more.                                                        *)
set_user(r) ==
  /\ At(r, "set_user") /\ UNCHANGED <<db_name, granted, on_schema, accessvars, found>>
  /\ IF found[r] = (db_user # 0)
     THEN /\ db_user' = password[r]
          /\ Then(r, IF dbms = "postgres" THEN "find_database" ELSE "make_database")
     ELSE Fails(r) /\ NoError /\ UNCHANGED db_user

(* PostgreSQL is asked for the database first and fails to create one that *)
(* has come meanwhile; MySQL creates it if there is none.                  *)
find_database(r) ==
  /\ At(r, "find_database") /\ Then(r, "make_database")
  /\ found' = [found EXCEPT ![r] = db_name]
  /\ UNCHANGED <<hostvars, accessvars>>

make_database(r) ==
  /\ At(r, "make_database") /\ UNCHANGED <<db_user, granted, on_schema, found>>
  /\ \/ /\ dbms = "mysql" /\ Then(r, "grant_mysql")
        /\ db_name' = TRUE /\ UNCHANGED accessvars
     \/ /\ dbms = "postgres" /\ found[r] /\ Then(r, "grant_database")
        /\ UNCHANGED <<db_name, accessvars>>
     \/ /\ dbms = "postgres" /\ ~found[r] /\ ~db_name /\ Then(r, "grant_database")
        /\ db_name' = TRUE /\ refusing' = FALSE /\ cut' = FALSE
     \/ /\ dbms = "postgres" /\ ~found[r] /\ db_name /\ Fails(r) /\ NoError
        /\ UNCHANGED <<db_name, accessvars>>

grant_database(r) ==
  /\ At(r, "grant_database") /\ UNCHANGED <<db_user, db_name, on_schema, accessvars, found>>
  /\ IF db_name /\ db_user # 0
     THEN granted' = TRUE /\ Then(r, "grant_schema")
     ELSE Fails(r) /\ NoError /\ UNCHANGED granted

grant_schema(r) ==
  /\ At(r, "grant_schema") /\ UNCHANGED <<db_user, db_name, granted, accessvars, found>>
  /\ IF db_user # 0
     THEN on_schema' = TRUE /\ Then(r, "success")
     ELSE Fails(r) /\ NoError /\ UNCHANGED on_schema

(* MySQL grants privileges on a database that need not be there.           *)
grant_mysql(r) ==
  /\ At(r, "grant_mysql") /\ UNCHANGED <<db_user, db_name, on_schema, accessvars, found>>
  /\ IF db_user # 0
     THEN granted' = TRUE /\ Then(r, "success")
     ELSE Fails(r) /\ NoError /\ UNCHANGED granted

Dropped ==
  /\ db_name' = FALSE /\ granted' = (granted /\ dbms = "mysql")
  /\ refusing' = FALSE /\ cut' = FALSE

(* DROP DATABASE IF EXISTS, by force; the site may be connected.  MySQL    *)
(* keeps the privileges.  A PostgreSQL that does not know how to force, or *)
(* cannot, is asked again in smaller steps.                                *)
drop_database(r) ==
  /\ At(r, "drop_database") /\ UNCHANGED <<db_user, on_schema, found>>
  /\ \/ Dropped /\ Then(r, IF dbms = "postgres" THEN "revoke" ELSE "drop_user")
     \/ /\ dbms = "postgres" /\ Then(r, "look_again")
        /\ UNCHANGED <<db_name, granted, accessvars>>

look_again(r) ==
  /\ At(r, "look_again") /\ Then(r, IF db_name THEN "refuse" ELSE "revoke")
  /\ UNCHANGED <<hostvars, accessvars, found>>

(* ALTER DATABASE ... WITH ALLOW_CONNECTIONS false                         *)
refuse(r) ==
  /\ At(r, "refuse") /\ UNCHANGED <<hostvars, cut, found>>
  /\ IF db_name
     THEN refusing' = TRUE /\ Then(r, "drop_again")
     ELSE Fails(r) /\ NoError /\ UNCHANGED refusing

(* Everybody is disconnected first.                                        *)
drop_again(r) ==
  /\ At(r, "drop_again") /\ Then(r, "revoke") /\ Dropped
  /\ UNCHANGED <<db_user, on_schema, found>>

(* PostgreSQL cannot revoke from a role that does not exist.               *)
revoke(r) ==
  /\ At(r, "revoke") /\ UNCHANGED <<db_user, db_name, granted, accessvars, found>>
  /\ IF db_user # 0
     THEN on_schema' = FALSE /\ Then(r, "drop_user")
     ELSE Fails(r) /\ NoError /\ UNCHANGED on_schema

(* DROP USER IF EXISTS; PostgreSQL refuses while it has any privilege.     *)
drop_user(r) ==
  /\ At(r, "drop_user") /\ UNCHANGED <<db_name, on_schema, accessvars, found>>
  /\ IF dbms = "postgres" /\ (granted \/ on_schema)
     THEN Fails(r) /\ NoError /\ UNCHANGED <<db_user, granted>>
     ELSE db_user' = 0 /\ granted' = FALSE /\ Then(r, "success")

(* The connection to the host is lost, or it refuses.                      *)
statement_fails(r) ==
  /\ Running(r) /\ DatabaseError /\ Fails(r)
  /\ cut' = (cut \/ (statement[r] = "drop_again" /\ refusing))
  /\ UNCHANGED <<dbms, passwords, hostvars, refusing, request, password, found, last, overlap>>

DatabaseNext ==
  \E r \in Requests :
    \/ create_database_task(r) \/ regen_database_password(r) \/ create_real_site_database(r)
    \/ delete_site_database(r) \/ request_times_out(r) \/ Succeeds(r) \/ statement_fails(r)
    \/ find_user(r) \/ set_user(r) \/ find_database(r) \/ make_database(r)
    \/ grant_database(r) \/ grant_schema(r) \/ grant_mysql(r)
    \/ drop_database(r) \/ look_again(r) \/ refuse(r) \/ drop_again(r) \/ revoke(r) \/ drop_user(r)

DatabaseSpec == DatabaseInit /\ [][DatabaseNext]_databasevars

-----------------------------------------------------------------------------

DatabaseTypeOK ==
  /\ row \in 0..passwords /\ db_user \in 0..passwords
  /\ db_name \in BOOLEAN /\ granted \in BOOLEAN /\ on_schema \in BOOLEAN
  /\ refusing \in BOOLEAN /\ cut \in BOOLEAN
  /\ password \in [Requests -> 0..passwords]
  /\ answer \in [Requests -> {"none", "waiting", "success", "error"}]

LastWas(kinds, a) ==
  ~overlap /\ \E r \in last : request[r] \in kinds /\ answer[r] = a

(* After a database was created, fixed or given a new password the site    *)
(* can use it with the password that Director has, whatever earlier        *)
(* operations left half done: but for a delete that was cut off just       *)
(* before the drop, after which the database refuses connections and       *)
(* nothing but another delete puts that right.                             *)
SuccessIsUsable ==
  LastWas({"create", "regen", "fix"}, "success")
    => /\ row # 0 /\ db_user = row /\ db_name /\ granted /\ on_schema = (dbms = "postgres")
       /\ refusing => cut

(* After a database was deleted neither it nor its user is left, and while *)
(* there is no row there is nothing on the host that a row would lead to.  *)
SuccessIsGone ==
  LastWas({"delete"}, "success") => row = 0 /\ db_user = 0 /\ ~db_name

(* A delete can be made again after one that failed or whose answer was    *)
(* lost, and is only refused by PostgreSQL, when the user is gone already. *)
DeletesAgain ==
  LastWas({"delete"}, "error") /\ clean
    => dbms = "postgres" /\ db_user = 0

(* What an operation may rely on after it succeeded, and that a delete can *)
(* be repeated.                                                            *)
DatabaseOutcome == SuccessIsUsable /\ SuccessIsGone /\ DeletesAgain
=============================================================================

------------------------------ MODULE Domains ------------------------------
(***************************************************************************)
(* Custom domains: the rows of Director's Domain table, the operations     *)
(* that move them from site to site, and the balancers that route them.    *)
(* Nothing in the database keeps a name from having two rows; the task     *)
(* looks a name up, and saves or creates its row in a later query.         *)
(*                                                                         *)
(* A site has one operation at a time; those of different sites interleave,*)
(* and the administrators reserve names in between.                        *)
(***************************************************************************)
EXTENDS Naturals, Sequences

CONSTANTS
  Names,         (* domain names                                            *)
  Owners,        (* the sites that ask for them                             *)
  NoSite,        (* the owner of a name that nobody has                     *)
  Balancers,     (* the balancers; certbot runs on one of them              *)
  MaxEdits,      (* bound: edits of the names of a site                     *)
  MaxBlocks,     (* bound: names reserved by the administrators             *)
  MaxOutages     (* bound: balancers down, requests that fail               *)

ASSUME DomainsAssumption ==
  /\ NoSite \notin Owners
  /\ MaxEdits \in Nat /\ MaxBlocks \in Nat /\ MaxOutages \in Nat

VARIABLES
  rows,        (* the table: [name, site, status]                           *)
  edit,        (* where the operation of each site is                       *)
  wanted,      (* the names it was started with                             *)
  todo,        (* those it has not come to yet                              *)
  current,     (* the name it has looked up and will write, {} for none     *)
  domain_obj,  (* the row it has read, 0 for none                           *)
  old,         (* the names it is about to take the certificates of         *)
  to_update,   (* balancers it still has to update                          *)
  site_file,   (* the configuration file of each site on each balancer      *)
  routed,      (* the files that the Nginx of each balancer has loaded      *)
  certs,       (* names with a certificate                                  *)
  contested,   (* auxiliary: names that somebody wrote while a task was     *)
               (* between the queries on them                               *)
  untouched,   (* auxiliary: sites whose names the administrators have left *)
               (* alone since their last edit began                         *)
  reached,     (* auxiliary: the balancers that answered its ping           *)
  edits, blocks, outages

taskvars == <<edit, wanted, todo, current, domain_obj, old, to_update>>
balancervars == <<site_file, routed, certs>>
auxvars == <<contested, untouched, reached>>
countvars == <<edits, blocks, outages>>
domainvars == <<rows, taskvars, balancervars, auxvars, countvars>>

DomainStages == {"none", "domains", "save", "create", "certbot", "cert_request", "old",
                 "old_request", "ping", "update", "done", "failed", "failed_certbot"}

Row(n, s, status) == [name |-> n, site |-> s, status |-> status]

Mutant_Named(n) == {i \in DOMAIN rows : rows[i].name = n /\ rows[i].status # "deleted"}

Named(n) == {i \in DOMAIN rows : rows[i].name = n}

Active(s) == {rows[i].name : i \in {j \in DOMAIN rows :
                                      rows[j].site = s /\ rows[j].status = "active"}}

(* What a write of the row of n makes doubtful for everybody else.         *)
Contest(s, n) ==
  contested \union
    (IF \E t \in Owners \ {s} : n \in current[t] \union old[t] THEN {n} ELSE {})

Outage == outages < MaxOutages /\ outages' = outages + 1

DomainsInit ==
  /\ rows = <<>>
  /\ edit = [s \in Owners |-> "none"]
  /\ wanted = [s \in Owners |-> {}] /\ todo = wanted /\ old = wanted /\ current = wanted
  /\ domain_obj = [s \in Owners |-> 0]
  /\ to_update = [s \in Owners |-> {}]
  /\ site_file = [b \in Balancers |-> [s \in Owners |-> {}]] /\ routed = site_file
  /\ certs = {} /\ contested = {} /\ untouched = {}
  /\ reached = [s \in Owners |-> {}]
  /\ edits = 0 /\ blocks = 0 /\ outages = 0

-----------------------------------------------------------------------------
(* edit_names_view: the names must not be another site's.  An operation    *)
(* that failed at certbot is replaced.                                     *)

in_use(s, n) == \E i \in Named(n) : rows[i].site # s /\ rows[i].status # "deleted"

edit_names_view(s, names) ==
  /\ edit[s] \in {"none", "done", "failed_certbot"} /\ edits < MaxEdits
  /\ \A n \in names : ~ in_use(s, n)
  /\ edit' = [edit EXCEPT ![s] = "domains"]
  /\ wanted' = [wanted EXCEPT ![s] = names] /\ todo' = [todo EXCEPT ![s] = names]
  /\ untouched' = untouched \union {s} /\ edits' = edits + 1
  /\ UNCHANGED <<rows, current, domain_obj, old, to_update, balancervars, contested, reached,
                 blocks, outages>>

-----------------------------------------------------------------------------
(* change_site_domains *)

Mutant_may_take(s, i) == rows[i].status # "blocked"

may_take(s, i) == rows[i].status # "blocked" /\ rows[i].site \in {s, NoSite}

(* get() of a name that is there twice raises MultipleObjectsReturned,     *)
(* which only the operation wrapper catches.                               *)
get_domain(s, n) ==
  /\ edit[s] = "domains" /\ n \in todo[s]
  /\ todo' = [todo EXCEPT ![s] = @ \ {n}]
  /\ \/ /\ Named(n) = {} /\ edit' = [edit EXCEPT ![s] = "create"]
        /\ current' = [current EXCEPT ![s] = {n}] /\ UNCHANGED domain_obj
     \/ \E i \in Named(n) :
          /\ Named(n) = {i} /\ may_take(s, i) /\ edit' = [edit EXCEPT ![s] = "save"]
          /\ current' = [current EXCEPT ![s] = {n}]
          /\ domain_obj' = [domain_obj EXCEPT ![s] = i]
     \/ /\ \E i \in Named(n) : Named(n) = {i} /\ ~ may_take(s, i)
        /\ UNCHANGED <<edit, current, domain_obj>>
     \/ /\ \E i, j \in Named(n) : i # j
        /\ edit' = [edit EXCEPT ![s] = "failed"] /\ UNCHANGED <<current, domain_obj>>
  /\ UNCHANGED <<rows, wanted, old, to_update, balancervars, auxvars, countvars>>

Wrote(s, n) ==
  /\ current[s] = {n} /\ edit' = [edit EXCEPT ![s] = "domains"]
  /\ current' = [current EXCEPT ![s] = {}] /\ domain_obj' = [domain_obj EXCEPT ![s] = 0]
  /\ contested' = Contest(s, n)
  /\ UNCHANGED <<wanted, todo, old, to_update, balancervars, untouched, reached, countvars>>

(* save() writes every field, whatever the row holds by now.               *)
save_domain(s, n) ==
  /\ edit[s] = "save" /\ Wrote(s, n)
  /\ rows' = [rows EXCEPT ![domain_obj[s]] = Row(n, s, "active")]

create_domain(s, n) ==
  /\ edit[s] = "create" /\ Wrote(s, n)
  /\ rows' = Append(rows, Row(n, s, "active"))

Release(s, row) ==
  IF row.site = s /\ row.name \notin wanted[s] THEN Row(row.name, NoSite, "deleted") ELSE row

(* One UPDATE gives up the other names of the site.                        *)
remove_others(s) ==
  /\ edit[s] = "domains" /\ todo[s] = {} /\ edit' = [edit EXCEPT ![s] = "certbot"]
  /\ rows' = [i \in DOMAIN rows |-> Release(s, rows[i])]
  /\ wanted' = [wanted EXCEPT ![s] = {}]
  /\ UNCHANGED <<todo, current, domain_obj, old, to_update, balancervars, auxvars, countvars>>

-----------------------------------------------------------------------------
(* update_balancer_certbot: requests to the first balancer.                *)

(* The action between those two, which configures the appservers, fails.  *)
appserver_update_fails(s) ==
  /\ edit[s] = "certbot" /\ Outage
  /\ edit' = [edit EXCEPT ![s] = "failed"]
  /\ UNCHANGED <<rows, wanted, todo, current, domain_obj, old, to_update, balancervars,
                 auxvars, edits, blocks>>

certbot_setup(s) ==
  /\ edit[s] = "certbot" /\ edit' = [edit EXCEPT ![s] = "old"]
  /\ certs' = certs \union Active(s)
  /\ UNCHANGED <<rows, wanted, todo, current, domain_obj, old, to_update, site_file, routed,
                 auxvars, countvars>>

certbot_fails(s) ==
  /\ edit[s] \in {"certbot", "old_request"} /\ Outage
  /\ edit' = [edit EXCEPT ![s] = "failed_certbot"] /\ old' = [old EXCEPT ![s] = {}]
  /\ UNCHANGED <<rows, wanted, todo, current, domain_obj, to_update, balancervars,
                 auxvars, edits, blocks>>

Mutant_old_domains(s) == {rows[i].name : i \in DOMAIN rows}

old_domains(s) == {rows[i].name : i \in {j \in DOMAIN rows : rows[j].status # "active"}}

(* The names whose certificates go are looked up, then sent.               *)
list_old_domains(s) ==
  /\ edit[s] = "old" /\ edit' = [edit EXCEPT ![s] = "old_request"]
  /\ old' = [old EXCEPT ![s] = old_domains(s)]
  /\ UNCHANGED <<rows, wanted, todo, current, domain_obj, to_update, balancervars, auxvars, countvars>>

remove_old_domains(s) ==
  /\ edit[s] = "old_request" /\ edit' = [edit EXCEPT ![s] = "ping"]
  /\ certs' = certs \ old[s] /\ old' = [old EXCEPT ![s] = {}]
  /\ UNCHANGED <<rows, wanted, todo, current, domain_obj, to_update, site_file, routed,
                 auxvars, countvars>>

-----------------------------------------------------------------------------
(* update_balancer_nginx_config *)

(* A balancer that does not answer the ping is left with what it has.      *)
ping_balancers(s, up) ==
  /\ edit[s] = "ping" /\ edit' = [edit EXCEPT ![s] = "update"]
  /\ IF up = Balancers THEN UNCHANGED outages ELSE Outage
  /\ to_update' = [to_update EXCEPT ![s] = up] /\ reached' = [reached EXCEPT ![s] = up]
  /\ UNCHANGED <<rows, wanted, todo, current, domain_obj, old, balancervars, contested, untouched,
                 edits, blocks>>

(* Nginx reads the files of every site.                                    *)
reload_balancer(b) == routed' = [routed EXCEPT ![b] = site_file'[b]]

(* The file is written, also when the site has no names left.              *)
update_balancer(s, b) ==
  /\ edit[s] = "update" /\ b \in to_update[s]
  /\ to_update' = [to_update EXCEPT ![s] = @ \ {b}]
  /\ site_file' = [site_file EXCEPT ![b][s] = Active(s)]
  /\ \/ reload_balancer(b) /\ UNCHANGED <<edit, outages>>
     \/ Outage /\ UNCHANGED routed /\ edit' = [edit EXCEPT ![s] = "failed"]
  /\ UNCHANGED <<rows, wanted, todo, current, domain_obj, old, certs, auxvars, edits, blocks>>

edit_succeeds(s) ==
  /\ edit[s] = "update" /\ to_update[s] = {} /\ edit' = [edit EXCEPT ![s] = "done"]
  /\ UNCHANGED <<rows, wanted, todo, current, domain_obj, old, to_update, balancervars,
                 auxvars, countvars>>

-----------------------------------------------------------------------------
(* The administrators reserve a name on their own pages.                   *)

block_domain(n) ==
  /\ blocks < MaxBlocks /\ blocks' = blocks + 1
  /\ \/ Named(n) = {} /\ rows' = Append(rows, Row(n, NoSite, "blocked")) /\ UNCHANGED untouched
     \/ \E i \in Named(n) :
          /\ rows' = [rows EXCEPT ![i] = Row(n, NoSite, "blocked")]
          /\ untouched' = untouched \ {rows[i].site}
  /\ contested' = IF \E s \in Owners : n \in current[s] THEN contested \union {n} ELSE contested
  /\ UNCHANGED <<taskvars, balancervars, reached, edits, outages>>

DomainsNext ==
  \/ \E s \in Owners :
       \/ \E names \in SUBSET Names : edit_names_view(s, names)
       \/ \E n \in Names : get_domain(s, n) \/ save_domain(s, n) \/ create_domain(s, n)
       \/ remove_others(s)
       \/ appserver_update_fails(s) \/ certbot_setup(s) \/ certbot_fails(s) \/ list_old_domains(s) \/ remove_old_domains(s)
       \/ \E up \in SUBSET Balancers : ping_balancers(s, up)
       \/ \E b \in Balancers : update_balancer(s, b)
       \/ edit_succeeds(s)
  \/ \E n \in Names : block_domain(n)

DomainsSpec == DomainsInit /\ [][DomainsNext]_domainvars

-----------------------------------------------------------------------------

DomainsTypeOK ==
  /\ rows \in Seq([name : Names, site : Owners \union {NoSite},
                   status : {"active", "deleted", "blocked"}])
  /\ edit \in [Owners -> DomainStages]
  /\ wanted \in [Owners -> SUBSET Names] /\ todo \in [Owners -> SUBSET Names]
  /\ old \in [Owners -> SUBSET Names] /\ current \in [Owners -> SUBSET Names]
  /\ domain_obj \in [Owners -> Nat]
  /\ to_update \in [Owners -> SUBSET Balancers] /\ reached \in [Owners -> SUBSET Balancers]
  /\ site_file \in [Balancers -> [Owners -> SUBSET Names]]
  /\ routed \in [Balancers -> [Owners -> SUBSET Names]]
  /\ certs \subseteq Names /\ contested \subseteq Names /\ untouched \subseteq Owners

(* The task of tasks.py gives a name to one site only: unless two wrote    *)
(* the row of a name at the same time it has one row, and a row without a  *)
(* site is never active (a comment of models.py: "Should ONLY be None for  *)
(* deleted or blocked domains").                                           *)
OneOwner ==
  /\ \A i, j \in DOMAIN rows :
       rows[i].name = rows[j].name /\ rows[i].name \notin contested => i = j
  /\ \A i \in DOMAIN rows : rows[i].site = NoSite <=> rows[i].status # "active"

(* A name goes to another site, or from the reserved ones to a site, only  *)
(* if its site gave it up first or the administrators took it.             *)
NotTaken ==
  [][\A i \in DOMAIN rows :
       rows[i].name \notin contested' /\ rows[i].status # "deleted"
         => rows'[i].site \in {rows[i].site, NoSite}]_domainvars

(* After an edit that succeeded the balancers that answered route to the   *)
(* site the names it owns, no more and no fewer, whatever other edits do   *)
(* meanwhile that do not write the row of the same name at the same time.  *)
OwnedIsRouted ==
  \A s \in untouched : edit[s] = "done" =>
    \A b \in reached[s] : \A n \in Names \ contested : n \in routed[b][s] <=> n \in Active(s)

(* Cleaning up after other sites takes no certificate of a name in use,    *)
(* but for one: a name that was taken while another task had it on its     *)
(* list of names to give up, between the query and the request, is         *)
(* contested, and its certificate does go.                                 *)
CertificatesStay ==
  \A s \in untouched : edit[s] = "done" => Active(s) \ contested \subseteq certs

(* A site whose edit succeeded is served under its names, with their       *)
(* certificates, except for names that are contested in one of these ways. *)
OwnedIsServed == OwnedIsRouted /\ CertificatesStay
=============================================================================

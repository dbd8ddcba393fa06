------------------------------ MODULE MCHosts ------------------------------
(***************************************************************************)
(* What the operations do on appservers, balancers and database hosts, and *)
(* the requests for sites, for TLC.  The parts share no state, so a        *)
(* behaviour is one of a single part, which the initial state chooses.     *)
(*                                                                         *)
(* The sites, the hosts and the names are interchangeable.                 *)
(***************************************************************************)
EXTENDS NginxConfig, SiteDatabases, Domains, SiteRequests, TLC

VARIABLE part

allvars == <<part, nginxvars, databasevars, domainvars, requestsvars>>

Interchangeable == Permutations(Owners) \union Permutations(Balancers) \union Permutations(Names)

HostsInit ==
  /\ part \in {"nginx", "database", "domains", "requests"}
  /\ NginxInit /\ DatabaseInit /\ DomainsInit /\ RequestsInit
  /\ part = "database" \/ dbms = "postgres"
  /\ part = "nginx" \/ nginx = [a \in Appservers |-> "running"]
  /\ \E a \in Appservers : nginx[a] = "running"

HostsNext ==
  /\ UNCHANGED part
  /\ \/ part = "nginx" /\ NginxNext /\ UNCHANGED <<databasevars, domainvars, requestsvars>>
     \/ part = "database" /\ DatabaseNext /\ UNCHANGED <<nginxvars, domainvars, requestsvars>>
     \/ part = "domains" /\ DomainsNext /\ UNCHANGED <<nginxvars, databasevars, requestsvars>>
     \/ part = "requests" /\ RequestsNext /\ UNCHANGED <<nginxvars, databasevars, domainvars>>

HostsSpec == HostsInit /\ [][HostsNext]_allvars

(* The types of the parts, Nginx, the databases, the domains and the        *)
(* requests, with what relates the variables of one part to each other.     *)
HostsTypeOK ==
  NginxTypeOK /\ DatabaseTypeOK /\ DomainsTypeOK /\ RequestsTypeOK
=============================================================================

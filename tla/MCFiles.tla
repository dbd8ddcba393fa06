------------------------------ MODULE MCFiles ------------------------------
(***************************************************************************)
(* What users send from the editor page and from SSH, for TLC: the panes   *)
(* of files, the relay in between, requests on files, and the shell        *)
(* server.  They share no state, so a behaviour is one of a single part,   *)
(* which the initial state chooses.                                        *)
(*                                                                         *)
(* The pane has one directory that is watched from the start with one file *)
(* in it and one outside; the requests are about a directory and a file    *)
(* in it.  The shell server tries the middle one of three appservers first, *)
(* and two chunks overflow its buffer.                                     *)
(***************************************************************************)
EXTENDS FileMonitor, MonitorRelay, FileCommands, ShellSession, TLC

MCPaths == {<<"d">>, <<"x">>, <<"d", "f">>, <<"x", "f">>}
MCPublic == <<"d">>
MCEntries == {<<"a">>, <<"b">>, <<"a", "c">>}

OneFile ==
  [p \in MCEntries |->
     CASE p = <<"a">> -> Directory [] p = <<"a", "c">> -> Old [] OTHER -> Nothing]

VARIABLE part

allvars == <<part, monvars, relayvars, filevars, vars>>

FilesInit ==
  /\ part \in {"pane", "relay", "requests", "shell"}
  /\ MonInit /\ RelayInit /\ CommandsInit /\ Init
  /\ \A p \in MCPaths : disk[p] # "none" => p = MCPublic \/ (part = "pane" /\ p = <<"d", "f">>)
  /\ disk[<<"d", "f">>] \in {"none", "file"}
  /\ part = "requests" \/ entry = OneFile
  /\ IF part = "shell" THEN first = 1 ELSE request = "menu" /\ first = 0

FilesNext ==
  /\ UNCHANGED part
  /\ \/ part = "pane" /\ MonNext /\ UNCHANGED <<relayvars, filevars, vars>>
     \/ part = "relay" /\ RelayNext /\ UNCHANGED <<monvars, filevars, vars>>
     \/ part = "requests" /\ CommandsNext /\ UNCHANGED <<monvars, relayvars, vars>>
     \/ part = "shell" /\ Next /\ UNCHANGED <<monvars, relayvars, filevars>>

FilesSpec == FilesInit /\ [][FilesNext]_allvars

FilesSymmetry == Permutations(FileRequests)

(* The types of the parts, the pane, the relay, the requests and the        *)
(* shell, with what relates the variables of one part to each other.        *)
FilesTypeOK ==
  MonTypeOK /\ RelayTypeOK /\ CommandsTypeOK /\ TypeOK
=============================================================================

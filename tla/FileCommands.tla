---------------------------- MODULE FileCommands ----------------------------
(***************************************************************************)
(* The file operations of the editor.  A view of the manager sends each to *)
(* one appserver, whose page starts a helper process for it; the helpers   *)
(* of all requests, on every appserver, share the files of the site, so    *)
(* between two system calls of one another may run.  The manager gives up  *)
(* after a timeout, the helper does not.                                   *)
(*                                                                         *)
(* A directory entry leads to a file, named for the request that created   *)
(* it.  Its data is a sequence of chunks; a chunk is the request that      *)
(* wrote it.  Links, modes and the contents of archives are left out.      *)
(***************************************************************************)
EXTENDS Naturals, Sequences, FiniteSets, SequencesExt

CONSTANTS
  FileRequests,  (* requests                                                *)
  Entries,       (* paths, as sequences of names                            *)
  Chunks,        (* chunks of an upload                                     *)
  MaxSize        (* MAX_FILE_DOWNLOAD_BYTES, in chunks                      *)

ASSUME CommandAssumption ==
  /\ Chunks \in Nat \ {0} /\ MaxSize \in Nat
  /\ Entries \subseteq Seq(STRING)
  /\ \A p \in Entries : p # <<>> /\ SubSeq(p, 1, Len(p) - 1) \in Entries \union {<<>>}

Old == "old"        (* a file that was there before                         *)
Directory == "dir"
Nothing == "nothing"
Hole == "hole"
Files == FileRequests \union {Old}

ASSUME RequestsAssumption == FileRequests \intersect {Old, Directory, Nothing, Hole} = {}

VARIABLES
  entry,         (* what each path leads to                                 *)
  contents,      (* the data of each file                                   *)
  command, path, newpath,
  view,          (* what the manager answered                               *)
  step,          (* where the helper is                                     *)
  fd,            (* the file the helper has open                            *)
  offset,        (* chunks it has written or sent, or entries archived      *)
  todo,          (* entries that os.walk has listed                         *)
  exitcode,      (* its exit code; "special" is HELPER_SPECIAL_EXIT_CODE    *)
  late,          (* auxiliary: the manager gave up before the helper ended  *)
  shared,        (* auxiliary: another helper wrote or cut the file         *)
  changed        (* auxiliary: the helper changed an entry                  *)

filevars == <<entry, contents, command, path, newpath, view, step, fd, offset, todo,
              exitcode, late, shared, changed>>

dirname(p) == SubSeq(p, 1, Len(p) - 1)
exists(p) == entry[p] # Nothing
isdir(p) == p \in {q \in Entries : entry[q] = Directory} \union {<<>>}
Inside(d) == {p \in Entries : Len(p) = Len(d) + 1 /\ dirname(p) = d /\ exists(p)}

CommandsInit ==
  /\ entry \in [Entries -> {Nothing, Directory, Old}]
  /\ Cardinality({p \in Entries : entry[p] = Old}) = 1
  /\ \A p \in Entries : exists(p) => isdir(dirname(p))
  /\ contents = [f \in Files |-> IF f = Old THEN <<Old>> ELSE <<>>]
  /\ command = [r \in FileRequests |-> Nothing]
  /\ path = [r \in FileRequests |-> <<>>] /\ newpath = [r \in FileRequests |-> <<>>]
  /\ view = [r \in FileRequests |-> "idle"] /\ step = [r \in FileRequests |-> "idle"]
  /\ fd = [r \in FileRequests |-> Nothing] /\ offset = [r \in FileRequests |-> 0]
  /\ todo = [r \in FileRequests |-> {}]
  /\ exitcode = [r \in FileRequests |-> "none"]
  /\ late = [r \in FileRequests |-> FALSE] /\ shared = [r \in FileRequests |-> FALSE]
  /\ changed = [r \in FileRequests |-> FALSE]

-----------------------------------------------------------------------------
(* The views of the manager and the pages of the orchestrator *)

(* The page starts the helper with the arguments of the request.           *)
run_helper(r, c, p, q) ==
  /\ view[r] = "idle"
  /\ view' = [view EXCEPT ![r] = "waiting"] /\ step' = [step EXCEPT ![r] = "start"]
  /\ command' = [command EXCEPT ![r] = c]
  /\ path' = [path EXCEPT ![r] = p] /\ newpath' = [newpath EXCEPT ![r] = q]
  /\ UNCHANGED <<entry, contents, fd, offset, todo, exitcode, late, shared, changed>>

stream_site_file(r, p) == run_helper(r, "get", p, <<>>)
download_zip_site_dir(r, p) == run_helper(r, "zip", p, <<>>)
write_site_file(r, p) == run_helper(r, "write", p, <<>>)
create_site_file(r, p) == run_helper(r, "create", p, <<>>)
make_site_directory(r, p) == run_helper(r, "mkdir", p, <<>>)
remove_site_file(r, p) == run_helper(r, "rm", p, <<>>)
remove_site_directory_recur(r, p) == run_helper(r, "rmdir", p, <<>>)
rename_path(r, p, q) == run_helper(r, "rename", p, q)

get_file_view(r) == \E p \in Entries : stream_site_file(r, p)
download_zip_view(r) == \E p \in Entries : download_zip_site_dir(r, p)
write_file_view(r) == \E p \in Entries : write_site_file(r, p)
create_file_view(r) == \E p \in Entries : create_site_file(r, p)
make_directory_view(r) == \E p \in Entries : make_site_directory(r, p)
remove_file_view(r) == \E p \in Entries : remove_site_file(r, p)
remove_directory_recur_view(r) == \E p \in Entries : remove_site_directory_recur(r, p)
rename_view(r) == \E p, q \in Entries : rename_path(r, p, q)

Answer(r, a) ==
  /\ view' = [view EXCEPT ![r] = a]
  /\ UNCHANGED <<entry, contents, command, path, newpath, step, fd, offset, todo, exitcode,
                 shared, changed>>

(* AppserverTimeoutError, which no view catches: they catch only           *)
(* AppserverProtocolError.  The helper goes on on the appserver.           *)
TimedOut(r) ==
  /\ view[r] = "waiting" /\ step[r] # "streaming"
  /\ Answer(r, "error")
  /\ late' = [late EXCEPT ![r] = TRUE]

raise_for_process_result(r) == IF exitcode[r] = "zero" THEN "success" ELSE "error"

(* The pages wait for the end of the helper; the status code tells.        *)
page(r, c) ==
  /\ view[r] = "waiting" /\ step[r] = "exited" /\ command[r] = c
  /\ Answer(r, raise_for_process_result(r))
  /\ UNCHANGED late

write_file_page(r) == page(r, "write")
create_file_page(r) == page(r, "create")
make_directory_page(r) == page(r, "mkdir")
remove_file_page(r) == page(r, "rm")
remove_directory_recur_page(r) == page(r, "rmdir")
rename_page(r) == page(r, "rename")

(* These wait for the first chunk or the end; an exception of the stream   *)
(* after that ends the body of the response.                               *)
stream_page(r, c) ==
  \/ /\ view[r] = "waiting" /\ step[r] = "streaming" /\ command[r] = c
     /\ offset[r] > 0 /\ Answer(r, "success")
     /\ UNCHANGED late
  \/ page(r, c)

get_file_page(r) == stream_page(r, "get")
download_zip_page(r) == stream_page(r, "zip")

-----------------------------------------------------------------------------
(* The helper *)

Run(r, c, s) ==
  /\ command[r] = c /\ step[r] = s
  /\ UNCHANGED <<command, path, newpath, view, late>>

Goto(r, s) == step' = [step EXCEPT ![r] = s] /\ UNCHANGED exitcode

Exit(r, code) ==
  /\ step' = [step EXCEPT ![r] = "exited"]
  /\ exitcode' = [exitcode EXCEPT ![r] = code]

SetEntry(r, p, e) ==
  entry' = [entry EXCEPT ![p] = e] /\ changed' = [changed EXCEPT ![r] = TRUE]

Same == UNCHANGED <<entry, changed>>
SameData == UNCHANGED <<contents, fd, offset, todo, shared>>

(* r writes f: that disturbs who reads it, and who writes it or has        *)
(* written it is no longer the only one.                                   *)
Share(r, f) ==
  LET others == {s \in FileRequests \ {r} : fd[s] = f \/ Contains(contents[f], s)}
      writers == {s \in others : command[s] = "write" /\ fd[s] = f}
  IN  shared' = [s \in FileRequests |->
                   shared[s] \/ s \in others \/ (s = r /\ writers # {})]

(* open(relpath, "wb") truncates a file that exists.                       *)
write_open(r) ==
  LET p == path[r]
      f == IF exists(p) THEN entry[p] ELSE r
  IN  /\ Run(r, "write", "start")
      /\ IF isdir(p) \/ ~isdir(dirname(p))
         THEN Exit(r, "special") /\ Same /\ SameData
         ELSE /\ SetEntry(r, p, f) /\ Goto(r, "writing")
              /\ contents' = [contents EXCEPT ![f] = <<>>]
              /\ fd' = [fd EXCEPT ![r] = f] /\ Share(r, f)
              /\ UNCHANGED <<offset, todo>>

Put(s, i, c) ==
  [k \in 1 .. (IF i > Len(s) THEN i ELSE Len(s)) |->
     IF k = i THEN c ELSE IF k <= Len(s) THEN s[k] ELSE Hole]

write_chunk(r) ==
  /\ Run(r, "write", "writing") /\ Same
  /\ offset[r] < Chunks
  /\ offset' = [offset EXCEPT ![r] = @ + 1]
  /\ contents' = [contents EXCEPT ![fd[r]] = Put(@, offset'[r], r)]
  /\ Share(r, fd[r])
  /\ UNCHANGED <<fd, todo, step, exitcode>>

(* The end of the upload, an error while writing (the disk is full), or    *)
(* the end of a request that was cut off, for which nobody waits.          *)
write_end(r) ==
  /\ Run(r, "write", "writing") /\ Same
  /\ \/ offset[r] = Chunks /\ Exit(r, "zero")
     \/ Exit(r, "special")
     \/ late[r] /\ Exit(r, "zero")
  /\ fd' = [fd EXCEPT ![r] = Nothing]
  /\ UNCHANGED <<contents, offset, todo, shared>>

(* O_EXCL: the file must not exist.                                        *)
create_cmd(r) ==
  LET p == path[r]
  IN  /\ Run(r, "create", "start") /\ SameData
      /\ IF exists(p) \/ ~isdir(dirname(p)) THEN Exit(r, "special") /\ Same
         ELSE SetEntry(r, p, r) /\ Exit(r, "zero")

(* makedirs: the missing parent first.                                     *)
mkdir_cmd(r) ==
  LET p == path[r]
      missing == {q \in Entries : ~exists(q) /\ IsPrefix(q, p)}
  IN  /\ Run(r, "mkdir", "start") /\ SameData
      /\ IF exists(p) \/ \E q \in Entries : IsPrefix(q, p) /\ exists(q) /\ ~isdir(q)
         THEN Exit(r, "special") /\ Same
         ELSE LET q == CHOOSE q \in missing : \A x \in missing : Len(q) <= Len(x)
              IN  /\ SetEntry(r, q, Directory)
                  /\ IF q = p THEN Exit(r, "zero") ELSE UNCHANGED <<step, exitcode>>

rm_cmd(r) ==
  LET p == path[r]
  IN  /\ Run(r, "rm", "start") /\ SameData
      /\ CASE ~exists(p) -> Exit(r, "zero") /\ Same
           [] exists(p) /\ isdir(p) -> Exit(r, "special") /\ Same
           [] exists(p) /\ ~isdir(p) -> SetEntry(r, p, Nothing) /\ Exit(r, "zero")

(* rmtree: every entry, then the directory, which may have a new entry.    *)
rmdir_recur_cmd(r) ==
  LET p == path[r]
  IN  /\ Run(r, "rmdir", "start") /\ SameData
      /\ IF ~isdir(p) THEN Exit(r, IF changed[r] THEN "special" ELSE "zero") /\ Same
         ELSE IF Inside(p) # {}
         THEN /\ \E q \in Inside(p) : Inside(q) = {} /\ SetEntry(r, q, Nothing)
              /\ UNCHANGED <<step, exitcode>>
         ELSE SetEntry(r, p, Nothing) /\ Exit(r, "zero")

(* Something may be added while rmtree removes.                            *)
rmdir_fails(r) ==
  /\ Run(r, "rmdir", "start") /\ SameData /\ Same
  /\ changed[r]
  /\ Exit(r, "special")

Mutant_rename_check(r) ==
  /\ Run(r, "rename", "start") /\ SameData /\ Same
  /\ IF isdir(newpath[r]) THEN Exit(r, "special") ELSE Goto(r, "checked")

(* rename_cmd: two calls, the check and the rename.                        *)
rename_check(r) ==
  /\ Run(r, "rename", "start") /\ SameData /\ Same
  /\ IF exists(newpath[r]) THEN Exit(r, "special") ELSE Goto(r, "checked")

Mutant_rename_move(r) ==
  LET p == path[r]
      q == newpath[r]
  IN  /\ Run(r, "rename", "checked") /\ SameData
      /\ Inside(p) = {}
      /\ IF ~exists(p) \/ ~isdir(dirname(q)) \/ isdir(q) \/ IsPrefix(p, q)
         THEN Exit(r, "special") /\ SetEntry(r, q, Nothing)
         ELSE /\ entry' = [entry EXCEPT ![p] = Nothing, ![q] = entry[p]]
              /\ changed' = [changed EXCEPT ![r] = TRUE]
              /\ Exit(r, "zero")

(* os.rename replaces a file by a file and an empty directory by another.  *)
rename_move(r) ==
  LET p == path[r]
      q == newpath[r]
      fits == IF isdir(p) THEN ~exists(q) \/ (isdir(q) /\ Inside(q) = {}) ELSE ~isdir(q)
  IN  /\ Run(r, "rename", "checked") /\ SameData
      /\ Inside(p) = {}
      /\ IF ~exists(p) \/ ~isdir(dirname(q)) \/ ~fits \/ IsPrefix(p, q)
         THEN Exit(r, "special") /\ Same
         ELSE /\ entry' = [entry EXCEPT ![p] = Nothing, ![q] = entry[p]]
              /\ changed' = [changed EXCEPT ![r] = TRUE]
              /\ Exit(r, "zero")

(* get_cmd: the size of the open file is checked, then it says OK.         *)
get_open(r) ==
  LET p == path[r]
  IN  /\ Run(r, "get", "start") /\ Same
      /\ UNCHANGED <<contents, offset, todo, shared>>
      /\ IF ~exists(p) \/ isdir(p) THEN Exit(r, "special") /\ UNCHANGED fd
         ELSE IF Len(contents[entry[p]]) > MaxSize THEN Exit(r, "special") /\ UNCHANGED fd
         ELSE fd' = [fd EXCEPT ![r] = entry[p]] /\ Goto(r, "streaming")

get_chunk(r) ==
  /\ Run(r, "get", "streaming") /\ Same
  /\ IF offset[r] < Len(contents[fd[r]])
     THEN /\ offset' = [offset EXCEPT ![r] = @ + 1]
          /\ UNCHANGED <<fd, step, exitcode>>
     ELSE Exit(r, "zero") /\ fd' = [fd EXCEPT ![r] = Nothing] /\ UNCHANGED offset
  /\ UNCHANGED <<contents, todo, shared>>

Mutant_zip_walk(r) ==
  /\ Run(r, "zip", "start") /\ Same
  /\ IF isdir(path[r])
     THEN /\ todo' = [todo EXCEPT ![r] = {q \in Inside(path[r]) : ~isdir(q)}]
          /\ Goto(r, "streaming")
     ELSE Exit(r, "zero") /\ UNCHANGED todo
  /\ UNCHANGED <<contents, fd, offset, shared>>

(* download_zip_cmd: os.walk lists a directory, and each entry is checked  *)
(* and archived before the next directory is listed.                       *)
zip_walk(r) ==
  /\ Run(r, "zip", "start") /\ Same
  /\ IF isdir(path[r])
     THEN todo' = [todo EXCEPT ![r] = Inside(path[r])] /\ Goto(r, "streaming")
     ELSE Exit(r, "zero") /\ UNCHANGED todo
  /\ UNCHANGED <<contents, fd, offset, shared>>

zip_entry(r) ==
  /\ Run(r, "zip", "streaming") /\ Same
  /\ \E q \in todo[r] :
       /\ todo' = [todo EXCEPT ![r] = (@ \ {q}) \union (IF isdir(q) THEN Inside(q) ELSE {})]
       /\ IF ~exists(q) \/ (~isdir(q) /\ Len(contents[entry[q]]) > MaxSize)
          THEN Exit(r, "special") /\ UNCHANGED offset
          ELSE offset' = [offset EXCEPT ![r] = @ + 1] /\ UNCHANGED <<step, exitcode>>
  /\ UNCHANGED <<contents, fd, shared>>

zip_end(r) ==
  /\ Run(r, "zip", "streaming") /\ Same
  /\ todo[r] = {} /\ Exit(r, "zero")
  /\ UNCHANGED <<contents, fd, offset, todo, shared>>

CommandsNext ==
  \E r \in FileRequests :
    \/ get_file_view(r) \/ download_zip_view(r) \/ write_file_view(r) \/ create_file_view(r)
    \/ make_directory_view(r) \/ remove_file_view(r) \/ remove_directory_recur_view(r)
    \/ rename_view(r) \/ TimedOut(r)
    \/ get_file_page(r) \/ download_zip_page(r) \/ write_file_page(r) \/ create_file_page(r)
    \/ make_directory_page(r) \/ remove_file_page(r) \/ remove_directory_recur_page(r)
    \/ rename_page(r)
    \/ write_open(r) \/ write_chunk(r) \/ write_end(r) \/ create_cmd(r) \/ mkdir_cmd(r)
    \/ rm_cmd(r) \/ rmdir_recur_cmd(r) \/ rmdir_fails(r) \/ rename_check(r) \/ rename_move(r)
    \/ get_open(r) \/ get_chunk(r) \/ zip_walk(r) \/ zip_entry(r) \/ zip_end(r)

CommandsSpec == CommandsInit /\ [][CommandsNext]_filevars

-----------------------------------------------------------------------------

CommandsTypeOK ==
  /\ entry \in [Entries -> Files \union {Nothing, Directory}]
  /\ \A f \in Files : contents[f] \in Seq(Files \union {Hole})
  /\ exitcode \in [FileRequests -> {"none", "zero", "special"}]
  /\ \A p \in Entries : exists(p) => isdir(dirname(p))

(* A write that was answered with success has stored all its chunks, and   *)
(* nothing else, in one file, unless another request wrote it meanwhile.   *)
SuccessIsWritten ==
  \A r \in FileRequests :
    command[r] = "write" /\ view[r] = "success" /\ ~shared[r]
      => \E f \in Files : contents[f] = [i \in 1..Chunks |-> r]

(* What a file holds is lost only to rm, rmdir and write, or to two        *)
(* renames at the same time: neither create nor a rename replaces a file.  *)
OldSurvives ==
  /\ \A r \in FileRequests : command[r] \notin {"write", "rm", "rmdir"}
  /\ Cardinality({r \in FileRequests : command[r] = "rename"}) <= 1
  => \E p \in Entries : entry[p] = Old

(* create and rename that fail leave everything as it was, unless the      *)
(* manager did not wait for them.                                          *)
ErrorChangesNothing ==
  \A r \in FileRequests :
    /\ view[r] = "error" /\ ~late[r] /\ command[r] \in {"create", "rename"}
    => ~changed[r]

(* An archive that ended well holds everything that was in the directory,  *)
(* if nothing was changed meanwhile.                                       *)
ArchiveIsComplete ==
  \A r \in FileRequests :
    /\ command[r] = "zip" /\ exitcode[r] = "zero" /\ \A s \in FileRequests : ~changed[s]
    => offset[r] = Cardinality({p \in Entries : p # path[r] /\ IsPrefix(path[r], p) /\ exists(p)})

(* A download sends no more than the limit, unless the file grows.         *)
DownloadIsBounded ==
  \A r \in FileRequests :
    command[r] = "get" /\ ~shared[r] => offset[r] <= MaxSize

(* What the manager answers is what happened to the files.                 *)
AnswersAreTrue == SuccessIsWritten /\ ErrorChangesNothing

(* A download or an archive that ended well is whole, and within the limit *)
DownloadsAreWhole == ArchiveIsComplete /\ DownloadIsBounded
=============================================================================

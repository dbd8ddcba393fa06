---------------------------- MODULE FileMonitor ----------------------------
(***************************************************************************)
(* The file pane of the site editor with one appserver, which is what the  *)
(* settings in the repository configure (secret_dev.py).  The helper       *)
(* process (monitor_cmd) watches the directories that are open in the pane *)
(* with inotify and prints an event for each change; the pane keeps a tree *)
(* from the events and tells the helper which directories to watch.        *)
(* Between them lie two queues.                                            *)
(*                                                                         *)
(* With one appserver there is one helper, to lose its websocket is to     *)
(* lose all of them, and each message gets there once and in order: those  *)
(* that came before the websocket was open are replayed, and the replay    *)
(* and the end of the opening are one step, as no send has to wait.        *)
(* MonitorRelay has the same consumer with several appservers and a step   *)
(* for each await; what the pane shows when the events of several helpers  *)
(* are merged is in neither.                                               *)
(*                                                                         *)
(* A path is a sequence of names, <<>> the root of the site.  A directory  *)
(* keeps its watch when it is renamed.  wds_by_fname is never read and not *)
(* modelled; nor are links and the icons of the items.                     *)
(***************************************************************************)
EXTENDS Naturals, Sequences, SequencesExt

CONSTANTS
  Paths,       (* paths that can exist, each with its parent                *)
  Public,      (* the path of the public directory                          *)
  MaxInputs    (* bound: changes of the files, clicks on a folder and       *)
               (* connections lost, together                                *)

Root == <<>>
parent(p) == SubSeq(p, 1, Len(p) - 1)
Under(d) == {p \in Paths : IsPrefix(d, p)}
Below(d) == Under(d) \ {d}

ASSUME MonitorAssumption ==
  /\ IsFiniteSet(Paths) /\ Paths \subseteq Seq(STRING)
  /\ Public \in Paths /\ Len(Public) = 1
  /\ \A p \in Paths : p # Root /\ parent(p) \in Paths \union {Root}
  /\ MaxInputs \in Nat

VARIABLES
  disk,        (* what is at each path                                      *)
  kernel,      (* inotify watches: a descriptor and where its inode is      *)
  events,      (* events the kernel has queued                              *)
  batch,       (* events the helper has read                                *)
  fnames,      (* fnames_by_wd                                              *)
  stdin,       (* commands on their way from the pane to the helper         *)
  ready,       (* select() said that stdin has input                        *)
  lines,       (* commands the helper has read                              *)
  listing,     (* {} or the directory watched but not yet listed            *)
  alive,       (* the helper process runs                                   *)
  stdout,      (* messages on their way from the helper to the pane         *)
  link,        (* the pane's websocket is open                              *)
  isOpen, firstOpen, prevOpenFolders,
  shown,       (* the items of the pane's tree                              *)
  openDirs,    (* the folders with the class "open"                         *)
  hasty,       (* auxiliary: a folder was clicked with messages under way   *)
  renamed,     (* auxiliary: a watch got another name                       *)
  stray,       (* auxiliary: a folder was opened again below a closed one   *)
  inputs       (* changes, clicks and lost connections so far               *)

kernelvars == <<kernel, events>>
helpervars == <<batch, fnames, ready, lines, listing, alive>>
panevars   == <<isOpen, firstOpen, prevOpenFolders, shown, openDirs>>
monvars    == <<disk, kernelvars, helpervars, stdin, stdout, link, panevars,
                hasty, renamed, stray, inputs>>

EntryKinds == {"none", "dir", "file", "exec"}
Empty == [p \in Paths |-> "none"]
IsDir(p) == p \in {q \in Paths : disk[q] = "dir"} \union {Root}
Children(d) == {p \in Paths : parent(p) = d}

add(p)    == [op |-> "add", fname |-> p]
remove(p) == [op |-> "remove", fname |-> p]
Heartbeat == [op |-> "heartbeat", fname |-> Root]
message(e, p, k) == [event |-> e, fname |-> p, kind |-> k]

(* Watch the root; the answer to the heartbeat proves the connection.  If  *)
(* the appserver does not answer yet, the two wait in                      *)
(* pending_browser_messages.                                               *)
wsOpened == <<add(Root), Heartbeat>>

(* The page has connected, and the only helper runs or is being started.   *)
MonInit ==
  /\ disk \in {d \in [Paths -> EntryKinds] :
                /\ d[Public] = "dir"
                /\ \A p \in Paths : d[p] # "none" => parent(p) = Root \/ d[parent(p)] = "dir"}
  /\ kernel = {} /\ events = <<>> /\ batch = <<>> /\ fnames = {}
  /\ stdin = wsOpened /\ ready = FALSE /\ lines = <<>> /\ listing = {}
  /\ alive = TRUE /\ stdout = <<>> /\ link = TRUE
  /\ isOpen = FALSE /\ firstOpen = TRUE /\ prevOpenFolders = {}
  /\ shown = Empty /\ openDirs = {}
  /\ hasty = FALSE /\ renamed = FALSE /\ stray = FALSE /\ inputs = 0

Input == inputs < MaxInputs /\ inputs' = inputs + 1

-----------------------------------------------------------------------------
(* The files change, by the editor or by the site itself, and the kernel   *)
(* tells who watches.                                                      *)

Watching(d) == {w \in kernel : w.at = d}

(* The event for the watch of a directory, if there is one: name is <<>>   *)
(* for the directory itself.                                               *)
Tell(d, mask, name) ==
  IF Watching(d) = {} THEN <<>>
  ELSE <<[wd |-> (CHOOSE w \in Watching(d) : TRUE).wd, mask |-> mask, name |-> name]>>

TellParent(p, mask) == Tell(parent(p), mask, <<p[Len(p)]>>)

Change ==
  /\ Input
  /\ UNCHANGED <<helpervars, stdin, stdout, link, panevars, hasty, renamed, stray>>

Create(p, k) ==
  /\ Change
  /\ disk[p] = "none" /\ IsDir(parent(p))
  /\ disk' = [disk EXCEPT ![p] = k]
  /\ events' = events \o TellParent(p, "CREATE")
  /\ UNCHANGED kernel

Chmod(p) ==
  /\ Change
  /\ disk[p] \in {"file", "exec"}
  /\ disk' = [disk EXCEPT ![p] = IF @ = "file" THEN "exec" ELSE "file"]
  /\ events' = events \o TellParent(p, "ATTRIB")
  /\ UNCHANGED kernel

Delete(p) ==
  /\ Change
  /\ disk[p] # "none" /\ \A c \in Children(p) : disk[c] = "none"
  /\ disk' = [disk EXCEPT ![p] = "none"]
  /\ events' = events \o Tell(p, "DELETE_SELF", <<>>) \o TellParent(p, "DELETE")
  /\ kernel' = kernel \ Watching(p)

Moved(p, q, x) == q \o SubSeq(x, Len(p) + 1, Len(x))

Move(p, q) ==
  /\ Change
  /\ disk[p] # "none" /\ disk[q] = "none" /\ IsDir(parent(q)) /\ ~IsPrefix(p, q)
  /\ \A x \in Under(p) : disk[x] # "none" => Moved(p, q, x) \in Paths
  /\ disk' = [x \in Paths |->
                IF IsPrefix(p, x) THEN "none"
                ELSE IF IsPrefix(q, x) /\ Moved(q, p, x) \in Paths THEN disk[Moved(q, p, x)]
                ELSE disk[x]]
  /\ events' = events \o TellParent(p, "MOVED_FROM") \o TellParent(q, "MOVED_TO")
                      \o Tell(p, "MOVE_SELF", <<>>)
  /\ kernel' = {IF IsPrefix(p, w.at) THEN [w EXCEPT !.at = Moved(p, q, w.at)] ELSE w
                  : w \in kernel}

-----------------------------------------------------------------------------
(* The helper: monitor_cmd *)

Helper == alive /\ link /\ UNCHANGED <<disk, panevars, link, hasty, stray, inputs>>

(* select(), then inotify.read(): stdin is read when the batch is done.    *)
Select ==
  /\ Helper
  /\ batch = <<>> /\ lines = <<>> /\ listing = {} /\ ~ready
  /\ events # <<>> \/ stdin # <<>>
  /\ batch' = events /\ events' = <<>>
  /\ ready' = (stdin # <<>>)
  /\ UNCHANGED <<kernel, fnames, stdin, lines, listing, alive, stdout, renamed>>

ReadStdin ==
  /\ Helper
  /\ batch = <<>> /\ ready
  /\ lines' = stdin /\ stdin' = <<>> /\ ready' = FALSE
  /\ UNCHANGED <<kernelvars, batch, fnames, listing, alive, stdout, renamed>>

Unused ==
  LET used == {x.wd : x \in kernel \union fnames \union Range(events) \union Range(batch)}
  IN  CHOOSE n \in 1..(Cardinality(used) + 1) : n \notin used

Subwatches(d) == {w \in fnames : IsPrefix(d, w.fname)}

(* inotify.rm_watch fails for a watch the kernel has dropped already.      *)
remove_watch_and_subwatches(d) ==
  LET gone == {w.wd : w \in Subwatches(d)}
  IN  /\ kernel' = {w \in kernel : w.wd \notin gone}
      /\ fnames' = {w \in fnames : w.wd \notin gone}

Command(op) ==
  /\ Helper
  /\ lines # <<>> /\ listing = {} /\ Head(lines).op = op
  /\ lines' = Tail(lines)
  /\ UNCHANGED <<events, batch, ready, stdin, alive>>

(* "+": the same directory has the same descriptor, whatever its name.     *)
AddWatch ==
  /\ Command("add")
  /\ LET d == Head(lines).fname
         w == IF Watching(d) # {} THEN CHOOSE x \in Watching(d) : TRUE
              ELSE [wd |-> Unused, at |-> d]
     IN  IF IsDir(d)
         THEN /\ kernel' = kernel \union {w}
              /\ fnames' = {x \in fnames : x.wd # w.wd} \union {[wd |-> w.wd, fname |-> d]}
              /\ listing' = {d}
              /\ renamed' = (renamed \/ \E x \in fnames : x.wd = w.wd /\ x.fname # d)
              /\ UNCHANGED stdout
         ELSE /\ stdout' = Append(stdout, message("error", d, "none"))
              /\ UNCHANGED <<kernel, fnames, listing, renamed>>

(* construct_scandir_file_dicts: a directory removed meanwhile ends the    *)
(* helper with an exception.                                               *)
List ==
  /\ Helper
  /\ \E d \in listing :
       LET items == SetToSeq({p \in Children(d) : disk[p] # "none"})
       IN  /\ alive' = IsDir(d)
           /\ stdout' = IF IsDir(d)
                        THEN stdout \o [i \in DOMAIN items |->
                                          message("create", items[i], disk[items[i]])]
                        ELSE stdout
  /\ listing' = {}
  /\ UNCHANGED <<kernelvars, batch, fnames, ready, lines, stdin, renamed>>

RemoveWatch ==
  /\ Command("remove")
  /\ remove_watch_and_subwatches(Head(lines).fname)
  /\ UNCHANGED <<listing, stdout, renamed>>

(* The orchestrator answers a heartbeat itself.                            *)
Echo ==
  /\ Command("heartbeat")
  /\ stdout' = Append(stdout, message("heartbeat", Root, "none"))
  /\ UNCHANGED <<kernel, fnames, listing, renamed>>

(* construct_file_event_dict: what is there now, if anything still is.     *)
FileEvent(e, p) ==
  message(e, p, IF p \in Paths /\ disk[p] # "none" THEN disk[p] ELSE "unknown")

HandleEvent ==
  /\ Helper
  /\ batch # <<>>
  /\ batch' = Tail(batch)
  /\ LET e == Head(batch)
         known == {w \in fnames : w.wd = e.wd}
     IN  IF known = {} THEN UNCHANGED <<kernel, fnames, stdout>>
         ELSE LET d == (CHOOSE w \in known : TRUE).fname
                  p == d \o e.name
              IN  CASE e.mask \in {"DELETE_SELF", "MOVE_SELF"} ->
                         /\ remove_watch_and_subwatches(d)
                         /\ stdout' = Append(stdout, message("delete", p, "none"))
                    [] e.mask \in {"DELETE", "MOVED_FROM"} ->
                         /\ stdout' = Append(stdout, message("delete", p, "none"))
                         /\ UNCHANGED <<kernel, fnames>>
                    [] e.mask \in {"CREATE", "MOVED_TO"} ->
                         /\ stdout' = Append(stdout, FileEvent("create", p))
                         /\ UNCHANGED <<kernel, fnames>>
                    [] e.mask = "ATTRIB" ->
                         /\ stdout' = Append(stdout, FileEvent("update", p))
                         /\ UNCHANGED <<kernel, fnames>>
  /\ UNCHANGED <<events, ready, lines, listing, alive, stdin, renamed>>

-----------------------------------------------------------------------------
(* The pane: files-pane.js *)

OpenUnder(d) == openDirs \intersect Under(d)

(* The tree without some items; a folder shown as something else is closed. *)
Without(ps) == [p \in Paths |-> IF p \in ps THEN "none" ELSE shown[p]]

(* wsMessage, on the first message of a connection: forget the old tree.   *)
Opened ==
  /\ isOpen' = TRUE /\ firstOpen' = FALSE
  /\ prevOpenFolders' = IF firstOpen THEN {Public} ELSE openDirs
  /\ shown' = Empty /\ openDirs' = {}

FirstMessage ==
  /\ link /\ stdout # <<>> /\ ~isOpen
  /\ Opened
  /\ UNCHANGED <<disk, kernelvars, helpervars, stdin, stdout, link, hasty,
                 renamed, stray, inputs>>

(* The event of a directory that was moved away may still have the old     *)
(* name, and so a path that is not one of Paths: that item is left out.    *)
followPath(p) == IF p \in Paths THEN shown[p] ELSE "none"

(* addItem, with the toggleDir() for a folder that was open before.        *)
addItem(p, k) ==
  LET before == prevOpenFolders \union (IF followPath(p) # "none" THEN OpenUnder(p) ELSE {})
      placed == p \in Paths /\ (parent(p) = Root \/ shown[parent(p)] = "dir")
      opened == placed /\ p \in before /\ k = "dir"
  IN  /\ shown' = [Without(Under(p)) EXCEPT ![p] = IF placed THEN k ELSE "none"]
      /\ openDirs' = (openDirs \ Under(p)) \union (IF opened THEN {p} ELSE {})
      /\ prevOpenFolders' = IF placed THEN before \ {p} ELSE before
      /\ stdin' = IF opened THEN Append(stdin, add(p)) ELSE stdin
      /\ stray' = (stray \/ (opened /\ parent(p) \notin openDirs \union {Root}))

removeItem(p) ==
  /\ shown' = Without(Under(p)) /\ openDirs' = openDirs \ Under(p)
  /\ stdin' = Append(stdin, remove(p))
  /\ UNCHANGED <<prevOpenFolders, stray>>

Mutant_updateItem(p, k) ==
  /\ shown' = IF followPath(p) \in {"file", "exec"} /\ k \in {"exec", "dir"}
              THEN [shown EXCEPT ![p] = "exec"] ELSE shown
  /\ UNCHANGED <<openDirs, prevOpenFolders, stdin, stray>>

(* Only the class "executable" changes, after the mode of what is there    *)
(* now, a directory's too; what the item is stays.                         *)
updateItem(p, k) ==
  /\ shown' = IF followPath(p) \in {"file", "exec"}
              THEN [shown EXCEPT ![p] = IF k \in {"exec", "dir"} THEN "exec" ELSE "file"]
              ELSE shown
  /\ UNCHANGED <<openDirs, prevOpenFolders, stdin, stray>>

handleError(p) ==
  /\ shown' = IF followPath(p) = "dir" THEN Without(Below(p)) ELSE shown
  /\ openDirs' = IF followPath(p) = "dir" THEN openDirs \ Below(p) ELSE openDirs
  /\ UNCHANGED <<prevOpenFolders, stdin, stray>>

Message ==
  /\ link /\ stdout # <<>> /\ isOpen
  /\ stdout' = Tail(stdout)
  /\ LET m == Head(stdout)
     IN  CASE m.event = "heartbeat" ->
                UNCHANGED <<shown, openDirs, prevOpenFolders, stdin, stray>>
           [] m.event = "create" -> addItem(m.fname, m.kind)
           [] m.event = "delete" -> removeItem(m.fname)
           [] m.event = "update" -> updateItem(m.fname, m.kind)
           [] m.event = "error"  -> handleError(m.fname)
  /\ UNCHANGED <<disk, kernelvars, helpervars, link, isOpen, firstOpen, hasty,
                 renamed, inputs>>

Settled ==
  /\ isOpen /\ alive /\ link
  /\ events = <<>> /\ batch = <<>> /\ ~ready /\ lines = <<>> /\ listing = {}
  /\ stdin = <<>> /\ stdout = <<>>

(* The user opens or closes a folder.                                      *)
toggleDir(p) ==
  /\ isOpen /\ shown[p] = "dir" /\ parent(p) \in openDirs \union {Root}
  /\ Input
  /\ shown' = Without(Below(p))
  /\ IF p \in openDirs
     THEN openDirs' = openDirs \ Under(p) /\ stdin' = Append(stdin, remove(p))
     ELSE openDirs' = (openDirs \ Below(p)) \union {p} /\ stdin' = Append(stdin, add(p))
  /\ hasty' = (hasty \/ ~Settled)
  /\ UNCHANGED <<disk, kernelvars, helpervars, stdout, link, isOpen, firstOpen,
                 prevOpenFolders, renamed, stray>>

-----------------------------------------------------------------------------
(* The connection *)

(* SiteFilesMonitor.start and stop_wait.                                   *)
start_helper == alive' = TRUE

stop_wait ==
  /\ alive' = FALSE
  /\ kernel' = {} /\ events' = <<>> /\ batch' = <<>> /\ fnames' = {}
  /\ ready' = FALSE /\ lines' = <<>> /\ listing' = {} /\ stdout' = <<>>

(* The manager closes the page's websocket when the last, here the only,   *)
(* monitor is lost: after the last message of a helper that died, or at    *)
(* any time, also before it was open or because an hour has passed.        *)
(* file_monitor_handler then stops the helper.                             *)
wsClosed ==
  /\ link
  /\ \/ ~alive /\ stdout = <<>> /\ UNCHANGED inputs
     \/ Input
  /\ link' = FALSE /\ isOpen' = FALSE /\ stdin' = <<>>
  /\ stop_wait
  /\ UNCHANGED <<disk, firstOpen, prevOpenFolders, shown, openDirs, hasty, renamed, stray>>

(* openWS after three seconds, with a new helper, and wsOpened.            *)
openWS ==
  /\ ~link
  /\ link' = TRUE /\ start_helper
  /\ stdin' = wsOpened
  /\ UNCHANGED <<disk, kernelvars, batch, fnames, ready, lines, listing, stdout, panevars,
                 hasty, renamed, stray, inputs>>

MonNext ==
  \/ \E p \in Paths : \/ \E k \in {"dir", "file"} : Create(p, k)
                      \/ Chmod(p) \/ Delete(p) \/ toggleDir(p)
                      \/ \E q \in Paths : Move(p, q)
  \/ Select \/ ReadStdin \/ AddWatch \/ List \/ RemoveWatch \/ Echo \/ HandleEvent
  \/ FirstMessage \/ Message \/ wsClosed \/ openWS

MonSpec == MonInit /\ [][MonNext]_monvars

-----------------------------------------------------------------------------

MonTypeOK ==
  /\ disk \in [Paths -> EntryKinds]
  /\ \A p \in Paths : disk[p] # "none" => IsDir(parent(p))
  /\ \A p \in Paths : shown[p] # "none" => parent(p) = Root \/ shown[parent(p)] = "dir"
  /\ openDirs \subseteq {p \in Paths : shown[p] = "dir"}
  /\ \A w \in kernel : IsDir(w.at)

(* Once every message has been handled, what is on the disk in a folder    *)
(* that is open is shown, as what it is.                                   *)
PaneComplete ==
  Settled /\ ~renamed /\ ~stray => \A d \in openDirs \union {Root} : \A p \in Children(d) :
               disk[p] # "none" => shown[p] = disk[p]

(* ... and what is shown is on the disk.                                   *)
PaneSound ==
  Settled /\ ~hasty /\ ~stray => \A d \in openDirs \union {Root} : \A p \in Children(d) :
               shown[p] # "none" => disk[p] # "none"

(* The helper watches the open folders and no others: a folder that is     *)
(* closed, deleted or moved away takes the watches below it with it.       *)
WatchedAreOpen ==
  Settled /\ ~hasty /\ ~stray => {w.fname : w \in fnames} = openDirs \union {Root}

(* Whatever order changes, events and answers came in, and however often   *)
(* the connection was lost, once all is handled the pane, the disk and the *)
(* helper agree: the open folders are those watched, and their entries are *)
(* what is shown.  After a click on a folder while messages were under way *)
(* only PaneComplete is promised: what is there is shown.                  *)
PaneSettles == PaneComplete /\ PaneSound /\ WatchedAreOpen
=============================================================================

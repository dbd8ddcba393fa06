# Director 4: a TLA+ verification project

Director 4 hosts the web sites of a school. The **manager** (Django, Channels,
Celery) owns the database of sites and tells the **orchestrators** (Flask and
websockets, one per appserver) what to deploy: a Docker swarm service, an nginx
configuration file, directories, a database, an image. **Routers** on the
balancers hold the public nginx configuration and the certificates, and the
**shell** server gives users an SSH session in their site's container.

This directory holds TLA+ modules translated from that code, TLC runs that check
them on small instances, and theorems about them that TLAPS proves for every
value of the constants. `PROJECT.json` lists the components, the runs, the line
of source each definition translates, a wrong variant of the code that breaks
each property (`Mutant_...`), the hazards and the findings.

## Inventory

| Component | State | Operations | What is hard |
|---|---|---|---|
| Operation engine (`sites/operations.py`, `helpers.py`, `tasks.py`, views) | `Operation` (one per site), `Action` rows, Celery queue, the tasks' progress | views start, override, reset; task adds actions, runs them, removes the operation; `fix_sites` | views and tasks interleave between any two queries (autocommit); crash between queries; early acknowledgement in Celery; resets under a running task |
| Site deployment (`actions.py`, `tasks.py`, `models.py`) | `Site`, `Database`, `DockerImage`, `Domain` rows; what is on the appservers | one plan per type of operation, one callback per action | partial failure; two reads of the site by one task; full-row `save()` of stale instances |
| Domains (`Domain`, `edit_site_names_task`) | rows with a site and a status | claim, release, delete | two sites claiming one domain; status of removed domains; `PROTECT` |
| Site requests (`request/views.py`) | teacher and admin approval | create, approve, reject | stale full saves by two people who decide |
| Browser consumers (`sites/consumers.py`) | open browser and appserver websockets, pending messages | connect, receive, broadcast, disconnect | messages before the backends are open; disconnect during an await |
| Information page (`SiteConsumer`, `site-info.js`) | the page, the site's group of consumers | open, change, notify, reconnect | a change between two reads; a message that is lost or comes while connecting |
| File pane and editor (`files.js`, `views/files.py`) | the tree of the pane, open folders | open and close folders, requests on files | events and commands that cross; timeouts of requests that go on |
| Users, auth, docs, shell token | user rows, rendered Markdown, signed tokens | sign-in, view, issue and check a token | none that a state machine tells more about |
| Orchestrator terminals (`terminal.py`) | one container per site, attached terminals, a heartbeat | launch, attach, resize, close | two launches at once; removal by the reaper under an attach |
| Orchestrator files (`files.py`, `files-helper.py`) | helper process, watch descriptors | monitor add/remove, read, write, ... | watches of paths that come and go; mode bits |
| Orchestrator logs (`logs.py`) | the `docker service logs` process, its lines | start, read, stop | a reader and a stop at once; buffered lines |
| Orchestrator services, nginx (`docker/services.py`, `configs/nginx.py`) | service, configuration file, `.bak`, `.bad` | update, disable, remove, reload | failed check or reload; polling of an exec |
| Orchestrator images, registry, databases | images, tags, SQL users and databases | build, push, remove, create, drop | partial failure of several statements |
| Router (`nginx.py`, `certbot.py`) | configuration file of a site, certificates | update, remove, obtain | old file in place after a failed reload |
| Shell server (`server.py`) | an SSH session: buffer, state, websocket | choose a site, proxy, close | bytes that arrive during an await; close during an await |

Interactions. Browser to manager: HTTP views, and websockets (Channels). View to
task: an `Operation` row, then a message with its id on Redis. Task to appserver,
balancer and database host: HTTP and websockets (`utils/appserver.py`,
`utils/balancer.py`). Shell and browser terminals: a websocket to the
orchestrator of one appserver, with failover to the next.

What makes each component correct is under its module below; the hazards with
their lines and the properties that answer them are in `PROJECT.json`.

## The operation engine: `OperationSlot`, `SiteOperations`, `SiteOperationsProofs`

`SiteOperations` models one site: its row (`site`), `Operation` rows (`opRows`),
the results of the `Action` rows (`result`, "absent" where there is no row), the
Celery queue (`broker`), what each request is doing (`req`), and for each
operation its task: `pc`, the `plan` of slugs it adds, `idx` and `seg` for the
action and the part of its callback it is in.

| Actions | Code |
|---|---|
| `create_view`, `plain_view`, `override_view`, `check_recoverable`, `reset_operations_view`, `operation_delete_fix_view`, `fix_sites`, `edit_meta_view` | the entry points, up to their next query |
| `delete_actions`, `delete_op`, `create_operation`, `delay` | the queries the views share (`operations.py`) |
| `fetch`, `auto_run_operation_wrapper`, `drop_operation`, `add_action`, `start_operation`, `start_action`, `run_segment`, `save_action`, `catch_exception`, `clear_actions`, `remove_operation`, `end_task` | a Celery task, from `helpers.py` and `tasks.py` |
| `request_fails`, `worker_fails` | a web server, worker or broker that stops between two queries |

The database's constraints are guards: `operation_allowed` (OneToOneField),
`action_allowed` (ForeignKey), `site_deletable` (`on_delete=PROTECT`). A view that
only refuses changes nothing and is no step. What a callback does is left open:
a segment ends in a `save` or an exception.

`OperationSlot` is the abstraction: the Operation row is a lease. At most one is
held, work begins under it, it may be revoked at any time, and an operation that
lost it makes at most one more step.

Properties:

* `NoOrphanOperation`: as long as an Operation row exists somebody will act on it,
  or it is marked failed where the views and `fix_sites` see it. Operations hit by
  a fault are the exception, and the only one.
* `SupersededTaskStops`: the task of a removed operation runs at most the segment
  it is in.
* `OnlyFinishedReplaced`: of all the views only `reset_operations_view` removes
  the operation of a task that still has something to do.
* `DeletedAfterWipe`: the Site row goes only after a `delete_site` all of whose
  actions succeeded. It holds while nobody resets; with `reset_operations_view` it
  does not: `delete_site_task` calls `site.delete()` whatever became of its
  operation, so a failed one whose row a reset removes in time takes the Site row
  along.
* `OperationSettles`: every operation is finally removed or marked failed.
* `ImplementsSlot`: the refinement.

Fairness (`FairSpec`): weak fairness of each task's steps and of a request that
has passed its checks. Workers and web servers run what they accepted; nobody has
to send a request. Two waits in the code have no timeout (`websock.recv()` in
`actions.py:236` and `:292`), so fairness of `run_segment` includes that an
appserver answers or closes the connection. Without that the property fails, and
the code has nothing that would make it hold.

Bounds: two requests, so that every race of two views and of a view with a task
happens; two or three operations (the one replaced, its successor, and the one
of a third party in the runs with faults); plans of up to three actions (first,
middle, last; recoverable or not), cut to two in the run that has the liveness property
and the refinement, with one segment to a callback. The saves between
two segments are in the runs of `SiteDeployment`, up to three, and so is the check of
`SupersededTaskStops`; the theorems are for any number of them. Requests are interchangeable and declared symmetric, except in the
run that has the liveness property. The type invariant `TypeOK` is not checked by a run of its own: it is
proved (`TypeCorrect`).

Proofs. `IInv` is the inductive invariant. `NoOrphanOperation` needs to know that
no step used an id that was not handed out (`FreshIds`), that a task is sent once
(`QueuedOnce`: otherwise a second copy could leave an operation behind), that at
most one row exists (`OneOperation`: `drop_operation` deletes by site), what a
failed result says about its task (`FailedIsOver`, `OverIsFailed`), and what a late
task may still do (`LateIsStopping`). The proof has one lemma per group of actions
and one for each conjunct; `TypeCorrect`, `NoOperationIsOrphaned`,
`SupersededTasksStop`, `OnlyFinishedOperationsReplaced` follow from it, and
`EngineImplementsSlot` maps each action to a step of the lease or a stutter. They
assume `ConstantsAssumption` and `PlansAssumption` only, faults included.

Two more hold for some `Views` only, and say so. `TasksHoldTheLease` (`HoldInv`):
without `reset_operations_view` no view takes the row of a task that is not over, so
a task that has something to do holds the lease; the proofs about the deployment
rest on it. `DeletedOnlyWhenWiped` (`WipeInv`) is `DeletedAfterWipe` when neither
`reset_operations_view` nor `operation_delete_fix_view` is used and no action of
delete_site is user_recoverable (`NoneRecoverable`, as in the code): a failed
delete_site then keeps its row for ever (`FailsForGood`), and the row protects the
site. Liveness is model-checked only.

## What operations do: `SiteDeployment`, `SiteDeploymentProofs`

Adds to the engine the columns of the Site row that decide what is deployed
(`row`), the Database rows, the custom image row, whether the site has domains,
and what exists on the appservers: the nginx file (`nginx`), the service
(`service`), the real database and the files. Every task's plan is an operator
(`fix_site_plan`, ...) of the site it read first; the callbacks run on the instance
it read second (`copy`), which may differ. There is one action per callback.

An HTTP request that raises may have had its effect or not. Which appserver
answers makes no difference, since the directory of nginx files and the swarm are
shared. Passwords, image contents, limits, certificates and balancer files are
left out; the callbacks concerned may still raise. A request that times out and
takes effect later, when the task has moved on, is not modelled.
Two callbacks insert a row in one query and link it with `site.save()` in another:
`insert_row` is the first, a step of its own, and `unsaved` what the task has still to
save; `save_site` and `save_raises` are the outcomes of the second, `clean()` among the
reasons. Other requests, faults and the end of the task come in between.
The yields inside a callback that carry only a message are merged with the
segment in which its effect happens; four callbacks with two effects, or with an
effect and a reload that may fail, keep two segments (`TwoSegments`).

Properties:

* `NoSilentDrift`: when no operation is left, failed or running, what is deployed
  is what the row says. This is the purpose of keeping failed operations: half of
  a deployment is never forgotten. It is checked with `reset_operations_view`, one
  request at a time (`operation_delete_fix_view` takes the same steps on fewer
  operations), and holds with two exceptions. The last segment of a reset task may
  come after the fix_site of the reset has done its work, against the comment at
  `views/sites.py:355`. And a view that deletes a failed operation inserts its
  fix_site in a second query: if another request inserts an operation in between,
  the view gets an IntegrityError, and what the failed operation left undone stays so
  (`overtaken`; with one request it never is). The run leaves out `image_select_view` and the override in
  `edit_names_view`: they replace a failed operation by one of another kind, whose
  plan need not do what the failed one left undone. `user_recoverable`
  (`models.py:892`) is meant for an action that the user puts right by submitting
  again, and does not look at what comes after it in the plan; `NoSilentDrift` does
  not hold with them.
* `DatabaseAsserted`: the three `assert site.database is not None` hold, although
  the plan was made for an earlier instance. `edit_meta_view` is left out of this run:
  its full save can unlink a database that a task created after the form was read,
  and then an assertion fails; `deploy_race` has it.
* `RowsAreLinked`, of `NoOrphanDatabase` and `ImageLinked`: a Database row or the
  uniquely named image row that no site leads to is left by nothing but a task that
  raised or died between the query that inserts it and the one that links it
  (`LeftDatabase`, `LeftImage`); and a site leads to no image row that is gone. Such a
  task does leave one, for good: `delete_database` and `delete_site` look for the
  site's database, and a later update of the image fails at the name. One more
  exception (`doubled`): `create_database_view` looks at `site.database` in an instance
  it read before it looks for an operation, and a task may be over in between, so that
  a second database is created for a site that has one.
* `DeletedIsWiped`: when delete_site is over the site has left nothing behind, but
  possibly a real database whose row is left too (a stale `edit_meta_view` can
  unlink it before). One case is excepted: an operation created between
  `operation.delete()` and `site.delete()` would deploy for a site that then goes.
* `DeleteDeletes` (run `delete_domains`, violated): after a delete_site that succeeded,
  and with no other operation started since, the site is gone. A site with custom
  domains is wiped, and then its row cannot be deleted.

A static site's leftover service and the environment of a service whose database
was deleted are not part of `Consistent`: `update_image_task` and
`delete_database_task` leave them on purpose or by omission, and nothing in the
code says which.

Bounds: one or two requests, two or three operations (fail, repair, again), one
or two names (interchangeable), as many Database rows as operations, the plans of the tasks (up to eight actions).

Proofs. `DeploymentImplementsEngine` proves that every behaviour is one of the engine;
`DeploymentNeverOrphans` and `DeploymentOverrunsOnce` carry its theorems over.
`DeploymentTypeCorrect` needs `DTypeInv`: beside the types, that the plan of a task is
`plan_of` some instance of the site (`Planned`) and that a task reached by its index
one of the callbacks of its type.

`LinkInv` is the invariant behind `RowsStayLinked` and `DatabaseIsThere`. Both need
the two instances of a task tied together: the one it made its plan from (gone, but
for the plan) and `copy`, which its callbacks run on and save in full.
`CopyIsCurrent` says that the columns `db` and `custom` of the copy of the task that
holds the lease are those of the row, `PlanFitsCopy` that a plan made for a site with a
database runs on one; `Linked` is the claim about the rows between any two
segments. They rest on the lease, and so on `"reset_operations" \notin Views`; and
on nobody saving a stale form (`"edit_meta" \notin Views`), without which they are
false. The run `deploy_data` has neither view, too.

`DeletedSiteIsWiped` rests on the lease only; stale forms and faults are allowed.
`WipedInv` follows a delete_site along its plan (`WipeProgress`: what the actions
behind it achieved is still so, since nobody else works on the site) and beyond,
until another operation is inserted (`StaysWiped`).

`NothingForgotten` proves `NoSilentDrift` for any number of requests, with resets.
Its invariant `DriftInv` keeps an account: of the four parts of a deployment, nginx
file, service, files and database, each is right, or a view is about to insert a
fix_site or create_site for it (`Promised`), or the operation of the site owes it
(`Owed`: its plan still has the callback that restores the part to come, or it has
failed, so that only a fix_site replaces it). A callback that breaks a part is
followed in its plan by one that restores it (`RowChangesAreFollowed`,
`CallbackOwes`); one that returns has restored its part (`Delivered`); a repair has
all the callbacks that the site needs (`RepairsRestore`), because its plan was made
for a site of the type that the site still has (`PlanIsCurrent`). The account holds
until something happens that the property excepts (`Clean`): then nothing is claimed
any more, so that resets may be allowed. Excluded by hypothesis are faults,
`edit_meta_view`, which saves a stale row, and the two views that replace a failed
operation by one of another kind; with any of these TLC finds the property violated.

## The shell server: `ShellSession`, `ShellSessionProofs`

One SSH session: the coroutine `setup_connection` (`pc`) and the callbacks that
asyncssh makes on the same event loop, which run at any of its awaits. What the
user types is a sequence of keystrokes identified by their position, of three
kinds: the end of a line naming a site, the end of another line, input without a newline. The
variables `state`, `chan`, `buffer`, `event`, `websock`, `buf` are the code's;
`sends` is the queue for `websock_send_lock`. The appserver is external: it
connects or not, accepts or refuses, and goes away.

* `TypedAheadIsKept`: until proxy mode nothing typed is lost or reordered.
* `SessionIsRouted`: the session goes to the first site named on a line
  (`FirstSiteChosen`) and gives up only after every appserver was tried
  (`NoneReachable`).
* `ProxyInOrder`: in proxy mode input arrives in order and without gaps, although
  each chunk is sent by its own task.
* `TypedIsDelivered` (run `shell_flush`, violated): see the finding. The second
  flush sends the wrong buffer.

The passing properties are checked in the run `files`. Bounds: three appservers, the middle one tried first; four keystrokes in chunks of
one or two, which is enough for a wrong line, a site line, one keystroke before
and one after the switch, and for a buffer (of three) that overflows.

What is proved (`ShellSessionProofs`), for any `NumAppservers`, `MaxBuffer`,
`MaxChunk` and `MaxTyped`, from `ShellAssumption` alone: `TypeOK`,
`TypedAheadIsKept`, `SessionIsRouted` and `ProxyInOrder` are invariants of `Spec`.
None of the last three is inductive as it stands. `IInv` adds that the flush and
the buffer count the places from `used + 1` to the last one *at every `pc` before
proxy mode*, not only while `state` says so (`Conserved`); that the lines used so
far named no site (`NoSiteBefore`); that `state` is not ahead of `pc`
(`StateFollows`); and that the appservers tried are an arc of the circle from
`first` to the current one (`TriedInOrder`). Sequences of consecutive numbers are
handled by `Counts`: concatenating and cutting them keep it (`CountsConcat`,
`CountsTail`), and each determines the sequence (`CountsIsFrom`).

For `ProxyInOrder` the invariant is `ProxyInv`: `IInv`, the property, and that
before proxy mode nothing is queued or received and no websocket is kept
(`ProxyBegins`). The property says where each queued send begins and ends: `upto`
cuts what was typed in proxy mode into what the appserver has received and the
pieces that wait for the lock. A callback appends a piece (`DataKeepsOrder`), the
first flush makes the only one (`FlushKeepsOrder`), and the holder of the lock moves
the first one to the appserver, whose input stays an old part followed by consecutive
places (`SendReceives`, `SendKeepsOrder`); any other step keeps the queue or the
websocket is gone.

## The editor's files: `FileMonitor`, `MonitorRelay`, `FileCommands`

The file pane and the requests on files are three chains over the same appservers;
`MCFiles` checks them (and the shell server) in one run, `files`.

**`FileMonitor`** is the pane (`files-pane.js`), the helper process (`monitor_cmd` in
`files-helper.py`) and inotify between them, with the queues `stdin` and `stdout`
for the messages on their way. It is the pane of a site on **one appserver**, which is
what the settings in the repository configure (`secret_dev.py:43`). Then the consumer
(`consumers.py:474-510`) has one monitor: to lose it is to lose all of them and closes
the page's websocket; and a message of the page gets there once, as the replay of the
messages that came early and the end of the opening have no suspension in between
when no send has to wait. With several appservers the consumer merges the events of
several helpers, closes only when all are lost, and may send a message twice; that
consumer is `MonitorRelay`, which has a step for each await, and what the pane then shows
is neither checked nor proved: `files-pane.js:194` knows that events may be
duplicated or delayed and promises nothing of the outcome. `kernel` and `fnames` are the watches as the kernel
and as the helper (`fnames_by_wd`) know them, `shown` and `openDirs` the pane's tree.
`Select`, `ReadStdin`, `Command`, `AddWatch`, `List`, `RemoveWatch`, `HandleEvent` are
the pieces of the helper's loop between two system calls; `Message` (with `addItem`,
`removeItem`, `updateItem`, `handleError`), `toggleDir` and the websocket's handlers
are the page. `Create`, `Chmod`, `Delete` and `Move` are whoever changes the files.

* `PaneSettles`: once every message is handled, what is on the disk in an open
  folder is shown, as what it is, and nothing else; and the helper watches the
  open folders and no others. Three exceptions, all auxiliary variables: `renamed`
  (an inode that is renamed and added again before its MOVE_SELF is read keeps its
  descriptor, and the helper forgets it), `hasty` (a folder is clicked
  while messages are under way: then only `PaneComplete` is claimed, and what is gone
  may stay in the pane or keep its watch) and `stray` (a folder of `prevOpenFolders`
  is opened again below one that the user has closed meanwhile, so that it is watched
  although nobody sees it). `stray` came out of the attempt at the proof: it takes
  six changes and clicks, twice what the run allows.

Links, the icons of the items, drag and drop (with what it does to the folders that
are opened again) and the removal of the root are left out. Events are delivered in
the order of the changes; MOVE_SELF and DELETE_SELF come with the removal.

**`MonitorRelay`** is `SiteMonitorConsumer` of the manager: `receive` and
`disconnect` run one at a time, as Channels dispatches a consumer's events, next to
the task `initialize_monitor_connections` and one `monitor_mainloop` for each
appserver, with a step for each await.

* `ForwardedInOrder`: a monitor may get a message twice, but the last copies are in
  the order in which the browser sent them, and once nothing is under way every open
  monitor has every message.
* `EndsTogether`: a browser that left after its monitors were opened leaves no
  websocket, and one whose monitors are all lost is told to connect again. A
  browser that leaves while they are being opened is excepted (`early`): its
  websockets stay open, and nothing in the code promises more.

**`FileCommands`** are the requests on files: the view of the manager, the page of
the orchestrator, and the helper it starts, whose system calls interleave with those
of other helpers. `TimedOut` is the manager's timeout, which no view catches; the
helper goes on. A file is named for the request that created it, its data are chunks
named for the request that wrote them, so that mixed or lost data can be told.

* `AnswersAreTrue`: a write answered with success stored all chunks and nothing else,
  and a create or rename that failed changed nothing, unless somebody shared the file
  or the manager did not wait: those two the code does not handle.
* `OldSurvives`: the data of a file is lost only to `rm`, `rmdir` and `write`, or to
  two renames at once (`rename_cmd` looks whether the new path is free, and renames
  in a second call).
* `DownloadsAreWhole`: an archive that ended well has every entry, and a download
  sends no more than the limit unless the file grows.

Renames are of files and empty directories. Modes, `chmod`, links and the format of
the archives are left out; so is `MAX_ZIP_FILES`, which the helper defines and
never uses.

What is proved (`FilesProofs`, `PaneProofs`), for any number of appservers, messages,
requests, paths and chunks: `ForwardedInOrder` and `EndsTogether` of the relay,
`AnswersAreTrue`, `OldSurvives`, `DownloadsAreWhole`, `PaneSettles` as long as neither
`hasty` nor `renamed`, and, together with `ShellSessionProofs`, `FilesTypeOK`. Four
invariants carry it:

* `RInv`: the inbox holds the messages that follow those handled (`InboxInOrder`), the
  list of websockets is in the order they were opened, without one twice (`ListInv`), what
  is pending are all messages so far (`PendingInv`), and a monitor has, after each copy of
  a message, a copy of each newer one it was reached by (`OrderedTo`, `GotInv`).
* `CInv`: what each request has done by the step it is at. A file that nobody shares holds
  exactly the chunks written so far (`WriteInv`). The archive has the entries below its
  directory but those at or below the directories on the list, none of which is
  below another (`ArchiveInv`): by the order of prefixes an entry is reached from one of
  them exactly once (`ChildBetween`, with the least length of a path in between).
  That the old file is kept (`OldInv`) needs that a rename that looked found its new path
  free of it.
* `MonInv`: the disk is a tree and so is the pane, every folder that is open or will be
  opened again is a path, the kernel watches directories that are there, and the queues
  hold well-formed events, commands and messages. The one hard step is `Move`: nothing
  is below a path where nothing is (`NothingBelow`), so what arrives at the new place
  replaces nothing and comes back by the opposite move (`MovedBack`). The attempt to
  prove it corrected the model: an old ATTRIB can be answered after the file gave way
  to a folder of the same name, and `updateItem` then changes the class "executable" of
  the item and never its type, which no run with so few changes reaches.
* `PaneInv` (`PaneAgrees`): `PaneSettles` speaks of moments of quiet and says nothing
  of the steps between them. What holds always is that the pane, the files and the
  watches will agree (`WillAgree`): once the page has handled the messages in `stdout`,
  what is still missing or too much in its tree and among the watches is made up for by
  a command in `stdin`, by a folder about to be listed, or by an event that the kernel
  or the helper still holds. `Agreed` in `PaneAgreement` is that relation, in seventeen
  parts, each stated of plain sets and sequences, so that a lemma can say what one
  event, command or message does to it. What is shown and no longer there is removed by
  an event that is told under its name (`Doomed`); a watch whose directory went away is
  removed by a command or with the folder it is in (`StaleDoomed`); a folder closed and
  opened again is removed before it is added (`AddedLast`); and two watches share
  a name only until an event that removes it, which comes before every event of one of
  them (`TwinsDoomed`).
  The pane of the future is a course of states, one after each message (`Handles`): a
  function that exists, so that no recursive operator is needed, with lemmas that
  remove a message at the front, append one at the end, and compare two courses.
  `KernelInv` says of the kernel and the helper alone that the last event about an entry
  tells whether it is there (`EventsTrue`), that every watch of the kernel has exactly
  one name (`WatchesKept`), and that the root keeps its own (`RootKept`). When all is
  quiet the queues are empty, every such excuse is gone, and what is left of `Agreed`
  is `PaneSettles` (`QuietAgrees`, `QuietPane`).

They assume `RelayAssumption`, `CommandAssumption`, `MonitorAssumption` (finitely many
paths, each with its parent) and that a request is none of the constants that stand for
other contents of a path (`RequestsAssumption`). `PaneAgrees` assumes more than
`PaneSettles`, whose parts except `hasty` and `renamed` one at a time. Two things are
therefore checked by TLC only: every entry is still shown after a click that came too
early, and nothing else is shown and the watches are right after a watch got another
name. Both would need an invariant that knows which part of the tree such a click or
name has reached.

Bounds: the pane has two paths of directories, one of them watched from the start, a
path of a file in each, and three changes, clicks and lost connections together, with
the file there from the start or not: enough for a folder with a file to be opened,
moved and recreated with its events under way. The relay has
two appservers and three messages: one before, one while and one after the first is
opened. Two requests on three paths, two chunks and a limit of one chunk, from every
initial tree with one file.

## What a browser keeps open: `WebTerminal`, `LogFollower`, `SiteStatus`

`MCSessions` checks the three in one run, `sessions`.

**`WebTerminal`**: the manager's terminal consumer (`connect`, `open_fails`,
`open_succeeds`: failover over the appservers), the handlers of the orchestrator for
terminals and for sessions of the shell server, and the container
`site_NNNN_terminal` they share. `launch`, `run_starts`, `pull`, `check`, `wait`,
`relaunch` and `exec` are the calls to Docker; `Push`, `RemoveContainer` and
`Expire` are Docker and the keepalive program.

* `FreshImage`: a shell that opens runs in a container no older than the image its
  session pulled, whoever created the container.
* `OnlyPushesCut`: opening a terminal takes the container away from those attached
  only if a newer image was pushed since it was created.
* `RefusedByAll`: the consumer gives up only when no appserver answered.
* `LeftSessionsEnd`: the session of a browser that left ends. One case is excepted
  (`Stuck`): a container that was created and could not be started keeps the name,
  and every launch is tried again for ever.

**`LogFollower`**: `docker service logs`, the follower that starts it again every
ninety seconds, the manager's consumer and the page.

* `EachLineOnce`: no line is twice or out of order, and between the first and the last
  on the page only those are missing that were in the pipe, or not printed, when a
  restart began (`dropped`).
* `LeftLinesAreRead` (run `logs_restart`, violated): the comment at `logs.py:73` says
  that the lines the stopped process had printed are read and yielded. `stop()` sets
  `stopped` first, and nothing is read: these are most of the lines `dropped` excepts
  above.
* `LinesArrive`: every line gets to the page, unless it was dropped or newer ones than
  a page starts with have come.

**`SiteStatus`**: the row, the messages of the site's group, the consumer of each
information page and the page, which connects again. Whoever saves sends afterwards;
the consumer reads the row and then its operation.

* `ShownIsCurrent`: a connected page of a site that exists, with nothing under way,
  shows the row as it is, and watches the status exactly if the site is dynamic now.
* `PagesCatchUp`: again and again it gets there, through lost connections.
* `DeletedIsShown` (run `site_deleted`, violated): see the finding.

What is proved (`SessionsProofs`), for any number of terminals, pages, appservers, lines,
images and failures: `FreshImage`, `RefusedByAll` and `OnlyPushesCut`, `EachLineOnce`,
`ShownIsCurrent`, and the types. The invariants say more, each about what is under way:

* `TInv` says what a session knows of its container at each of its calls (`Holds`): a
  session that starts the container is alone in doing so (`OneStarts`), what it pulled is
  no newer than the tag, and from `exec` on its container is no older than that. The
  appservers that refused are the arc from the first to the next one (`Arc`).
* `LInv`: the lines on the page and in the channel are increasing (`Increasing`) and cover
  all that was read but what was dropped (`Covers`), the pipe holds the lines that
  follow, and the time a restart begins from is no earlier than what was read.
* `SInv`: an open page was sent the row as it is, or it will hear of the change: a
  message is owed, in its inbox, or its consumer has still to read (`WillBeCurrent`).

They assume the named assumptions of the modules only. `LeftSessionsEnd`, `LinesArrive`
and `PagesCatchUp` are liveness and stay with TLC.

Fairness: handlers, consumers and connections make progress, Docker prints what it has
and removes what stopped, and who saved goes on to send. None is assumed of users, images, lines, restarts or
failures, which are bounded instead: liveness is under finitely many faults, as the
code retries without a limit.

Bounds: two sessions, one of each kind, on two appservers, one push, two faults; four
lines with two at the start, and two restarts or broken connections, so that one may
interrupt another; one page, two changes, two losses. There is no symmetry, because of
the liveness properties.

## What operations do on the hosts: `NginxConfig`, `SiteDatabases`, `Domains`, `SiteRequests`

`SiteDeployment` has one site and takes each callback's effect as one step. These
modules look inside, for several sites at once; the run `hosts` (`MCHosts`) checks
them.

**`NginxConfig`**: the file of each site in the directory the appservers share, the
reloads that an operation asks every appserver for, and the poll for the exit code
(`_wait_for_exec_exit_code`). Nginx rejects all files if one is wrong. Requests may
fail, or be carried out after the manager gave up (`late_write`, `stray_reload`). A
task may stop between any two of its yields (`stop`), superseded by a reset or with its
worker, and what it asked for may still come. `nginx -s reload` checks the files and
signals the master, which reads them later (`master_reloads`) and may find them
changed; Nginx stops and starts (`nginx_stops`, `nginx_starts`), and Docker shows its
task as running some time after (`task_runs`). Where it shows none, the reload is a
success that did nothing (`services.py:196-197`, `skipped`).

* `ReportsAreTrue`: when an operation succeeded every Nginx that runs serves what it
  wrote, whatever the operations of other sites reload, move away or disable meanwhile;
  and a reload that was carried out in time is not reported as an error. What the
  reports do not say is excepted by name: a master that has yet to read the files
  (`hup`) or found another site's wrong one (`missed`), and an appserver whose Nginx
  Docker did not show as running, until that Nginx reads the files (`skipped`).
* `NoWrongFileLeft`: an operation whose file is wrong leaves none behind that would
  keep every other site from reloading.

Both except sites whose file may be unchecked (`unclean`): after a late request, a
failed disable, a task that was stopped, or a reload that no appserver had an Nginx
for. The site's next operation ends the exception as soon as it has set the file and no
late request is left. While one file
is wrong the reloads of other sites fail as well, and their files are moved away,
too: that is what the code does, and their operations report it.

`HostsProofs` proves both for any number of sites, appservers and operations.
The invariant `NInv` says of a clean site, by the stage of its operation, what its
file is (`Clean`): not wrong between operations, the one being deployed after
the write; and that an appserver whose reload was accepted since then serves it, or is
about to read it, and has shown that it is not wrong. The last part is what makes the success of any reload say
something about all sites. It needs an appserver (`NginxAssumption`: without one
`random.choice` fails before anything is written) and that the files of operations are
distinct (`Numbered`).

**`SiteDatabases`**: the row of the password and the statements that an appserver
sends to the host, each of which takes effect at once, for both kinds of host. A request that
timed out goes on next to the one of the next operation. PostgreSQL's forced drop has
its fallback statement by statement (`look_again`, `refuse`, `drop_again`), and the
connection may be lost between any two.

* `DatabaseOutcome`: after a create, a repair or a new password that succeeded the site
  can use its database with the password Director has; after a delete nothing is left;
  and a delete can be made again, except on PostgreSQL when the user is gone
  already: `REVOKE` then fails each time. Overlapping requests are excepted. So is one
  thing that `create_database` does not look at: a delete that was cut between `ALTER
  DATABASE ... ALLOW_CONNECTIONS false` and the drop (`cut`) leaves a database that
  refuses connections, for which a create or fix then answers success. The property
  says that nothing else leaves one, and only a delete that gets through ends it.

`HostsProofs` proves it for any number of requests, failures and lost answers. The
outcome alone is not inductive: `DbInv` says that without an overlap only the last
request can be running (`LastAlone`), and what the host has by the statement that
request comes to next (`CreatedSoFar`, `DroppedSoFar`).

**`Domains`**: the table, the view that asks for names, `change_site_domains` (the
query on a name and its write are two steps), the administrators' reservations, and
the certificates and configurations of the balancers.

* `OneOwner`: a name has one row and at most one site, unless two tasks were between
  query and write of it at once (`contested`). The code has nothing against that race,
  and the three properties say what holds without it.
* `NotTaken`: a name changes its site only if its site gave it up or the
  administrators took it.
* `OwnedIsServed`: after an edit that succeeded the balancers that were reached route
  exactly the names the site owns, and it has their certificates, whatever other sites
  do with other names. A name that another task writes while this one is about to
  remove its certificate is contested, too: that certificate is lost (`actions.py:361`).

`HostsProofs` proves the three for any number of names, sites, edits and balancers. None
is inductive: the invariant adds that what a task read still holds when it writes, if
the name is not contested (`RowStillFree`, `StillAbsent`), because every other write
of the name in between contests it (`WriteContests`).
For `OwnedIsServed` it also follows a task by its step: which names it already owns, that
the names it is to give up are none of those another site owns, and what the balancers
that answered have been sent.

**`SiteRequests`**: the two views that decide on a request, each of which saves the
whole row it read.

* `TeacherIsHeard`: unless two views overlap, the row says what the teacher decided
  last. When two do, the code lets the later save undo the other. It
  is proved (`HostsProofs`) for any number of views: what a view read of the
  row is still in it while no other view crosses (`ReadIsCurrent`).

Bounds: two sites, appservers, balancers and names, since every race here is between
two; two operations on Nginx files, of two sites or one after the other of the same,
with one request, wait or Nginx task that fails and at most one appserver without a
running Nginx task at the start, and three edits; three database requests, so that one that timed out meets
its repair; two views of each kind of user. Sites, hosts and names are symmetric.

## Runs

| Run | Module, cfg | Expected | Properties | Shows |
|---|---|---|---|---|
| `engine` | `MCSiteOperations`, `MCSiteOperations.cfg` | pass | `NoOrphanOperation`, `OnlyFinishedReplaced`, `ImplementsSlot`, `OperationSettles` | Two requests, two operations, every interleaving of views and tasks without faults: no operation blocks its site silently, only reset takes a live operation, the engine implements the lease, and under fair workers every operation is removed or marked failed. |
| `engine_faults` | `MCSiteOperations`, `MCSiteOperationsFaults.cfg` | pass | `NoOrphanOperation`, `DeletedAfterWipe` | Web servers, workers and the broker fail at any step, fix_sites and edit_meta_view run: only operations hit by a fault can block their site, and without reset or delete_fix the Site row goes only after a complete delete_site. |
| `deploy` | `MCSiteDeployment`, `MCSiteDeployment.cfg` | pass | `DTypeOK`, `NoSilentDrift`, `SupersededTaskStops` | Operations of every kind fail at any callback and fix_site follows by reset_operations_view: a superseded task stops with the segment it is in, and what is deployed finally matches the row, but for the one segment a reset task overruns. |
| `deploy_data` | `MCSiteDeployment`, `MCSiteDeploymentData.cfg` | pass | `DatabaseAsserted`, `RowsAreLinked` | Three operations create, delete, re-key and repair the database of a site and its image: the assertions of the callbacks hold, and a Database or image row that no site leads to is only left by a task that ended between the query that inserts it and the one that links it. |
| `deploy_race` | `MCSiteDeployment`, `MCSiteDeploymentRace.cfg` | pass | `DeletedIsWiped` | Two requests with stale instances, edit_meta_view, fix_sites and faults: a site that delete_site deleted has left nothing that no row knows of. |
| `delete_domains` | `MCSiteDeployment`, `MCSiteDeploymentDelete.cfg` | violation | `DeleteDeletes` | After a delete_site that succeeded, with no other operation started since, a site with Domain rows is still there, wiped. |
| `files` | `MCFiles`, `MCFiles.cfg` | pass | `FilesTypeOK`, `PaneSettles`, `ForwardedInOrder`, `EndsTogether`, `AnswersAreTrue`, `OldSurvives`, `DownloadsAreWhole`, `TypedAheadIsKept`, `SessionIsRouted`, `ProxyInOrder` | What a user sends from the editor page and from SSH: the file pane shows what is on the disk and watches what is open, the relay forwards everything in order, requests on files that race or time out leave what they promise, and the shell server keeps input in order and chooses the first site named. |
| `hosts` | `MCHosts`, `MCHosts.cfg` | pass | `HostsTypeOK`, `ReportsAreTrue`, `NoWrongFileLeft`, `DatabaseOutcome`, `OneOwner`, `OwnedIsServed`, `TeacherIsHeard`, `NotTaken` | What operations do on the hosts: the Nginx files of two sites on two appservers with reloads at the same time, tasks that stop and an Nginx that is not there, a database whose requests time out, go on or are cut between two statements, two names that two sites edit while administrators reserve them, and a request that a teacher and administrators decide. |
| `sessions` | `MCSessions`, `MCSessions.cfg` | pass | `SessionsTypeOK`, `FreshImage`, `RefusedByAll`, `EachLineOnce`, `ShownIsCurrent`, `OnlyPushesCut`, `LeftSessionsEnd`, `LinesArrive`, `PagesCatchUp` | What a browser keeps open: two sessions that start, replace and leave the terminal of a site on two appservers while images are pushed; the log of a site followed through restarts of the docker process and broken connections; the information page while the row changes. |
| `site_deleted` | `SiteStatus`, `SiteStatusDeleted.cfg` | violation | `DeletedIsShown` | The page of a site that is deleted while it is looked at does not learn of it: the message goes to a group nobody is in. |
| `logs_restart` | `LogFollower`, `LogFollowerRestart.cfg` | violation | `LeftLinesAreRead` | When the follower replaces its docker process, the lines that the old one had printed are not read. |
| `shell_flush` | `ShellSession`, `ShellSessionFlush.cfg` | violation | `TypedIsDelivered` | What was typed before proxy mode is sent twice or not at all. |

## Theorems

| Theorem | Module | Establishes |
|---|---|---|
| `TypeCorrect` | `SiteOperationsProofs` | Every variable of the engine keeps its type, and no task indexes past its plan, for any number of requests, operations, plans and actions. |
| `InductiveInvariant` | `SiteOperationsProofs` | The inductive invariant IInv of the engine, faults included. |
| `NoOperationIsOrphaned` | `SiteOperationsProofs` | An Operation row no fault hit is always attended by a request, the queue or a task, or marked failed. |
| `SupersededTasksStop` | `SiteOperationsProofs` | A task whose Operation row was removed runs at most one more segment. |
| `OnlyFinishedOperationsReplaced` | `SiteOperationsProofs` | Every view but reset_operations_view only ever takes the operation of a task that is over. |
| `TasksHoldTheLease` | `SiteOperationsProofs` | While nobody resets, every task that has something to do holds the site's only Operation row. |
| `DeletedOnlyWhenWiped` | `SiteOperationsProofs` | If no view takes a failed delete_site away, the Site row goes only after a delete_site all of whose actions succeeded. |
| `EngineImplementsSlot` | `SiteOperationsProofs` | Every behaviour of the engine is, under the refinement mapping stage, a behaviour of the lease OperationSlot. |
| `DeploymentImplementsEngine` | `SiteDeploymentProofs` | Every behaviour of the deployment is a behaviour of the operation engine, so the engine's theorems hold of it. |
| `DeploymentTypeCorrect` | `SiteDeploymentProofs` | Every variable of the deployment keeps its type, whatever the views, the faults and the numbers of requests, operations and databases. |
| `RowsStayLinked` | `SiteDeploymentProofs` | While nobody resets and no stale form is saved, for any number of requests and wherever callbacks, site.save() among them, raise: the only Database or image rows that no site leads to are those of a task that ended between the query that inserted the row and the one that links it, and of a second database asked for by a stale form; and the site leads to no image that is gone. |
| `DatabaseIsThere` | `SiteDeploymentProofs` | Under the same conditions the callbacks that assert a database find one, although their plan was made from an earlier instance of the site. |
| `DeletedSiteIsWiped` | `SiteDeploymentProofs` | While nobody resets, a site that delete_site deleted has left nothing behind that no row knows of, with stale forms, faults and any number of requests. |
| `NothingForgotten` | `SiteDeploymentProofs` | Without faults, overriding views and stale forms, but with resets and any number of requests, operations and databases: when nothing is left to do, what is deployed is what the Site row says, the stated exceptions apart. |
| `DeploymentOverrunsOnce` | `SiteDeploymentProofs` | In a deployment a task that was reset runs at most one more segment, the one NoSilentDrift excepts. |
| `RelayForwards` | `FilesProofs` | For any number of appservers and messages: what each monitor was sent last is in the order the browser sent it, and when nothing is under way every open monitor has had every message. |
| `RelayEndsTogether` | `FilesProofs` | A browser that left after its monitors were opened leaves no websocket, and one whose monitors are all lost is told to connect again. |
| `AnswersHold` | `FilesProofs` | For any number of requests on any files: success is answered only for an upload that is all in one file, an error of create or rename only when nothing was changed, unless the file was shared or the answer came late. |
| `OldFilesSurvive` | `FilesProofs` | No create, mkdir, download or single rename loses the data of a file that was there, whatever is under way next to it. |
| `DownloadsHold` | `FilesProofs` | An archive of a directory that nobody changes has all of its entries, however large the tree, and a download of a file that nobody writes stays within the limit. |
| `CommandsTypeCorrect` | `FilesProofs` | The variables of the requests on files keep their types. |
| `PaneAgrees` | `PaneProofs` | The pane of a site with one appserver, which the settings in the repository configure, for any paths and any number of changes, clicks and lost connections: once everything is handled the open folders show what is on the disk and are the folders that are watched, unless a folder was clicked with messages under way, a watch got another name, or a remembered folder was opened again below one closed meanwhile. |
| `PaneTypeCorrect` | `PaneProofs` | Whatever changes while events and commands are under way, the pane keeps a tree in which what is open is shown, and the kernel watches directories that are there, wherever they were moved. |
| `FilesTypeCorrect` | `FilesProofs` | The pane, the relay, the requests and the shell server keep their types and what relates the variables of each of them, side by side, for any paths, appservers, requests and bounds. |
| `TeachersAreHeard` | `HostsProofs` | For any number of views of the teacher and of administrators: unless two of them overlap, the row says what the teacher decided last. |
| `DatabaseOutcomeHolds` | `HostsProofs` | For any number of requests, failures and lost answers: an operation on a database that succeeded left the host as it says, and one that was refused can be repeated or is done, with every statement of the forced drop a step of its own. Excepted are a request that was given up and runs next to a later one, and, of a create, that the database still refuses connections after a delete that was cut before the drop. |
| `HostsTypeCorrect` | `HostsProofs` | The configuration files, databases, domains and requests keep their types side by side. |
| `NginxTypeCorrect` | `HostsProofs` | The variables keep their types, and no reload is under way for a site whose operation has not come to it. |
| `ReportsTrue` | `HostsProofs` | For any number of sites, appservers and operations in any interleaving, with tasks that stop anywhere and Nginx that stops and starts: an operation that succeeded is served as it wrote it by every running Nginx, and a reload reported as failed was rejected or late. Excepted, by name, are a master that has not read the files yet or found another site's wrong one, an appserver whose task Docker did not show as running (a success without a reload), and a site whose file an unanswered request, a stopped task or a failed disable may have left unchecked. |
| `WrongFilesGo` | `HostsProofs` | However operations interleave, one that ran to its end leaves no file that Nginx rejects, unless no appserver had an Nginx to check it or a late request or a failed disable left it; the next operation of the site ends the exception. |
| `DomainsTypeCorrect` | `HostsProofs` | The table of domains stays a table of well-formed rows, and the tasks' variables keep their types. |
| `NamesHaveOneOwner` | `HostsProofs` | However many sites ask for the same names: a name that nobody wrote between another's query and write has one row, and exactly the active rows have a site. |
| `NamesAreNotTaken` | `HostsProofs` | No step takes an uncontested name from the site that has it, or from the reserved ones, for another site. |
| `OwnedAreServed` | `HostsProofs` | After an edit that succeeded the balancers that answered route to the site exactly the names it owns, and it has their certificates, whatever other sites do with other names; names that another task's edit crossed (the race of actions.py:361 among them) are excepted. |
| `ShellsAreFresh` | `SessionsProofs` | However many sessions open terminals of a site at the same time: a shell that opens runs in a container no older than the image its session pulled. |
| `AllRefused` | `SessionsProofs` | For any number of appservers, and whichever it began with, a terminal gives up only when it has tried all of them. |
| `OnlyNewerImagesCut` | `SessionsProofs` | No step of another session takes the container from an attached one, unless a newer image was pushed since it was created. |
| `LinesOnce` | `SessionsProofs` | For any number of lines, restarts and broken connections: no line is shown twice or out of order, and between the first and the last shown only those are missing that a restart dropped (LeftLinesAreRead has that loss). |
| `PagesShowTheRow` | `SessionsProofs` | A connected page with nothing under way shows the row as it is and watches the status exactly if the site is dynamic, for any number of pages, changes and lost messages. |
| `SessionsTypeCorrect` | `SessionsProofs` | Terminals, followers and pages keep their types side by side. |
| `TypeCorrect` | `ShellSessionProofs` | The variables of a session keep their types, for any number of appservers and any input. |
| `TypingAheadLosesNothing` | `ShellSessionProofs` | Nothing that is typed before proxy mode is lost or reordered, however many lines, wrong or right, and however the chunks are cut. |
| `ProxyKeepsOrder` | `ShellSessionProofs` | In proxy mode each keystroke reaches the appserver once and in the order typed, after a buffer that may be sent twice, however many sends wait for the lock. |
| `SessionsAreRouted` | `ShellSessionProofs` | The session goes to the site that the first line naming one names, and reports that no appserver can be reached only after it tried all of them, wherever in the circle it began. |

TLAPS cannot do liveness under fairness, ENABLED, induction with an operator
parameter, or RECURSIVE operators; what depends on them stays with TLC.


## How the modules are composed

`SiteDeployment` EXTENDS `SiteOperations` and conjoins an effect to each of its
actions, so that a step of a deployment *is* a step of the engine
(`DeploymentImplementsEngine`); `SiteOperations` refines `OperationSlot` under the
mapping `held <- opRows, stage <- ...`, so the lease holds of the deployment too.
The other modules model components that share no state with them or with each other:
a websocket, a process, a file or a row of another table. An MC module puts several of
them into one run: the variable `part`, chosen initially, says which of them
moves, so that a run checks each of them by itself and no product of them is explored.
`NginxConfig` and `SiteDatabases` look inside the callbacks that `SiteDeployment` takes
as one step each.

## Conventions

* An action is named after the function it models; its guard comes from the
  code's conditions, its primed variables from its assignments. A handler is cut
  into several actions only where other code can run in between: at a database
  query (the manager runs in autocommit mode, `ATOMIC_REQUESTS` is not set), at
  an `await`, or at a `yield` of an action callback.
* Constants called `Max...` are bounds for TLC. They are parameters, and the
  theorems hold for every value of them.
* A definition `Mutant_x` is a plausible wrong version of `x`. Nothing uses it;
  a run with `x` replaced by it must violate the property named beside it in
  `PROJECT.json`.
* A run whose `expect` is `violation` checks one sentence of a comment, an
  assertion or the documentation that the code does not live up to; the
  counterexample is described under `findings`.

## What is not modelled

* **site deployment**: Every callback of every task and its effect on the Site row, the nginx file, the Docker service, the real database and the files. Left out: passwords, image contents, resource limits, certificates and the balancers (their callbacks may raise, no more), and which appserver answers.
* **site requests**: The two views that decide on a request. Creating one (a form) and the email are left out.
* **browser consumers**: The consumers of the file monitor, terminals, logs and the information page. Left out: the bytes a terminal forwards, heartbeats, and MultiSiteStatusConsumer.
* **file browser and editor pages**: The pane's tree with its folders, its websocket and the file requests; the pane is that of one appserver. Left out: the events of several monitors merged, drag and drop, selections, the tabs of the editor and its settings, which change nothing but the page.
* **Docker image management**: Admin forms over single DockerImage rows; the effect of an image on a site is the operation engine's.
* **users, sign-in and docs pages**: An OAuth pipeline that creates user rows, forms over single rows, and Markdown rendered into pages: no operation that takes more than one step or meets another.
* **shell token**: The token is a signed message with an expiry time: one comparison, no state. WebTerminal has a session whose token is refused.
* **shell server**: The SSH session from its start to proxy mode and its end: what the user types, the choice of the site, the failover over the appservers. Left out: authentication, the output of the container, terminal sizes and heartbeats.
* **root shell**: An interactive console in which administrators type commands; it keeps no state of its own.
* **orchestrator terminals**: The life of the shared container and of the sessions in it, with images, failures to start and expiry. Left out: the bytes, the size of the window.
* **orchestrator files**: The monitor helper, reading, archiving, writing, creating, renaming and removing. Left out: modes and chmod, links, and the directories that SiteDeployment creates and removes.
* **orchestrator services and nginx**: The configuration files and the reload with its exit code; SiteDeployment has the services as they are after each action. Left out: how Swarm replaces the tasks of a service.
* **orchestrator registry and images**: Building, pushing and removing an image are single calls to Docker and its registry, by a handler that keeps no state; WebTerminal has what pushes do to terminals, SiteDeployment the image row of a site.
* **orchestrator databases**: Creating, changing and deleting the user and the database of a site on both kinds of host. Left out: the queries of the database page.
* **orchestrator status consumers**: Polls the state of Docker services and sends it on; a status that is out of date is replaced by the next. How Swarm gets there is out of sight of the code.
* **router**: The configuration file of a site, its reload, and certificates as sets of names; certbot's own state is external.

## Plan

Done, in the order of their importance:

1. `OperationSlot`, `SiteOperations` and `SiteOperationsProofs`: every change to a
   site goes through the engine, and nothing else in the program has as many actors.
2. `SiteDeployment` and `SiteDeploymentProofs`: what the engine's operations do,
   composed with it.
3. `ShellSession` and `ShellSessionProofs`.
4. `FileMonitor`, `MonitorRelay`, `FileCommands`: the editor, from the page to inotify.
5. `WebTerminal`, `LogFollower`, `SiteStatus`: what a browser keeps open.
6. `NginxConfig`, `SiteDatabases`, `Domains`, `SiteRequests`: several sites on shared
   hosts, with the proofs of three of them.

Proved: every safety property, with one reservation: `PaneSettles` is proved for
behaviours without either of its exceptions `hasty` and `renamed`; what it still says
when one of them has happened stays with TLC.

Worth modelling next: the pane with the merged events of several monitors; the service of a site as Swarm replaces its tasks, with
`MultiSiteStatusConsumer` on top; what `FileCommands` leaves out (links, modes).

Liveness stays with TLC.

--------------------------- MODULE SessionsProofs ---------------------------
(***************************************************************************)
(* Theorems about the sessions of browsers: terminals, the log of a site   *)
(* and the page with its status, for any number of terminals, pages,       *)
(* appservers, lines and failures.                                         *)
(***************************************************************************)
EXTENDS MCSessions, SequenceTheorems, TLAPS

(* Terminals *)

Containers == [id : Nat, image : Nat, state : {"none", "created", "running", "dying"}]
Starting == {"starting", "restarting"}
Checked == {"check", "wait", "relaunch", "restarting", "exec", "attached"}
Launched == Checked \union {"starting", "pull"}

TerminalTypes ==
  /\ TerminalTypeOK /\ created \in Nat
  /\ container \in [Hosts -> Containers] /\ mine \in [Terminals -> Containers]
  /\ pulled \in [Terminals -> Nat] /\ not_answering \in [Terminals -> SUBSET Hosts]

(* Containers come one after the other, from images that were pulled.      *)
DockerOrder ==
  /\ \A h \in Hosts : /\ tagged[h] <= registry
                      /\ container[h].id = 0 => container[h] = NoContainer
  /\ \A t \in Terminals : mine[t].id <= created /\ mine[t].image <= registry /\ pulled[t] <= registry

(* The appservers that did not answer lie between the first one tried and  *)
(* the next one, around the circle.                                        *)
Arc(first, next) == IF first <= next THEN first .. next - 1 ELSE (first .. NumHosts - 1) \union (0 .. next - 1)

Tried(t) ==
  /\ stage[t] = "idle" => not_answering[t] = {}
  /\ stage[t] = "trying" => not_answering[t] = Arc(orig[t], host[t])
  /\ stage[t] = "refused" => not_answering[t] = Hosts

(* What a session knows of its container.                                  *)
Holds(t) ==
  LET c == container[host[t]]
  IN  /\ stage[t] \in Launched => mine[t].id # 0 /\ (IsMine(t) => c.image = mine[t].image)
      /\ stage[t] \in Launched \ Starting /\ IsMine(t) => c.state # "created"
      /\ stage[t] \in Starting => IsMine(t) /\ c.state = "created"
      /\ stage[t] \in Checked => pulled[t] <= tagged[host[t]]
      /\ stage[t] = "check" => mine[t].image <= pulled[t]
      /\ stage[t] \in {"wait", "relaunch"} => c.state \in {"none", "dying"} \/ c.image >= pulled[t]
      /\ stage[t] \in {"restarting", "exec", "attached"} => mine[t].image >= pulled[t]

OneStarts ==
  \A t, u \in Terminals :
    {stage[t], stage[u]} \subseteq Starting /\ host[t] = host[u] => t = u

TInv ==
  /\ TerminalTypes /\ DockerOrder /\ OneStarts
  /\ \A t \in Terminals : Tried(t) /\ Holds(t)

LEMMA TerminalInitial == TerminalInit => TInv
  <1> SUFFICES ASSUME TerminalInit PROVE TInv
    OBVIOUS
  <1>1. 0 \in Hosts /\ 0 \in 0..MaxPushes /\ 0 \in Nat
    BY TerminalAssumption DEF Hosts
  <1>2. NoContainer \in Containers /\ NoContainer.id = 0 /\ NoContainer.image = 0
        /\ NoContainer.state = "none"
    BY DEF NoContainer, Containers
  <1>3. TerminalTypes
    <2>1. /\ container \in [Hosts -> Containers] /\ mine \in [Terminals -> Containers]
          /\ \A h \in Hosts : container[h] = NoContainer
      BY <1>2 DEF TerminalInit
    <2>2. /\ registry \in 0..MaxPushes /\ tagged \in [Hosts -> 0..MaxPushes]
          /\ stage \in [Terminals -> Stages] /\ host \in [Terminals -> Hosts]
          /\ orig \in [Terminals -> Hosts] /\ created = 0 /\ registry = 0
          /\ pulled \in [Terminals -> Nat] /\ not_answering \in [Terminals -> SUBSET Hosts]
      BY <1>1 DEF TerminalInit, Stages
    <2> QED
      BY <1>2, <2>1, <2>2 DEF TerminalTypes, TerminalTypeOK
  <1>4. DockerOrder
    BY <1>2 DEF TerminalInit, DockerOrder
  <1> QED
    BY <1>3, <1>4 DEF TerminalInit, TInv, OneStarts, Tried, Holds, Starting, Launched, Checked

LEMMA ArcGrows ==
  ASSUME NEW first \in Hosts, NEW h \in Hosts
  PROVE  LET next == next_appserver(h)
         IN  /\ next \in Hosts /\ Arc(first, first) = {}
             /\ next = first => Arc(first, h) \union {h} = Hosts
             /\ next # first => Arc(first, h) \union {h} = Arc(first, next)
  <1>1. NumHosts \in Nat \ {0} /\ Hosts = 0 .. NumHosts - 1
    BY TerminalAssumption DEF Hosts
  <1>2. next_appserver(h) = IF h = NumHosts - 1 THEN 0 ELSE h + 1
    BY <1>1 DEF next_appserver
  <1> QED
    BY <1>1, <1>2 DEF Arc

(* The consumer's steps: nothing on the appservers changes.                *)
LEMMA ConsumerKeeps ==
  ASSUME TInv, NEW t \in Terminals, connect(t) \/ open_fails(t) \/ open_succeeds(t) \/ disconnect(t)
  PROVE  TInv'
  <1>1. /\ stage \in [Terminals -> Stages] /\ host \in [Terminals -> Hosts]
        /\ orig \in [Terminals -> Hosts] /\ not_answering \in [Terminals -> SUBSET Hosts]
    BY DEF TInv, TerminalTypes, TerminalTypeOK
  <1>2. /\ UNCHANGED <<dockervars, mine, pulled>>
        /\ \A u \in Terminals \ {t} : /\ stage'[u] = stage[u] /\ host'[u] = host[u] /\ orig'[u] = orig[u]
                                      /\ not_answering'[u] = not_answering[u]
    BY <1>1 DEF connect, open_fails, open_succeeds, disconnect, Goes
  <1>3. /\ stage' \in [Terminals -> Stages] /\ host' \in [Terminals -> Hosts]
        /\ orig' \in [Terminals -> Hosts] /\ not_answering' \in [Terminals -> SUBSET Hosts]
    BY <1>1, ArcGrows DEF connect, open_fails, open_succeeds, disconnect, Goes, Stages
  <1>4. TerminalTypes'
    BY <1>2, <1>3 DEF TInv, TerminalTypes, TerminalTypeOK, dockervars
  <1>5. \/ stage'[t] \in {"trying", "refused", "params"} /\ stage[t] \in {"idle", "trying"}
        \/ UNCHANGED <<stage, host, orig, not_answering>>
    BY <1>1 DEF connect, open_fails, open_succeeds, disconnect, Goes
  <1>6. Tried(t)'
    <2>1. CASE connect(t)
      <3>1. PICK h \in Hosts : host' = [host EXCEPT ![t] = h] /\ orig' = [orig EXCEPT ![t] = h]
        BY <2>1 DEF connect
      <3>2. stage[t] = "idle" /\ stage'[t] = "trying" /\ not_answering'[t] = not_answering[t]
        BY <1>1, <2>1 DEF connect, Goes
      <3> QED
        BY <1>1, <3>1, <3>2, ArcGrows DEF Tried, TInv
    <2>2. CASE open_fails(t)
      <3> DEFINE next == next_appserver(host[t])
      <3>1. /\ stage[t] = "trying" /\ not_answering[t] = Arc(orig[t], host[t])
            /\ not_answering'[t] = not_answering[t] \union {host[t]}
            /\ host'[t] = next /\ orig'[t] = orig[t]
            /\ stage'[t] = IF next = orig[t] THEN "refused" ELSE "trying"
        BY <1>1, <2>2 DEF open_fails, Tried, TInv
      <3>2. /\ next = orig[t] => Arc(orig[t], host[t]) \union {host[t]} = Hosts
            /\ next # orig[t] => Arc(orig[t], host[t]) \union {host[t]} = Arc(orig[t], next)
        BY <1>1, ArcGrows
      <3> HIDE DEF next
      <3> QED
        BY <3>1, <3>2 DEF Tried
    <2>3. CASE open_succeeds(t)
      BY <1>1, <2>3 DEF open_succeeds, Goes, Tried
    <2>4. CASE disconnect(t)
      BY <2>4 DEF disconnect, Tried, TInv
    <2> QED
      BY <2>1, <2>2, <2>3, <2>4
  <1>7. Holds(t)'
    BY <1>2, <1>5 DEF Holds, TInv, IsMine, Launched, Starting, Checked, dockervars
  <1>8. \A u \in Terminals \ {t} : Tried(u)' /\ Holds(u)'
    BY <1>2 DEF Tried, Holds, TInv, IsMine, dockervars
  <1>9. OneStarts'
    BY <1>2, <1>5 DEF TInv, OneStarts, Starting
  <1> QED
    BY <1>2, <1>4, <1>6, <1>7, <1>8, <1>9 DEF TInv, DockerOrder, dockervars
(* A step of the handler of one session, on one appserver.                 *)
HandlerAt(t, to) ==
  /\ stage[t] \notin {"idle", "trying", "refused"} /\ to \in Stages \ {"idle", "trying", "refused"}
  /\ stage' = [stage EXCEPT ![t] = to]
  /\ UNCHANGED <<host, orig, not_answering>>

LEMMA HandlerFrame ==
  ASSUME TInv, NEW t \in Terminals, NEW to, HandlerAt(t, to)
  PROVE  /\ stage' \in [Terminals -> Stages] /\ stage'[t] = to
         /\ \A u \in Terminals \ {t} : stage'[u] = stage[u]
         /\ \A u \in Terminals : Tried(u)' /\ host[u] \in Hosts
         /\ host' \in [Terminals -> Hosts] /\ orig' \in [Terminals -> Hosts]
         /\ not_answering' \in [Terminals -> SUBSET Hosts]
  <1>1. /\ stage \in [Terminals -> Stages] /\ host \in [Terminals -> Hosts]
        /\ orig \in [Terminals -> Hosts] /\ not_answering \in [Terminals -> SUBSET Hosts]
    BY DEF TInv, TerminalTypes, TerminalTypeOK
  <1>2. /\ stage' \in [Terminals -> Stages] /\ stage'[t] = to
        /\ \A u \in Terminals \ {t} : stage'[u] = stage[u]
    BY <1>1 DEF HandlerAt
  <1>3. \A u \in Terminals : Tried(u)'
    BY <1>2 DEF HandlerAt, Tried, TInv
  <1> QED
    BY <1>1, <1>2, <1>3 DEF HandlerAt

(* Steps that leave the container and what the session knows of it alone.  *)
LEMMA QuietHandlerKeeps ==
  ASSUME TInv, NEW t \in Terminals, NEW to, HandlerAt(t, to), UNCHANGED <<dockervars, mine, pulled>>,
         \/ to \in {"launch", "ended"}
         \/ stage[t] = "wait" /\ to = "relaunch"
         \/ stage[t] = "exec" /\ to = "attached"
         \/ stage[t] = "check" /\ to = "exec" /\ up_to_date(t)
  PROVE  TInv'
  <1>1. /\ stage' \in [Terminals -> Stages] /\ stage'[t] = to
        /\ \A u \in Terminals \ {t} : stage'[u] = stage[u]
        /\ \A u \in Terminals : Tried(u)'
        /\ host' \in [Terminals -> Hosts] /\ orig' \in [Terminals -> Hosts]
        /\ not_answering' \in [Terminals -> SUBSET Hosts] /\ UNCHANGED host
    BY HandlerFrame DEF HandlerAt
  <1>2. TerminalTypes'
    BY <1>1 DEF TInv, TerminalTypes, TerminalTypeOK, dockervars
  <1>3. Holds(t)'
    <2>1. /\ \A u \in Terminals : IsMine(u)' = IsMine(u)
          /\ UNCHANGED <<container, tagged, mine, pulled, host>>
      BY <1>1 DEF IsMine, dockervars
    <2>2. mine[t].image \in Nat /\ pulled[t] \in Nat
      BY DEF TInv, TerminalTypes, Containers
    <2>3. Holds(t)
      BY DEF TInv
    <2> QED
      BY <1>1, <2>1, <2>2, <2>3 DEF Holds, up_to_date, Launched, Starting, Checked
  <1>4. \A u \in Terminals \ {t} : Holds(u)'
    BY <1>1 DEF Holds, TInv, IsMine, dockervars
  <1>5. OneStarts'
    <2>1. stage'[t] \notin Starting
      BY <1>1 DEF Starting
    <2> QED
      BY <1>1, <2>1 DEF TInv, OneStarts
  <1> QED
    BY <1>1, <1>2, <1>3, <1>4, <1>5 DEF TInv, DockerOrder, dockervars

LEMMA QuietKeeps ==
  ASSUME TInv, NEW t \in Terminals,
         \/ web_terminal_handler(t) \/ ssh_shell_handler(t) \/ load_token_fails(t) \/ run_fails(t)
         \/ wait(t) \/ exec(t) \/ mainloop_ends(t)
  PROVE  TInv'
  <1>1. /\ UNCHANGED <<dockervars, mine, pulled>>
        /\ \E to : /\ HandlerAt(t, to)
                   /\ \/ to \in {"launch", "ended"}
                      \/ stage[t] = "wait" /\ to = "relaunch"
                      \/ stage[t] = "exec" /\ to = "attached"
    BY DEF web_terminal_handler, ssh_shell_handler, Params, load_token_fails, run_fails, wait, exec,
       mainloop_ends, web_terminal_ends, ssh_shell_ends, Return, Step, Goes, HandlerAt, Stages
  <1> QED
    BY <1>1, QuietHandlerKeeps

(* A session launches: it takes the container that runs, or creates one.   *)
LEMMA LaunchKeeps ==
  ASSUME TInv, NEW t \in Terminals, launch(t) \/ relaunch(t)
  PROVE  TInv'
  <1> DEFINE h == host[t]
             new == [id |-> created + 1, image |-> tagged[h], state |-> "created"]
  <1>1. PICK begin \in Starting, next \in {"pull", "exec"} :
          /\ stage[t] = IF begin = "starting" THEN "launch" ELSE "relaunch"
          /\ next = IF begin = "starting" THEN "pull" ELSE "exec"
          /\ \/ /\ container[h].state = "running" /\ HandlerAt(t, next)
                /\ mine' = [mine EXCEPT ![t] = container[h]]
                /\ UNCHANGED <<dockervars, pulled>>
             \/ /\ container[h].state = "none" /\ HandlerAt(t, begin)
                /\ container' = [container EXCEPT ![h] = new] /\ created' = created + 1
                /\ mine' = [mine EXCEPT ![t] = new]
                /\ UNCHANGED <<registry, tagged, pulled>>
    <2>1. CASE launch(t)
      BY <2>1 DEF launch, _launch_container, get_container, Step, Goes, HandlerAt, Starting, Stages
    <2>2. CASE relaunch(t)
      BY <2>2 DEF relaunch, _launch_container, get_container, Step, Goes, HandlerAt, Starting, Stages
    <2> QED
      BY <2>1, <2>2
  <1>2. /\ registry \in 0..MaxPushes /\ tagged \in [Hosts -> 0..MaxPushes] /\ created \in Nat
        /\ container \in [Hosts -> Containers] /\ mine \in [Terminals -> Containers]
        /\ pulled \in [Terminals -> Nat] /\ h \in Hosts /\ MaxPushes \in Nat
        /\ \A g \in Hosts : container[g].id \in 0..created /\ container[g].image \in 0..registry
    BY TerminalAssumption DEF TInv, TerminalTypes, TerminalTypeOK
  <1>3. new \in Containers /\ new.id = created + 1 /\ new.image = tagged[h] /\ new.state = "created"
    BY <1>2 DEF Containers
  <1>4. tagged[h] <= registry /\ tagged[h] \in Nat /\ registry \in Nat
    BY <1>2 DEF TInv, DockerOrder
  <1>5. Holds(t) /\ DockerOrder /\ OneStarts
    BY DEF TInv
  <1> HIDE DEF new
  <1>6. CASE /\ container[h].state = "running" /\ HandlerAt(t, next)
             /\ mine' = [mine EXCEPT ![t] = container[h]]
             /\ UNCHANGED <<dockervars, pulled>>
    <2>1. /\ stage' \in [Terminals -> Stages] /\ stage'[t] = next
          /\ \A u \in Terminals \ {t} : stage'[u] = stage[u] /\ mine'[u] = mine[u]
          /\ \A u \in Terminals : Tried(u)'
          /\ host' \in [Terminals -> Hosts] /\ orig' \in [Terminals -> Hosts]
          /\ not_answering' \in [Terminals -> SUBSET Hosts] /\ UNCHANGED host
          /\ mine' \in [Terminals -> Containers] /\ mine'[t] = container[h]
      BY <1>2, <1>6, HandlerFrame DEF HandlerAt
    <2>2. TerminalTypes'
      BY <1>6, <2>1 DEF TInv, TerminalTypes, TerminalTypeOK, dockervars
    <2>3. container[h].id # 0
      BY <1>2, <1>5, <1>6 DEF DockerOrder, NoContainer
    <2>4. Holds(t)'
      <3>1. stage[t] = "relaunch" => container[h].image >= pulled[t] /\ pulled[t] <= tagged[h]
        BY <1>5, <1>6 DEF Holds, Checked
      <3> QED
        BY <1>1, <1>6, <2>1, <2>3, <3>1 DEF Holds, IsMine, dockervars, Launched, Starting, Checked
    <2>5. \A u \in Terminals \ {t} : Holds(u)'
      BY <1>6, <2>1 DEF Holds, TInv, IsMine, dockervars
    <2>6. OneStarts'
      BY <1>1, <1>5, <2>1 DEF OneStarts, Starting
    <2>7. DockerOrder'
      BY <1>2, <1>5, <1>6, <2>1 DEF DockerOrder, dockervars
    <2> QED
      BY <2>1, <2>2, <2>4, <2>5, <2>6, <2>7 DEF TInv
  <1>7. CASE /\ container[h].state = "none" /\ HandlerAt(t, begin)
             /\ container' = [container EXCEPT ![h] = new] /\ created' = created + 1
             /\ mine' = [mine EXCEPT ![t] = new]
             /\ UNCHANGED <<registry, tagged, pulled>>
    <2>1. /\ stage' \in [Terminals -> Stages] /\ stage'[t] = begin
          /\ \A u \in Terminals \ {t} : stage'[u] = stage[u] /\ mine'[u] = mine[u]
          /\ \A u \in Terminals : Tried(u)' /\ host[u] \in Hosts
          /\ host' \in [Terminals -> Hosts] /\ orig' \in [Terminals -> Hosts]
          /\ not_answering' \in [Terminals -> SUBSET Hosts] /\ UNCHANGED host
          /\ mine' \in [Terminals -> Containers] /\ mine'[t] = new
          /\ container' \in [Hosts -> Containers] /\ container'[h] = new
          /\ \A g \in Hosts \ {h} : container'[g] = container[g]
      BY <1>2, <1>3, <1>7, HandlerFrame DEF HandlerAt
    <2>2. \A g \in Hosts : container'[g].id \in 0..created' /\ container'[g].image \in 0..registry'
      BY <1>2, <1>3, <1>4, <1>7, <2>1
    <2>3. TerminalTypes'
      <3>1. \A g \in Hosts : container'[g].state \in {"none", "created", "running", "dying"}
        BY <2>1 DEF Containers
      <3> QED
        BY <1>2, <1>7, <2>1, <2>2, <3>1 DEF TerminalTypes, TerminalTypeOK
    <2>4. DockerOrder'
      <3>1. \A u \in Terminals : mine'[u].id <= created' /\ mine'[u].image <= registry
        BY <1>2, <1>3, <1>4, <1>5, <1>7, <2>1 DEF DockerOrder, Containers
      <3>2. \A g \in Hosts : container'[g].id = 0 => container'[g] = NoContainer
        BY <1>2, <1>3, <1>5, <2>1 DEF DockerOrder
      <3> QED
        BY <1>5, <1>7, <3>1, <3>2 DEF DockerOrder
    <2>5. Holds(t)'
      <3>1. stage[t] = "relaunch" => pulled[t] <= tagged[h]
        BY <1>5 DEF Holds, Checked
      <3>2. IsMine(t)' /\ new.id # 0
        BY <1>2, <1>3, <2>1 DEF IsMine
      <3> QED
        BY <1>1, <1>2, <1>3, <1>7, <2>1, <3>1, <3>2 DEF Holds, Launched, Starting, Checked
    <2>6. ASSUME NEW u \in Terminals \ {t} PROVE Holds(u)' /\ (host[u] = h => stage[u] \notin Starting)
      <3>1. Holds(u) /\ mine[u].id <= created /\ mine[u].id \in Nat
        BY <1>2, <1>5 DEF TInv, DockerOrder, Containers
      <3>2. CASE host[u] # h
        <4>1. IsMine(u)' = IsMine(u) /\ container'[host[u]] = container[host[u]]
          BY <2>1, <3>2 DEF IsMine
        <4> QED
          BY <1>7, <2>1, <3>1, <3>2, <4>1 DEF Holds
      <3>3. CASE host[u] = h
        <4>1. ~ IsMine(u)'
          BY <1>2, <1>3, <2>1, <3>1, <3>3 DEF IsMine
        <4>2. stage[u] \notin Starting
          BY <1>7, <3>1, <3>3 DEF Holds
        <4>3. stage[u] \in Checked => pulled[u] <= new.image
          BY <1>3, <3>1, <3>3 DEF Holds
        <4>4. stage[u] \in {"wait", "relaunch"} => new.image >= pulled[u]
          BY <1>2, <1>3, <1>4, <4>3 DEF Checked
        <4> QED
          BY <1>7, <2>1, <3>1, <3>3, <4>1, <4>2, <4>4 DEF Holds
      <3> QED
        BY <3>2, <3>3
    <2>7. OneStarts'
      <3>1. \A u \in Terminals \ {t} : host'[u] = host'[t] => stage'[u] \notin Starting
        BY <2>1, <2>6
      <3> QED
        BY <1>5, <2>1, <3>1 DEF OneStarts
    <2> QED
      BY <2>1, <2>3, <2>4, <2>5, <2>6, <2>7 DEF TInv
  <1> QED
    BY <1>1, <1>6, <1>7
(* The state of a container changes, and who it belongs to does not.       *)
LEMMA ContainerTypes ==
  ASSUME TInv, NEW h \in Hosts, NEW c \in Containers, container' = [container EXCEPT ![h] = c],
         UNCHANGED <<registry, tagged, created, mine, pulled>>,
         stage' \in [Terminals -> Stages], host' \in [Terminals -> Hosts],
         orig' \in [Terminals -> Hosts], not_answering' \in [Terminals -> SUBSET Hosts],
         c = NoContainer \/ (c.id = container[h].id /\ c.image = container[h].image /\ c.id # 0)
  PROVE  TerminalTypes' /\ DockerOrder'
  <1>1. /\ container \in [Hosts -> Containers] /\ registry \in 0..MaxPushes /\ created \in Nat
        /\ \A g \in Hosts : /\ container[g].id \in 0..created
                            /\ container[g].image \in 0..registry
                            /\ container[g].state \in {"none", "created", "running", "dying"}
    BY DEF TInv, TerminalTypes, TerminalTypeOK
  <1>2. /\ container' \in [Hosts -> Containers] /\ container'[h] = c
        /\ \A g \in Hosts \ {h} : container'[g] = container[g]
    BY <1>1
  <1>3. registry \in Nat
    BY <1>1, TerminalAssumption
  <1>4. /\ c.id \in 0..created /\ c.image \in 0..registry
        /\ c.state \in {"none", "created", "running", "dying"}
    BY <1>1, <1>3 DEF Containers, NoContainer
  <1>5. TerminalTypes'
    <2>1. \A g \in Hosts : /\ container'[g].id \in 0..created'
                          /\ container'[g].image \in 0..registry'
                          /\ container'[g].state \in {"none", "created", "running", "dying"}
      BY <1>1, <1>2, <1>4
    <2> QED
      BY <1>2, <2>1 DEF TInv, TerminalTypes, TerminalTypeOK
  <1>6. DockerOrder'
    BY <1>2 DEF TInv, DockerOrder
  <1> QED
    BY <1>5, <1>6

(* Only the session that created a container starts it.                    *)
LEMMA RunStartsKeeps ==
  ASSUME TInv, NEW t \in Terminals, run_starts(t)
  PROVE  TInv'
  <1> DEFINE h == host[t]
             c == [container[h] EXCEPT !.state = "running"]
  <1>1. PICK to \in {"pull", "exec"} :
          /\ HandlerAt(t, to) /\ stage[t] = IF to = "pull" THEN "starting" ELSE "restarting"
          /\ container' = [container EXCEPT ![h] = c]
          /\ UNCHANGED <<registry, tagged, created, mine, pulled>>
    BY DEF run_starts, Step, Goes, HandlerAt, Stages
  <1>2. /\ stage' \in [Terminals -> Stages] /\ stage'[t] = to
        /\ \A u \in Terminals \ {t} : stage'[u] = stage[u]
        /\ \A u \in Terminals : Tried(u)' /\ host[u] \in Hosts
        /\ host' \in [Terminals -> Hosts] /\ orig' \in [Terminals -> Hosts]
        /\ not_answering' \in [Terminals -> SUBSET Hosts] /\ UNCHANGED host
    BY <1>1, HandlerFrame DEF HandlerAt
  <1>3. /\ container \in [Hosts -> Containers] /\ container[h] \in Containers
        /\ mine[t] \in Containers /\ pulled[t] \in Nat
    BY <1>2 DEF TInv, TerminalTypes
  <1>4. /\ c \in Containers /\ c.id = container[h].id /\ c.image = container[h].image
        /\ c.state = "running"
    BY <1>3 DEF Containers
  <1>5. Holds(t) /\ stage[t] \in Starting /\ IsMine(t) /\ container[h].state = "created" /\ mine[t].id # 0
    BY <1>1 DEF TInv, Holds, Starting, Launched, Checked
  <1> HIDE DEF c
  <1>6. TerminalTypes' /\ DockerOrder'
    BY <1>1, <1>2, <1>4, <1>5, ContainerTypes DEF IsMine
  <1>7. \A g \in Hosts : container'[g] = IF g = h THEN c ELSE container[g]
    BY <1>1, <1>3
  <1>8. \A u \in Terminals : IsMine(u)' = IsMine(u)
    BY <1>1, <1>2, <1>4, <1>7 DEF IsMine
  <1>9. Holds(t)'
    BY <1>1, <1>2, <1>4, <1>5, <1>7, <1>8 DEF Holds, Launched, Starting, Checked
  <1>10. ASSUME NEW u \in Terminals \ {t} PROVE Holds(u)'
    <2>1. Holds(u)
      BY DEF TInv
    <2>2. stage[u] \in Starting => host[u] # h
      BY <1>5 DEF TInv, OneStarts
    <2> QED
      BY <1>1, <1>2, <1>4, <1>5, <1>7, <1>8, <2>1, <2>2 DEF Holds
  <1>11. OneStarts'
    BY <1>1, <1>2 DEF TInv, OneStarts, Starting
  <1> QED
    BY <1>2, <1>6, <1>9, <1>10, <1>11 DEF TInv

LEMMA PullKeeps ==
  ASSUME TInv, NEW t \in Terminals, pull(t)
  PROVE  TInv'
  <1>1. /\ HandlerAt(t, "check") /\ stage[t] = "pull"
        /\ pulled' = [pulled EXCEPT ![t] = registry]
        /\ tagged' = [tagged EXCEPT ![host[t]] = registry]
        /\ UNCHANGED <<registry, container, created, mine>>
    BY DEF pull, Step, Goes, HandlerAt, Stages
  <1>2. /\ stage' \in [Terminals -> Stages] /\ stage'[t] = "check"
        /\ \A u \in Terminals \ {t} : stage'[u] = stage[u]
        /\ \A u \in Terminals : Tried(u)' /\ host[u] \in Hosts
        /\ host' \in [Terminals -> Hosts] /\ orig' \in [Terminals -> Hosts]
        /\ not_answering' \in [Terminals -> SUBSET Hosts] /\ UNCHANGED host
    BY <1>1, HandlerFrame DEF HandlerAt
  <1>3. /\ registry \in 0..MaxPushes /\ tagged \in [Hosts -> 0..MaxPushes]
        /\ pulled \in [Terminals -> Nat] /\ registry \in Nat
    BY TerminalAssumption DEF TInv, TerminalTypes, TerminalTypeOK
  <1>4. /\ tagged' \in [Hosts -> 0..MaxPushes] /\ pulled' \in [Terminals -> Nat]
        /\ \A h \in Hosts : tagged'[h] \in {tagged[h], registry} /\ tagged'[h] <= registry
                            /\ tagged[h] <= tagged'[h]
        /\ tagged'[host[t]] = registry /\ pulled'[t] = registry
        /\ \A u \in Terminals \ {t} : pulled'[u] = pulled[u]
    BY <1>1, <1>2, <1>3 DEF TInv, DockerOrder
  <1>5. TerminalTypes'
    BY <1>1, <1>2, <1>4 DEF TInv, TerminalTypes, TerminalTypeOK
  <1>6. DockerOrder'
    BY <1>1, <1>3, <1>4 DEF TInv, DockerOrder
  <1>7. \A u \in Terminals : IsMine(u)' = IsMine(u)
    BY <1>1, <1>2 DEF IsMine
  <1>8. Holds(t)'
    <2>1. Holds(t) /\ mine[t].image <= registry
      BY DEF TInv, DockerOrder
    <2> QED
      BY <1>1, <1>2, <1>3, <1>4, <1>7, <2>1 DEF Holds, Launched, Starting, Checked
  <1>9. ASSUME NEW u \in Terminals \ {t} PROVE Holds(u)'
    <2>1. pulled[u] \in Nat /\ tagged[host[u]] \in Nat /\ tagged'[host[u]] \in Nat
      BY <1>2, <1>3, <1>4
    <2>2. Holds(u)
      BY DEF TInv
    <2>3. pulled[u] <= tagged[host[u]] => pulled[u] <= tagged'[host[u]]
      BY <1>2, <1>4, <2>1
    <2> QED
      BY <1>1, <1>2, <1>4, <1>7, <2>2, <2>3 DEF Holds
  <1>10. OneStarts'
    BY <1>1, <1>2 DEF TInv, OneStarts, Starting
  <1> QED
    BY <1>2, <1>5, <1>6, <1>8, <1>9, <1>10 DEF TInv

(* A container that goes: nobody is about to start it.                     *)
LEMMA GoingKeeps ==
  ASSUME TInv, NEW h \in Hosts, NEW c \in Containers, container' = [container EXCEPT ![h] = c],
         UNCHANGED <<registry, tagged, created, mine, pulled, host>>,
         \/ c = NoContainer
         \/ c.id = container[h].id /\ c.image = container[h].image /\ c.id # 0 /\ c.state = "dying",
         container[h].state # "created", NEW u \in Terminals, stage'[u] = stage[u]
  PROVE  Holds(u)'
  <1>1. container \in [Hosts -> Containers] /\ host[u] \in Hosts
    BY DEF TInv, TerminalTypes, TerminalTypeOK
  <1>2. Holds(u)
    BY DEF TInv
  <1>3. CASE host[u] # h
    <2>1. container'[host[u]] = container[host[u]]
      BY <1>1, <1>3
    <2> QED
      BY <1>2, <2>1 DEF Holds, IsMine
  <1>4. CASE host[u] = h
    <2>1. container'[h] = c /\ stage[u] \notin Starting
      BY <1>1, <1>2, <1>4 DEF Holds
    <2>2. c.state \in {"none", "dying"} /\ (c.id # 0 => c.id = container[h].id /\ c.image = container[h].image)
      BY DEF NoContainer
    <2> QED
      BY <1>2, <1>4, <2>1, <2>2 DEF Holds, IsMine
  <1> QED
    BY <1>3, <1>4

LEMMA CheckKeeps ==
  ASSUME TInv, NEW t \in Terminals, check(t)
  PROVE  TInv'
  <1> DEFINE h == host[t]
             c == [container[h] EXCEPT !.state = "dying"]
  <1>1. CASE up_to_date(t)
    <2>1. HandlerAt(t, "exec") /\ stage[t] = "check" /\ UNCHANGED <<dockervars, mine, pulled>>
      BY <1>1 DEF check, Step, Goes, HandlerAt, Stages, dockervars
    <2> QED
      BY <1>1, <2>1, QuietHandlerKeeps
  <1>2. CASE ~up_to_date(t) /\ ~IsMine(t)
    <2>1. HandlerAt(t, "ended") /\ UNCHANGED <<dockervars, mine, pulled>>
      BY <1>2 DEF check, Return, Step, Goes, HandlerAt, Stages, dockervars
    <2> QED
      BY <2>1, QuietHandlerKeeps
  <1>3. CASE ~up_to_date(t) /\ IsMine(t)
    <2>1. /\ HandlerAt(t, "wait") /\ stage[t] = "check" /\ container' = [container EXCEPT ![h] = c]
          /\ UNCHANGED <<registry, tagged, created, mine, pulled>>
      BY <1>3 DEF check, Step, Goes, HandlerAt, Stages
    <2>2. /\ stage' \in [Terminals -> Stages] /\ stage'[t] = "wait"
          /\ \A u \in Terminals \ {t} : stage'[u] = stage[u]
          /\ \A u \in Terminals : Tried(u)' /\ host[u] \in Hosts
          /\ host' \in [Terminals -> Hosts] /\ orig' \in [Terminals -> Hosts]
          /\ not_answering' \in [Terminals -> SUBSET Hosts] /\ UNCHANGED host
      BY <2>1, HandlerFrame DEF HandlerAt
    <2>3. container \in [Hosts -> Containers] /\ container[h] \in Containers
      BY <2>2 DEF TInv, TerminalTypes
    <2>4. /\ c \in Containers /\ c.id = container[h].id /\ c.image = container[h].image
          /\ c.state = "dying"
      BY <2>3 DEF Containers
    <2>5. Holds(t) /\ mine[t].id # 0 /\ container[h].state # "created" /\ c.id # 0
      BY <1>3, <2>1, <2>4 DEF TInv, Holds, IsMine, Launched, Starting, Checked
    <2> HIDE DEF c
    <2>6. TerminalTypes' /\ DockerOrder'
      BY <2>1, <2>2, <2>4, <2>5, ContainerTypes
    <2>7. \A u \in Terminals \ {t} : Holds(u)'
      BY <2>1, <2>2, <2>4, <2>5, GoingKeeps
    <2>8. container'[h] = c
      BY <2>1, <2>2, <2>3
    <2>9. Holds(t)'
      BY <2>1, <2>2, <2>4, <2>5, <2>8 DEF Holds, IsMine, Launched, Starting, Checked
    <2>10. OneStarts'
      BY <2>1, <2>2 DEF TInv, OneStarts, Starting
    <2> QED
      BY <2>2, <2>6, <2>7, <2>9, <2>10 DEF TInv
  <1> QED
    BY <1>1, <1>2, <1>3

LEMMA DockerKeeps ==
  ASSUME TInv, Push \/ \E h \in Hosts : RemoveContainer(h) \/ Expire(h)
  PROVE  TInv'
  <1>1. /\ stage \in [Terminals -> Stages] /\ host \in [Terminals -> Hosts]
        /\ orig \in [Terminals -> Hosts] /\ not_answering \in [Terminals -> SUBSET Hosts]
        /\ container \in [Hosts -> Containers]
    BY DEF TInv, TerminalTypes, TerminalTypeOK
  <1>2. UNCHANGED <<tagged, created, stage, host, orig, not_answering, mine, pulled>>
    BY DEF Push, RemoveContainer, Expire, sessionvars
  <1>3. (\A t \in Terminals : Tried(t)') /\ OneStarts'
    BY <1>2 DEF TInv, Tried, OneStarts
  <1>4. CASE Push
    <2>1. registry' = registry + 1 /\ UNCHANGED container /\ registry < MaxPushes
      BY <1>4 DEF Push
    <2>2. registry \in 0..MaxPushes /\ MaxPushes \in Nat
      BY TerminalAssumption DEF TInv, TerminalTypes, TerminalTypeOK
    <2>3. registry' \in 0..MaxPushes /\ 0..registry \subseteq 0..registry'
      BY <2>1, <2>2
    <2>4. TerminalTypes'
      BY <1>2, <2>1, <2>3 DEF TInv, TerminalTypes, TerminalTypeOK
    <2>5. DockerOrder'
      <3>1. tagged \in [Hosts -> 0..MaxPushes] /\ mine \in [Terminals -> Containers] /\ pulled \in [Terminals -> Nat]
        BY DEF TInv, TerminalTypes, TerminalTypeOK
      <3>2. \A n \in Nat : n <= registry => n <= registry'
        BY <2>1, <2>2
      <3> QED
        BY <1>2, <2>1, <2>2, <3>1, <3>2 DEF TInv, DockerOrder, Containers
    <2>6. \A t \in Terminals : Holds(t)'
      BY <1>2, <2>1 DEF TInv, Holds, IsMine
    <2> QED
      BY <1>3, <2>4, <2>5, <2>6 DEF TInv
  <1>5. ASSUME NEW h \in Hosts, RemoveContainer(h) \/ Expire(h) PROVE TInv'
    <2> DEFINE d == [container[h] EXCEPT !.state = "dying"]
               c == IF RemoveContainer(h) THEN NoContainer ELSE d
    <2>1. d \in Containers /\ d.id = container[h].id /\ d.image = container[h].image /\ d.state = "dying"
      BY <1>1 DEF Containers
    <2>2. container[h].state \in {"dying", "running"}
      BY <1>5 DEF RemoveContainer, Expire
    <2>3. container[h].id # 0
      BY <2>2 DEF TInv, DockerOrder, NoContainer
    <2>4. /\ container' = [container EXCEPT ![h] = c] /\ UNCHANGED registry /\ c \in Containers
          /\ \/ c = NoContainer
             \/ c.id = container[h].id /\ c.image = container[h].image /\ c.id # 0 /\ c.state = "dying"
      BY <1>5, <2>1, <2>3 DEF RemoveContainer, Expire, Containers, NoContainer
    <2> HIDE DEF c
    <2>5. TerminalTypes' /\ DockerOrder'
      BY <1>1, <1>2, <2>4, ContainerTypes
    <2>6. \A t \in Terminals : Holds(t)'
      BY <1>2, <2>2, <2>4, GoingKeeps
    <2> QED
      BY <1>3, <2>5, <2>6 DEF TInv
  <1> QED
    BY <1>4, <1>5

LEMMA TerminalStep == TInv /\ [TerminalNext]_terminalvars => TInv'
  <1> SUFFICES ASSUME TInv, [TerminalNext]_terminalvars PROVE TInv'
    OBVIOUS
  <1>1. CASE TerminalNext
    BY <1>1, ConsumerKeeps, QuietKeeps, LaunchKeeps, RunStartsKeeps, PullKeeps, CheckKeeps, DockerKeeps
       DEF TerminalNext, HandlerStep
  <1>2. CASE UNCHANGED terminalvars
    BY <1>2 DEF terminalvars, dockervars, sessionvars, TInv, TerminalTypes, TerminalTypeOK, DockerOrder,
       OneStarts, Tried, Holds, IsMine
  <1> QED
    BY <1>1, <1>2

(* Terminals keep what each session knows of its container.                *)
THEOREM TerminalInvariant == TerminalSpec => []TInv
  BY TerminalInitial, TerminalStep, PTL DEF TerminalSpec

(* A shell that opens runs in a container no older than the image that its *)
(* session pulled, however the sessions of the site interleave and replace *)
(* each other's container.                                                 *)
THEOREM ShellsAreFresh == TerminalSpec => []FreshImage
  <1>1. TInv => FreshImage
    BY DEF TInv, Holds, FreshImage
  <1> QED
    BY <1>1, TerminalInvariant, PTL

(* The consumer gives up only when it has tried every appserver, for any   *)
(* number of them and whichever it began with.                             *)
THEOREM AllRefused == TerminalSpec => []RefusedByAll
  <1>1. TInv => RefusedByAll
    BY DEF TInv, Tried, RefusedByAll
  <1> QED
    BY <1>1, TerminalInvariant, PTL

(* A session that is attached loses its container to another session only  *)
(* if a newer image was pushed after the container was created.            *)
THEOREM OnlyNewerImagesCut == TerminalSpec => OnlyPushesCut
  <1> DEFINE Cut == \A h \in Hosts : \A t \in Terminals :
               /\ stage[t] = "attached" /\ host[t] = h /\ mine[t].id = container[h].id
               /\ container[h].state = "running" /\ container'[h].state = "dying"
               => container[h].image < registry
  <1>1. TInv /\ [TerminalNext]_terminalvars => [Cut]_terminalvars
    <2> SUFFICES ASSUME TInv, TerminalNext, NEW h \in Hosts, NEW t \in Terminals,
                        stage[t] = "attached", host[t] = h, container[h].state = "running",
                        container'[h].state = "dying"
                 PROVE  container[h].image < registry
      OBVIOUS
    <2>1. container \in [Hosts -> Containers] /\ registry \in Nat /\ pulled \in [Terminals -> Nat]
          /\ mine \in [Terminals -> Containers] /\ host \in [Terminals -> Hosts]
      BY TerminalAssumption DEF TInv, TerminalTypes, TerminalTypeOK
    <2>2. \E u \in Terminals : check(u) /\ container'[h] # container[h]
      <3>1. ASSUME NEW u \in Terminals, ~check(u),
                   \/ connect(u) \/ open_fails(u) \/ open_succeeds(u) \/ disconnect(u)
                   \/ HandlerStep(u) \/ load_token_fails(u) \/ run_fails(u) \/ mainloop_ends(u)
            PROVE  container'[h].state # "dying"
        <4>1. CASE UNCHANGED container
          BY <4>1
        <4>2. CASE launch(u) \/ relaunch(u)
          BY <2>1, <4>2 DEF launch, relaunch, _launch_container, dockervars
        <4>3. CASE run_starts(u)
          BY <2>1, <4>3 DEF run_starts
        <4> QED
          BY <3>1, <4>1, <4>2, <4>3 DEF connect, open_fails, open_succeeds, disconnect, HandlerStep,
             load_token_fails, run_fails, mainloop_ends, web_terminal_ends, ssh_shell_ends,
             web_terminal_handler, ssh_shell_handler, Params, pull, wait, exec, dockervars
      <3>2. ~ Push /\ \A g \in Hosts : ~ RemoveContainer(g) /\ ~ Expire(g)
        BY <2>1 DEF Push, RemoveContainer, Expire, NoContainer
      <3> QED
        BY <3>1, <3>2 DEF TerminalNext
    <2>3. PICK u \in Terminals : check(u) /\ container'[h] # container[h]
      BY <2>2
    <2>4. host[u] = h /\ IsMine(u) /\ stage[u] = "check" /\ mine[u].image # pulled[u]
      BY <2>1, <2>3 DEF check, up_to_date, Step, Goes
    <2>5. container[h].image = mine[u].image /\ mine[u].image <= pulled[u] /\ pulled[u] <= registry
      BY <2>4 DEF TInv, Holds, DockerOrder, Launched, Checked
    <2>6. mine[u].image \in Nat /\ pulled[u] \in Nat
      BY <2>1 DEF Containers
    <2> QED
      BY <2>1, <2>4, <2>5, <2>6
  <1> QED
    BY <1>1, TerminalInvariant, PTL DEF TerminalSpec, OnlyPushesCut

-----------------------------------------------------------------------------
(* The log of a site *)

Increasing(s) == \A i, j \in 1..Len(s) : i < j => s[i] < s[j]
UpTo(s, n) == \A i \in 1..Len(s) : s[i] <= n

(* From the first line of s to line n each is in s, or is one of lines.    *)
Covers(s, n, lines) ==
  Len(s) > 0 => \A m \in s[1]..n : m \in lines \/ \E i \in 1..Len(s) : s[i] = m

(* What was sent to the page, and how far its follower has read.           *)
Sent == logDiv \o channel
ReadUpTo == position - Len(pipe)

LogTypes ==
  /\ logged \in 0..MaxLines /\ position \in 0..logged /\ since_time \in 0..logged
  /\ proc \in {"none", "running", "terminated"}
  /\ follower \in {"off", "reading", "stopping", "draining", "starting"}
  /\ follower = "off" <=> logs_websock # "open"
  /\ stopped \in BOOLEAN /\ attempt \in 0..NumLogHosts
  /\ pipe \in Seq(1..logged) /\ channel \in Seq(1..logged) /\ logDiv \in Seq(1..logged)

(* The process prints one line after the other, and nothing that was sent  *)
(* is newer than the time a restart begins at.                             *)
Following ==
  /\ Len(pipe) <= position
  /\ \A i \in 1..Len(pipe) : pipe[i] = ReadUpTo + i
  /\ UpTo(Sent, ReadUpTo) /\ Covers(Sent, ReadUpTo, dropped)
  /\ follower \in {"draining", "starting"} => stopped
  /\ follower \in {"stopping", "draining", "starting"} => ReadUpTo <= since_time

LInv ==
  /\ LogTypes
  /\ Increasing(Sent) /\ (Len(Sent) > 0 => Covers(Sent, Sent[Len(Sent)], dropped))
  /\ follower # "off" => Following

(* A line moves from the front of one queue to the end of another.         *)
LEMMA LinePasses ==
  ASSUME NEW S, NEW s \in Seq(S), NEW t \in Seq(S), t # <<>>
  PROVE  /\ Append(s, Head(t)) \in Seq(S) /\ Tail(t) \in Seq(S) /\ Head(t) = t[1] /\ Head(t) \in S
         /\ Len(t) \in Nat \ {0} /\ Len(Tail(t)) = Len(t) - 1
         /\ \A i \in 1 .. Len(t) - 1 : Tail(t)[i] = t[i + 1]
         /\ Append(s, Head(t)) \o Tail(t) = s \o t
  <1>1. /\ Tail(t) \in Seq(S) /\ Len(Tail(t)) = Len(t) - 1
        /\ \A i \in 1 .. Len(t) - 1 : Tail(t)[i] = t[i + 1]
        /\ Len(t) \in Nat \ {0} /\ Len(s) \in Nat
    BY HeadTailProperties, EmptySeq, LenProperties
  <1>2. Head(t) = t[1] /\ Head(t) \in S
    BY <1>1, HeadTailProperties
  <1>3. /\ Append(s, Head(t)) \in Seq(S) /\ Len(Append(s, Head(t))) = Len(s) + 1
        /\ \A i \in 1..Len(s) : Append(s, Head(t))[i] = s[i]
        /\ Append(s, Head(t))[Len(s) + 1] = t[1]
    BY <1>2, AppendProperties
  <1> DEFINE a == Append(s, Head(t))
             b == Tail(t)
  <1>4. /\ a \in Seq(S) /\ Len(a) = Len(s) + 1 /\ a[Len(s) + 1] = t[1]
        /\ \A i \in 1..Len(s) : a[i] = s[i]
        /\ b \in Seq(S) /\ Len(b) = Len(t) - 1 /\ \A i \in 1 .. Len(t) - 1 : b[i] = t[i + 1]
    BY <1>1, <1>3
  <1> HIDE DEF a, b
  <1>5. /\ a \o b \in Seq(S) /\ Len(a \o b) = Len(s) + Len(t)
        /\ \A i \in 1 .. Len(s) + Len(t) :
             (a \o b)[i] = IF i <= Len(s) + 1 THEN a[i] ELSE b[i - (Len(s) + 1)]
    <2>1. /\ a \o b \in Seq(S) /\ Len(a \o b) = Len(a) + Len(b)
          /\ \A i \in 1 .. Len(a) + Len(b) : (a \o b)[i] = IF i <= Len(a) THEN a[i] ELSE b[i - Len(a)]
      BY <1>4, ConcatProperties
    <2>2. Len(a) + Len(b) = Len(s) + Len(t)
      BY <1>1, <1>4
    <2> QED
      BY <1>4, <2>1, <2>2
  <1>6. /\ s \o t \in Seq(S) /\ Len(s \o t) = Len(s) + Len(t)
        /\ \A i \in 1 .. Len(s) + Len(t) : (s \o t)[i] = IF i <= Len(s) THEN s[i] ELSE t[i - Len(s)]
    BY ConcatProperties
  <1>7. ASSUME NEW i \in 1 .. Len(s) + Len(t) PROVE (a \o b)[i] = (s \o t)[i]
    <2>1. CASE i <= Len(s)
      BY <1>1, <1>4, <1>5, <1>6, <2>1
    <2>2. CASE i = Len(s) + 1
      BY <1>1, <1>4, <1>5, <1>6, <2>2
    <2>3. CASE i > Len(s) + 1
      <3>1. i - (Len(s) + 1) \in 1 .. Len(t) - 1 /\ i - (Len(s) + 1) + 1 = i - Len(s)
        BY <1>1, <2>3
      <3>2. b[i - (Len(s) + 1)] = t[i - Len(s)]
        BY <1>4, <3>1
      <3> QED
        BY <1>1, <1>5, <1>6, <2>3, <3>2
    <2>4. i <= Len(s) \/ i = Len(s) + 1 \/ i > Len(s) + 1
      BY <1>1
    <2> QED
      BY ONLY <2>1, <2>2, <2>3, <2>4
  <1>8. a \o b = s \o t
    BY <1>5, <1>6, <1>7, SeqEqual
  <1> QED
    BY <1>1, <1>2, <1>3, <1>8 DEF a, b

LEMMA AppendToSecond ==
  ASSUME NEW S, NEW s \in Seq(S), NEW t \in Seq(S), NEW e \in S
  PROVE  s \o Append(t, e) = Append(s \o t, e)
  <1>1. <<e>> \in Seq(S)
    OBVIOUS
  <1>2. Append(t, e) = t \o <<e>>
    BY AppendIsConcat
  <1>3. Append(s \o t, e) = (s \o t) \o <<e>>
    BY ConcatProperties, AppendIsConcat
  <1> QED
    BY <1>1, <1>2, <1>3, ConcatAssociative

(* The next line after those that were sent.                               *)
LEMMA NextLine ==
  ASSUME NEW s \in Seq(Nat), NEW n \in Nat, NEW lines,
         Increasing(s), UpTo(s, n), Covers(s, n, lines)
  PROVE  LET t == Append(s, n + 1)
         IN  /\ t \in Seq(Nat) /\ Len(t) = Len(s) + 1 /\ t[Len(t)] = n + 1
             /\ Increasing(t) /\ UpTo(t, n + 1) /\ Covers(t, n + 1, lines)
  <1> DEFINE t == Append(s, n + 1)
  <1>1. /\ t \in Seq(Nat) /\ Len(t) = Len(s) + 1 /\ t[Len(s) + 1] = n + 1
        /\ \A i \in 1..Len(s) : t[i] = s[i]
        /\ Len(s) \in Nat /\ \A i \in 1..Len(s) : s[i] \in Nat
    BY AppendProperties, LenProperties, ElementOfSeq
  <1> HIDE DEF t
  <1>2. Increasing(t) /\ UpTo(t, n + 1)
    <2>1. \A i \in 1..Len(s) : s[i] <= n
      BY DEF UpTo
    <2>2. ASSUME NEW i \in 1..Len(t) PROVE t[i] \in Nat /\ t[i] <= n + 1
      BY <1>1, <2>1
    <2>3. ASSUME NEW i \in 1..Len(t), NEW j \in 1..Len(t), i < j PROVE t[i] < t[j]
      <3>1. i \in 1..Len(s)
        BY <1>1, <2>3
      <3>2. CASE j \in 1..Len(s)
        BY <1>1, <2>3, <3>1, <3>2 DEF Increasing
      <3>3. CASE j \notin 1..Len(s)
        <4>1. Len(t) = Len(s) + 1 /\ Len(s) \in Nat
          BY <1>1
        <4>2. j = Len(s) + 1
          BY ONLY <3>3, <4>1, j \in 1..Len(t)
        <4>3. t[i] = s[i] /\ s[i] <= n /\ s[i] \in Nat /\ t[j] = n + 1
          BY <1>1, <2>1, <3>1, <4>2
        <4> QED
          BY ONLY <4>3, n \in Nat
      <3> QED
        BY <3>2, <3>3
    <2> QED
      BY <2>2, <2>3 DEF Increasing, UpTo
  <1>3. Covers(t, n + 1, lines)
    <2> SUFFICES ASSUME NEW m \in t[1]..(n + 1), m \notin lines
                 PROVE  \E i \in 1..Len(t) : t[i] = m
      BY <1>1 DEF Covers
    <2>1. CASE m = n + 1
      BY <1>1, <2>1
    <2>2. CASE m # n + 1
      <3>1. Len(s) > 0
        BY <1>1, <2>2
      <3>2. m \in s[1]..n
        <4>1. 1 \in 1..Len(s)
          BY <1>1, <3>1
        <4>2. t[1] = s[1] /\ s[1] \in Nat
          BY <1>1, <4>1
        <4> QED
          BY ONLY <2>2, <4>2, n \in Nat, m \in t[1]..(n + 1)
      <3>3. PICK i \in 1..Len(s) : s[i] = m
        BY <3>1, <3>2 DEF Covers
      <3> QED
        BY <1>1, <3>3
    <2> QED
      BY <2>1, <2>2
  <1> QED
    BY <1>1, <1>2, <1>3 DEF t

(* What is lost with a connection is what came last.                       *)
LEMMA FirstLines ==
  ASSUME NEW s \in Seq(Nat), NEW t \in Seq(Nat), NEW lines, Increasing(s \o t),
         Len(s \o t) > 0 => Covers(s \o t, (s \o t)[Len(s \o t)], lines)
  PROVE  Increasing(s) /\ (Len(s) > 0 => Covers(s, s[Len(s)], lines))
  <1> DEFINE u == s \o t
  <1>1. /\ u \in Seq(Nat) /\ Len(u) = Len(s) + Len(t) /\ Len(s) \in Nat /\ Len(t) \in Nat
        /\ \A i \in 1..Len(s) : u[i] = s[i] /\ s[i] \in Nat
        /\ \A i \in 1..Len(u) : u[i] \in Nat
    <2>1. /\ u \in Seq(Nat) /\ Len(u) = Len(s) + Len(t) /\ Len(s) \in Nat /\ Len(t) \in Nat
          /\ \A i \in 1..Len(s) + Len(t) : u[i] = IF i <= Len(s) THEN s[i] ELSE t[i - Len(s)]
      BY ConcatProperties, LenProperties
    <2> HIDE DEF u
    <2>2. \A i \in 1..Len(s) : s[i] \in Nat
      BY ElementOfSeq
    <2>3. \A i \in 1..Len(u) : u[i] \in Nat
      BY <2>1, ElementOfSeq
    <2>4. \A i \in 1..Len(s) : i \in 1..Len(s) + Len(t) /\ i <= Len(s)
      BY <2>1
    <2> QED
      BY <2>1, <2>2, <2>3, <2>4
  <1> HIDE DEF u
  <1>2. Increasing(u) /\ (Len(u) > 0 => Covers(u, u[Len(u)], lines))
    BY DEF u
  <1>3. Increasing(s)
    BY <1>1, <1>2 DEF Increasing
  <1>4. ASSUME Len(s) > 0 PROVE Covers(s, s[Len(s)], lines)
    <2> SUFFICES ASSUME NEW m \in s[1]..s[Len(s)], m \notin lines
                 PROVE  \E i \in 1..Len(s) : s[i] = m
      BY DEF Covers
    <2>1. s[Len(s)] = u[Len(s)] /\ u[Len(s)] <= u[Len(u)] /\ u[1] = s[1]
      <3>1. Len(s) \in 1..Len(u) /\ Len(u) \in 1..Len(u) /\ 1 \in 1..Len(s)
        BY <1>1, <1>4
      <3>2. Len(s) = Len(u) \/ Len(s) < Len(u)
        BY <1>1
      <3>3. u[Len(s)] \in Nat /\ u[Len(u)] \in Nat
        BY <1>1, <3>1
      <3>4. u[Len(s)] <= u[Len(u)]
        <4>1. CASE Len(s) = Len(u)
          BY <3>3, <4>1
        <4>2. CASE Len(s) < Len(u)
          <5>1. u[Len(s)] < u[Len(u)]
            BY <1>2, <3>1, <4>2 DEF Increasing
          <5> QED
            BY <3>3, <5>1
        <4> QED
          BY <3>2, <4>1, <4>2
      <3>5. Len(s) \in 1..Len(s)
        BY <1>1, <1>4
      <3>6. \A i \in 1..Len(s) : u[i] = s[i]
        BY <1>1
      <3>7. u[1] = s[1] /\ u[Len(s)] = s[Len(s)]
        BY ONLY <3>1, <3>5, <3>6
      <3> QED
        BY ONLY <3>4, <3>7
    <2>2. m \in u[1]..u[Len(u)] /\ m \in Nat
      BY <1>1, <1>4, <2>1
    <2>3. PICK i \in 1..Len(u) : u[i] = m
      BY <1>1, <1>2, <1>4, <2>2 DEF Covers
    <2>4. ~ (i > Len(s))
      <3> SUFFICES ASSUME i > Len(s) PROVE FALSE
        OBVIOUS
      <3>1. Len(s) \in 1..Len(u) /\ Len(s) \in 1..Len(s) /\ Len(s) < i
        <4>1. Len(s) \in Nat /\ Len(t) \in Nat /\ Len(u) = Len(s) + Len(t) /\ i \in Nat
          BY <1>1
        <4> QED
          BY ONLY <1>4, <4>1, i > Len(s)
      <3>2. u[Len(s)] < u[i]
        BY <1>2, <3>1 DEF Increasing
      <3>3. u[Len(s)] = s[Len(s)] /\ s[Len(s)] \in Nat /\ u[i] = m
        BY <1>1, <2>3, <3>1
      <3>4. s[1] \in Nat /\ m \in s[1]..s[Len(s)]
        BY <1>1, <1>4
      <3> QED
        BY ONLY <3>2, <3>3, <3>4
    <2>5. i \in 1..Len(s)
      BY <1>1, <2>4
    <2> QED
      BY <1>1, <2>3, <2>5
  <1> QED
    BY <1>3, <1>4
LEMMA LogInitial == FollowInit => LInv
  <1> SUFFICES ASSUME FollowInit PROVE LInv
    OBVIOUS
  <1>1. <<>> \in Seq(1..logged) /\ <<>> \in Seq(Nat) /\ Len(<<>>) = 0
    BY EmptySeq
  <1>2. LogTypes
    BY <1>1, FollowerAssumption DEF FollowInit, LogTypes
  <1>3. Sent = <<>>
    BY <1>1, ConcatEmptySeq DEF FollowInit, Sent
  <1> QED
    BY <1>1, <1>2, <1>3 DEF FollowInit, LInv, Increasing

LEMMA LogParts ==
  ASSUME LInv
  PROVE  /\ LogTypes /\ Sent \in Seq(Nat) /\ logged \in Nat /\ position \in Nat /\ position <= logged
         /\ logDiv \in Seq(Nat) /\ channel \in Seq(Nat)
         /\ Len(pipe) \in Nat /\ Sent \in Seq(1..logged)
         /\ follower # "off" => Following /\ ReadUpTo \in Nat
  <1>1. LogTypes /\ logged \in Nat /\ position \in Nat /\ position <= logged
    BY FollowerAssumption DEF LInv, LogTypes
  <1>2. 1..logged \subseteq Nat /\ logDiv \in Seq(1..logged) /\ channel \in Seq(1..logged)
        /\ pipe \in Seq(1..logged)
    BY <1>1 DEF LogTypes
  <1>3. logDiv \in Seq(Nat) /\ channel \in Seq(Nat) /\ pipe \in Seq(Nat)
    BY <1>2, SeqMonotonic
  <1>4. Sent \in Seq(Nat) /\ Sent \in Seq(1..logged) /\ Len(pipe) \in Nat
    BY <1>2, <1>3, ConcatProperties, LenProperties DEF Sent
  <1>5. follower # "off" => Following /\ ReadUpTo \in Nat
    BY <1>1, <1>4 DEF LInv, Following, ReadUpTo
  <1> QED
    BY <1>1, <1>3, <1>4, <1>5

(* More lines only make more room.                                         *)
LEMMA WriteLineKeeps == ASSUME LInv, WriteLine PROVE LInv'
  <1>1. logged' = logged + 1 /\ logged < MaxLines /\ UNCHANGED <<procvars, followvars, connvars, dropped>>
    BY DEF WriteLine
  <1>2. LogTypes'
    <2>1. logged' \in 0..MaxLines /\ 0..logged \subseteq 0..logged' /\ 1..logged \subseteq 1..logged'
      BY <1>1, LogParts, FollowerAssumption
    <2>2. pipe \in Seq(1..logged') /\ channel \in Seq(1..logged') /\ logDiv \in Seq(1..logged')
      BY <2>1, LogParts, SeqMonotonic DEF LogTypes
    <2> QED
      BY <1>1, <2>1, <2>2, LogParts DEF LogTypes, procvars, followvars, connvars
  <1> QED
    BY <1>1, <1>2 DEF LInv, Following, Sent, ReadUpTo, procvars, followvars, connvars

LEMMA PrintLineKeeps == ASSUME LInv, PrintLine PROVE LInv'
  <1>1. /\ position < logged /\ position' = position + 1 /\ pipe' = Append(pipe, position + 1)
        /\ UNCHANGED <<logged, proc, followvars, connvars, dropped>>
    BY DEF PrintLine
  <1>2. /\ LogTypes /\ logged \in Nat /\ position \in Nat /\ Len(pipe) \in Nat
        /\ position + 1 \in 1..logged /\ pipe \in Seq(1..logged)
    BY <1>1, LogParts DEF LogTypes
  <1>3. /\ pipe' \in Seq(1..logged) /\ Len(pipe') = Len(pipe) + 1
        /\ \A i \in 1..Len(pipe) : pipe'[i] = pipe[i]
        /\ pipe'[Len(pipe) + 1] = position + 1
    BY <1>1, <1>2, AppendProperties
  <1>4. LogTypes'
    BY <1>1, <1>2, <1>3 DEF LogTypes, followvars, connvars
  <1>5. ReadUpTo' = ReadUpTo /\ Sent' = Sent
    BY <1>1, <1>2, <1>3 DEF ReadUpTo, Sent, connvars
  <1>6. ASSUME follower # "off" PROVE Following'
    <2>1. Following
      BY <1>6, LogParts
    <2>2. Len(pipe') <= position'
      BY <1>1, <1>2, <1>3, <2>1 DEF Following
    <2>3. ASSUME NEW i \in 1..Len(pipe') PROVE pipe'[i] = ReadUpTo + i
      <3>1. CASE i \in 1..Len(pipe)
        BY <1>3, <2>1, <3>1 DEF Following
      <3>2. CASE i \notin 1..Len(pipe)
        <4>1. i = Len(pipe) + 1
          BY <1>2, <1>3, <3>2
        <4> QED
          BY <1>2, <1>3, <4>1 DEF ReadUpTo
      <3> QED
        BY <3>1, <3>2
    <2> QED
      BY <1>1, <1>5, <2>1, <2>2, <2>3 DEF Following, followvars
  <1> QED
    BY <1>1, <1>4, <1>5, <1>6 DEF LInv, followvars

(* The connection, before it is there and when it is gone.                 *)
LEMMA ConnectionKeeps ==
  ASSUME LInv, \/ open_logs_page \/ open_fails_log \/ connect_log_refused
               \/ connect_log \/ disconnect_log
  PROVE  LInv'
  <1>1. LogTypes /\ logged \in Nat
    BY LogParts
  <1>2. CASE open_logs_page \/ open_fails_log \/ connect_log_refused
    <2>1. UNCHANGED <<logged, procvars, followvars, channel, logDiv, dropped>>
          /\ logs_websock # "open" /\ logs_websock' # "open" /\ attempt' \in 0..NumLogHosts
      BY <1>1, <1>2, FollowerAssumption DEF open_logs_page, open_fails_log, connect_log_refused, LogTypes
    <2>2. LogTypes'
      BY <1>1, <2>1 DEF LogTypes, procvars, followvars
    <2> QED
      BY <2>1, <2>2 DEF LInv, Following, Sent, ReadUpTo, procvars, followvars
  <1>3. <<>> \in Seq(1..logged) /\ <<>> \in Seq(Nat) /\ Len(<<>>) = 0
    BY EmptySeq
  <1>4. CASE connect_log
    <2>1. /\ logs_websock' = "open" /\ attempt' = 0 /\ logDiv' = <<>> /\ channel' = <<>>
          /\ proc' = "running" /\ pipe' = <<>> /\ position' \in 0..logged
          /\ stopped' = FALSE /\ follower' = "reading" /\ UNCHANGED <<logged, since_time, dropped>>
      BY <1>1, <1>4, FollowerAssumption DEF connect_log, clear_window
    <2>2. LogTypes'
      <3>1. logged' \in 0..MaxLines /\ position' \in 0..logged' /\ since_time' \in 0..logged'
        BY <1>1, <2>1 DEF LogTypes
      <3>2. attempt' \in 0..NumLogHosts
        BY <2>1, FollowerAssumption
      <3>3. pipe' \in Seq(1..logged') /\ channel' \in Seq(1..logged') /\ logDiv' \in Seq(1..logged')
        BY <1>3, <2>1
      <3> QED
        BY ONLY <2>1, <3>1, <3>2, <3>3 DEF LogTypes
    <2>3. Sent' = <<>>
      BY <1>3, <2>1, ConcatEmptySeq DEF Sent
    <2>4. Following'
      BY <1>3, <2>1, <2>3 DEF Following, UpTo, Covers
    <2> QED
      BY <1>3, <2>2, <2>3, <2>4 DEF LInv, Increasing
  <1>5. CASE disconnect_log
    <2>1. /\ logs_websock' = "closed" /\ channel' = <<>> /\ proc' = "none" /\ pipe' = <<>> /\ position' = 0
          /\ stopped' = TRUE /\ follower' = "off"
          /\ UNCHANGED <<logged, since_time, attempt, logDiv, dropped>>
      BY <1>5 DEF disconnect_log, end_follower
    <2>2. LogTypes'
      BY <1>1, <1>3, <2>1 DEF LogTypes
    <2>3. Sent' = logDiv
      BY <1>3, <2>1, LogParts, ConcatEmptySeq DEF Sent
    <2>4. Increasing(logDiv) /\ (Len(logDiv) > 0 => Covers(logDiv, logDiv[Len(logDiv)], dropped))
      BY LogParts, FirstLines DEF LInv, Sent
    <2> QED
      BY <2>1, <2>2, <2>3, <2>4 DEF LInv
  <1> QED
    BY <1>2, <1>4, <1>5

LEMMA ShowKeeps == ASSUME LInv, mainloop_log PROVE LInv'
  <1>1. /\ channel # <<>> /\ logDiv' = Append(logDiv, Head(channel)) /\ channel' = Tail(channel)
        /\ UNCHANGED <<logged, procvars, followvars, logs_websock, attempt, dropped>>
    BY DEF mainloop_log, show_line
  <1>2. LogTypes /\ logDiv \in Seq(1..logged) /\ channel \in Seq(1..logged)
    BY LogParts DEF LogTypes
  <1>3. logDiv' \in Seq(1..logged) /\ channel' \in Seq(1..logged) /\ Sent' = Sent
    <2> DEFINE S == 1..logged
    <2>1. logDiv \in Seq(S) /\ channel \in Seq(S) /\ channel # <<>>
      BY <1>1, <1>2
    <2> HIDE DEF S
    <2>2. /\ Append(logDiv, Head(channel)) \in Seq(S) /\ Tail(channel) \in Seq(S)
          /\ Append(logDiv, Head(channel)) \o Tail(channel) = logDiv \o channel
      BY ONLY <2>1, LinePasses
    <2> QED
      BY <1>1, <2>2 DEF S, Sent
  <1>4. LogTypes'
    BY <1>1, <1>2, <1>3 DEF LogTypes, procvars, followvars
  <1> QED
    BY <1>1, <1>3, <1>4 DEF LInv, Following, ReadUpTo, procvars, followvars

(* The follower reads the next line and sends it.                          *)
LEMMA IterKeeps == ASSUME LInv, iter_lines PROVE LInv'
  <1>1. /\ follower = "reading" /\ follower' = "reading" /\ pipe # <<>>
        /\ channel' = Append(channel, Head(pipe)) /\ pipe' = Tail(pipe)
        /\ UNCHANGED <<logged, logs_websock, attempt, logDiv, proc, position, stopped, since_time, dropped>>
    BY DEF iter_lines, Follow, _read_line, log_loop
  <1>2. /\ LogTypes /\ pipe \in Seq(1..logged) /\ channel \in Seq(1..logged) /\ logDiv \in Seq(1..logged)
        /\ Following /\ ReadUpTo \in Nat /\ position \in Nat /\ Sent \in Seq(Nat)
    BY <1>1, LogParts DEF LogTypes
  <1>3. /\ channel' \in Seq(1..logged) /\ pipe' \in Seq(1..logged) /\ Head(pipe) = pipe[1]
        /\ Head(pipe) \in 1..logged
        /\ Len(pipe) \in Nat \ {0} /\ Len(pipe') = Len(pipe) - 1
        /\ \A i \in 1 .. Len(pipe) - 1 : pipe'[i] = pipe[i + 1]
    <2> DEFINE S == 1..logged
    <2>1. channel \in Seq(S) /\ pipe \in Seq(S) /\ pipe # <<>>
      BY <1>1, <1>2
    <2> HIDE DEF S
    <2>2. /\ Append(channel, Head(pipe)) \in Seq(S) /\ Tail(pipe) \in Seq(S)
          /\ Head(pipe) = pipe[1] /\ Head(pipe) \in S
          /\ Len(pipe) \in Nat \ {0} /\ Len(Tail(pipe)) = Len(pipe) - 1
          /\ \A i \in 1 .. Len(pipe) - 1 : Tail(pipe)[i] = pipe[i + 1]
      BY ONLY <2>1, LinePasses
    <2> QED
      BY <1>1, <2>2 DEF S
  <1>4. Head(pipe) = ReadUpTo + 1 /\ ReadUpTo' = ReadUpTo + 1
    BY <1>1, <1>2, <1>3 DEF Following, ReadUpTo
  <1>5. Sent' = Append(Sent, ReadUpTo + 1)
    BY <1>1, <1>2, <1>3, <1>4, AppendToSecond DEF Sent
  <1>6. LogTypes'
    BY <1>1, <1>2, <1>3 DEF LogTypes
  <1>7. /\ Increasing(Sent') /\ UpTo(Sent', ReadUpTo') /\ Covers(Sent', ReadUpTo', dropped')
        /\ Len(Sent') > 0 => Covers(Sent', Sent'[Len(Sent')], dropped')
    BY <1>1, <1>2, <1>4, <1>5, NextLine DEF Following, LInv
  <1>8. Len(pipe') <= position' /\ \A i \in 1..Len(pipe') : pipe'[i] = ReadUpTo' + i
    BY <1>1, <1>2, <1>3, <1>4 DEF Following
  <1> QED
    BY <1>1, <1>6, <1>7, <1>8 DEF LInv, Following

(* A restart: nothing is read while it lasts, the time it began at is not  *)
(* before what was read, and the new process goes on from there.           *)
LEMMA RestartKeeps ==
  ASSUME LInv, lifetime_over \/ stop \/ drain
  PROVE  LInv'
  <1>1. LogTypes /\ Following /\ ReadUpTo \in Nat /\ ReadUpTo <= logged
        /\ follower # "off" /\ follower' # "off"
    BY LogParts DEF lifetime_over, stop, drain, Follow, ReadUpTo
  <1>2. /\ UNCHANGED <<logged, logs_websock, attempt, logDiv, channel, pipe, position, dropped>>
        /\ proc' \in {proc, "terminated"} /\ stopped' \in {stopped, TRUE}
        /\ \/ follower = "reading" /\ follower' = "stopping" /\ since_time' = logged
           \/ follower = "stopping" /\ follower' = "draining" /\ stopped' /\ UNCHANGED since_time
           \/ follower = "draining" /\ follower' = "starting" /\ UNCHANGED <<since_time, stopped>>
    BY <1>1 DEF lifetime_over, stop, drain, Follow, _read_line, procvars, Following, LogTypes
  <1>3. LogTypes'
    <2>1. logged \in 0..logged
      BY LogParts
    <2>2. /\ logged' \in 0..MaxLines /\ position' \in 0..logged' /\ attempt' \in 0..NumLogHosts
          /\ pipe' \in Seq(1..logged') /\ channel' \in Seq(1..logged') /\ logDiv' \in Seq(1..logged')
      BY <1>1, <1>2 DEF LogTypes
    <2>3. since_time' \in 0..logged'
      BY <1>1, <1>2, <2>1 DEF LogTypes
    <2>4. proc' \in {"none", "running", "terminated"} /\ stopped' \in BOOLEAN
      BY <1>1, <1>2 DEF LogTypes
    <2>5. /\ follower' \in {"off", "reading", "stopping", "draining", "starting"}
          /\ follower' = "off" <=> logs_websock' # "open"
      BY <1>1, <1>2 DEF LogTypes
    <2> QED
      BY ONLY <2>2, <2>3, <2>4, <2>5 DEF LogTypes
  <1>4. Sent' = Sent /\ ReadUpTo' = ReadUpTo
    BY <1>2 DEF Sent, ReadUpTo
  <1>5. Following'
    BY <1>1, <1>2, <1>4 DEF Following
  <1> QED
    BY <1>2, <1>3, <1>4, <1>5 DEF LInv

LEMMA StartFollowerKeeps == ASSUME LInv, start PROVE LInv'
  <1>1. /\ follower = "starting" /\ follower' = "reading"
        /\ dropped' = dropped \union {n \in ToSet(pipe) \union position + 1 .. logged : n <= since_time}
        /\ proc' = "running" /\ pipe' = <<>> /\ position' = since_time /\ stopped' = FALSE
        /\ UNCHANGED <<logged, logs_websock, attempt, logDiv, since_time, channel>>
    BY DEF start, Follow, start_position
  <1>2. /\ LogTypes /\ Following /\ ReadUpTo \in Nat /\ position \in Nat /\ logged \in Nat
        /\ since_time \in 0..logged /\ pipe \in Seq(1..logged) /\ Len(pipe) \in Nat
        /\ Sent \in Seq(Nat) /\ ReadUpTo <= since_time
    BY <1>1, LogParts DEF LogTypes, Following
  <1>3. <<>> \in Seq(1..logged) /\ Len(<<>>) = 0
    BY EmptySeq
  <1>4. LogTypes'
    BY <1>1, <1>2, <1>3 DEF LogTypes
  <1>5. Sent' = Sent /\ ReadUpTo' = since_time
    BY <1>1, <1>2, <1>3 DEF Sent, ReadUpTo
  <1>6. \A n \in ReadUpTo + 1 .. since_time : n \in dropped'
    <2> SUFFICES ASSUME NEW n \in ReadUpTo + 1 .. since_time PROVE n \in dropped'
      OBVIOUS
    <2>1. n \in Nat /\ n <= since_time /\ n <= logged
      BY <1>2
    <2>2. CASE n <= position
      <3>1. n - ReadUpTo \in 1..Len(pipe)
        BY <1>2, <2>2 DEF ReadUpTo
      <3>2. pipe[n - ReadUpTo] = ReadUpTo + (n - ReadUpTo)
        BY <1>2, <3>1 DEF Following
      <3>3. pipe[n - ReadUpTo] = n
        BY ONLY <1>2, <2>1, <3>2
      <3>4. n \in ToSet(pipe)
        BY <1>2, <3>1, <3>3, LenProperties DEF ToSet
      <3> QED
        BY <1>1, <2>1, <3>4
    <2>3. CASE ~ (n <= position)
      BY <1>1, <1>2, <2>1, <2>3
    <2> QED
      BY <2>2, <2>3
  <1>7. UpTo(Sent, since_time)
    <2>1. Len(Sent) \in Nat /\ \A i \in 1..Len(Sent) : Sent[i] \in Nat /\ Sent[i] <= ReadUpTo
      BY <1>2, LenProperties, ElementOfSeq DEF Following, UpTo
    <2> QED
      BY <1>2, <2>1 DEF UpTo
  <1>8. Covers(Sent, since_time, dropped')
    <2> SUFFICES ASSUME Len(Sent) > 0, NEW m \in Sent[1]..since_time, m \notin dropped'
                 PROVE  \E i \in 1..Len(Sent) : Sent[i] = m
      BY DEF Covers
    <2>1. Sent[1] \in Nat
      BY <1>2, LenProperties, ElementOfSeq
    <2>2. m \in Sent[1]..ReadUpTo /\ m \notin dropped
      BY <1>1, <1>2, <1>6, <2>1
    <2> QED
      BY <1>2, <2>2 DEF Following, Covers
  <1>9. Following'
    BY <1>1, <1>2, <1>3, <1>5, <1>7, <1>8 DEF Following
  <1>10. Len(Sent) > 0 => Covers(Sent, Sent[Len(Sent)], dropped')
    BY <1>1 DEF LInv, Covers
  <1> QED
    BY <1>4, <1>5, <1>9, <1>10 DEF LInv

LEMMA LogStep == LInv /\ [FollowNext]_logvars => LInv'
  <1> SUFFICES ASSUME LInv, [FollowNext]_logvars PROVE LInv'
    OBVIOUS
  <1>1. CASE FollowNext
    BY <1>1, WriteLineKeeps, PrintLineKeeps, ConnectionKeeps, ShowKeeps, IterKeeps, RestartKeeps,
       StartFollowerKeeps DEF FollowNext
  <1>2. CASE UNCHANGED logvars
    BY <1>2 DEF logvars, procvars, followvars, connvars, LInv, LogTypes, Following, Sent, ReadUpTo
  <1> QED
    BY <1>1, <1>2

(* The follower, its channel and the page keep the lines in order.         *)
THEOREM LogInvariant == FollowSpec => []LInv
  BY LogInitial, LogStep, PTL DEF FollowSpec

(* The page shows the lines of the log in order, each once, and between    *)
(* the first and the last one misses only what a restart dropped, for any  *)
(* number of lines, restarts and broken connections.                       *)
THEOREM LinesOnce == FollowSpec => []EachLineOnce
  <1>1. LInv => EachLineOnce
    <2> SUFFICES ASSUME LInv PROVE EachLineOnce
      OBVIOUS
    <2>1. Increasing(logDiv) /\ (Len(logDiv) > 0 => Covers(logDiv, logDiv[Len(logDiv)], dropped))
      BY LogParts, FirstLines DEF LInv, Sent
    <2>2. DOMAIN logDiv = 1..Len(logDiv) /\ Len(logDiv) \in Nat
      BY LogParts, LenProperties
    <2>3. NoLineTwice
      BY <2>1, <2>2 DEF Increasing, NoLineTwice
    <2>4. ASSUME logDiv # <<>> PROVE Head(logDiv)..Last(logDiv) \subseteq ToSet(logDiv) \union dropped
      <3>1. Len(logDiv) > 0 /\ Head(logDiv) = logDiv[1]
        BY <2>4, LogParts, EmptySeq
      <3> QED
        BY <2>1, <2>2, <3>1 DEF Covers, Last, ToSet
    <2> QED
      BY <2>3, <2>4 DEF EachLineOnce, OnlyDroppedMissing
  <1> QED
    BY <1>1, LogInvariant, PTL
-----------------------------------------------------------------------------
(* The information page of a site *)

SiteValues == [row : Nat, op : Nat, type : {"static", "dynamic", "none"}]

(* What the page shows once it has handled what is on its way to it.       *)
LastSent(p) ==
  IF tobrowser[p] = <<>> THEN shows_site[p] ELSE tobrowser[p][Len(tobrowser[p])]

StatusTypes ==
  /\ version \in Nat /\ op_version \in Nat /\ type \in {"static", "dynamic"}
  /\ exists_row \in BOOLEAN /\ editors \subseteq Pages /\ group \subseteq Pages
  /\ owed \in Nat /\ unsent \in BOOLEAN
  /\ conn \in [Pages -> {"unopened", "closed", "connecting", "open", "closing", "finished"}]
  /\ doing \in [Pages -> {"nothing", "join", "status", "refresh", "rest"}]
  /\ self_type \in [Pages -> {"static", "dynamic"}]
  /\ status_websocket \in [Pages -> BOOLEAN]
  /\ read \in [Pages -> SiteValues] /\ inbox_site \in [Pages -> Nat]
  /\ tobrowser \in [Pages -> Seq(SiteValues)] /\ shows_site \in [Pages -> SiteValues]

(* Where the consumer of a page can be while its connection is in a state, *)
(* and that an open page is in the group and watches what it read.         *)
ConsumerFits(p) ==
  /\ doing[p] \in {"join", "status"} <=> conn[p] = "connecting"
  /\ doing[p] \in {"refresh", "rest"} => conn[p] = "open"
  /\ doing[p] = "status" => p \in group
  /\ conn[p] = "open" => p \in group /\ status_websocket[p] = (self_type[p] = "dynamic")
  /\ conn[p] # "open" => ~ status_websocket[p]
  /\ p \in group => conn[p] \in {"connecting", "open"}

(* What an open page was sent last is the row as it is, or it will hear of *)
(* the change: the message is still to be sent or handled, or the consumer *)
(* is still to read what changed.                                          *)
WillBeCurrent(p) ==
  \/ owed > 0 \/ inbox_site[p] > 0 \/ doing[p] = "refresh"
  \/ /\ doing[p] = "rest"
     /\ read[p].row = version /\ read[p].type = type /\ self_type[p] = type
  \/ doing[p] = "nothing" /\ LastSent(p) = Current /\ self_type[p] = type

SInv ==
  /\ StatusTypes
  /\ \A p \in Pages : ConsumerFits(p)
  /\ ~ unsent => \A p \in Pages : conn[p] = "open" /\ May(p) => WillBeCurrent(p)

LEMMA StatusInitial == StatusInit => SInv
  <1> SUFFICES ASSUME StatusInit PROVE SInv
    OBVIOUS
  <1>1. Current \in SiteValues /\ <<>> \in Seq(SiteValues)
    BY EmptySeq DEF StatusInit, Current, SiteValues
  <1>2. StatusTypes
    BY <1>1 DEF StatusInit, StatusTypes
  <1>3. ASSUME NEW p \in Pages PROVE ConsumerFits(p) /\ conn[p] # "open"
    BY DEF StatusInit, ConsumerFits
  <1> QED
    BY <1>2, <1>3 DEF SInv

(* A step of one page leaves the others as they are.                       *)
OnlyAt(p) ==
  /\ UNCHANGED <<rowvars, owed, unsent>>
  /\ \A q \in Pages \ {p} :
       /\ doing'[q] = doing[q] /\ conn'[q] = conn[q] /\ self_type'[q] = self_type[q]
       /\ status_websocket'[q] = status_websocket[q] /\ read'[q] = read[q]
       /\ inbox_site'[q] = inbox_site[q] /\ tobrowser'[q] = tobrowser[q]
       /\ shows_site'[q] = shows_site[q] /\ (q \in group' <=> q \in group)

LEMMA PageFrame ==
  ASSUME SInv, NEW p \in Pages, StatusTypes', OnlyAt(p), ConsumerFits(p)',
         ~ unsent /\ conn'[p] = "open" /\ May(p) => WillBeCurrent(p)'
  PROVE  SInv'
  <1>1. UNCHANGED <<version, op_version, type, exists_row, editors, owed, unsent>>
    BY DEF OnlyAt, rowvars
  <1>2. \A q \in Pages : May(q)' = May(q)
    BY <1>1 DEF May
  <1>3. ASSUME NEW q \in Pages \ {p}
        PROVE  ConsumerFits(q)' /\ (WillBeCurrent(q) => WillBeCurrent(q)') /\ conn'[q] = conn[q]
    BY <1>1, <1>3 DEF OnlyAt, SInv, ConsumerFits, WillBeCurrent, LastSent, Current
  <1>4. \A q \in Pages : ConsumerFits(q)'
    BY <1>3
  <1>5. ASSUME ~ unsent', NEW q \in Pages, conn'[q] = "open", May(q)' PROVE WillBeCurrent(q)'
    BY <1>1, <1>2, <1>3, <1>5 DEF SInv
  <1> QED
    BY <1>4, <1>5 DEF SInv

(* Whoever changes the row owes a message, which reaches all of the group. *)
LEMMA ChangeKeeps ==
  ASSUME SInv, \/ save_site \/ save_operation \/ delete_site \/ sender_dies
               \/ \E p \in Pages : edit_users(p)
  PROVE  SInv'
  <1>1. StatusTypes
    BY DEF SInv
  <1>2. UNCHANGED <<doing, group, self_type, status_websocket, read, inbox_site, conn, tobrowser, shows_site>>
    BY DEF save_site, save_operation, delete_site, sender_dies, edit_users, Saved, consumervars, browservars
  <1>3. StatusTypes'
    <2>1. /\ version' \in Nat /\ op_version' \in Nat /\ type' \in {"static", "dynamic"}
          /\ exists_row' \in BOOLEAN /\ editors' \subseteq Pages /\ owed' \in Nat /\ unsent' \in BOOLEAN
      <3>1. CASE save_site \/ save_operation
        BY <1>1, <3>1 DEF StatusTypes, save_site, save_operation, Saved
      <3>2. CASE delete_site
        BY <1>1, <3>2 DEF StatusTypes, delete_site
      <3>3. CASE sender_dies
        <4>1. owed \in Nat /\ owed' = owed - 1 /\ owed > 0 /\ unsent' = TRUE /\ UNCHANGED rowvars
          BY <1>1, <3>3 DEF StatusTypes, sender_dies
        <4> QED
          BY <1>1, <4>1 DEF StatusTypes, rowvars
      <3>4. CASE \E p \in Pages : edit_users(p)
        BY <1>1, <3>4 DEF StatusTypes, edit_users, Saved
      <3> QED
        BY <3>1, <3>2, <3>3, <3>4
    <2> QED
      BY <1>1, <1>2, <2>1 DEF StatusTypes
  <1>4. \A p \in Pages : ConsumerFits(p)'
    BY <1>2 DEF SInv, ConsumerFits
  <1>5. owed' > 0 \/ unsent' \/ ~ exists_row'
    BY <1>1 DEF StatusTypes, save_site, save_operation, delete_site, sender_dies, edit_users, Saved, rowvars
  <1> QED
    BY <1>3, <1>4, <1>5 DEF SInv, May, WillBeCurrent

LEMMA SendKeeps == ASSUME SInv, send_message PROVE SInv'
  <1>1. StatusTypes
    BY DEF SInv
  <1>2. /\ owed > 0 /\ owed' = owed - 1
        /\ inbox_site' = [p \in Pages |-> inbox_site[p] + IF p \in group THEN 1 ELSE 0]
        /\ UNCHANGED <<version, op_version, type, exists_row, editors, doing, group, self_type,
                       status_websocket, read, conn, tobrowser, shows_site, unsent>>
    BY DEF send_message, rowvars, browservars
  <1>3. inbox_site' \in [Pages -> Nat] /\ owed' \in Nat
    BY <1>1, <1>2 DEF StatusTypes
  <1>4. StatusTypes'
    BY <1>1, <1>2, <1>3 DEF StatusTypes
  <1>5. \A p \in Pages : ConsumerFits(p)'
    BY <1>2 DEF SInv, ConsumerFits
  <1>6. ASSUME NEW p \in Pages, conn[p] = "open" PROVE inbox_site'[p] > 0
    BY <1>1, <1>2, <1>6 DEF SInv, ConsumerFits, StatusTypes
  <1> QED
    BY <1>2, <1>4, <1>5, <1>6 DEF SInv, WillBeCurrent

(* A consumer that closes leaves the group.                                *)
LEMMA CloseKeeps ==
  ASSUME SInv, NEW p \in Pages, Close(p), UNCHANGED <<rowvars, owed, unsent, shows_site>>,
         tobrowser' \in [Pages -> Seq(SiteValues)],
         \A q \in Pages \ {p} : tobrowser'[q] = tobrowser[q]
  PROVE  SInv'
  <1>1. StatusTypes
    BY DEF SInv
  <1>2. /\ conn' \in [Pages -> {"unopened", "closed", "connecting", "open", "closing", "finished"}]
        /\ doing' \in [Pages -> {"nothing", "join", "status", "refresh", "rest"}]
        /\ status_websocket' \in [Pages -> BOOLEAN] /\ inbox_site' \in [Pages -> Nat]
        /\ group' \subseteq Pages /\ UNCHANGED <<self_type, read>>
    BY <1>1 DEF Close, Now, StatusTypes
  <1>3. StatusTypes'
    BY <1>1, <1>2 DEF StatusTypes, rowvars
  <1>4. /\ conn'[p] = "closing" /\ doing'[p] = "nothing" /\ p \notin group' /\ status_websocket'[p] = FALSE
        /\ \A q \in Pages \ {p} :
             /\ conn'[q] = conn[q] /\ doing'[q] = doing[q] /\ (q \in group' <=> q \in group)
             /\ status_websocket'[q] = status_websocket[q] /\ inbox_site'[q] = inbox_site[q]
    BY <1>1 DEF Close, Now, StatusTypes
  <1>5. OnlyAt(p)
    BY <1>2, <1>4 DEF OnlyAt
  <1>6. ConsumerFits(p)'
    BY <1>4 DEF ConsumerFits
  <1> QED
    BY <1>3, <1>4, <1>5, <1>6, PageFrame

(* A message to the browser is the last one on its way.                    *)
LEMMA ToBrowserIsLast ==
  ASSUME StatusTypes, NEW p \in Pages, NEW m \in SiteValues, ToBrowser(p, m)
  PROVE  /\ tobrowser' \in [Pages -> Seq(SiteValues)]
         /\ tobrowser'[p] # <<>> /\ tobrowser'[p][Len(tobrowser'[p])] = m
         /\ \A q \in Pages \ {p} : tobrowser'[q] = tobrowser[q]
  <1>1. tobrowser[p] \in Seq(SiteValues) /\ tobrowser \in [Pages -> Seq(SiteValues)]
    BY DEF StatusTypes
  <1>2. /\ Append(tobrowser[p], m) \in Seq(SiteValues)
        /\ Len(Append(tobrowser[p], m)) = Len(tobrowser[p]) + 1
        /\ Append(tobrowser[p], m)[Len(tobrowser[p]) + 1] = m /\ Len(tobrowser[p]) \in Nat
    BY <1>1, AppendProperties, LenProperties
  <1>3. tobrowser' = [tobrowser EXCEPT ![p] = Append(tobrowser[p], m)]
    BY DEF ToBrowser
  <1>4. tobrowser'[p] = Append(tobrowser[p], m) /\ \A q \in Pages \ {p} : tobrowser'[q] = tobrowser[q]
    BY <1>1, <1>3
  <1>5. tobrowser' \in [Pages -> Seq(SiteValues)]
    BY <1>1, <1>2, <1>3
  <1>6. tobrowser'[p] # <<>>
    BY <1>2, <1>4, EmptySeq
  <1> QED
    BY <1>2, <1>4, <1>5, <1>6

LEMMA LastOfTail ==
  ASSUME NEW S, NEW s \in Seq(S), s # <<>>
  PROVE  IF Tail(s) = <<>> THEN s[Len(s)] = Head(s) ELSE Tail(s)[Len(Tail(s))] = s[Len(s)]
  <1>1. /\ Tail(s) \in Seq(S) /\ Head(s) = s[1]
        /\ Len(s) \in Nat \ {0} /\ Len(Tail(s)) = Len(s) - 1
        /\ \A i \in 1 .. Len(s) - 1 : Tail(s)[i] = s[i + 1]
    <2>1. <<>> \in Seq(S)
      BY EmptySeq
    <2> QED
      BY <2>1, LinePasses
  <1> DEFINE t == Tail(s)
  <1>2. t \in Seq(S) /\ Len(t) = Len(s) - 1 /\ \A i \in 1 .. Len(s) - 1 : t[i] = s[i + 1]
    BY <1>1
  <1> HIDE DEF t
  <1>3. CASE t = <<>>
    <2>1. Len(t) = 0
      BY <1>3, EmptySeq
    <2>2. Len(s) = 1 /\ Head(s) = s[1]
      BY ONLY <1>1, <1>2, <2>1
    <2> QED
      BY <1>3, <2>2 DEF t
  <1>4. CASE t # <<>>
    <2>1. Len(t) \in 1 .. Len(s) - 1 /\ Len(t) + 1 = Len(s)
      BY <1>1, <1>2, <1>4, EmptySeq
    <2>2. t[Len(t)] = s[Len(s)]
      BY <1>2, <2>1
    <2> QED
      BY <1>4, <2>2 DEF t
  <1> QED
    BY <1>3, <1>4

LEMMA ConnectSiteKeeps == ASSUME SInv, NEW p \in Pages, connect_site(p) PROVE SInv'
  <1>1. StatusTypes /\ ConsumerFits(p) /\ doing[p] = "nothing" /\ conn[p] = "closed"
        /\ UNCHANGED <<rowvars, owed, shows_site, unsent>>
    BY DEF SInv, connect_site, Consumer
  <1>2. CASE May(p)
    <2>1. /\ conn' = [conn EXCEPT ![p] = "connecting"] /\ self_type' = [self_type EXCEPT ![p] = type]
          /\ doing' = [doing EXCEPT ![p] = "join"]
          /\ UNCHANGED <<group, status_websocket, read, inbox_site, tobrowser>>
      BY <1>2 DEF connect_site, Now
    <2>2. /\ conn' \in [Pages -> {"unopened", "closed", "connecting", "open", "closing", "finished"}]
          /\ self_type' \in [Pages -> {"static", "dynamic"}]
          /\ doing' \in [Pages -> {"nothing", "join", "status", "refresh", "rest"}]
          /\ conn'[p] = "connecting" /\ doing'[p] = "join"
          /\ \A q \in Pages \ {p} : conn'[q] = conn[q] /\ doing'[q] = doing[q] /\ self_type'[q] = self_type[q]
      BY <1>1, <2>1 DEF StatusTypes
    <2>3. StatusTypes'
      BY <1>1, <2>1, <2>2 DEF StatusTypes, rowvars
    <2>4. OnlyAt(p)
      BY <1>1, <2>1, <2>2 DEF OnlyAt
    <2>5. ConsumerFits(p)'
      BY <1>1, <2>1, <2>2 DEF ConsumerFits
    <2> QED
      BY <2>2, <2>3, <2>4, <2>5, PageFrame
  <1>3. CASE ~ May(p)
    <2>1. Close(p) /\ ToBrowser(p, Deleted)
      BY <1>3 DEF connect_site
    <2>2. Deleted \in SiteValues
      BY DEF Deleted, SiteValues
    <2>3. tobrowser' \in [Pages -> Seq(SiteValues)] /\ \A q \in Pages \ {p} : tobrowser'[q] = tobrowser[q]
      BY ONLY <1>1, <2>1, <2>2, ToBrowserIsLast, p \in Pages
    <2> QED
      BY <1>1, <2>1, <2>3, CloseKeeps
  <1> QED
    BY <1>2, <1>3

LEMMA GroupAddKeeps == ASSUME SInv, NEW p \in Pages, group_add(p) PROVE SInv'
  <1>1. /\ StatusTypes /\ ConsumerFits(p) /\ doing[p] = "join"
        /\ group' = group \union {p} /\ doing' = [doing EXCEPT ![p] = "status"]
        /\ UNCHANGED <<rowvars, owed, shows_site, unsent, self_type, status_websocket, read,
                       inbox_site, conn, tobrowser>>
    BY DEF SInv, group_add, Consumer, Now
  <1>2. /\ doing' \in [Pages -> {"nothing", "join", "status", "refresh", "rest"}] /\ group' \subseteq Pages
        /\ doing'[p] = "status" /\ p \in group'
        /\ \A q \in Pages \ {p} : doing'[q] = doing[q] /\ (q \in group' <=> q \in group)
    BY <1>1 DEF StatusTypes
  <1>3. StatusTypes'
    BY <1>1, <1>2 DEF StatusTypes, rowvars
  <1>4. OnlyAt(p)
    BY <1>1, <1>2 DEF OnlyAt
  <1>5. ConsumerFits(p)' /\ conn'[p] # "open"
    BY <1>1, <1>2 DEF ConsumerFits
  <1> QED
    BY <1>3, <1>4, <1>5, PageFrame

(* The connection is accepted: the row is read next.                       *)
LEMMA StatusSocketKeeps == ASSUME SInv, NEW p \in Pages, open_status_websocket(p) PROVE SInv'
  <1>1. /\ StatusTypes /\ ConsumerFits(p) /\ doing[p] = "status"
        /\ UNCHANGED <<rowvars, owed, shows_site, unsent>>
    BY DEF SInv, open_status_websocket, Consumer
  <1>2. CASE Accepted(p)
    <2>1. /\ conn' = [conn EXCEPT ![p] = "open"] /\ doing' = [doing EXCEPT ![p] = "refresh"]
          /\ UNCHANGED <<group, self_type, read, inbox_site, tobrowser>>
      BY <1>2 DEF Accepted, Now
    <2>2. /\ status_websocket' \in [Pages -> BOOLEAN]
          /\ status_websocket'[p] = (self_type[p] = "dynamic")
          /\ \A q \in Pages \ {p} : status_websocket'[q] = status_websocket[q]
      <3>1. status_websocket \in [Pages -> BOOLEAN] /\ ~ status_websocket[p] /\ conn[p] = "connecting"
            /\ status_websocket[p] = FALSE
        BY <1>1 DEF StatusTypes, ConsumerFits
      <3>2. conn'[p] = "open"
        BY <1>1, <2>1 DEF StatusTypes
      <3>3. \/ self_type[p] = "static" /\ UNCHANGED status_websocket
            \/ self_type[p] = "dynamic" /\ status_websocket' = [status_websocket EXCEPT ![p] = TRUE]
        <4>1. ~ Close(p)
          BY <1>1, <3>2 DEF Close, StatusTypes
        <4> QED
          BY <4>1 DEF open_status_websocket
      <3> QED
        BY <3>1, <3>3
    <2>3. /\ conn' \in [Pages -> {"unopened", "closed", "connecting", "open", "closing", "finished"}]
          /\ doing' \in [Pages -> {"nothing", "join", "status", "refresh", "rest"}]
          /\ conn'[p] = "open" /\ doing'[p] = "refresh"
          /\ \A q \in Pages \ {p} : conn'[q] = conn[q] /\ doing'[q] = doing[q]
      BY <1>1, <2>1 DEF StatusTypes
    <2>4. StatusTypes'
      BY <1>1, <2>1, <2>2, <2>3 DEF StatusTypes, rowvars
    <2>5. OnlyAt(p)
      BY <1>1, <2>1, <2>2, <2>3 DEF OnlyAt
    <2>6. ConsumerFits(p)' /\ WillBeCurrent(p)'
      BY <1>1, <2>1, <2>2, <2>3 DEF ConsumerFits, WillBeCurrent
    <2> QED
      BY <2>4, <2>5, <2>6, PageFrame
  <1>3. CASE Close(p) /\ UNCHANGED tobrowser
    BY <1>1, <1>3, CloseKeeps DEF StatusTypes
  <1> QED
    BY <1>2, <1>3 DEF open_status_websocket

(* What is read of the row is the row as it is, ...                        *)
LEMMA RefreshKeeps == ASSUME SInv, NEW p \in Pages, refresh_from_db(p) PROVE SInv'
  <1>1. /\ StatusTypes /\ ConsumerFits(p) /\ doing[p] = "refresh"
        /\ UNCHANGED <<rowvars, owed, shows_site, unsent>>
    BY DEF SInv, refresh_from_db, Consumer
  <1>2. ASSUME NEW to \in {"nothing", "rest"}, Now(p, to)
        PROVE  /\ doing' \in [Pages -> {"nothing", "join", "status", "refresh", "rest"}]
               /\ doing'[p] = to /\ \A q \in Pages \ {p} : doing'[q] = doing[q]
    BY <1>1, <1>2 DEF Now, StatusTypes
  <1>3. CASE ~ exists_row
    <2>1. /\ ToBrowser(p, Deleted) /\ Now(p, "nothing")
          /\ UNCHANGED <<group, self_type, status_websocket, read, inbox_site, conn>>
      BY <1>3 DEF refresh_from_db
    <2>2. Deleted \in SiteValues
      BY DEF Deleted, SiteValues
    <2>3. tobrowser' \in [Pages -> Seq(SiteValues)] /\ \A q \in Pages \ {p} : tobrowser'[q] = tobrowser[q]
      BY ONLY <1>1, <2>1, <2>2, ToBrowserIsLast, p \in Pages
    <2>4. StatusTypes'
      BY <1>1, <1>2, <2>1, <2>3 DEF StatusTypes, rowvars
    <2>5. OnlyAt(p)
      BY <1>1, <1>2, <2>1, <2>3 DEF OnlyAt
    <2>6. ConsumerFits(p)' /\ ~ May(p)
      BY <1>1, <1>2, <1>3, <2>1 DEF ConsumerFits, May
    <2> QED
      BY <2>4, <2>5, <2>6, PageFrame
  <1>4. CASE exists_row /\ dump_fits(p)
    <2>1. /\ read' = [read EXCEPT ![p] = Current] /\ Now(p, "rest")
          /\ UNCHANGED <<group, self_type, status_websocket, inbox_site, conn, tobrowser>>
      BY <1>4 DEF refresh_from_db
    <2>2. Current \in SiteValues /\ Current.row = version /\ Current.type = type /\ type = self_type[p]
      BY <1>1, <1>4 DEF Current, SiteValues, StatusTypes, dump_fits
    <2>3. read' \in [Pages -> SiteValues] /\ read'[p] = Current
          /\ \A q \in Pages \ {p} : read'[q] = read[q]
      BY <1>1, <2>1, <2>2 DEF StatusTypes
    <2>4. StatusTypes'
      BY <1>1, <1>2, <2>1, <2>3 DEF StatusTypes, rowvars
    <2>5. OnlyAt(p)
      BY <1>1, <1>2, <2>1, <2>3 DEF OnlyAt
    <2>6. ConsumerFits(p)'
      BY <1>1, <1>2, <2>1 DEF ConsumerFits
    <2>7. WillBeCurrent(p)'
      BY <1>1, <1>2, <2>1, <2>2, <2>3 DEF WillBeCurrent, rowvars
    <2> QED
      BY <2>4, <2>5, <2>6, <2>7, PageFrame
  <1>5. CASE exists_row /\ ~ dump_fits(p)
    <2>1. Close(p) /\ UNCHANGED tobrowser
      BY <1>5 DEF refresh_from_db
    <2> QED
      BY <1>1, <2>1, CloseKeeps DEF StatusTypes
  <1> QED
    BY <1>3, <1>4, <1>5

(* ... and what is read of the operation completes it.                     *)
LEMMA RestKeeps == ASSUME SInv, NEW p \in Pages, dump_rest(p) PROVE SInv'
  <1> DEFINE m == [read[p] EXCEPT !.op = op_version]
  <1>1. /\ StatusTypes /\ ConsumerFits(p) /\ doing[p] = "rest"
        /\ UNCHANGED <<rowvars, owed, shows_site, unsent>>
        /\ doing' = [doing EXCEPT ![p] = "nothing"] /\ ToBrowser(p, m)
        /\ UNCHANGED <<group, self_type, status_websocket, read, inbox_site, conn>>
    BY DEF SInv, dump_rest, Consumer, Now
  <1>2. /\ doing' \in [Pages -> {"nothing", "join", "status", "refresh", "rest"}]
        /\ doing'[p] = "nothing" /\ \A q \in Pages \ {p} : doing'[q] = doing[q]
    BY <1>1 DEF StatusTypes
  <1>3. read[p] \in SiteValues /\ op_version \in Nat
    BY <1>1 DEF StatusTypes
  <1>4. m \in SiteValues /\ m = [row |-> read[p].row, op |-> op_version, type |-> read[p].type]
    BY <1>3 DEF SiteValues
  <1> HIDE DEF m
  <1>5. /\ tobrowser' \in [Pages -> Seq(SiteValues)]
        /\ tobrowser'[p] # <<>> /\ tobrowser'[p][Len(tobrowser'[p])] = m
        /\ \A q \in Pages \ {p} : tobrowser'[q] = tobrowser[q]
    BY ONLY <1>1, <1>4, ToBrowserIsLast, p \in Pages
  <1>6. StatusTypes'
    BY <1>1, <1>2, <1>5 DEF StatusTypes, rowvars
  <1>7. OnlyAt(p)
    BY <1>1, <1>2, <1>5 DEF OnlyAt
  <1>8. ConsumerFits(p)'
    BY <1>1, <1>2 DEF ConsumerFits
  <1>9. ASSUME ~ unsent, conn'[p] = "open", May(p) PROVE WillBeCurrent(p)'
    <2>1. WillBeCurrent(p)
      BY <1>1, <1>9 DEF SInv
    <2>2. UNCHANGED <<version, op_version, type, owed>> /\ LastSent(p)' = m
      BY <1>1, <1>5 DEF rowvars, LastSent
    <2>3. CASE owed > 0 \/ inbox_site[p] > 0
      BY <1>1, <2>2, <2>3 DEF WillBeCurrent
    <2>4. CASE read[p].row = version /\ read[p].type = type /\ self_type[p] = type
      <3>1. Current' = m
        BY <1>4, <2>2, <2>4 DEF Current
      <3> QED
        BY <1>1, <1>2, <2>2, <2>4, <3>1 DEF WillBeCurrent
    <2> QED
      BY <1>1, <2>1, <2>3, <2>4 DEF WillBeCurrent
  <1> QED
    BY <1>6, <1>7, <1>8, <1>9, PageFrame

LEMMA UpdatedKeeps == ASSUME SInv, NEW p \in Pages, site_updated(p) PROVE SInv'
  <1>1. /\ StatusTypes /\ ConsumerFits(p) /\ conn[p] = "open" /\ inbox_site[p] > 0
        /\ inbox_site' = [inbox_site EXCEPT ![p] = @ - 1] /\ doing' = [doing EXCEPT ![p] = "refresh"]
        /\ UNCHANGED <<rowvars, owed, shows_site, unsent, group, self_type, status_websocket, read,
                       conn, tobrowser>>
    BY DEF SInv, site_updated, Consumer, Now
  <1>2. /\ doing' \in [Pages -> {"nothing", "join", "status", "refresh", "rest"}]
        /\ doing'[p] = "refresh" /\ \A q \in Pages \ {p} : doing'[q] = doing[q]
    BY <1>1 DEF StatusTypes
  <1>3. inbox_site' \in [Pages -> Nat] /\ \A q \in Pages \ {p} : inbox_site'[q] = inbox_site[q]
    BY <1>1 DEF StatusTypes
  <1>4. StatusTypes'
    BY <1>1, <1>2, <1>3 DEF StatusTypes, rowvars
  <1>5. OnlyAt(p)
    BY <1>1, <1>2, <1>3 DEF OnlyAt
  <1>6. ConsumerFits(p)' /\ WillBeCurrent(p)'
    BY <1>1, <1>2 DEF ConsumerFits, WillBeCurrent
  <1> QED
    BY <1>4, <1>5, <1>6, PageFrame

(* The page shows what it was sent, in that order.                         *)
LEMMA ListenKeeps == ASSUME SInv, NEW p \in Pages, message_listener(p) PROVE SInv'
  <1>1. /\ StatusTypes /\ ConsumerFits(p) /\ conn[p] \in {"open", "closing"} /\ tobrowser[p] # <<>>
        /\ UNCHANGED <<rowvars, owed, unsent, self_type, read>>
        /\ shows_site' = [shows_site EXCEPT ![p] = Head(tobrowser[p])]
    BY DEF SInv, message_listener, Browser
  <1>2. tobrowser \in [Pages -> Seq(SiteValues)] /\ shows_site \in [Pages -> SiteValues]
        /\ tobrowser[p] \in Seq(SiteValues)
    BY <1>1 DEF StatusTypes
  <1>3. /\ Head(tobrowser[p]) \in SiteValues /\ Tail(tobrowser[p]) \in Seq(SiteValues)
        /\ Head(tobrowser[p]) = tobrowser[p][1]
        /\ Len(tobrowser[p]) \in Nat \ {0} /\ Len(Tail(tobrowser[p])) = Len(tobrowser[p]) - 1
        /\ \A i \in 1 .. Len(tobrowser[p]) - 1 : Tail(tobrowser[p])[i] = tobrowser[p][i + 1]
    <2>1. <<>> \in Seq(SiteValues)
      BY EmptySeq
    <2> QED
      BY ONLY <1>1, <1>2, <2>1, LinePasses
  <1>4. /\ shows_site' \in [Pages -> SiteValues] /\ shows_site'[p] = Head(tobrowser[p])
        /\ \A q \in Pages \ {p} : shows_site'[q] = shows_site[q]
    BY <1>1, <1>2, <1>3
  <1>5. CASE Head(tobrowser[p]) = Deleted
    <2>1. /\ conn' = [conn EXCEPT ![p] = "finished"] /\ tobrowser' = [tobrowser EXCEPT ![p] = <<>>]
          /\ doing' = [doing EXCEPT ![p] = "nothing"] /\ group' = group \ {p}
          /\ inbox_site' = [inbox_site EXCEPT ![p] = 0]
          /\ status_websocket' = [status_websocket EXCEPT ![p] = FALSE]
      BY <1>5 DEF message_listener, Now
    <2>2. tobrowser' \in [Pages -> Seq(SiteValues)] /\ \A q \in Pages \ {p} : tobrowser'[q] = tobrowser[q]
      <3>1. <<>> \in Seq(SiteValues)
        BY EmptySeq
      <3> QED
        BY <1>2, <2>1, <3>1
    <2>3. /\ conn' \in [Pages -> {"unopened", "closed", "connecting", "open", "closing", "finished"}]
          /\ doing' \in [Pages -> {"nothing", "join", "status", "refresh", "rest"}]
          /\ status_websocket' \in [Pages -> BOOLEAN] /\ inbox_site' \in [Pages -> Nat]
          /\ group' \subseteq Pages
      BY <1>1, <2>1 DEF StatusTypes
    <2>4. /\ conn'[p] = "finished" /\ doing'[p] = "nothing" /\ p \notin group' /\ status_websocket'[p] = FALSE
          /\ \A q \in Pages \ {p} :
               /\ conn'[q] = conn[q] /\ doing'[q] = doing[q] /\ (q \in group' <=> q \in group)
               /\ status_websocket'[q] = status_websocket[q] /\ inbox_site'[q] = inbox_site[q]
      BY <1>1, <2>1 DEF StatusTypes
    <2>5. StatusTypes'
      BY <1>1, <1>4, <2>2, <2>3 DEF StatusTypes, rowvars
    <2>6. OnlyAt(p)
      BY <1>1, <1>4, <2>2, <2>4 DEF OnlyAt
    <2>7. ConsumerFits(p)'
      BY <2>4 DEF ConsumerFits
    <2> QED
      BY <2>4, <2>5, <2>6, <2>7, PageFrame
  <1>6. CASE Head(tobrowser[p]) # Deleted
    <2>1. /\ tobrowser' = [tobrowser EXCEPT ![p] = Tail(tobrowser[p])]
          /\ UNCHANGED <<conn, doing, group, inbox_site, status_websocket>>
      BY <1>6 DEF message_listener
    <2>2. /\ tobrowser' \in [Pages -> Seq(SiteValues)] /\ tobrowser'[p] = Tail(tobrowser[p])
          /\ \A q \in Pages \ {p} : tobrowser'[q] = tobrowser[q]
      BY <1>2, <1>3, <2>1
    <2>3. LastSent(p)' = LastSent(p)
      <3>1. IF Tail(tobrowser[p]) = <<>> THEN tobrowser[p][Len(tobrowser[p])] = Head(tobrowser[p])
            ELSE Tail(tobrowser[p])[Len(Tail(tobrowser[p]))] = tobrowser[p][Len(tobrowser[p])]
        BY ONLY <1>2, <1>1, LastOfTail
      <3> QED
        BY <1>1, <1>4, <2>2, <3>1 DEF LastSent
    <2>4. StatusTypes'
      BY <1>1, <1>4, <2>1, <2>2 DEF StatusTypes, rowvars
    <2>5. OnlyAt(p)
      BY <1>1, <1>4, <2>1, <2>2 DEF OnlyAt
    <2>6. ConsumerFits(p)' /\ (WillBeCurrent(p) => WillBeCurrent(p)')
      BY <1>1, <2>1, <2>3 DEF ConsumerFits, WillBeCurrent, rowvars, Current
    <2> QED
      BY <2>1, <2>4, <2>5, <2>6, PageFrame DEF SInv
  <1> QED
    BY <1>5, <1>6

LEMMA ReconnectKeeps == ASSUME SInv, NEW p \in Pages, reconnect(p) \/ open_page(p) PROVE SInv'
  <1>1. /\ StatusTypes /\ ConsumerFits(p) /\ conn[p] \in {"closing", "unopened"}
        /\ conn' = [conn EXCEPT ![p] = "closed"]
        /\ UNCHANGED <<rowvars, owed, unsent, doing, group, self_type, status_websocket, read,
                       inbox_site, tobrowser>>
    BY DEF SInv, reconnect, open_page, Browser, consumervars
  <1>2. /\ conn' \in [Pages -> {"unopened", "closed", "connecting", "open", "closing", "finished"}]
        /\ conn'[p] = "closed" /\ \A q \in Pages \ {p} : conn'[q] = conn[q]
    BY <1>1 DEF StatusTypes
  <1>3. shows_site' \in [Pages -> SiteValues] /\ \A q \in Pages \ {p} : shows_site'[q] = shows_site[q]
    <2>1. shows_site \in [Pages -> SiteValues] /\ Current \in SiteValues
      BY <1>1 DEF StatusTypes, Current, SiteValues
    <2> QED
      BY <2>1 DEF reconnect, open_page
  <1>4. StatusTypes'
    BY <1>1, <1>2, <1>3 DEF StatusTypes, rowvars
  <1>5. OnlyAt(p)
    BY <1>1, <1>2, <1>3 DEF OnlyAt
  <1>6. ConsumerFits(p)'
    BY <1>1, <1>2 DEF ConsumerFits
  <1> QED
    BY <1>2, <1>4, <1>5, <1>6, PageFrame

LEMMA LostKeeps == ASSUME SInv, NEW p \in Pages, status_lost(p) \/ connection_drops(p) PROVE SInv'
  <1>1. Close(p) /\ UNCHANGED <<rowvars, owed, unsent, shows_site>>
        /\ (UNCHANGED tobrowser \/ tobrowser' = [tobrowser EXCEPT ![p] = <<>>])
    BY DEF status_lost, connection_drops, Consumer, Browser
  <1>2. tobrowser \in [Pages -> Seq(SiteValues)] /\ <<>> \in Seq(SiteValues)
    BY EmptySeq DEF SInv, StatusTypes
  <1>3. tobrowser' \in [Pages -> Seq(SiteValues)] /\ \A q \in Pages \ {p} : tobrowser'[q] = tobrowser[q]
    BY <1>1, <1>2
  <1> QED
    BY <1>1, <1>3, CloseKeeps

LEMMA StatusStep == SInv /\ [StatusNext]_statusvars => SInv'
  <1> SUFFICES ASSUME SInv, [StatusNext]_statusvars PROVE SInv'
    OBVIOUS
  <1>1. CASE StatusNext
    BY <1>1, ChangeKeeps, SendKeeps, ConnectSiteKeeps, GroupAddKeeps, StatusSocketKeeps, RefreshKeeps,
       RestKeeps, UpdatedKeeps, ListenKeeps, ReconnectKeeps, LostKeeps DEF StatusNext, PageStep
  <1>2. CASE UNCHANGED statusvars
    BY <1>2 DEF statusvars, rowvars, consumervars, browservars, SInv, StatusTypes, ConsumerFits,
       WillBeCurrent, LastSent, Current, May
  <1> QED
    BY <1>1, <1>2

(* An open page shows the row, or is going to hear of its change.          *)
THEOREM StatusInvariant == StatusSpec => []SInv
  BY StatusInitial, StatusStep, PTL DEF StatusSpec

(* A connected page shows the row as it is once no message is on its way   *)
(* and none was lost, for any number of pages, changes and reconnections.  *)
THEOREM PagesShowTheRow == StatusSpec => []ShownIsCurrent
  <1>1. SInv => ShownIsCurrent
    <2> SUFFICES ASSUME SInv, NEW p \in Pages, Quiet(p), May(p)
                 PROVE  shows_site[p] = Current /\ status_websocket[p] = (type = "dynamic")
      BY DEF ShownIsCurrent
    <2>1. WillBeCurrent(p) /\ ConsumerFits(p)
      BY DEF SInv, Quiet
    <2> QED
      BY <2>1 DEF Quiet, WillBeCurrent, LastSent, ConsumerFits
  <1> QED
    BY <1>1, StatusInvariant, PTL
-----------------------------------------------------------------------------
(* The parts of MCSessions have a behaviour of their own each.             *)
SessionsInv == TInv /\ LInv /\ SInv

LEMMA SessionsStep == SessionsInv /\ [SessionsNext]_allvars => SessionsInv'
  <1> SUFFICES ASSUME SessionsInv, [SessionsNext]_allvars PROVE SessionsInv'
    OBVIOUS
  <1>1. [TerminalNext]_terminalvars /\ [FollowNext]_logvars /\ [StatusNext]_statusvars
    BY DEF SessionsNext, allvars
  <1> QED
    BY <1>1, TerminalStep, LogStep, StatusStep DEF SessionsInv

(* Terminals, followers and pages have their types in every state, and     *)
(* what relates the variables of each.                                     *)
THEOREM SessionsTypeCorrect == SessionsSpec => []SessionsTypeOK
  <1>1. SessionsInit => SessionsInv
    BY TerminalInitial, LogInitial, StatusInitial DEF SessionsInit, SessionsInv
  <1>2. SessionsInv => SessionsTypeOK
    <2> SUFFICES ASSUME SessionsInv PROVE SessionsTypeOK
      OBVIOUS
    <2>1. TerminalTypeOK
      BY DEF SessionsInv, TInv, TerminalTypes
    <2>2. FollowTypeOK
      <3>1. LogTypes
        BY DEF SessionsInv, LInv
      <3>2. ASSUME NEW s \in Seq(1..logged) PROVE ToSet(s) \subseteq 1..logged
        <4>1. \A i \in 1..Len(s) : s[i] \in 1..logged
          BY ONLY <3>2, ElementOfSeq
        <4> QED
          BY <3>2, <4>1, LenProperties DEF ToSet
      <3> QED
        BY <3>1, <3>2 DEF LogTypes, FollowTypeOK
    <2>3. StatusTypeOK
      BY DEF SessionsInv, SInv, StatusTypes, ConsumerFits, StatusTypeOK
    <2> QED
      BY <2>1, <2>2, <2>3 DEF SessionsTypeOK
  <1> QED
    BY <1>1, <1>2, SessionsStep, PTL DEF SessionsSpec
=============================================================================

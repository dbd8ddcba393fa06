---------------------------- MODULE LogFollower ----------------------------
(***************************************************************************)
(* The process log of a site, from Docker to the page.  The follower of an *)
(* appserver runs "docker service logs --follow" and starts it again every *)
(* ninety seconds; the manager's consumer forwards the lines, and the page *)
(* connects again, with an empty window, when the connection ends.         *)
(*                                                                         *)
(* The lines of the site are numbered; a time is the number of lines there *)
(* were then, so clocks are taken to agree.  Heartbeats are left out.      *)
(***************************************************************************)
EXTENDS Naturals, Sequences, SequencesExt

CONSTANTS
  MaxLines,      (* bound: lines the site writes                            *)
  Tail10,        (* lines sent at the start (last_n)                        *)
  NumLogHosts,   (* DIRECTOR_NUM_APPSERVERS                                 *)
  MaxBreaks      (* bound: restarts, refused and lost connections, together *)

ASSUME FollowerAssumption ==
  MaxLines \in Nat /\ Tail10 \in Nat /\ NumLogHosts \in Nat \ {0} /\ MaxBreaks \in Nat

VARIABLES
  logged,      (* lines the site has written                                *)
  proc,        (* the docker process: "none", "running", "terminated"       *)
  position,    (* lines it has printed, or that were before its start       *)
  pipe,        (* lines it has printed and nobody has read                  *)
  stopped,     (* self.stopped                                              *)
  follower,    (* where iter_lines is                                       *)
  since_time,
  channel,     (* lines on their way to the page                            *)
  logs_websock,  (* the connection, "unopened" before the page is there     *)
  attempt,     (* open_log_connection: the next appserver                   *)
  logDiv,      (* the lines on the page                                     *)
  dropped,     (* auxiliary: lines a restart left in the pipe or in Docker   *)
  breaks

procvars == <<proc, position, pipe>>
followvars == <<stopped, follower, since_time>>
connvars == <<channel, logs_websock, attempt, logDiv>>
logvars == <<logged, procvars, followvars, connvars, dropped, breaks>>

Break == breaks < MaxBreaks /\ breaks' = breaks + 1

FollowInit ==
  /\ logged = 0
  /\ proc = "none" /\ position = 0 /\ pipe = <<>>
  /\ stopped = TRUE /\ follower = "off" /\ since_time = 0
  /\ channel = <<>> /\ logs_websock = "unopened" /\ attempt = 0 /\ logDiv = <<>>
  /\ dropped = {} /\ breaks = 0

WriteLine ==
  /\ logged < MaxLines
  /\ logged' = logged + 1
  /\ UNCHANGED <<procvars, followvars, connvars, dropped, breaks>>

(* Docker prints what it has not printed yet, until it is terminated.      *)
PrintLine ==
  /\ proc = "running" /\ position < logged
  /\ position' = position + 1 /\ pipe' = Append(pipe, position')
  /\ UNCHANGED <<logged, proc, followvars, connvars, dropped, breaks>>

-----------------------------------------------------------------------------
(* SiteLogsConsumer, and the page's ReconnectingWebSocket *)

open_logs_page ==
  /\ logs_websock = "unopened" /\ logs_websock' = "closed"
  /\ UNCHANGED <<logged, procvars, followvars, channel, attempt, logDiv, dropped, breaks>>

open_fails_log ==
  /\ logs_websock = "closed" /\ attempt < NumLogHosts
  /\ Break
  /\ attempt' = attempt + 1
  /\ UNCHANGED <<logged, procvars, followvars, channel, logs_websock, logDiv, dropped>>

(* None could be reached: the connection is closed and the page tries      *)
(* again.                                                                  *)
connect_log_refused ==
  /\ logs_websock = "closed" /\ attempt = NumLogHosts
  /\ attempt' = 0
  /\ UNCHANGED <<logged, procvars, followvars, channel, logs_websock, logDiv, dropped, breaks>>

clear_window == logDiv' = <<>>

show_line(line) == logDiv' = Append(logDiv, line)

(* The handler starts a follower with last_n; the page's window is cleared *)
(* when the connection is accepted.                                        *)
connect_log ==
  /\ logs_websock = "closed" /\ attempt < NumLogHosts
  /\ logs_websock' = "open" /\ attempt' = 0 /\ clear_window /\ channel' = <<>>
  /\ proc' = "running" /\ pipe' = <<>>
  /\ position' = IF logged > Tail10 THEN logged - Tail10 ELSE 0
  /\ stopped' = FALSE /\ follower' = "reading"
  /\ UNCHANGED <<logged, since_time, dropped, breaks>>

(* One of the loops of logs_handler ends, and then the follower.           *)
end_follower ==
  /\ proc' = "none" /\ pipe' = <<>> /\ position' = 0
  /\ stopped' = TRUE /\ follower' = "off"

(* Either side closes the connection, or the docker process ends; what was *)
(* under way is gone.                                                      *)
disconnect_log ==
  /\ logs_websock = "open" /\ Break
  /\ logs_websock' = "closed" /\ channel' = <<>>
  /\ end_follower
  /\ UNCHANGED <<logged, since_time, attempt, logDiv, dropped>>

mainloop_log ==
  /\ logs_websock = "open" /\ channel # <<>>
  /\ show_line(Head(channel)) /\ channel' = Tail(channel)
  /\ UNCHANGED <<logged, procvars, followvars, logs_websock, attempt, dropped, breaks>>

-----------------------------------------------------------------------------
(* DirectorSiteLogFollower *)

Follow(from, to) ==
  /\ follower = from /\ follower' = to
  /\ UNCHANGED <<logged, logs_websock, attempt, logDiv>>

Mutant_read_line == pipe

(* What _read_line can return now: nothing once the follower is stopped.   *)
_read_line == IF stopped THEN <<>> ELSE pipe

log_loop(line) == channel' = Append(channel, line)

iter_lines ==
  /\ Follow("reading", "reading")
  /\ _read_line # <<>>
  /\ log_loop(Head(pipe)) /\ pipe' = Tail(pipe)
  /\ UNCHANGED <<proc, position, stopped, since_time, dropped, breaks>>

(* The process has lived for ninety seconds.  wait_for with a timeout of 0 *)
(* raises TimeoutError even if there is a line.  terminate() ends the      *)
(* process some time later.                                                *)
lifetime_over ==
  /\ Follow("reading", "stopping") /\ Break
  /\ since_time' = logged
  /\ UNCHANGED <<procvars, stopped, channel, dropped>>

stop ==
  /\ Follow("stopping", "draining")
  /\ proc' = "terminated" /\ stopped' = TRUE
  /\ UNCHANGED <<position, pipe, since_time, channel, dropped, breaks>>

(* "Now read the lines and yield them out": as stop() has set the flag,    *)
(* nothing is read.                                                        *)
drain ==
  /\ follower = "draining" /\ UNCHANGED <<logged, logs_websock, attempt, logDiv>>
  /\ IF _read_line # <<>>
     THEN /\ log_loop(Head(pipe)) /\ pipe' = Tail(pipe)
          /\ UNCHANGED follower
     ELSE follower' = "starting" /\ UNCHANGED <<channel, pipe>>
  /\ UNCHANGED <<proc, position, stopped, since_time, dropped, breaks>>

Mutant_start ==
  /\ Follow("starting", "reading")
  /\ dropped' = dropped \union {n \in ToSet(pipe) \union position + 1 .. logged :
                                    n <= since_time}
  /\ proc' = "running" /\ pipe' = <<>> /\ position' = since_time
  /\ UNCHANGED <<stopped, since_time, channel, breaks>>

start_position == since_time

start ==
  /\ Follow("starting", "reading")
  /\ dropped' = dropped \union {n \in ToSet(pipe) \union position + 1 .. logged :
                                    n <= since_time}
  /\ proc' = "running" /\ pipe' = <<>> /\ position' = start_position
  /\ stopped' = FALSE
  /\ UNCHANGED <<since_time, channel, breaks>>

FollowNext ==
  \/ WriteLine \/ PrintLine
  \/ open_logs_page \/ open_fails_log \/ connect_log_refused \/ connect_log \/ disconnect_log \/ mainloop_log
  \/ iter_lines \/ lifetime_over \/ stop \/ drain \/ start

(* The processes and connections make progress; lines, restarts and broken *)
(* connections need not happen.                                            *)
FollowFairness ==
  /\ WF_logvars(PrintLine) /\ WF_logvars(connect_log_refused) /\ WF_logvars(connect_log)
  /\ WF_logvars(mainloop_log)
  /\ WF_logvars(iter_lines) /\ WF_logvars(stop) /\ WF_logvars(drain) /\ WF_logvars(start)

FollowSpec == FollowInit /\ [][FollowNext]_logvars /\ FollowFairness

-----------------------------------------------------------------------------

FollowTypeOK ==
  /\ logged \in 0..MaxLines /\ position \in 0..logged /\ since_time \in 0..logged
  /\ proc \in {"none", "running", "terminated"}
  /\ follower \in {"off", "reading", "stopping", "draining", "starting"}
  /\ follower = "off" <=> logs_websock # "open"
  /\ stopped \in BOOLEAN /\ attempt \in 0..NumLogHosts
  /\ \A s \in {pipe, channel, logDiv} : ToSet(s) \subseteq 1..logged

(* No line is on the page twice or out of order, however often the docker  *)
(* process is started again.                                               *)
NoLineTwice ==
  \A i, j \in DOMAIN logDiv : i < j => logDiv[i] < logDiv[j]

(* Between the first and the last line on the page only lines that were    *)
(* written and not yet read when a restart began are missing: none of      *)
(* those written during the restart falls between the two processes.       *)
OnlyDroppedMissing ==
  logDiv # <<>> => Head(logDiv)..Last(logDiv) \subseteq ToSet(logDiv) \union dropped

(* "Now read the lines and yield them out" (logs.py:73): when the follower *)
(* is about to start docker again, it has read every line that the process *)
(* it stopped had printed.  The code does not keep this.                   *)
LeftLinesAreRead == follower = "starting" => pipe = <<>>

(* The page shows the lines in order, each once and none left out but the  *)
(* ones a restart dropped, among them those of LeftLinesAreRead.           *)
EachLineOnce == NoLineTwice /\ OnlyDroppedMissing

(* A line that is written ends up on the page, in every state of the       *)
(* follower and the connection, unless a restart dropped it or newer lines *)
(* than a page starts with have come.                                      *)
LinesArrive ==
  \A n \in 1..MaxLines :
    logged >= n /\ logs_websock # "unopened"
      ~> Contains(logDiv, n) \/ n \in dropped \/ n + Tail10 <= logged
=============================================================================

------------------------------- MODULE Remote -------------------------------
(***************************************************************************)
(* src/internal/remote/remote.go: the manager that keeps the daemon        *)
(* reachable from outside, by Tailscale or through a supervised cloudflared*)
(* connector, and tells its status on the event bus (EventBus).            *)
(*                                                                         *)
(* Of a connector's run the model keeps what reaches the manager: whether  *)
(* the process lives, the tunnel address in each of its two output pipes,  *)
(* and whether a process it left behind still holds them.  Addresses are   *)
(* names; the messages for people are left out.                            *)
(***************************************************************************)
EXTENDS EventBus

CONSTANTS
  Modes,        \* configurations to consider
  Advertised,   \* is AdvertiseURL set?
  Nodes,        \* addresses the tailnet may give this host
  Tunnels,      \* addresses a quick tunnel may get
  MinDelay,     \* minRestartDelay (2 s)
  MaxDelay,     \* maxRestartDelay (60 s)
  LeavesChild,  \* may a connector leave behind a process with its pipes?
  MaxFaults,    \* bound on changes and failures outside the manager
  MaxEvents     \* bound on events that nothing else bounds

Manager == "manager"
Pipes == {"stdout", "stderr"}   \* and the goroutines that scan them
Setters == Pipes \cup {Manager}

NoURL == ""
Status(state, url) == [state |-> state, url |-> url]
Silence == Status("none", NoURL)
Chatter == Status("camera", NoURL)   \* an event of another component

ASSUME RemoteAssumption ==
  /\ Modes \subseteq {"none", "unknown", "tailscale", "external", "unnamed", "missing", "named", "quick"}
  /\ Advertised \in BOOLEAN /\ LeavesChild \in BOOLEAN
  /\ MinDelay \in Nat \ {0} /\ MaxDelay \in Nat /\ MinDelay <= MaxDelay
  /\ Setters \subseteq Publishers /\ NoURL \notin Tunnels \cup Nodes
  /\ MaxFaults \in Nat /\ MaxEvents \in Nat

States == {"disabled", "starting", "ready", "unavailable", "not installed"}
URLs == Nodes \cup Tunnels \cup {NoURL, "host", "advertised"}
Statuses == [state : States, url : URLs]

ASSUME MessagesAssumption == Messages = Statuses \cup {Silence, Chatter}

VARIABLES
  mode,       \* the configuration
  ctx,        \* the context is not cancelled
  pc,         \* where Run is
  status,     \* the status Status() returns
  news,       \* a change a goroutine has made and not published yet
  delay,      \* the next wait before a restart
  tailnet,    \* what the tailscale CLI would answer
  proc,       \* the connector: none yet, up or dead
  child,      \* a process it left behind holds its pipes
  tunnel,     \* the address its quick tunnel got
  line,       \* per pipe, an address printed and not read yet
  scanning,   \* the goroutines that scan the pipes
  faults

manager == <<mode, pc, status, news, delay, scanning>>
outside == <<tailnet, proc, child, tunnel, line, faults>>
vars == <<busVars, manager, outside, ctx>>

TypeOK ==
  /\ mode \in Modes /\ ctx \in BOOLEAN
  /\ pc \in {"start", "parked", "checking", "resting", "top", "launched", "waiting",
             "exited", "backoff", "done"}
  /\ status \in Statuses /\ news \in [Setters -> Statuses \cup {Silence}]
  /\ delay \in MinDelay .. MaxDelay
  /\ tailnet \in Statuses
  /\ proc \in {"none", "up", "dead"} /\ child \in BOOLEAN
  /\ tunnel \in Tunnels \cup {NoURL} /\ line \in [Pipes -> Tunnels \cup {NoURL}]
  /\ scanning \subseteq Pipes /\ faults \in 0 .. MaxFaults

(* What the tailscale CLI can be made to say: see checkTailscale. *)
TailnetAnswers ==
  {Status("ready", u) : u \in Nodes}
    \cup {Status("unavailable", NoURL), Status("not installed", NoURL)}

Override(s) == IF Advertised THEN [s EXCEPT !.url = "advertised"] ELSE s

Init ==
  /\ BusInit
  /\ mode \in Modes /\ ctx = TRUE /\ pc = "start"
  /\ status = Override(Status(IF mode = "none" THEN "disabled" ELSE "starting", NoURL))
  /\ news = [g \in Setters |-> Silence]
  /\ delay = MinDelay
  /\ tailnet \in IF mode = "tailscale" THEN TailnetAnswers ELSE {Status("unavailable", NoURL)}
  /\ proc = "none" /\ child = FALSE /\ tunnel = NoURL
  /\ line = [x \in Pipes |-> NoURL] /\ scanning = {}
  /\ faults = 0

Fault == faults < MaxFaults /\ faults' = faults + 1

(* A goroutine that has a status to publish does so before it goes on. *)
Free(g) == news[g] = Silence /\ ev[g] = NoEvent

(* Mutant: a new address alone is no change. *)
SetByState(g, s) ==
  /\ status' = Override(s)
  /\ news' = [news EXCEPT ![g] = IF status.state # s.state THEN Override(s) ELSE Silence]

(* set: the change is noticed and made under the lock, published after it. *)
Set(g, s) ==
  /\ status' = Override(s)
  /\ news' = [news EXCEPT ![g] =
       IF status.state # s.state \/ status.url # s.url THEN Override(s) ELSE Silence]

Tell(g) ==
  /\ news[g] # Silence
  /\ Publish(g, news[g])
  /\ news' = [news EXCEPT ![g] = Silence]
  /\ UNCHANGED <<mode, pc, status, delay, scanning, outside, ctx>>

(* An advertised address makes every set a change: the bound is then on who
   calls it again and again. *)
MaySetAgain == Advertised => count < MaxEvents

At(from_, to) == pc = from_ /\ Free(Manager) /\ pc' = to
-----------------------------------------------------------------------------
(* Run. *)
RunUnknown ==
  /\ mode = "unknown" /\ At("start", "done")
  /\ Set(Manager, Status("unavailable", NoURL))
  /\ UNCHANGED <<busVars, mode, delay, scanning, outside, ctx>>

RunNone ==
  /\ mode = "none" /\ At("start", "done")
  /\ UNCHANGED <<busVars, mode, status, news, delay, scanning, outside, ctx>>

StartTailscale ==
  /\ mode = "tailscale" /\ At("start", "checking")
  /\ UNCHANGED <<busVars, mode, status, news, delay, scanning, outside, ctx>>

(* checkTailscale, whose command fails when the context is cancelled. *)
CheckTailscale ==
  /\ mode = "tailscale" /\ At("checking", "resting")
  /\ \/ Set(Manager, tailnet)
     \/ ~ctx /\ Set(Manager, Status("unavailable", NoURL))
  /\ UNCHANGED <<busVars, mode, delay, scanning, outside, ctx>>

(* The minute is over first: a context that is over ends the wait at once. *)
RefreshTailscale ==
  /\ ctx /\ MaySetAgain
  /\ At("resting", "checking")
  /\ UNCHANGED <<busVars, mode, status, news, delay, scanning, outside, ctx>>

(* A connector that something else runs, or that is not installed. *)
ReportOnly ==
  /\ At("start", "parked")
  /\ \/ mode = "external" /\ Set(Manager, Status("ready", "host"))
     \/ mode = "unnamed" /\ Set(Manager, Status(IF Advertised THEN "ready" ELSE "unavailable", NoURL))
     \/ mode = "missing" /\ Set(Manager, Status("not installed", NoURL))
  /\ UNCHANGED <<busVars, mode, delay, scanning, outside, ctx>>

Supervise ==
  /\ mode \in {"named", "quick"} /\ At("start", "top")
  /\ UNCHANGED <<busVars, mode, status, news, delay, scanning, outside, ctx>>

(* cmd.Start, and the status while it runs. *)
Launch ==
  /\ ctx /\ At("top", "launched")
  /\ proc' = "up" /\ child' = FALSE
  /\ tunnel' \in (IF mode = "quick" THEN Tunnels ELSE {NoURL})
  /\ line' = [x \in Pipes |-> NoURL]
  /\ Set(Manager, IF mode = "named" THEN Status("ready", "host") ELSE Status("starting", NoURL))
  /\ UNCHANGED <<busVars, mode, delay, scanning, tailnet, faults, ctx>>

LaunchFails ==
  /\ At("top", "exited") /\ ctx
  /\ Fault
  /\ UNCHANGED <<busVars, mode, status, news, delay, scanning, tailnet, proc, child, tunnel, line, ctx>>

StartScanning ==
  /\ At("launched", "waiting")
  /\ scanning' = Pipes
  /\ UNCHANGED <<busVars, mode, status, news, delay, outside, ctx>>

(* Mutant: the process is waited for, its scanners are not. *)
ReapAtOnce ==
  /\ proc = "dead"
  /\ At("waiting", "exited")
  /\ UNCHANGED <<busVars, mode, status, news, delay, scanning, outside, ctx>>

(* wg.Wait for both scanners, then cmd.Wait. *)
Reap ==
  /\ scanning = {} /\ proc = "dead"
  /\ At("waiting", "exited")
  /\ UNCHANGED <<busVars, mode, status, news, delay, scanning, outside, ctx>>

(* Mutant: a connector that exits is not restarted. *)
ExitedForGood ==
  /\ ctx /\ At("exited", "parked")
  /\ UNCHANGED delay
  /\ Set(Manager, Status("unavailable", NoURL))
  /\ UNCHANGED <<busVars, mode, scanning, outside, ctx>>

(* A run of more than a minute resets the delay. *)
Exited ==
  /\ ctx /\ At("exited", "backoff")
  /\ delay' \in {delay, MinDelay}
  /\ Set(Manager, Status("unavailable", NoURL))
  /\ UNCHANGED <<busVars, mode, scanning, outside, ctx>>

AfterDelay ==
  /\ MaySetAgain
  /\ At("backoff", "top")
  /\ delay' = IF 2 * delay > MaxDelay THEN MaxDelay ELSE 2 * delay
  /\ UNCHANGED <<busVars, mode, status, news, scanning, outside, ctx>>

(* Mutant: a connector on its way down is not waited for. *)
ReturnAtOnce ==
  /\ ~ctx
  /\ \E p \in {"parked", "resting", "top", "waiting", "exited", "backoff"} : At(p, "done")
  /\ UNCHANGED <<busVars, mode, status, news, delay, scanning, outside, ctx>>

(* Mutant: who has nothing to supervise does not listen. *)
ReturnFromLoop ==
  /\ ~ctx
  /\ \E p \in {"resting", "top", "exited", "backoff"} : At(p, "done")
  /\ UNCHANGED <<busVars, mode, status, news, delay, scanning, outside, ctx>>

(* The places where a cancelled context is looked at. *)
Return ==
  /\ ~ctx
  /\ \E p \in {"parked", "resting", "top", "exited", "backoff"} : At(p, "done")
  /\ UNCHANGED <<busVars, mode, status, news, delay, scanning, outside, ctx>>

ManagerStep ==
  \/ RunUnknown \/ RunNone \/ StartTailscale \/ CheckTailscale \/ RefreshTailscale
  \/ ReportOnly \/ Supervise \/ Launch \/ LaunchFails \/ StartScanning
  \/ Reap \/ Exited \/ AfterDelay \/ Return

(* scanCloudflaredOutput: every address is a status. *)
Scan(x) ==
  /\ x \in scanning /\ Free(x) /\ line[x] # NoURL
  /\ Set(x, Status("ready", line[x]))
  /\ line' = [line EXCEPT ![x] = NoURL]
  /\ UNCHANGED <<busVars, mode, pc, delay, scanning, tailnet, proc, child, tunnel, faults, ctx>>

(* The end of the output: nobody is left to write to the pipe. *)
ScanEnds(x) ==
  /\ x \in scanning /\ Free(x) /\ line[x] = NoURL
  /\ proc # "up" /\ ~child
  /\ scanning' = scanning \ {x}
  /\ UNCHANGED <<busVars, mode, pc, status, news, delay, outside, ctx>>

(* A line too long for the scanner ends it before the output does. *)
ScanFails(x) ==
  /\ x \in scanning /\ Free(x) /\ Fault
  /\ scanning' = scanning \ {x}
  /\ UNCHANGED <<busVars, mode, pc, status, news, delay, tailnet, proc, child, tunnel, line, ctx>>
-----------------------------------------------------------------------------
(* Outside: the tailnet, the connector and the rest of the daemon. *)
TailnetChanges ==
  /\ mode = "tailscale" /\ Fault
  /\ tailnet' \in TailnetAnswers \ {tailnet}
  /\ UNCHANGED <<busVars, manager, proc, child, tunnel, line, ctx>>

Announce(x) ==
  /\ mode = "quick" /\ proc = "up" /\ line[x] = NoURL /\ MaySetAgain
  /\ line' = [line EXCEPT ![x] = tunnel]
  /\ UNCHANGED <<busVars, manager, tailnet, proc, child, tunnel, faults, ctx>>

Dies ==
  /\ proc = "up" /\ proc' = "dead"
  /\ child' \in {FALSE, LeavesChild}
  /\ UNCHANGED <<busVars, manager, tailnet, tunnel, line, ctx>>

ConnectorExits == Dies /\ Fault

(* exec.CommandContext: the connector is killed when the context ends. *)
Kill == ~ctx /\ Dies /\ UNCHANGED faults

Cancel ==
  /\ ctx /\ ctx' = FALSE
  /\ UNCHANGED <<busVars, manager, outside>>

Others == Publishers \ Setters

Bus ==
  /\ \/ \E p \in Others : count < MaxEvents /\ Publish(p, Chatter)
     \/ \E p \in Publishers : Published(p) \/ \E s \in Streams : Offer(p, s)
     \/ \E s \in Streams : StreamStep(s)
  /\ UNCHANGED <<manager, outside, ctx>>

Next ==
  \/ ManagerStep
  \/ \E g \in Setters : Tell(g)
  \/ \E x \in Pipes : Scan(x) \/ ScanEnds(x) \/ ScanFails(x) \/ Announce(x)
  \/ TailnetChanges \/ ConnectorExits \/ Kill \/ Cancel
  \/ Bus

Spec == Init /\ [][Next]_vars

(* Goroutines keep going and timers fire; the mutex of the bus is handed on
   in turn; a killed process dies.  Nothing is asked of streams. *)
FairSpec ==
  /\ Spec
  /\ WF_vars(ManagerStep) /\ WF_vars(Kill)
  /\ \A g \in Setters : SF_vars(Tell(g))
  /\ \A x \in Pipes : WF_vars(Scan(x) \/ ScanEnds(x))
  /\ \A p \in Publishers :
       WF_vars((Published(p) \/ \E s \in Streams : Offer(p, s)) /\ UNCHANGED <<manager, outside, ctx>>)
-----------------------------------------------------------------------------
Settled == \A g \in Setters : Free(g)

(* The status is about the connector there is: once a run is over and told,
   no scanner of it can report it ready, and a quick tunnel is never shown
   under the address of an earlier run (remote.go:355). *)
StatusIsCurrent ==
  /\ pc \in {"backoff", "top"} /\ news[Manager] = Silence => status.state # "ready"
  /\ mode = "quick" /\ status.state = "ready" => status = Override(Status("ready", tunnel))

IsNews(e) == e.msg # Chatter

(* A client whose stream dropped nothing and has been read to the end has been
   told the status last, whichever goroutines set and published it. *)
StreamShowsStatus ==
  Settled => \A s \in subs :
    phase[s] = "live" /\ ~lost[s] /\ feed[s] = <<>> /\ (\E i \in DOMAIN sent[s] : IsNews(sent[s][i]))
      => \E i \in DOMAIN sent[s] :
           /\ sent[s][i].msg = status
           /\ \A j \in i + 1 .. Len(sent[s]) : ~IsNews(sent[s][j])

(* Run does not return while its connector runs. *)
NothingLeftRunning == pc = "done" => proc # "up" /\ scanning = {}

(* As long as nobody stops it, the manager keeps restarting a connector that
   has gone, unless a process that the connector started keeps its pipes. *)
KeepsTrying == (proc = "dead" /\ ctx) ~> (proc = "up" \/ ~ctx \/ child)

(* Run returns once it is asked to stop, with the same exception: the comment at
   remote.go:318 promises it for that case too, but the scanners are waited for
   before the connector is. *)
Stops == ~ctx ~> (pc = "done" \/ child)
=============================================================================

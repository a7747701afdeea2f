------------------------------- MODULE Watcher -------------------------------
(***************************************************************************)
(* src/internal/watcher/watcher.go: the loop that owns the camera.  It     *)
(* connects, pulls the whole card, and then holds a long poll open until   *)
(* the camera reports frames, somebody asks for a sync, or the process is  *)
(* told to stop.  The poll runs in a goroutine of its own; its context is  *)
(* cancelled, and its answer awaited, before anything else is asked of the *)
(* camera.  Beside the loop, API handlers fetch previews through whichever *)
(* client they were given.                                                 *)
(*                                                                         *)
(* A pull is abstracted to what the loop sees of it: files are imported or *)
(* fail one by one (Importer has the steps).  The camera, which is outside *)
(* the repository, queues what it has not reported yet.                    *)
(***************************************************************************)
EXTENDS Naturals, FiniteSets

CONSTANTS
  Shots,        \* frames the camera may take
  Previewers,   \* API handlers that serve a preview from the card
  MaxErrors,    \* maxConsecutiveErrors (5)
  MaxFaults,    \* bound on failures and on the camera going off
  KeepsNews     \* does the camera still report frames taken before or during
                \* an absence?

ASSUME WatcherAssumption ==
  /\ MaxErrors \in Nat \ {0} /\ MaxFaults \in Nat
  /\ KeepsNews \in BOOLEAN

VARIABLES
  on,         \* the camera answers requests
  card,       \* frames on the card
  news,       \* frames the camera has not reported yet
  pc,         \* where Run, watch and sync are
  todo,       \* what is pending of the pull
  job,        \* the frame being fetched, if any
  errs,       \* consecutive errors of the pull
  alive,      \* its request in flight may still be answered
  imported,   \* frames in the manifest
  failed,     \* frames tried in vain since the card was last listed
  poller,     \* the poll goroutine
  answer,     \* the files of the event it has put into results
  token,      \* the channel syncNow, of capacity one
  ctx,        \* the context is not cancelled
  client,     \* the published client: 0 is nil
  clients,    \* how many there have been
  preview,    \* the client a handler holds, and whether it is fetching
  request,    \* history: one sync request, until a listing has answered it
  faults      \* failures so far

camera == <<on, card, news>>
pull == <<todo, job, errs, alive, imported, failed>>
poll == <<poller, answer>>
conn == <<client, clients>>
vars == <<camera, pc, pull, poll, token, ctx, conn, preview, request, faults>>

Places == {"connecting", "listing", "walking", "pulling", "fetching", "looping",
           "selecting", "draining", "quitting", "leaving", "resting", "stopped"}

TypeOK ==
  /\ on \in BOOLEAN /\ card \subseteq Shots /\ news \subseteq card
  /\ pc \in Places
  /\ todo \subseteq card /\ job \subseteq card
  /\ errs \in 0..MaxErrors - 1 /\ alive \in BOOLEAN
  /\ imported \subseteq card /\ failed \subseteq card
  /\ poller \in {"idle", "waiting", "hung", "answered", "failed"}
  /\ answer \subseteq card
  /\ token \in BOOLEAN /\ ctx \in BOOLEAN
  /\ clients \in Nat /\ client \in 0..clients
  /\ preview \in [Previewers -> [client : 0..clients, fetching : BOOLEAN]]
  /\ request \in {"none", "made", "served"}
  /\ faults \in 0..MaxFaults

Nobody == [client |-> 0, fetching |-> FALSE]

Init ==
  /\ on = FALSE /\ card = {} /\ news = {}
  /\ pc = "connecting"
  /\ todo = {} /\ job = {} /\ errs = 0 /\ alive = FALSE
  /\ imported = {} /\ failed = {}
  /\ poller = "idle" /\ answer = {}
  /\ token = FALSE /\ ctx = TRUE
  /\ client = 0 /\ clients = 0
  /\ preview = [p \in Previewers |-> Nobody]
  /\ request = "none"
  /\ faults = 0

Fault == faults < MaxFaults /\ faults' = faults + 1

(* A request of the loop goes out, to be answered if the camera stays on. *)
Ask == alive' = on

(* It fails: the camera is or was off, the caller gave up, or by accident. *)
Refused(answerable) ==
  \/ (~answerable \/ ~ctx) /\ UNCHANGED faults
  \/ Fault

(* reqMu: one ordinary request at a time through one client. *)
Busy(c) ==
  \/ pc \in {"walking", "fetching"} /\ client = c
  \/ \E p \in Previewers : preview[p] = [client |-> c, fetching |-> TRUE]
-----------------------------------------------------------------------------
(* The camera. *)
PowerOn ==
  /\ ~on /\ on' = TRUE
  /\ UNCHANGED <<card, news, pc, pull, poll, token, ctx, conn, preview, request, faults>>

(* What is in flight will not be answered. *)
PowerOff ==
  /\ Fault
  /\ on /\ on' = FALSE
  /\ news' = IF KeepsNews THEN news ELSE {}
  /\ poller' = IF poller = "waiting" THEN "hung" ELSE poller
  /\ alive' = FALSE
  /\ UNCHANGED <<card, pc, todo, job, errs, imported, failed, answer, token, ctx, conn, preview, request>>

Shoot(k) ==
  /\ k \in Shots \ card
  /\ card' = card \cup {k}
  /\ news' = IF on \/ KeepsNews THEN news \cup {k} ELSE news
  /\ UNCHANGED <<on, pc, pull, poll, token, ctx, conn, preview, request, faults>>
-----------------------------------------------------------------------------
(* connect: find the camera, and see that it answers. *)
Connect ==
  /\ pc = "connecting" /\ on
  /\ clients' = clients + 1
  /\ client' = clients + 1
  /\ pc' = "listing"
  /\ UNCHANGED <<camera, pull, poll, token, ctx, preview, request, faults>>

(* Run stops if it was told to, and looks again later if not. *)
RestOrStop == pc' = IF ctx THEN "resting" ELSE "stopped"

ConnectFails ==
  /\ pc = "connecting" /\ Refused(on)
  /\ RestOrStop
  /\ UNCHANGED <<camera, pull, poll, token, ctx, conn, preview, request>>

(* watch has returned. *)
Leave ==
  /\ pc = "leaving"
  /\ client' = 0
  /\ RestOrStop
  /\ UNCHANGED <<camera, pull, poll, token, ctx, clients, preview, request, faults>>

Rest ==
  /\ pc = "resting"
  /\ pc' = IF ctx THEN "connecting" ELSE "stopped"
  /\ UNCHANGED <<camera, pull, poll, token, ctx, conn, preview, request, faults>>
-----------------------------------------------------------------------------
(* Pull: a walk over the card sees every frame that was there when it began,
   and some of those taken meanwhile. *)
StartListing ==
  /\ pc = "listing" /\ ~Busy(client)
  /\ pc' = "walking" /\ Ask
  /\ todo' = card
  /\ request' = IF request = "made" THEN "served" ELSE request
  /\ UNCHANGED <<camera, job, errs, imported, failed, poll, token, ctx, conn, preview, faults>>

(* PullFiles: what the manifest has is skipped. *)
Begin(files) ==
  /\ pc' = "pulling"
  /\ todo' = files \ imported
  /\ errs' = 0

Listed ==
  /\ pc = "walking" /\ alive
  /\ \E late \in SUBSET (card \ todo) : Begin(todo \cup late)
  /\ failed' = {}
  /\ request' = IF request = "served" THEN "none" ELSE request
  /\ UNCHANGED <<camera, job, alive, imported, poll, token, ctx, conn, preview, faults>>

ListingFails ==
  /\ pc = "walking" /\ Refused(alive)
  /\ pc' = "leaving"
  /\ todo' = {}
  /\ request' = IF request = "served" THEN "made" ELSE request
  /\ UNCHANGED <<camera, job, errs, alive, imported, failed, poll, token, ctx, conn, preview>>

StartFetch ==
  /\ pc = "pulling" /\ ctx /\ ~Busy(client)
  /\ \E k \in todo : job' = {k} /\ todo' = todo \ {k}
  /\ pc' = "fetching" /\ Ask
  /\ UNCHANGED <<camera, errs, imported, failed, poll, token, ctx, conn, preview, request, faults>>

Fetched ==
  /\ pc = "fetching" /\ alive
  /\ imported' = imported \cup job
  /\ job' = {}
  /\ errs' = 0
  /\ pc' = "pulling"
  /\ UNCHANGED <<camera, todo, alive, failed, poll, token, ctx, conn, preview, request, faults>>

GivesUp == errs + 1 >= MaxErrors

(* A few files may fail without the camera being given up. *)
FetchFails ==
  /\ pc = "fetching" /\ ctx /\ Refused(alive)
  /\ failed' = failed \cup job
  /\ job' = {}
  /\ \/ /\ GivesUp
        /\ pc' = "leaving" /\ errs' = 0 /\ todo' = {}
     \/ /\ ~GivesUp
        /\ pc' = "pulling" /\ errs' = errs + 1 /\ UNCHANGED todo
  /\ UNCHANGED <<camera, alive, imported, poll, token, ctx, conn, preview, request>>

(* Told to stop: between two files, or in the middle of one. *)
AbortPull ==
  /\ ~ctx
  /\ \/ pc = "pulling" /\ todo # {}
     \/ pc = "fetching"
  /\ pc' = "leaving" /\ todo' = {} /\ job' = {} /\ errs' = 0
  /\ UNCHANGED <<camera, alive, imported, failed, poll, token, ctx, conn, preview, request,
                 faults>>

EndPull ==
  /\ pc = "pulling" /\ todo = {}
  /\ pc' = "looping" /\ errs' = 0
  /\ UNCHANGED <<camera, todo, job, alive, imported, failed, poll, token, ctx, conn, preview,
                 request, faults>>
-----------------------------------------------------------------------------
(* watch: the poll goes out on its own, in vain if the camera is off. *)
StartPoll ==
  /\ pc = "looping"
  /\ \/ ctx /\ pc' = "selecting" /\ poller' = IF on THEN "waiting" ELSE "hung"
     \/ ~ctx /\ pc' = "leaving" /\ UNCHANGED poller
  /\ UNCHANGED <<camera, pull, answer, token, ctx, conn, preview, request, faults>>

(* The camera has frames to report, or anything else. *)
PollAnswered ==
  /\ poller = "waiting" /\ on
  /\ poller' = "answered"
  /\ answer' = news /\ news' = {}
  /\ UNCHANGED <<on, card, pc, pull, token, ctx, conn, preview, request, faults>>

Cancelled == ~ctx \/ pc \in {"draining", "quitting"}

(* What the camera had already written is lost with the connection. *)
PollFails ==
  /\ \/ poller = "waiting" /\ Cancelled /\ UNCHANGED faults
     \/ poller = "hung" /\ UNCHANGED faults
     \/ poller = "waiting" /\ Fault
  /\ poller' = "failed"
  /\ news' \in {news, {}}
  /\ UNCHANGED <<on, card, pc, pull, answer, token, ctx, conn, preview, request>>

(* Mutant: the goroutine is left to itself. *)
ChooseStopAtOnce ==
  /\ pc = "selecting" /\ ~ctx
  /\ pc' = "leaving"
  /\ UNCHANGED <<camera, pull, poll, token, ctx, conn, preview, request, faults>>

(* select, case ctx.Done: the poll is cancelled. *)
ChooseStop ==
  /\ pc = "selecting" /\ ~ctx
  /\ pc' = "quitting"
  /\ UNCHANGED <<camera, pull, poll, token, ctx, conn, preview, request, faults>>

(* Mutant: the answer of the poll is not awaited. *)
ChooseSyncAtOnce ==
  /\ pc = "selecting" /\ token
  /\ token' = FALSE
  /\ pc' = "listing"
  /\ UNCHANGED <<camera, pull, poll, ctx, conn, preview, request, faults>>

(* select, case syncNow. *)
ChooseSync ==
  /\ pc = "selecting" /\ token
  /\ token' = FALSE
  /\ pc' = "draining"
  /\ UNCHANGED <<camera, pull, poll, ctx, conn, preview, request, faults>>

(* Mutant: the interrupted loop polls again instead of pulling. *)
DrainedToLoop ==
  /\ poller \in {"answered", "failed"}
  /\ pc \in {"draining", "quitting"}
  /\ pc' = IF pc = "draining" THEN "looping" ELSE "leaving"
  /\ poller' = "idle" /\ answer' = {}
  /\ UNCHANGED <<camera, pull, token, ctx, conn, preview, request, faults>>

(* <-results: whatever the poll brought is dropped; a full pull makes up for
   it. *)
Drained ==
  /\ poller \in {"answered", "failed"}
  /\ pc \in {"draining", "quitting"}
  /\ pc' = IF pc = "draining" THEN "listing" ELSE "leaving"
  /\ poller' = "idle" /\ answer' = {}
  /\ UNCHANGED <<camera, pull, token, ctx, conn, preview, request, faults>>

(* select, case results: an error ends the connection, an event is pulled. *)
ChooseAnswer ==
  /\ pc = "selecting"
  /\ \/ poller = "failed" /\ pc' = "leaving" /\ UNCHANGED <<todo, errs>>
     \/ poller = "answered" /\ answer = {} /\ pc' = "looping" /\ UNCHANGED <<todo, errs>>
     \/ poller = "answered" /\ answer # {} /\ Begin(answer)
  /\ poller' = "idle" /\ answer' = {}
  /\ UNCHANGED <<camera, job, alive, imported, failed, token, ctx, conn, preview, request,
                 faults>>
-----------------------------------------------------------------------------
(* Any request may be the one that is watched. *)
Watch == request' \in IF request = "none" THEN {"none", "made"} ELSE {request}

(* Mutant: a request while a sync is running is dropped. *)
SyncNowUnlessBusy ==
  /\ Watch
  /\ token' = (token \/ pc \notin {"walking", "pulling", "fetching"})
  /\ UNCHANGED <<camera, pc, pull, poll, ctx, conn, preview, faults>>

(* POST /sync: never blocks; a second request finds the channel full. *)
SyncNow ==
  /\ Watch
  /\ token' = TRUE
  /\ UNCHANGED <<camera, pc, pull, poll, ctx, conn, preview, faults>>

(* GET /photos/{id}/thumb without a local source: the handler asks for the client,
   and some time later for its mutex. *)
TakeClient(p) ==
  /\ preview[p] = Nobody /\ client # 0
  /\ preview' = [preview EXCEPT ![p].client = client]
  /\ UNCHANGED <<camera, pc, pull, poll, token, ctx, conn, request, faults>>

FetchPreview(p) ==
  /\ preview[p].client # 0 /\ ~preview[p].fetching
  /\ ~Busy(preview[p].client)
  /\ preview' = [preview EXCEPT ![p].fetching = TRUE]
  /\ UNCHANGED <<camera, pc, pull, poll, token, ctx, conn, request, faults>>

EndPreview(p) ==
  /\ preview[p].fetching
  /\ preview' = [preview EXCEPT ![p] = Nobody]
  /\ UNCHANGED <<camera, pc, pull, poll, token, ctx, conn, request, faults>>

(* The daemon is told to stop. *)
Stop ==
  /\ ctx /\ ctx' = FALSE
  /\ UNCHANGED <<camera, pc, pull, poll, token, conn, preview, request, faults>>

Loop ==
  \/ Connect \/ ConnectFails \/ Leave \/ Rest
  \/ StartListing \/ Listed \/ ListingFails
  \/ StartFetch \/ Fetched \/ FetchFails \/ AbortPull \/ EndPull
  \/ StartPoll \/ ChooseStop \/ ChooseSync \/ ChooseAnswer \/ Drained

Next ==
  \/ PowerOn \/ PowerOff \/ \E k \in Shots : Shoot(k)
  \/ Loop
  \/ PollAnswered \/ PollFails
  \/ SyncNow \/ Stop
  \/ \E p \in Previewers : TakeClient(p) \/ FetchPreview(p) \/ EndPreview(p)

Spec == Init /\ [][Next]_vars

(* The loop and its goroutine keep running; requests end; the camera comes
   back; the mutex of a client is handed on in turn; and select, which chooses among
   ready channels at random, takes a request that stays there at last. *)
FairSpec ==
  /\ Spec
  /\ WF_vars(Loop) /\ SF_vars(ChooseSync)
  /\ SF_vars(StartListing) /\ SF_vars(StartFetch)
  /\ WF_vars(PollAnswered /\ news # {})
  /\ WF_vars(PollFails /\ UNCHANGED faults)
  /\ WF_vars(PowerOn)
  /\ \A p \in Previewers : WF_vars(EndPreview(p))
-----------------------------------------------------------------------------
(* The loop never lists or downloads while its long poll is open, and never leaves
   one behind: whenever it is not waiting for an answer there is no poll
   (watcher.go:8, DEPLOYMENT.md:208). *)
PollExclusive ==
  poller # "idle" => pc \in {"selecting", "draining", "quitting"} /\ client # 0

(* No frame is forgotten: one that is neither imported nor was tried in vain is
   in hand, or is reported by the camera next, or was in the answer of a poll that
   failed, or the whole card will be listed before the next poll.  Events that
   are dropped with a cancelled poll, or lost with the connection, are made up
   for by that. *)
InHand == news \cup todo \cup job \cup answer

FullPullAhead ==
  \/ pc \notin {"pulling", "fetching", "looping", "selecting"}
  \/ poller = "failed"

NothingForgotten ==
  FullPullAhead \/ card \subseteq imported \cup failed \cup InHand

(* A sync request is never lost: until a listing that began after it has
   succeeded, it waits in the channel or a listing comes next, even if it was
   made during a sync or while the camera was away (watcher.go:141). *)
RequestKept ==
  /\ request = "made" =>
       token \/ pc \notin {"walking", "pulling", "fetching", "looping", "selecting"}
  /\ request = "served" => pc = "walking"

(* Each request is answered by a listing. *)
RequestsAnswered == request # "none" ~> request = "none" \/ ~ctx

(* Every frame is eventually imported, or at least tried. *)
EventuallyTried ==
  \A k \in Shots : [](k \in card => <>(k \in imported \cup failed \/ ~ctx))

(* Told to stop, the loop does, and leaves neither a poll nor a client behind. *)
StopsCleanly == ~ctx ~> (pc = "stopped" /\ poller = "idle" /\ client = 0)
=============================================================================

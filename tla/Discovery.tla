----------------------------- MODULE Discovery -----------------------------
(***************************************************************************)
(* Finding cameras on the network: internal/discovery/ssdp.go.             *)
(*                                                                         *)
(* Discover first asks by multicast on every interface, a goroutine for    *)
(* each, and then, if nobody answered, has a pool of workers probe every   *)
(* address of the local networks.  An address is a number, so that the     *)
(* order of the results is the order of numbers; names of cameras are left *)
(* out.  Which addresses have an awake camera may change at any time, and  *)
(* multicast answers get lost.                                             *)
(***************************************************************************)
EXTENDS Naturals, FiniteSets, FiniteSetsExt

CONSTANTS
    Hosts,       \* addresses where there may be a camera
    Targets,     \* addresses of the local /24 networks, without our own
    Printers,    \* addresses of other devices that mention Canon when asked
    Interfaces,  \* network interfaces, and one that lets the system choose
    Workers,     \* goroutines that probe (64)
    Scan,        \* whether addresses are probed when nobody answers
    Patience     \* bound on searches cut off and on probes not answered in time

ASSUME DiscoveryAssumption ==
    /\ Hosts \subseteq Nat /\ IsFiniteSet(Hosts) /\ Targets \subseteq Nat
    /\ IsFiniteSet(Targets) /\ Printers \subseteq Hosts /\ Scan \in BOOLEAN /\ Patience \in Nat

VARIABLES
    awake,    \* addresses where a camera answers
    live,     \* the context of the search is not cancelled and has time left
    main,     \* where Discover is
    ear,      \* per interface, where its goroutine is
    heard,    \* per interface, the cameras its goroutine has heard of
    seen,     \* what the interfaces have reported
    queue,    \* addresses not yet handed to a worker
    worker,   \* per worker, where it is and with which address
    found,    \* addresses where a probe succeeded
    result,   \* what the last search returned: cameras, or an error
    slow,     \* searches cut off and probes not answered in time, so far
    steady,   \* history: cameras awake since the search began
    met,      \* history: cameras awake at some time since then
    prompt    \* history: no probe of an awake camera has failed since then

search == <<live, main, ear, heard, seen, queue, worker, found, result>>
netvars == <<awake, search, slow, steady, met, prompt>>

Off == [at |-> "gone", host |-> 0]
NotFound == [cams |-> {}, err |-> TRUE]

SearchTypeOK ==
    /\ awake \subseteq Hosts /\ live \in BOOLEAN /\ prompt \in BOOLEAN
    /\ main \in {"idle", "asking", "merging", "feeding", "closed"}
    /\ ear \in [Interfaces -> {"off", "sending", "reading", "merging"}]
    /\ heard \in [Interfaces -> SUBSET Hosts] /\ seen \subseteq Hosts
    /\ queue \subseteq Targets /\ found \subseteq Targets \cap Hosts
    /\ worker \in [Workers -> [at : {"ready", "checking", "probing", "gone"},
                               host : Targets \cup {0}]]
    /\ result \in [cams : SUBSET Hosts, err : BOOLEAN] /\ slow \in 0..Patience
    /\ steady \subseteq awake /\ met \subseteq Hosts

NetworkInit ==
    /\ awake \in SUBSET (Hosts \ Printers) /\ live = TRUE /\ main = "idle"
    /\ ear = [i \in Interfaces |-> "off"]
    /\ heard = [i \in Interfaces |-> {}] /\ seen = {}
    /\ queue = {} /\ worker = [w \in Workers |-> Off] /\ found = {}
    /\ result = NotFound /\ slow = 0 /\ steady = {} /\ met = {} /\ prompt = TRUE

-----------------------------------------------------------------------------
(* The network and the clock *)

Wake(h) ==
    /\ h \in Hosts \ (awake \cup Printers)
    /\ awake' = awake \cup {h}
    /\ met' = IF main = "idle" THEN met ELSE met \cup {h}
    /\ UNCHANGED <<search, slow, steady, prompt>>

Sleep(h) ==
    /\ h \in awake
    /\ awake' = awake \ {h} /\ steady' = steady \ {h}
    /\ UNCHANGED <<search, slow, met, prompt>>

\* The caller gives up, or its time is over.
Cancel ==
    /\ main # "idle" /\ live /\ slow < Patience
    /\ live' = FALSE /\ slow' = slow + 1
    /\ UNCHANGED <<awake, main, ear, heard, seen, queue, worker, found, result,
                   steady, met, prompt>>

-----------------------------------------------------------------------------
(* SearchSSDP and searchOn *)

Discover ==
    /\ main = "idle"
    /\ main' = "asking" /\ live' = TRUE
    /\ ear' = [i \in Interfaces |-> "sending"]
    /\ result' = NotFound
    /\ steady' = awake /\ met' = awake /\ prompt' = TRUE
    /\ UNCHANGED <<awake, heard, seen, queue, worker, found, slow>>

\* The question goes out twice, for two kinds of service; or it does not, as on
\* an interface without a route, and the goroutine has nothing to report.
Send(i) ==
    /\ ear[i] = "sending"
    /\ \E l \in {"reading", "off"} : ear' = [ear EXCEPT ![i] = l]
    /\ UNCHANGED <<awake, live, main, heard, seen, queue, worker, found, result,
                   slow, steady, met, prompt>>

\* Every answer that mentions Canon counts for a camera, at the address it names
\* or else comes from; the other devices that answer are ignored.
SaysCanon == awake \cup Printers

\* Answers are awaited until the window closes; who answers twice is listed once.
Hear(i) ==
    /\ ear[i] = "reading"
    /\ \E h \in SaysCanon : heard' = [heard EXCEPT ![i] = @ \cup {h}]
    /\ UNCHANGED <<awake, live, main, ear, seen, queue, worker, found, result,
                   slow, steady, met, prompt>>

Deadline(i) ==
    /\ ear[i] = "reading"
    /\ ear' = [ear EXCEPT ![i] = "merging"]
    /\ UNCHANGED <<awake, live, main, heard, seen, queue, worker, found, result,
                   slow, steady, met, prompt>>

\* Under the mutex
Merge(i) ==
    /\ ear[i] = "merging"
    /\ seen' = seen \cup heard[i]
    /\ ear' = [ear EXCEPT ![i] = "off"]
    /\ heard' = [heard EXCEPT ![i] = {}]
    /\ UNCHANGED <<awake, live, main, queue, worker, found, result, slow, steady, met, prompt>>

-----------------------------------------------------------------------------
(* Discover goes on, and ScanLocalSubnets *)

\* Discover returns the cameras in order, or an error; what it has gathered goes.
Return(cams, err) ==
    /\ main' = "idle" /\ result' = [cams |-> cams, err |-> err]
    /\ seen' = {} /\ found' = {}
    /\ steady' = {} /\ met' = {} /\ prompt' = TRUE

Asked == main = "asking" /\ \A i \in Interfaces : ear[i] = "off"

Answered ==
    /\ Asked
    /\ \/ seen # {} /\ Return(seen, FALSE)
       \/ seen = {} /\ (~live \/ ~Scan \/ Targets = {}) /\ Return({}, TRUE)
    /\ UNCHANGED <<awake, live, ear, heard, queue, worker, slow>>

\* Mutant: the list of addresses begins with the second.
ScanFromSecond ==
    /\ Asked /\ seen = {} /\ live /\ Scan /\ Targets # {}
    /\ main' = "feeding" /\ queue' = Targets \ {Min(Targets)}
    /\ worker' = [w \in Workers |-> [at |-> "ready", host |-> 0]]
    /\ UNCHANGED <<awake, live, ear, heard, seen, found, result, slow, steady, met, prompt>>

StartScan ==
    /\ Asked /\ seen = {} /\ live /\ Scan /\ Targets # {}
    /\ main' = "feeding" /\ queue' = Targets
    /\ worker' = [w \in Workers |-> [at |-> "ready", host |-> 0]]
    /\ UNCHANGED <<awake, live, ear, heard, seen, found, result, slow, steady, met, prompt>>

\* The channel has no buffer: an address passes from one goroutine to the other.
Feed(w) ==
    /\ main = "feeding" /\ queue # {} /\ worker[w].at = "ready"
    /\ worker' = [worker EXCEPT ![w] = [at |-> "checking", host |-> Min(queue)]]
    /\ queue' = queue \ {Min(queue)}
    /\ UNCHANGED <<awake, live, main, ear, heard, seen, found, result,
                   slow, steady, met, prompt>>

\* Mutant: every address waits for a worker.
NeverPassOver == FALSE /\ UNCHANGED netvars

\* Once cancelled, an address may be passed over instead of handed on.
PassOver ==
    /\ main = "feeding" /\ queue # {} /\ ~live
    /\ queue' = queue \ {Min(queue)}
    /\ UNCHANGED <<awake, live, main, ear, heard, seen, worker, found, result,
                   slow, steady, met, prompt>>

CloseJobs ==
    /\ main = "feeding" /\ queue = {}
    /\ main' = "closed"
    /\ UNCHANGED <<awake, live, ear, heard, seen, queue, worker, found, result,
                   slow, steady, met, prompt>>

\* A worker that has an address looks whether it still should, and then probes.
Check(w) ==
    /\ worker[w].at = "checking"
    /\ worker' = [worker EXCEPT ![w] = IF live THEN [@ EXCEPT !.at = "probing"] ELSE Off]
    /\ UNCHANGED <<awake, live, main, ear, heard, seen, queue, found, result,
                   slow, steady, met, prompt>>

Ready(w) == worker' = [worker EXCEPT ![w] = [at |-> "ready", host |-> 0]]

Probe(w) ==
    /\ worker[w].at = "probing" /\ worker[w].host \in awake /\ live
    /\ found' = found \cup {worker[w].host}
    /\ Ready(w)
    /\ UNCHANGED <<awake, live, main, ear, heard, seen, queue, result, slow, steady, met, prompt>>

\* Nobody there, cancelled, or too slow.
ProbeFails(w) ==
    /\ worker[w].at = "probing"
    /\ \/ (worker[w].host \notin awake \/ ~live) /\ UNCHANGED <<slow, prompt>>
       \/ /\ worker[w].host \in awake /\ live /\ slow < Patience
          /\ slow' = slow + 1 /\ prompt' = FALSE
    /\ Ready(w)
    /\ UNCHANGED <<awake, live, main, ear, heard, seen, queue, found, result, steady, met>>

\* The channel is closed and empty.
Leave(w) ==
    /\ main = "closed" /\ worker[w].at = "ready"
    /\ worker' = [worker EXCEPT ![w] = Off]
    /\ UNCHANGED <<awake, live, main, ear, heard, seen, queue, found, result,
                   slow, steady, met, prompt>>

Scanned ==
    /\ main = "closed" /\ \A w \in Workers : worker[w].at = "gone"
    /\ Return(found, found = {})
    /\ UNCHANGED <<awake, live, ear, heard, queue, worker, slow>>

-----------------------------------------------------------------------------
Network == Cancel \/ \E h \in Hosts : Wake(h) \/ Sleep(h)
Listening(i) == Send(i) \/ Hear(i) \/ Deadline(i) \/ Merge(i)
Probing(w) == Check(w) \/ Probe(w) \/ ProbeFails(w) \/ Leave(w)
Searching == Answered \/ StartScan \/ (\E w \in Workers : Feed(w)) \/ PassOver
             \/ CloseJobs \/ Scanned

SearchStep == Searching \/ (\E i \in Interfaces : Listening(i))
              \/ (\E w \in Workers : Probing(w))

\* Every goroutine goes on, and the window of an interface closes.
SearchFairness ==
    /\ WF_netvars(Searching)
    /\ \A i \in Interfaces : WF_netvars(Send(i)) /\ WF_netvars(Deadline(i)) /\ WF_netvars(Merge(i))
    /\ \A w \in Workers : WF_netvars(Probing(w))

-----------------------------------------------------------------------------
\* A search that succeeds returns at least one camera, and only such as answered
\* while it ran; a scan that was neither cut off nor kept waiting returns every
\* camera that was awake on the local networks all along.  No address is skipped
\* or lost between the goroutines.
SearchIsTrue ==
    [][main # "idle" /\ main' = "idle" =>
         /\ result'.err <=> result'.cams = {}
         /\ result'.cams \subseteq met \cup Printers
         /\ live /\ prompt /\ Scan /\ seen = {} => steady \cap Targets \subseteq result'.cams]_netvars

\* Every search ends, also when it is cancelled while addresses are handed out:
\* no worker waits for the one that feeds them, and it does not wait for workers
\* that have gone.
SearchEnds == (main # "idle") ~> (main = "idle")
=============================================================================

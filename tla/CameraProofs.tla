---------------------------- MODULE CameraProofs ----------------------------
(***************************************************************************)
(* Proofs about Camera and the search below it.                            *)
(***************************************************************************)
EXTENDS Camera, FiniteSetTheorems, WellFoundedInduction, TLAPS

\* A set of numbers has a least one, and of two numbers one is the greater.
LEMMA MinOf ==
  ASSUME NEW S \in SUBSET Nat, S # {} PROVE Min(S) \in S /\ \A x \in S : Min(S) <= x
  <1>1. \E x \in S : \A y \in S : ~(<<y, x>> \in OpToRel(<, Nat))
    BY NatLessThanWellFounded, WFMin
  <1>2. \E x \in S : \A y \in S : x <= y
    <2>1. PICK x \in S : \A y \in S : ~(<<y, x>> \in OpToRel(<, Nat))
      BY <1>1
    <2>2. ASSUME NEW y \in S PROVE x <= y
      <3>1. <<y, x>> \in Nat \X Nat /\ <<y, x>>[1] = y /\ <<y, x>>[2] = x
        OBVIOUS
      <3>2. ~(y < x)
        BY <2>1, <3>1 DEF OpToRel
      <3> QED
        BY <3>2
    <2> QED
      BY <2>2
  <1> QED
    BY <1>2 DEF Min

\* As many pages as there must be.
LEMMA DivUp ==
  ASSUME NEW n \in Nat, NEW k \in Nat \ {0}
  PROVE  (n + k - 1) \div k \in Nat /\ n <= ((n + k - 1) \div k) * k
  OBVIOUS

LEMMA MaxOfTwo ==
  ASSUME NEW a \in Int, NEW b \in Int PROVE Max({a, b}) \in {a, b} /\ Max({a, b}) >= a /\ Max({a, b}) >= b
  <1>1. \E x \in {a, b} : \A y \in {a, b} : x >= y
    <2>1. CASE a >= b
      BY <2>1
    <2>2. CASE b >= a
      BY <2>2
    <2> QED
      BY <2>1, <2>2
  <1> QED
    BY <1>1 DEF Max

\* The directory that is read is one of those still to be listed.
LEMMA FirstOf ==
  ASSUME NEW D \in SUBSET (Nat \X Nat), D # {} PROVE First(D) \in D
  <1> DEFINE N == {d[2] : d \in D}
  <1>1. N \in SUBSET Nat /\ N # {}
    OBVIOUS
  <1>2. PICK n \in N : \A m \in N : n <= m
    BY <1>1, MinOf
  <1>3. \E d \in D : \A e \in D : d[2] <= e[2]
    BY <1>2
  <1> QED
    BY <1>3 DEF First

-----------------------------------------------------------------------------
\* TYPES.  A worker that has an address has one of the local networks, and what a
\* search returns is an error exactly when it is no camera.
TypeInv ==
    /\ TypeOK
    /\ \A w \in Workers : worker[w].at \in {"checking", "probing"} => worker[w].host \in Targets
    /\ result.err <=> result.cams = {}

SearchTypes ==
    /\ SearchTypeOK
    /\ \A w \in Workers : worker[w].at \in {"checking", "probing"} => worker[w].host \in Targets
    /\ result.err <=> result.cams = {}

LEMMA SearchTypesInit == NetworkInit => SearchTypes
  BY DiscoveryAssumption DEF NetworkInit, SearchTypes, SearchTypeOK, Off, NotFound

\* One worker goes on, with an address or without.
LEMMA WorkerType ==
  ASSUME SearchTypes, NEW w \in Workers,
         NEW x \in [at : {"ready", "checking", "probing", "gone"}, host : Targets \cup {0}],
         x.at \in {"checking", "probing"} => x.host \in Targets,
         worker' = [worker EXCEPT ![w] = x]
  PROVE  /\ worker' \in [Workers -> [at : {"ready", "checking", "probing", "gone"}, host : Targets \cup {0}]]
         /\ \A v \in Workers : worker'[v].at \in {"checking", "probing"} => worker'[v].host \in Targets
  BY DEF SearchTypes, SearchTypeOK

LEMMA SearchTypesStep ==
  ASSUME SearchTypes, Network \/ SearchStep \/ Discover \/ Forget PROVE SearchTypes'
  <1> USE DEF SearchTypes, SearchTypeOK
  <1>1. CASE Network
    <2>1. CASE Cancel
      <3>1. slow' \in 0..Patience
        BY <2>1, DiscoveryAssumption DEF Cancel
      <3> QED
        BY <2>1, <3>1 DEF Cancel
    <2>2. ASSUME NEW h \in Hosts, Wake(h) PROVE SearchTypes'
      BY <2>2 DEF Wake, search
    <2>3. ASSUME NEW h \in Hosts, Sleep(h) PROVE SearchTypes'
      BY <2>3 DEF Sleep, search
    <2> QED
      BY <1>1, <2>1, <2>2, <2>3 DEF Network
  <1>2. CASE Discover
    BY <1>2 DEF Discover, NotFound
  <1>3. CASE Forget
    BY <1>3 DEF Forget, NotFound
  <1>4. ASSUME NEW i \in Interfaces, Listening(i) PROVE SearchTypes'
    <2>1. CASE Send(i)
      BY <2>1 DEF Send
    <2>2. CASE Hear(i)
      BY <2>2, DiscoveryAssumption DEF Hear, SaysCanon
    <2>3. CASE Deadline(i)
      BY <2>3 DEF Deadline
    <2>4. CASE Merge(i)
      BY <2>4 DEF Merge
    <2> QED
      BY <1>4, <2>1, <2>2, <2>3, <2>4 DEF Listening
  <1>5. CASE Answered
    <2>1. CASE Return(seen, FALSE) /\ seen # {}
      <3>1. result' \in [cams : SUBSET Hosts, err : BOOLEAN] /\ (result'.err <=> result'.cams = {})
        BY <2>1 DEF Return
      <3> QED
        BY <1>5, <2>1, <3>1 DEF Answered, Return
    <2>2. CASE Return({}, TRUE)
      <3>1. result' \in [cams : SUBSET Hosts, err : BOOLEAN] /\ (result'.err <=> result'.cams = {})
        BY <2>2 DEF Return
      <3> QED
        BY <1>5, <2>2, <3>1 DEF Answered, Return
    <2> QED
      BY <1>5, <2>1, <2>2 DEF Answered
  <1>6. CASE StartScan
    BY <1>6 DEF StartScan
  <1>7. ASSUME NEW w \in Workers, Feed(w) PROVE SearchTypes'
    <2>1. Min(queue) \in Targets
      BY <1>7, MinOf, DiscoveryAssumption DEF Feed
    <2> QED
      BY <1>7, <2>1, WorkerType DEF Feed
  <1>8. CASE PassOver \/ CloseJobs
    BY <1>8 DEF PassOver, CloseJobs
  <1>9. CASE Scanned
    BY <1>9 DEF Scanned, Return
  <1>10. ASSUME NEW w \in Workers, Check(w) PROVE SearchTypes'
    <2> DEFINE x == IF live THEN [worker[w] EXCEPT !.at = "probing"] ELSE Off
    <2>1. /\ x \in [at : {"ready", "checking", "probing", "gone"}, host : Targets \cup {0}]
          /\ x.at \in {"checking", "probing"} => x.host \in Targets
      BY <1>10 DEF Check, Off
    <2>2. worker' = [worker EXCEPT ![w] = x]
      BY <1>10 DEF Check
    <2> HIDE DEF x
    <2> QED
      BY <1>10, <2>1, <2>2, WorkerType DEF Check
  <1>11. ASSUME NEW w \in Workers, Probe(w) PROVE SearchTypes'
    BY <1>11, WorkerType DEF Probe, Ready
  <1>12. ASSUME NEW w \in Workers, ProbeFails(w) PROVE SearchTypes'
    <2>1. slow' \in 0..Patience
      BY <1>12, DiscoveryAssumption DEF ProbeFails
    <2>3. prompt' \in BOOLEAN
      BY <1>12 DEF ProbeFails
    <2>2. /\ worker' \in [Workers -> [at : {"ready", "checking", "probing", "gone"}, host : Targets \cup {0}]]
          /\ \A v \in Workers : worker'[v].at \in {"checking", "probing"} => worker'[v].host \in Targets
      BY <1>12, WorkerType DEF ProbeFails, Ready
    <2> QED
      BY <1>12, <2>1, <2>2, <2>3 DEF ProbeFails
  <1>13. ASSUME NEW w \in Workers, Leave(w) PROVE SearchTypes'
    BY <1>13, WorkerType DEF Leave, Off
  <1> QED
    BY <1>1, <1>2, <1>3, <1>4, <1>5, <1>6, <1>7, <1>8, <1>9, <1>10, <1>11, <1>12, <1>13
       DEF SearchStep, Searching, Probing

\* The directories of the card, and what is counted in them.
LEMMA CardFacts ==
  ASSUME card \subseteq Files
  PROVE  /\ IsFiniteSet(card)
         /\ \A f \in card : f[1] \in Nat /\ f[2] \in Nat /\ f[3] \in Nat /\ DirOf(f) \in Nat \X Nat
         /\ \A d : Cardinality(In(d)) \in Nat /\ PageNumber(d) \in Nat
                  /\ Cardinality(In(d)) <= PageNumber(d) * PageSize
  <1>1. IsFiniteSet(card)
    BY FS_Subset, CameraAssumption
  <1>2. \A f \in card : f[1] \in Nat /\ f[2] \in Nat /\ f[3] \in Nat /\ DirOf(f) \in Nat \X Nat
    BY CameraAssumption DEF DirOf
  <1>3. ASSUME NEW d
        PROVE  /\ Cardinality(In(d)) \in Nat /\ PageNumber(d) \in Nat
               /\ Cardinality(In(d)) <= PageNumber(d) * PageSize
    <2> DEFINE n == Cardinality(In(d))
               q == (n + PageSize - 1) \div PageSize
    <2>1. n \in Nat
      BY <1>1, FS_Subset, FS_CardinalityType DEF In
    <2>2. q \in Nat /\ n <= q * PageSize
      BY <2>1, DivUp, CameraAssumption
    <2> HIDE DEF n
    <2>3. Max({1, q}) \in {1, q} /\ Max({1, q}) >= q
      <3> HIDE DEF q
      <3> QED
        BY <2>2, MaxOfTwo
    <2>4. PageNumber(d) = Max({1, q})
      BY DEF PageNumber, n
    <2>5. Max({1, q}) * PageSize >= n /\ Max({1, q}) \in Nat
      <3> HIDE DEF q
      <3>1. CASE q = 0
        BY <2>1, <2>2, <2>3, <3>1, CameraAssumption
      <3>2. CASE q # 0
        <4>1. Max({1, q}) = q
          BY <2>2, <2>3, <3>2
        <4> QED
          BY <2>1, <2>2, <4>1
      <3> QED
        BY <3>1, <3>2
    <2> QED
      BY <2>1, <2>4, <2>5, CameraAssumption DEF n
  <1> QED
    BY <1>1, <1>2, <1>3

\* What the owner of the client does to the network and the search.
LEMMA NetworkSteps ==
  ASSUME [Next]_vars
  PROVE  UNCHANGED netvars \/ Network \/ SearchStep \/ Discover \/ Forget
  <1>1. CASE StartSearch \/ SearchFailed \/ Connect
    BY <1>1 DEF StartSearch, SearchFailed, Connect
  <1>2. CASE LoadAPIIndex \/ DeviceInfo \/ ListStorages \/ ListDirectories \/ CountPages \/ ListPage
    BY <1>2 DEF LoadAPIIndex, DeviceInfo, ListStorages, ListDirectories, CountPages, ListPage
  <1>3. CASE NextStorage \/ ListFilesDone \/ RequestFails
    BY <1>3 DEF NextStorage, ListFilesDone, RequestFails
  <1> QED
    BY <1>1, <1>2, <1>3 DEF Next, Owner, SyncNow, Shoot, Remove, vars

LEMMA TypeInit == Init => TypeInv
  <1> SUFFICES ASSUME Init PROVE TypeInv
    OBVIOUS
  <1>1. SearchTypes
    BY SearchTypesInit DEF Init
  <1> QED
    <2>1. faults \in 0..MaxFaults
      BY CameraAssumption DEF Init
    <2> QED
      BY <1>1, <2>1 DEF Init, TypeInv, TypeOK, SearchTypes

LEMMA TypeStep == TypeInv /\ [Next]_vars => TypeInv'
  <1> SUFFICES ASSUME TypeInv, [Next]_vars PROVE TypeInv'
    OBVIOUS
  <1>1. SearchTypes
    BY DEF TypeInv, TypeOK, SearchTypes
  <1>2. SearchTypes'
    <2>1. CASE UNCHANGED netvars
      BY <1>1, <2>1 DEF netvars, search, SearchTypes, SearchTypeOK
    <2> QED
      BY <1>1, <2>1, NetworkSteps, SearchTypesStep
  <1> DEFINE Rest == /\ card' \subseteq Files /\ listed' \subseteq Files /\ stayed' \subseteq card'
                     /\ pc' \in {"rest", "searching", "info", "storages", "directories", "files", "listed"}
                     /\ client' \in Hosts \cup {0} /\ api' \in {"unknown", "index", "fallback"}
                     /\ slots' \subseteq Nat /\ dirs' \subseteq Nat \X Nat /\ page' \in Nat /\ pages' \in Nat
                     /\ faults' \in 0..MaxFaults /\ shrunk' \subseteq Nat \X Nat /\ twice' \in BOOLEAN
  <1>3. Rest
    <2> USE DEF TypeInv, TypeOK
    <2>1. CASE UNCHANGED <<card, pc, client, api, walk, faults>>
      BY <2>1 DEF walk
    <2>2. ASSUME NEW f \in Files, Shoot(f) PROVE Rest
      BY <2>2 DEF Shoot, walk
    <2>3. ASSUME NEW f \in Files, Remove(f) PROVE Rest
      BY <2>3, CardFacts DEF Remove
    <2>4. CASE LoadAPIIndex
      BY <2>4, CameraAssumption DEF LoadAPIIndex, Fails, walk
    <2>5. CASE Connect
      <3>1. Min(result.cams) \in Hosts
        BY <2>5, MinOf, DiscoveryAssumption DEF Connect, SearchTypeOK
      <3> QED
        BY <2>5, <3>1 DEF Connect, walk
    <2>6. CASE StartSearch \/ SearchFailed \/ DeviceInfo \/ NextStorage \/ SyncNow
      BY <2>6 DEF StartSearch, SearchFailed, DeviceInfo, NextStorage, SyncNow, walk
    <2>7. CASE ListStorages
      BY <2>7, CardFacts DEF ListStorages
    <2>8. CASE ListDirectories
      BY <2>8, CardFacts DEF ListDirectories
    <2>9. CASE CountPages
      BY <2>9, CardFacts DEF CountPages
    <2>10. CASE ListPage
      BY <2>10 DEF ListPage, Page, In
    <2>11. CASE ListFilesDone
      BY <2>11 DEF ListFilesDone, EndWalk
    <2>12. CASE RequestFails
      <3>1. faults' \in 0..MaxFaults
        BY <2>12, CameraAssumption DEF RequestFails, Fails
      <3> QED
        BY <2>12, <3>1 DEF RequestFails, EndWalk
    <2> HIDE DEF TypeInv, TypeOK, Rest
    <2> QED
      BY <2>1, <2>2, <2>3, <2>4, <2>5, <2>6, <2>7, <2>8, <2>9, <2>10, <2>11, <2>12
         DEF Next, Owner, Others, vars
  <1> QED
    BY <1>2, <1>3 DEF TypeInv, TypeOK, SearchTypes

\* Every variable keeps its type in every run.
THEOREM CameraTypeCorrect == Spec => []TypeOK
  <1>1. TypeInv => TypeOK
    BY DEF TypeInv
  <1> QED
    BY TypeInit, TypeStep, <1>1, PTL DEF Spec

-----------------------------------------------------------------------------
\* THE SEARCH.  Whoever was heard of answered while the search ran.  As long as the
\* scan is not cut off and no probe was late, an address of the local networks where
\* a camera has been awake all along is still to be handed out, with a worker, or
\* found: none gets lost between the goroutines.
With(w, h) == worker[w].at \in {"checking", "probing"} /\ worker[w].host = h
Accounted(h) == h \in queue \cup found \/ \E w \in Workers : With(w, h)

SearchInv ==
    /\ main = "idle" => seen = {} /\ found = {} /\ steady = {}
    /\ main # "idle" => awake \subseteq met
    /\ main = "closed" => queue = {}
    /\ main \notin {"feeding", "closed"} => \A w \in Workers : worker[w].at = "gone"
    /\ \A i \in Interfaces : /\ main # "asking" => ear[i] = "off"
                             /\ ear[i] \in {"off", "sending"} => heard[i] = {}
                             /\ heard[i] \subseteq met \cup Printers
    /\ seen \subseteq met \cup Printers /\ found \subseteq met
    /\ main \in {"feeding", "closed"} /\ live /\ prompt =>
         \A h \in steady \cap Targets : Accounted(h)

LEMMA SearchInit == Init => SearchInv
  BY DEF Init, NetworkInit, SearchInv, Off

\* A step of the pool accounts for all that it accounted for before.
LEMMA PoolStep ==
  ASSUME SearchInv, UNCHANGED <<awake, live, ear, heard, seen, met, steady>>,
         main \in {"feeding", "closed"}, main' \in {"feeding", "closed"},
         main' = "closed" => queue' = {}, found' \subseteq met,
         prompt' => prompt,
         \A h \in steady : live /\ prompt' /\ Accounted(h) => Accounted(h)'
  PROVE  SearchInv'
  BY DEF SearchInv

\* One worker at a time.
LEMMA OneWorker ==
  ASSUME SearchTypes, NEW w \in Workers, NEW x, worker' = [worker EXCEPT ![w] = x]
  PROVE  worker'[w] = x /\ \A v \in Workers \ {w} : worker'[v] = worker[v]
  BY DEF SearchTypes, SearchTypeOK

LEMMA SearchStepInv ==
  ASSUME SearchTypes, SearchInv, UNCHANGED netvars \/ Network \/ SearchStep \/ Discover \/ Forget
  PROVE  SearchInv'
  <1>1. CASE UNCHANGED netvars
    BY <1>1 DEF netvars, search, SearchInv, Accounted, With
  <1>2. CASE Forget
    BY <1>2 DEF Forget, SearchInv, Accounted, With
  <1>3. CASE Discover
    BY <1>3 DEF Discover, SearchInv, SearchTypes, SearchTypeOK
  <1>4. CASE Cancel
    BY <1>4 DEF Cancel, SearchInv
  <1>5. ASSUME NEW h \in Hosts, Wake(h) PROVE SearchInv'
    BY <1>5 DEF Wake, search, SearchInv, Accounted, With
  <1>6. ASSUME NEW h \in Hosts, Sleep(h) PROVE SearchInv'
    BY <1>6 DEF Sleep, search, SearchInv, Accounted, With
  <1>7. ASSUME NEW i \in Interfaces, Listening(i) PROVE SearchInv'
    <2>1. main = "asking" /\ main' = "asking"
      BY <1>7 DEF Listening, Send, Hear, Deadline, Merge, SearchInv
    <2> USE <2>1 DEF SearchInv, SearchTypes, SearchTypeOK
    <2>2. CASE Send(i)
      BY <2>2 DEF Send
    <2>3. CASE Hear(i)
      BY <2>3 DEF Hear, SaysCanon
    <2>4. CASE Deadline(i)
      BY <2>4 DEF Deadline
    <2>5. CASE Merge(i)
      BY <2>5 DEF Merge
    <2> QED
      BY <1>7, <2>2, <2>3, <2>4, <2>5 DEF Listening
  <1>8. CASE Answered
    BY <1>8 DEF Answered, Asked, Return, SearchInv
  <1>9. CASE StartScan
    BY <1>9 DEF StartScan, Asked, SearchInv, Accounted
  <1>10. CASE Scanned
    BY <1>10 DEF Scanned, Return, SearchInv
  <1>11. CASE PassOver \/ CloseJobs
    <2>1. CASE PassOver
      BY <2>1, PoolStep DEF PassOver, SearchInv
    <2>2. CASE CloseJobs
      BY <2>2, PoolStep DEF CloseJobs, SearchInv, Accounted, With
    <2> QED
      BY <1>11, <2>1, <2>2
  <1>13. ASSUME NEW w \in Workers, Feed(w) PROVE SearchInv'
    <2> DEFINE x == [at |-> "checking", host |-> Min(queue)]
    <2>1. worker'[w] = x /\ \A v \in Workers \ {w} : worker'[v] = worker[v]
      BY <1>13, OneWorker DEF Feed
    <2>2. ASSUME NEW h, Accounted(h) PROVE Accounted(h)'
      <3>1. CASE h = Min(queue)
        BY <2>1, <3>1 DEF Accounted, With
      <3>2. CASE h # Min(queue)
        BY <1>13, <2>1, <2>2, <3>2 DEF Feed, Accounted, With
      <3> QED
        BY <3>1, <3>2
    <2> QED
      BY <1>13, <2>2, PoolStep DEF Feed, SearchInv
  <1>14. ASSUME NEW w \in Workers, Probing(w), main \in {"feeding", "closed"} PROVE SearchInv'
    <2>1. /\ UNCHANGED <<awake, live, ear, heard, seen, met, steady, main, queue>>
          /\ found \subseteq found' /\ (prompt' => prompt)
          /\ \A v \in Workers \ {w} : worker'[v] = worker[v]
      BY <1>14, OneWorker DEF Probing, Check, Probe, ProbeFails, Leave, Ready
    <2>2. found' \subseteq met
      BY <1>14 DEF Probing, Check, Probe, ProbeFails, Leave, SearchInv
    <2>3. ASSUME NEW h \in steady, live, prompt', With(w, h) PROVE With(w, h)' \/ h \in found'
      <3>1. CASE Check(w)
        BY <2>3, <3>1, OneWorker DEF Check, With, SearchTypes, SearchTypeOK
      <3>2. CASE Probe(w)
        BY <2>3, <3>2 DEF Probe, With
      <3>3. CASE ProbeFails(w)
        BY <2>3, <3>3 DEF ProbeFails, With, SearchTypes, SearchTypeOK
      <3>4. CASE Leave(w)
        BY <2>3, <3>4 DEF Leave, With
      <3> QED
        BY <1>14, <3>1, <3>2, <3>3, <3>4 DEF Probing
    <2>4. ASSUME NEW h \in steady, live, prompt', Accounted(h) PROVE Accounted(h)'
      BY <2>1, <2>3, <2>4 DEF Accounted, With
    <2> QED
      BY <1>14, <2>1, <2>2, <2>4, PoolStep DEF SearchInv
  <1>15. ASSUME NEW w \in Workers, Probing(w), main \notin {"feeding", "closed"} PROVE SearchInv'
    BY <1>15 DEF Probing, Check, Probe, ProbeFails, Leave, SearchInv
  <1> QED
    BY <1>1, <1>2, <1>3, <1>4, <1>5, <1>6, <1>7, <1>8, <1>9, <1>10, <1>11, <1>13, <1>14, <1>15
       DEF Network, SearchStep, Searching

SearchingInv == TypeInv /\ SearchInv

LEMMA SearchingStep == SearchingInv /\ [Next]_vars => SearchingInv'
  <1> SUFFICES ASSUME SearchingInv, [Next]_vars PROVE SearchInv'
    BY TypeStep DEF SearchingInv
  <1>1. SearchTypes /\ SearchInv
    BY DEF SearchingInv, TypeInv, TypeOK, SearchTypes
  <1> QED
    BY <1>1, NetworkSteps, SearchStepInv

\* TRUE SEARCHES.  A search that succeeds returns at least one camera, and only such
\* as answered while it ran; a scan that was neither cut off nor kept waiting returns
\* every camera that was awake on the local networks all along, whatever the number
\* of workers and the order they probe in.
THEOREM SearchesAreTrue == Spec => SearchIsTrue
  <1> DEFINE A == main # "idle" /\ main' = "idle" =>
                    /\ result'.err <=> result'.cams = {}
                    /\ result'.cams \subseteq met \cup Printers
                    /\ live /\ prompt /\ Scan /\ seen = {} => steady \cap Targets \subseteq result'.cams
  <1>1. SearchingInv /\ [Next]_vars => A
    <2> SUFFICES ASSUME SearchingInv, [Next]_vars, main # "idle", main' = "idle" PROVE A
      OBVIOUS
    <2>1. SearchTypes /\ SearchTypes' /\ SearchInv
      BY TypeStep DEF SearchingInv, TypeInv, TypeOK, SearchTypes
    <2>2. Answered \/ Scanned
      <3>1. CASE UNCHANGED netvars \/ Network
        BY <3>1 DEF netvars, search, Network, Cancel, Wake, Sleep
      <3>2. CASE Discover \/ Forget
        BY <3>2 DEF Discover, Forget
      <3>3. ASSUME NEW i \in Interfaces, Listening(i) PROVE FALSE
        BY <3>3 DEF Listening, Send, Hear, Deadline, Merge
      <3>4. ASSUME NEW w \in Workers, Probing(w) \/ Feed(w) PROVE FALSE
        BY <3>4 DEF Probing, Check, Probe, ProbeFails, Leave, Feed
      <3>5. ~(StartScan \/ PassOver \/ CloseJobs)
        BY DEF StartScan, PassOver, CloseJobs
      <3> QED
        BY <3>1, <3>2, <3>3, <3>4, <3>5, NetworkSteps DEF SearchStep, Searching
    <2>3. result'.err <=> result'.cams = {}
      BY <2>1 DEF SearchTypes
    <2>4. CASE Answered
      <3>1. \/ seen # {} /\ result'.cams = seen
            \/ seen = {} /\ result'.cams = {} /\ (~live \/ ~Scan \/ Targets = {})
        BY <2>4 DEF Answered, Return
      <3> QED
        BY <2>1, <2>3, <3>1 DEF SearchInv
    <2>5. CASE Scanned
      <3>1. result'.cams = found /\ main = "closed" /\ \A w \in Workers : worker[w].at = "gone"
        BY <2>5 DEF Scanned, Return
      <3>2. live /\ prompt => \A h \in steady \cap Targets : h \in found
        BY <2>1, <3>1 DEF SearchInv, Accounted, With
      <3> QED
        BY <2>1, <2>3, <3>1, <3>2 DEF SearchInv
    <2> QED
      BY <2>2, <2>4, <2>5
  <1>2. SearchingInv /\ [Next]_vars => [A]_netvars
    BY <1>1
  <1>3. Init => SearchingInv
    BY TypeInit, SearchInit DEF SearchingInv
  <1> QED
    BY SearchingStep, <1>2, <1>3, PTL DEF Spec, SearchIsTrue

-----------------------------------------------------------------------------
\* THE LISTING.  A file that was there all along is listed, or still ahead: in a slot
\* or a directory not begun, or on a page of this one not yet read.  A file that is
\* listed is behind: new files come after it, and deletions move it to the front.
Walking == pc \in {"directories", "files"}
Open(d) == d \in dirs /\ d = First(dirs) /\ page # 0
Ahead(f) ==
    \/ f[1] \in slots
    \/ DirOf(f) \in dirs /\ (Open(DirOf(f)) => /\ (page - 1) * PageSize < Place(f)
                                               /\ Place(f) <= pages * PageSize)
Behind(f) ==
    /\ f[1] \notin slots
    /\ DirOf(f) \in dirs => Open(DirOf(f)) /\ Place(f) <= (page - 1) * PageSize

ListInv ==
    /\ ~Walking => stayed = {} /\ listed = {} /\ dirs = {}
    /\ pc = "directories" => dirs = {}
    /\ dirs = {} => page = 0
    /\ \A d \in dirs : d[1] \notin slots
    /\ page <= pages
    /\ \A f \in stayed : DirOf(f) \in shrunk \/ f \in listed \/ Ahead(f)
    /\ \A f \in stayed \cap listed : Behind(f)
    /\ ~twice

LEMMA ListInit == Init => ListInv
  BY DEF Init, ListInv, Walking

\* The places of the files on the card, and how they change.
LEMMA PlaceOf ==
  ASSUME card \subseteq Files, NEW f \in card
  PROVE  Place(f) \in Nat /\ Place(f) > 0 /\ Place(f) <= PageNumber(DirOf(f)) * PageSize
  <1> DEFINE before == {g \in In(DirOf(f)) : g[3] <= f[3]}
  <1>1. IsFiniteSet(In(DirOf(f))) /\ before \in SUBSET In(DirOf(f))
    BY CardFacts, FS_Subset DEF In
  <1>2. IsFiniteSet(before) /\ Cardinality(before) <= Cardinality(In(DirOf(f)))
    BY <1>1, FS_Subset
  <1>3. f \in before
    BY CardFacts DEF In
  <1>4. Cardinality(before) \in Nat /\ Cardinality(before) # 0
    BY <1>2, <1>3, FS_CardinalityType, FS_EmptySet
  <1>5. Place(f) = Cardinality(before)
    BY DEF Place
  <1> HIDE DEF before
  <1> QED
    BY <1>2, <1>4, <1>5, CardFacts, CameraAssumption

LEMMA ShootKeepsPlaces ==
  ASSUME card \subseteq Files, NEW x \in Files, Shoot(x), NEW f \in card PROVE Place(f)' = Place(f)
  <1>1. card' = card \cup {x} /\ \A g \in card : DirOf(g) = DirOf(x) => g[3] < x[3]
    <2>1. ASSUME NEW g \in card, DirOf(g) = DirOf(x) PROVE g[3] < x[3]
      <3>1. g[1] = x[1] /\ g[2] = x[2]
        BY <2>1 DEF DirOf
      <3>2. g[2] \in Nat /\ x[2] \in Nat
        BY CameraAssumption
      <3> QED
        BY <3>1, <3>2 DEF Shoot
    <2> QED
      BY <2>1 DEF Shoot
  <1>2. f[3] \in Nat /\ x[3] \in Nat
    BY CameraAssumption
  <1>3. {g \in card' : DirOf(g) = DirOf(f) /\ g[3] <= f[3]} = {g \in card : DirOf(g) = DirOf(f) /\ g[3] <= f[3]}
    BY <1>1, <1>2
  <1>4. {g \in {e \in card' : DirOf(e) = DirOf(f)} : g[3] <= f[3]}
          = {g \in {e \in card : DirOf(e) = DirOf(f)} : g[3] <= f[3]}
    BY <1>3
  <1> QED
    BY <1>4 DEF Place, In, DirOf

LEMMA RemoveLowersPlaces ==
  ASSUME card \subseteq Files, NEW x \in Files, Remove(x), NEW f \in card'
  PROVE  Place(f)' <= Place(f) /\ (DirOf(f) # DirOf(x) => Place(f)' = Place(f))
  <1> DEFINE B == {g \in card : DirOf(g) = DirOf(f) /\ g[3] <= f[3]}
             C == {g \in card' : DirOf(g) = DirOf(f) /\ g[3] <= f[3]}
  <1>1. card' = card \ {x}
    BY DEF Remove
  <1>2. C \in SUBSET B /\ (DirOf(f) # DirOf(x) => C = B)
    BY <1>1
  <1>3. IsFiniteSet(B)
    BY CardFacts, FS_Subset
  <1>4. Cardinality(C) <= Cardinality(B)
    BY <1>2, <1>3, FS_Subset
  <1>5. /\ {g \in {e \in card : DirOf(e) = DirOf(f)} : g[3] <= f[3]} = B
        /\ {g \in {e \in card' : DirOf(e) = DirOf(f)} : g[3] <= f[3]} = C
    OBVIOUS
  <1>6. Place(f) = Cardinality(B) /\ Place(f)' = Cardinality(C)
    BY <1>5 DEF Place, In, DirOf
  <1> QED
    BY <1>2, <1>4, <1>6

\* What a step does that changes nothing of the listing but the card.
LEMMA CardStep ==
  ASSUME TypeInv, ListInv, UNCHANGED <<pc, slots, dirs, page, pages, listed, twice>>,
         stayed' \subseteq stayed, shrunk \subseteq shrunk',
         \A f \in stayed' : /\ Place(f) \in Nat /\ Place(f)' \in Nat /\ Place(f)' <= Place(f)
                           /\ (DirOf(f) \in shrunk' \/ Place(f)' = Place(f))
  PROVE  ListInv'
  <1>1. page \in Nat /\ PageSize \in Nat
    BY CameraAssumption DEF TypeInv, TypeOK
  <1>2. \A d : Open(d)' <=> Open(d)
    BY DEF Open
  <1>3. ASSUME NEW f \in stayed' PROVE (DirOf(f) \in shrunk \/ f \in listed \/ Ahead(f))'
    BY <1>2, <1>3 DEF ListInv, Ahead, DirOf
  <1>4. ASSUME NEW f \in stayed', f \in listed PROVE Behind(f)'
    <2>1. Behind(f)
      BY <1>4 DEF ListInv
    <2>2. (page - 1) * PageSize \in Int
      BY <1>1
    <2> QED
      BY <1>2, <1>4, <2>1, <2>2 DEF Behind, DirOf
  <1> QED
    BY <1>3, <1>4 DEF ListInv, Walking

\* A page is read: what was ahead on it is listed now, and nothing of it was before.
LEMMA PageStep ==
  ASSUME TypeInv, ListInv, ListPage PROVE ListInv'
  <1> DEFINE d == First(dirs)
             below == (page - 1) * PageSize
             upto == page * PageSize
  <1>1. /\ dirs # {} /\ page > 0 /\ pc = "files" /\ UNCHANGED <<card, pc, slots, stayed, shrunk>>
        /\ listed' = listed \cup Page(d, page)
        /\ twice' = (twice \/ stayed \cap listed \cap Page(d, page) # {})
        /\ \/ page < pages /\ page' = page + 1 /\ UNCHANGED <<dirs, pages>>
           \/ page = pages /\ page' = 0 /\ pages' = 0 /\ dirs' = dirs \ {d}
    BY DEF ListPage, ListInv, TypeInv, TypeOK
  <1>2. page \in Nat /\ pages \in Nat /\ PageSize \in Nat \ {0} /\ dirs \in SUBSET (Nat \X Nat)
    BY CameraAssumption DEF TypeInv, TypeOK
  <1>3. d \in dirs /\ Open(d)
    BY <1>1, <1>2, FirstOf DEF Open
  <1>4. below \in Int /\ upto \in Int /\ below <= upto /\ (page + 1 - 1) * PageSize = upto
    BY <1>2
  <1>5. \A f : f \in Page(d, page) <=> f \in card /\ DirOf(f) = d /\ below < Place(f) /\ Place(f) <= upto
    BY DEF Page, In
  <1>6. \A f \in stayed : f \in card /\ Place(f) \in Nat /\ Place(f)' = Place(f)
    <2>1. \A f : Place(f)' = Place(f)
      BY <1>1 DEF Place, In, DirOf
    <2> QED
      BY <2>1, PlaceOf DEF TypeInv, TypeOK
  <1> HIDE DEF d, below, upto
  <1>7. ~twice'
    <2>1. ASSUME NEW f \in stayed, f \in listed, f \in Page(d, page) PROVE FALSE
      <3>1. Behind(f) /\ DirOf(f) = d /\ below < Place(f)
        BY <1>5, <2>1 DEF ListInv
      <3>2. Place(f) <= below
        BY <1>3, <3>1 DEF Behind, below
      <3> QED
        BY <1>4, <1>6, <3>1, <3>2
    <2> QED
      BY <1>1, <2>1 DEF ListInv
  <1>8. CASE page < pages /\ page' = page + 1 /\ UNCHANGED <<dirs, pages>>
    <2>1. \A e : (Open(e) <=> e = d /\ e \in dirs) /\ (Open(e)' <=> e = d /\ e \in dirs)
      BY <1>1, <1>2, <1>8 DEF Open, d
    <2>2. (page' - 1) * PageSize = upto
      <3>1. page' - 1 = page
        BY <1>2, <1>8
      <3> QED
        BY <3>1 DEF upto
    <2>3. ASSUME NEW f \in stayed PROVE (DirOf(f) \in shrunk \/ f \in listed \/ Ahead(f))'
      <3>1. CASE f \in listed \/ DirOf(f) \in shrunk \/ f[1] \in slots
        BY <1>1, <3>1 DEF Ahead, DirOf
      <3>2. CASE DirOf(f) \in dirs /\ DirOf(f) # d
        BY <1>8, <2>1, <3>2 DEF Ahead, DirOf
      <3>3. CASE DirOf(f) = d /\ below < Place(f) /\ Place(f) <= pages * PageSize
        <4>1. CASE Place(f) <= upto
          BY <1>1, <1>5, <1>6, <3>3, <4>1
        <4>2. CASE upto < Place(f)
          <5>1. (page' - 1) * PageSize < Place(f)' /\ Place(f)' <= pages' * PageSize
            BY <1>6, <1>8, <2>2, <3>3, <4>2
          <5> QED
            BY <1>3, <1>8, <3>3, <5>1 DEF Ahead, DirOf
        <4> QED
          BY <1>4, <1>6, <4>1, <4>2
      <3> QED
        BY <1>3, <3>1, <3>2, <3>3 DEF ListInv, Ahead, below
    <2>4. ASSUME NEW f \in stayed, f \in listed' PROVE Behind(f)'
      <3>1. CASE f \in listed
        <4>1. Behind(f)
          BY <3>1 DEF ListInv
        <4>2. DirOf(f) \in dirs => DirOf(f) = d /\ Place(f) <= below
          BY <2>1, <4>1 DEF Behind, below
        <4>3. DirOf(f) \in dirs' => Open(DirOf(f))' /\ Place(f)' <= (page' - 1) * PageSize
          BY <1>4, <1>6, <1>8, <2>1, <2>2, <4>2
        <4> QED
          BY <1>1, <4>1, <4>3 DEF Behind, DirOf
      <3>2. CASE f \in Page(d, page)
        <4>1. DirOf(f) = d /\ Place(f)' <= (page' - 1) * PageSize
          BY <1>5, <1>6, <2>2, <3>2
        <4>2. f[1] \notin slots'
          BY <1>1, <1>3, <4>1 DEF ListInv, DirOf
        <4> QED
          BY <1>3, <2>1, <4>1, <4>2 DEF Behind, DirOf
      <3> QED
        BY <1>1, <2>4, <3>1, <3>2
    <2> QED
      BY <1>1, <1>2, <1>7, <1>8, <2>3, <2>4 DEF ListInv, Walking
  <1>9. CASE page = pages /\ page' = 0 /\ pages' = 0 /\ dirs' = dirs \ {d}
    <2>1. \A e : (Open(e) <=> e = d /\ e \in dirs) /\ ~Open(e)'
      BY <1>1, <1>2, <1>9 DEF Open, d
    <2>2. ASSUME NEW f \in stayed PROVE (DirOf(f) \in shrunk \/ f \in listed \/ Ahead(f))'
      <3>1. CASE f \in listed \/ DirOf(f) \in shrunk \/ f[1] \in slots
        BY <1>1, <3>1 DEF Ahead, DirOf
      <3>2. CASE DirOf(f) \in dirs /\ DirOf(f) # d
        BY <1>9, <2>1, <3>2 DEF Ahead, DirOf
      <3>3. CASE DirOf(f) = d /\ below < Place(f) /\ Place(f) <= pages * PageSize
        BY <1>1, <1>5, <1>6, <1>9, <3>3 DEF upto
      <3> QED
        BY <1>3, <3>1, <3>2, <3>3 DEF ListInv, Ahead, below
    <2>3. ASSUME NEW f \in stayed, f \in listed' PROVE Behind(f)'
      <3>1. CASE f \in listed
        BY <1>1, <1>9, <2>1, <3>1 DEF ListInv, Behind, DirOf
      <3>2. CASE f \in Page(d, page)
        <4>1. DirOf(f) = d
          BY <1>5, <3>2
        <4>2. f[1] \notin slots'
          BY <1>1, <1>3, <4>1 DEF ListInv, DirOf
        <4> QED
          BY <1>9, <4>1, <4>2 DEF Behind, DirOf
      <3> QED
        BY <1>1, <2>3, <3>1, <3>2
    <2> QED
      BY <1>1, <1>2, <1>7, <1>9, <2>2, <2>3 DEF ListInv, Walking
  <1> QED
    BY <1>1, <1>8, <1>9

\* A step that changes neither the card nor the listing.
LEMMA SameListing ==
  ASSUME ListInv, UNCHANGED <<card, walk>>, ~Walking' => ~Walking, pc' = "directories" => dirs' = {}
  PROVE  ListInv'
  <1> USE DEF walk
  <1>1. \A f : Place(f)' = Place(f)
    BY DEF Place, In, DirOf
  <1>2. \A f : (Ahead(f)' <=> Ahead(f)) /\ (Behind(f)' <=> Behind(f))
    BY <1>1 DEF Ahead, Behind, Open, DirOf
  <1> QED
    BY <1>2 DEF ListInv, DirOf

LEMMA ListStep ==
  ASSUME TypeInv, TypeInv', ListInv, [Next]_vars PROVE ListInv'
  <1> USE DEF DirOf
  <1>0. /\ card \subseteq Files /\ card' \subseteq Files /\ stayed \subseteq card /\ stayed' \subseteq card'
        /\ page \in Nat /\ pages \in Nat /\ dirs \subseteq Nat \X Nat /\ PageSize \in Nat \ {0}
    BY CameraAssumption DEF TypeInv, TypeOK
  <1>1. ASSUME NEW f \in stayed PROVE f \in card /\ Place(f) \in Nat /\ Place(f) > 0
    BY <1>0, PlaceOf
  <1>2. CASE UNCHANGED <<card, pc, walk>>
    BY <1>2, SameListing DEF walk, ListInv, Walking
  <1>3. ASSUME NEW x \in Files, Shoot(x) PROVE ListInv'
    <2>1. \A f \in stayed : Place(f)' = Place(f)
      BY <1>0, <1>3, ShootKeepsPlaces
    <2> QED
      BY <1>1, <1>3, <2>1, CardStep DEF Shoot, walk
  <1>4. ASSUME NEW x \in Files, Remove(x) PROVE ListInv'
    <2>1. CASE Walking
      <3>1. \A f \in stayed' : f \in card' /\ Place(f)' <= Place(f) /\ (DirOf(f) # DirOf(x) => Place(f)' = Place(f))
        BY <1>0, <1>4, RemoveLowersPlaces
      <3>2. shrunk' = shrunk \cup {DirOf(x)} /\ stayed' \subseteq stayed
        BY <1>4, <2>1 DEF Remove, Walking
      <3>3. \A f \in stayed' : Place(f)' \in Nat
        <4>1. ASSUME NEW f \in card' PROVE IsFiniteSet({g \in {e \in card' : DirOf(e) = DirOf(f)} : g[3] <= f[3]})
          BY <1>0, CameraAssumption, FS_Subset
        <4>2. \A f \in card' : Cardinality({g \in {e \in card' : DirOf(e) = DirOf(f)} : g[3] <= f[3]}) \in Nat
          BY <4>1, FS_CardinalityType
        <4> QED
          BY <1>0, <4>2 DEF Place, In
      <3> QED
        BY <1>1, <1>4, <3>1, <3>2, <3>3, CardStep DEF Remove
    <2>2. CASE ~Walking
      BY <1>4, <2>2 DEF Remove, ListInv, Walking
    <2> QED
      BY <2>1, <2>2
  <1>5. CASE ListStorages
    <2>1. \A f \in card : f[1] \in slots'
      BY <1>5 DEF ListStorages
    <2> QED
      BY <1>5, <2>1 DEF ListStorages, ListInv, Walking, Ahead, Behind, Open
  <1>6. CASE ListDirectories
    <2>1. PICK s \in slots : /\ slots' = slots \ {s}
                             /\ dirs' = {DirOf(f) : f \in {g \in card : g[1] = s}}
      BY <1>6 DEF ListDirectories
    <2>2. dirs = {} /\ page = 0 /\ pc' = "files" /\ UNCHANGED <<card, page, pages, listed, stayed, shrunk, twice>>
      BY <1>6 DEF ListDirectories, ListInv
    <2>3. \A d \in dirs' : d[1] = s
      BY <2>1
    <2>4. ASSUME NEW f \in stayed PROVE (DirOf(f) \in shrunk \/ f \in listed \/ Ahead(f))'
      <3>1. f[1] = s => DirOf(f) \in dirs'
        BY <1>1, <2>1
      <3> QED
        BY <2>1, <2>2, <3>1 DEF ListInv, Ahead, Open
    <2>5. ASSUME NEW f \in stayed \cap listed PROVE Behind(f)'
      <3>1. f[1] \notin slots
        BY DEF ListInv, Behind
      <3>2. DirOf(f)[1] = f[1]
        OBVIOUS
      <3> QED
        BY <2>1, <2>3, <3>1, <3>2 DEF Behind
    <2> QED
      BY <2>1, <2>2, <2>3, <2>4, <2>5 DEF ListInv, Walking
  <1>7. CASE CountPages
    <2> DEFINE d == First(dirs)
    <2>1. /\ dirs # {} /\ page = 0 /\ page' = 1 /\ pages' = PageNumber(d) /\ pc = "files"
          /\ UNCHANGED <<card, pc, slots, dirs, listed, stayed, shrunk, twice>>
      BY <1>7 DEF CountPages
    <2>2. pages' \in Nat /\ pages' >= 1
      <3>1. PageNumber(d) \in Nat /\ PageNumber(d) >= 1
        <4>1. Cardinality(In(d)) \in Nat
          BY <1>0, CardFacts
        <4> DEFINE q == (Cardinality(In(d)) + PageSize - 1) \div PageSize
        <4>2. q \in Nat
          BY <1>0, <4>1, DivUp
        <4>3. PageNumber(d) = Max({1, q})
          BY DEF PageNumber
        <4> HIDE DEF q
        <4> QED
          BY <4>2, <4>3, MaxOfTwo
      <3> QED
        BY <2>1, <3>1
    <2>3. ASSUME NEW f \in stayed, DirOf(f) = d PROVE 0 < Place(f) /\ Place(f) <= pages' * PageSize
      BY <1>0, <1>1, <2>1, <2>3, PlaceOf
    <2>4. \A f \in stayed : Place(f)' = Place(f)
      BY <2>1 DEF Place, In
    <2>5. ASSUME NEW f \in stayed PROVE (DirOf(f) \in shrunk \/ f \in listed \/ Ahead(f))'
      <3>1. DirOf(f) = d => (page' - 1) * PageSize < Place(f) /\ Place(f) <= pages' * PageSize
        <4>1. (page' - 1) * PageSize = 0
          BY <1>0, <2>1
        <4> QED
          BY <2>3, <4>1
      <3> QED
        BY <2>1, <2>4, <3>1 DEF ListInv, Ahead, Open
    <2>6. ASSUME NEW f \in stayed \cap listed PROVE Behind(f)'
      BY <2>1 DEF ListInv, Behind, Open
    <2> QED
      BY <2>1, <2>2, <2>5, <2>6 DEF ListInv, Walking
  <1>8. CASE ListPage
    BY <1>8, PageStep
  <1>9. CASE NextStorage
    <2>1. Walking /\ Walking' /\ dirs = {} /\ UNCHANGED <<card, walk>>
      BY <1>9 DEF NextStorage, Walking
    <2> QED
      BY <2>1, SameListing DEF walk, ListInv
  <1>10. CASE ListFilesDone \/ RequestFails
    BY <1>10 DEF ListFilesDone, RequestFails, EndWalk, ListInv, Walking
  <1>11. CASE StartSearch \/ SearchFailed \/ Connect \/ LoadAPIIndex \/ DeviceInfo \/ SyncNow
    <2>1. ~Walking /\ ~Walking' /\ UNCHANGED <<card, walk>>
      BY <1>11 DEF StartSearch, SearchFailed, Connect, LoadAPIIndex, DeviceInfo, SyncNow, Found, Walking
    <2>2. pc' # "directories"
      BY <2>1 DEF Walking
    <2> QED
      BY <2>1, <2>2, SameListing DEF walk, ListInv
  <1> QED
    BY <1>2, <1>3, <1>4, <1>5, <1>6, <1>7, <1>8, <1>9, <1>10, <1>11 DEF Next, Owner, Others, vars

ListingInv == TypeInv /\ ListInv

LEMMA ListingStep == ListingInv /\ [Next]_vars => ListingInv'
  BY TypeStep, ListStep DEF ListingInv

\* EXACT LISTINGS.  Whatever the size of the pages and of the card, a listing has every
\* file that was on the card all along, unless its directory lost a file meanwhile, and
\* none of them twice.
THEOREM ListingsAreExact == Spec => ListingIsExact
  <1>1. Init => ListingInv
    BY TypeInit, ListInit DEF ListingInv
  <1>2. ListingInv =>
          (pc = "directories" /\ pc' = "listed" /\ [Next]_vars =>
             ~twice /\ \A f \in stayed : f \in listed \/ DirOf(f) \in shrunk)
    <2> SUFFICES ASSUME ListingInv, [Next]_vars, pc = "directories", pc' = "listed"
                 PROVE  ~twice /\ \A f \in stayed : f \in listed \/ DirOf(f) \in shrunk
      OBVIOUS
    <2>1. slots = {}
      <3>1. ListFilesDone
        <4>1. ~(StartSearch \/ SearchFailed \/ Connect \/ LoadAPIIndex \/ DeviceInfo \/ SyncNow)
          BY DEF StartSearch, SearchFailed, Connect, LoadAPIIndex, DeviceInfo, SyncNow
        <4>2. ~(ListStorages \/ ListDirectories \/ CountPages \/ ListPage \/ NextStorage \/ RequestFails)
          BY DEF ListStorages, ListDirectories, CountPages, ListPage, NextStorage, RequestFails
        <4>3. \A f \in Files : ~Shoot(f) /\ ~Remove(f)
          BY DEF Shoot, Remove
        <4> QED
          BY <4>1, <4>2, <4>3 DEF Next, Owner, Others, vars
      <3> QED
        BY <3>1 DEF ListFilesDone
    <2>2. dirs = {}
      BY DEF ListingInv, ListInv
    <2> QED
      BY <2>1, <2>2 DEF ListingInv, ListInv, Ahead
  <1>3. ListingInv /\ [Next]_vars =>
          [pc = "directories" /\ pc' = "listed" =>
             ~twice /\ \A f \in stayed : f \in listed \/ DirOf(f) \in shrunk]_vars
    BY <1>2
  <1> QED
    BY <1>1, <1>3, ListingStep, PTL DEF Spec, ListingIsExact
=============================================================================

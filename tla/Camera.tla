------------------------------- MODULE Camera -------------------------------
(***************************************************************************)
(* Reaching a camera and listing its card: internal/ccapi/client.go, with  *)
(* the two places that connect (the watcher and rpsync pull), on top of    *)
(* Discovery.  What the camera answers is modelled from the fake camera of *)
(* the tests, internal/cameratest/fake.go.                                 *)
(*                                                                         *)
(* A file is a triple of numbers: card slot, directory, name.  The card    *)
(* changes while it is listed, page by page.  Cameras differ only in their *)
(* address: whichever answers has the one card, as if one camera moved.    *)
(***************************************************************************)
EXTENDS Discovery

CONSTANTS
    Files,     \* the files there may ever be
    PageSize,  \* files on a page of a directory (100)
    Offers,    \* the endpoints the camera has, per version of its API
    MaxFaults  \* bound on requests that fail although the camera is awake

ASSUME CameraAssumption ==
    /\ Files \subseteq Nat \X Nat \X Nat /\ IsFiniteSet(Files)
    /\ PageSize \in Nat \ {0} /\ MaxFaults \in Nat
    /\ DOMAIN Offers \subseteq Nat /\ IsFiniteSet(DOMAIN Offers) /\ DOMAIN Offers # {}

VARIABLES
    card,     \* the files on the card
    pc,       \* where the owner of the client is
    client,   \* the address of the camera, 0 for none
    api,      \* the client's API index: not read yet, read, or given up
    slots,    \* storages still to be listed
    dirs,     \* directories still to be listed
    page,     \* of the first of these directories: the next page, 0 for the count
    pages,    \* and how many there were when they were counted
    listed,   \* the files listed so far
    faults,
    stayed,   \* history: files on the card since the listing began
    shrunk,   \* history: directories that lost a file since then
    twice     \* history: one of those that stayed was listed twice

walk == <<slots, dirs, page, pages, listed, stayed, shrunk, twice>>
vars == <<netvars, card, pc, client, api, walk, faults>>

TypeOK ==
    /\ SearchTypeOK
    /\ card \subseteq Files /\ listed \subseteq Files /\ stayed \subseteq card
    /\ pc \in {"rest", "searching", "info", "storages", "directories", "files", "listed"}
    /\ client \in Hosts \cup {0} /\ api \in {"unknown", "index", "fallback"}
    /\ slots \subseteq Nat /\ dirs \subseteq Nat \X Nat /\ page \in Nat /\ pages \in Nat
    /\ faults \in 0..MaxFaults /\ shrunk \subseteq Nat \X Nat /\ twice \in BOOLEAN

Init ==
    /\ NetworkInit
    /\ card = {} /\ pc = "rest" /\ client = 0 /\ api = "unknown"
    /\ slots = {} /\ dirs = {} /\ page = 0 /\ pages = 0 /\ listed = {}
    /\ faults = 0 /\ stayed = {} /\ shrunk = {} /\ twice = FALSE

-----------------------------------------------------------------------------
(* The camera *)

DirOf(f) == <<f[1], f[2]>>
In(d) == {f \in card : DirOf(f) = d}

\* Files, and directories, are listed in the order of their names.
Place(f) == Cardinality({g \in In(DirOf(f)) : g[3] <= f[3]})
Page(d, p) == {f \in In(d) : (p - 1) * PageSize < Place(f) /\ Place(f) <= p * PageSize}
PageNumber(d) == Max({1, (Cardinality(In(d)) + PageSize - 1) \div PageSize})
First(ds) == CHOOSE d \in ds : \A e \in ds : d[2] <= e[2]

\* A new file is the last of its directory, which is the last of its slot.
Shoot(f) ==
    /\ f \in Files \ card
    /\ \A g \in card : g[1] = f[1] => g[2] < f[2] \/ (g[2] = f[2] /\ g[3] < f[3])
    /\ card' = card \cup {f}
    /\ UNCHANGED <<netvars, pc, client, api, walk, faults>>

\* By the user, or by an import that deletes what it has.
Remove(f) ==
    /\ f \in card
    /\ card' = card \ {f} /\ stayed' = stayed \ {f}
    /\ shrunk' = IF pc \in {"directories", "files"} THEN shrunk \cup {DirOf(f)} ELSE shrunk
    /\ UNCHANGED <<netvars, pc, client, api, slots, dirs, page, pages, listed, twice, faults>>

-----------------------------------------------------------------------------
(* The API index *)

Fallback == 100
Newest(e) == Max({v \in DOMAIN Offers : e \in Offers[v]})

\* An endpoint that is missing from the index is not asked for; without an index
\* the oldest version is tried.
Known(e) == \E v \in DOMAIN Offers : e \in Offers[v]
Supported(e) == api = "index" => Known(e)
endpoint(e) == IF api = "index" THEN Newest(e) ELSE Fallback

Served(e, v) == v \in DOMAIN Offers /\ e \in Offers[v]

\* A request is answered by a camera that is awake, and at times even so is not.
Answers == client \in awake
Fails == \/ ~Answers /\ UNCHANGED faults
         \/ (Answers /\ faults < MaxFaults /\ faults' = faults + 1)

LoadAPIIndex ==
    /\ pc \in {"info", "storages"} /\ api = "unknown"
    /\ \/ Answers /\ api' = "index" /\ UNCHANGED faults
       \/ Fails /\ api' = "fallback"
    /\ UNCHANGED <<netvars, card, pc, client, walk>>

-----------------------------------------------------------------------------
(* Connecting: a camera is found, and answers *)

StartSearch ==
    /\ pc = "rest"
    /\ Discover
    /\ pc' = "searching"
    /\ UNCHANGED <<card, client, api, walk, faults>>

Found == pc = "searching" /\ main = "idle"
Forget == result' = NotFound
          /\ UNCHANGED <<awake, live, main, ear, heard, seen, queue, worker, found,
                         slow, steady, met, prompt>>

SearchFailed ==
    /\ Found /\ result.err
    /\ pc' = "rest" /\ Forget
    /\ UNCHANGED <<card, client, api, walk, faults>>

Connect ==
    /\ Found /\ ~result.err
    /\ client' = Min(result.cams) /\ api' = "unknown"
    /\ pc' = "info" /\ Forget
    /\ UNCHANGED <<card, walk, faults>>

DeviceInfo ==
    /\ pc = "info" /\ api # "unknown" /\ Answers
    /\ Supported("deviceinformation") /\ Served("deviceinformation", endpoint("deviceinformation"))
    /\ pc' = "storages"
    /\ UNCHANGED <<netvars, card, client, api, walk, faults>>

-----------------------------------------------------------------------------
(* ListFiles *)

ListStorages ==
    /\ pc = "storages" /\ api # "unknown" /\ Answers
    /\ Supported("contents") /\ Served("contents", endpoint("contents"))
    /\ slots' = {f[1] : f \in card} /\ pc' = "directories"
    /\ stayed' = card
    /\ UNCHANGED <<netvars, card, client, api, dirs, page, pages, listed, shrunk, twice, faults>>

ListDirectories ==
    /\ pc = "directories" /\ slots # {} /\ Answers
    /\ \E s \in slots : /\ slots' = slots \ {s}
                        /\ dirs' = {DirOf(f) : f \in {g \in card : g[1] = s}}
    /\ pc' = "files"
    /\ UNCHANGED <<netvars, card, client, api, page, pages, listed, stayed, shrunk, twice, faults>>

CountPages ==
    /\ pc = "files" /\ dirs # {} /\ page = 0 /\ Answers
    /\ pages' = PageNumber(First(dirs)) /\ page' = 1
    /\ UNCHANGED <<netvars, card, pc, client, api, slots, dirs, listed, stayed, shrunk, twice, faults>>

\* Mutant: the last page is left out.
ListPageButLast ==
    LET d == First(dirs) IN
    /\ pc = "files" /\ dirs # {} /\ page > 0 /\ Answers
    /\ listed' = listed \cup Page(d, page)
    /\ twice' = (twice \/ stayed \cap listed \cap Page(d, page) # {})
    /\ IF page + 1 < pages THEN page' = page + 1 /\ UNCHANGED <<dirs, pages>>
       ELSE page' = 0 /\ pages' = 0 /\ dirs' = dirs \ {d}
    /\ UNCHANGED <<netvars, card, pc, client, api, slots, stayed, shrunk, faults>>

\* The number of pages is not asked for again.
ListPage ==
    LET d == First(dirs) IN
    /\ pc = "files" /\ dirs # {} /\ page > 0 /\ Answers
    /\ listed' = listed \cup Page(d, page)
    /\ twice' = (twice \/ stayed \cap listed \cap Page(d, page) # {})
    /\ IF page < pages THEN page' = page + 1 /\ UNCHANGED <<dirs, pages>>
       ELSE page' = 0 /\ pages' = 0 /\ dirs' = dirs \ {d}
    /\ UNCHANGED <<netvars, card, pc, client, api, slots, stayed, shrunk, faults>>

NextStorage ==
    /\ pc = "files" /\ dirs = {}
    /\ pc' = "directories"
    /\ UNCHANGED <<netvars, card, client, api, walk, faults>>

\* The listing is over, or given up: what it has gathered goes.
EndWalk == /\ slots' = {} /\ dirs' = {} /\ page' = 0 /\ pages' = 0 /\ listed' = {}
           /\ stayed' = {} /\ shrunk' = {} /\ twice' = FALSE

ListFilesDone ==
    /\ pc = "directories" /\ slots = {}
    /\ pc' = "listed" /\ EndWalk
    /\ UNCHANGED <<netvars, card, client, api, faults>>

-----------------------------------------------------------------------------
\* An endpoint the camera does not have in the version that is asked for.
Missing(e) == api # "unknown" /\ ~(Supported(e) /\ Served(e, endpoint(e)))

\* Mutant: the same client is asked again.
AskAgain ==
    /\ \/ pc = "storages" /\ Missing("contents") /\ UNCHANGED faults
       \/ pc = "directories" /\ slots # {} /\ Fails
       \/ pc = "files" /\ dirs # {} /\ Fails
    /\ pc' = "storages" /\ EndWalk
    /\ UNCHANGED <<netvars, card, client, api>>

\* One request that fails ends the listing, and the client: the watcher rests and
\* begins anew with another.
RequestFails ==
    /\ \/ pc = "info" /\ Missing("deviceinformation") /\ UNCHANGED faults
       \/ pc = "storages" /\ Missing("contents") /\ UNCHANGED faults
       \/ pc \in {"info", "storages"} /\ api # "unknown" /\ Fails
       \/ pc = "directories" /\ slots # {} /\ Fails
       \/ pc = "files" /\ dirs # {} /\ Fails
       \/ pc = "listed" /\ Fails
    /\ pc' = "rest" /\ client' = 0 /\ api' = "unknown" /\ EndWalk
    /\ UNCHANGED <<netvars, card>>

\* With the same client the card is listed again when a sync is asked for.
SyncNow ==
    /\ pc = "listed"
    /\ pc' = "storages"
    /\ UNCHANGED <<netvars, card, client, api, walk, faults>>

-----------------------------------------------------------------------------
Owner ==
    \/ StartSearch \/ SearchFailed \/ Connect \/ LoadAPIIndex \/ DeviceInfo
    \/ ListStorages \/ ListDirectories \/ CountPages \/ ListPage \/ NextStorage
    \/ ListFilesDone \/ RequestFails

Others == UNCHANGED <<card, pc, client, api, walk, faults>>

Next ==
    \/ Owner \/ SyncNow
    \/ \E f \in Files : Shoot(f) \/ Remove(f)
    \/ (Network \/ SearchStep) /\ Others

Spec == Init /\ [][Next]_vars
FairSpec == Spec /\ WF_vars(Owner) /\ SearchFairness

-----------------------------------------------------------------------------
\* A listing has every file that was on the card all along, unless its directory
\* lost a file meanwhile, and none of them twice, although pages are read one by one,
\* their number is read once, and the camera takes photos in between.
ListingIsExact ==
    [][pc = "directories" /\ pc' = "listed" =>
         ~twice /\ \A f \in stayed : f \in listed \/ DirOf(f) \in shrunk]_vars

\* When one camera stays on, it is found, reached and listed in the end, also after
\* its API index could not be read and whatever was tried before.
Recovers ==
    \A h \in Hosts \cap Targets : (<>[](awake = {h})) => []<>(pc = "listed")
=============================================================================

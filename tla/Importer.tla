------------------------------ MODULE Importer ------------------------------
(***************************************************************************)
(* src/internal/sync/sync.go: how a photo gets from the card, or from a    *)
(* companion app, into the library.  One process, one Importer, one ledger *)
(* (Ledger), shared without a lock by the pulls of the watcher and by the  *)
(* ingest handlers of the API.  A worker stages the bytes under a name of  *)
(* its own, inspects them, probes the library for a free name, renames,    *)
(* records, and may then delete the frame from the card; others run        *)
(* between any two of these steps, and each of them may fail.              *)
(***************************************************************************)
EXTENDS Naturals, FiniteSets

CONSTANTS
  Pullers,            \* workers that run PullFiles
  Uploaders,          \* workers that run Ingest
  Keys,               \* card/dir/name, on the camera or made up by Ingest
  Shots,              \* the keys of frames the camera may write
  Contents,           \* file contents, standing for their SHA-256 too
  Folders,            \* Dest/<layout of a capture time>
  Names,              \* file names
  Paths,              \* file paths of the library
  NameOf,             \* key -> name
  Frame,              \* shot -> what the camera stores under it
  EmptyFiles,         \* the contents of length zero
  Dates,              \* contents -> folders captureTime may choose: a single
                      \* one when the bytes carry a date
  Candidate,          \* <<folder, name, i>> -> name.ext for 0, name_i.ext after
  MaxSuffix,          \* place gives up once i is above it (1000)
  MaxErrors,          \* maxConsecutiveErrors (5)
  Unreadable,         \* library files the process cannot read back
  Included,           \* shots whose extension Options.Include admits
  Uploads,            \* what companion apps hand over: [key, data]
  DeleteAfterImport,
  MaxFaults,          \* bound on injected failures and crashes
  None                \* no entry, no file, no key

Workers == Pullers \cup Uploaders

ASSUME ImporterAssumption ==
  /\ Pullers \cap Uploaders = {}
  /\ Shots \subseteq Keys
  /\ None \notin Contents \cup Paths
  /\ EmptyFiles \subseteq Contents
  /\ Unreadable \subseteq Paths
  /\ Included \subseteq Shots
  /\ Uploads \subseteq [key : Keys, data : Contents]
  /\ NameOf \in [Keys -> Names]
  /\ Frame \in [Shots -> Contents]
  /\ Dates \in [Contents -> SUBSET Folders]
  /\ MaxSuffix \in Nat /\ MaxErrors \in Nat \ {0} /\ MaxFaults \in Nat
  /\ Candidate \in [Folders \X Names \X (0..MaxSuffix + 1) -> Paths]
  /\ DeleteAfterImport \in BOOLEAN
  /\ None \notin [dest : Paths, sum : Contents]

Entries == [dest : Paths, sum : Contents]

VARIABLES
  shot,       \* frames taken so far
  card,       \* frames on the card
  lib,        \* path -> contents of the library
  live, saved, known, up,   \* the ledger
  pc,         \* where each worker is
  todo,       \* what is pending of a pull
  errs,       \* consecutive errors of a pull
  job,        \* the file in hand: key, bytes, folder, suffix tried
  staged,     \* contents of a worker's staging file
  acked,      \* history: uploads answered with success, and the SHA-256 in the answer
  faults      \* injected failures so far

camera == <<shot, card>>
ledger == <<live, saved, known, up>>
worker == <<pc, todo, errs, job, staged>>
vars == <<camera, lib, ledger, worker, acked, faults>>

L == INSTANCE Ledger WITH Digests <- Contents, Absent <- None

Steps == {"idle", "next", "fetch", "receive", "dedupe", "inspect", "probe",
          "move", "record", "delete"}

Answers == [key : Keys, data : Contents, sum : Contents]

Jobs == [key : Keys \cup {None}, data : Contents \cup {None},
         folder : Folders \cup {None}, i : 0..MaxSuffix + 1]

Fresh(k, bytes) == [key |-> k, data |-> bytes, folder |-> None, i |-> 0]
Nothing == Fresh(None, None)

TypeOK ==
  /\ shot \subseteq Shots /\ card \subseteq shot
  /\ lib \in [Paths -> Contents \cup {None}]
  /\ L!LedgerTypeOK
  /\ pc \in [Workers -> Steps]
  /\ todo \in [Workers -> SUBSET Shots]
  /\ errs \in [Workers -> 0..MaxErrors]
  /\ job \in [Workers -> Jobs]
  /\ staged \in [Workers -> Contents \cup {None}]
  /\ acked \subseteq Answers
  /\ faults \in 0..MaxFaults

Init ==
  /\ shot = {} /\ card = {}
  /\ lib = [p \in Paths |-> None]
  /\ L!LedgerInit
  /\ pc = [w \in Workers |-> "idle"]
  /\ todo = [w \in Workers |-> {}]
  /\ errs = [w \in Workers |-> 0]
  /\ job = [w \in Workers |-> Nothing]
  /\ staged = [w \in Workers |-> None]
  /\ acked = {}
  /\ faults = 0
-----------------------------------------------------------------------------
Goto(w, step) == pc' = [pc EXCEPT ![w] = step]

(* Mutant: the deferred os.Remove is forgotten. *)
LeaveStaged(w, step) ==
  /\ Goto(w, step)
  /\ job' = [job EXCEPT ![w] = Nothing]
  /\ UNCHANGED staged

(* importOne and Ingest return: the deferred os.Remove drops the staging file
   if it is still there. *)
LeaveFile(w, step) ==
  /\ Goto(w, step)
  /\ job' = [job EXCEPT ![w] = Nothing]
  /\ staged' = [staged EXCEPT ![w] = None]

Fault == faults < MaxFaults /\ faults' = faults + 1

(* An error on one file: Ingest reports it; PullFiles counts it, and gives up
   on what is pending when too many came in a row. *)
GivesUp(w) == errs[w] + 1 >= MaxErrors

ImportFails(w) ==
  \/ /\ w \in Uploaders
     /\ LeaveFile(w, "idle")
     /\ UNCHANGED <<todo, errs>>
  \/ /\ w \in Pullers /\ ~GivesUp(w)
     /\ LeaveFile(w, "next")
     /\ errs' = [errs EXCEPT ![w] = @ + 1]
     /\ UNCHANGED todo
  \/ /\ w \in Pullers /\ GivesUp(w)
     /\ LeaveFile(w, "idle")
     /\ errs' = [errs EXCEPT ![w] = 0]
     /\ todo' = [todo EXCEPT ![w] = {}]

(* A file is done: a pull goes on and forgets its earlier errors. *)
ImportDone(w) ==
  /\ LeaveFile(w, IF w \in Pullers THEN "next" ELSE "idle")
  /\ errs' = [errs EXCEPT ![w] = 0]
  /\ UNCHANGED todo
-----------------------------------------------------------------------------
(* The camera takes a picture. *)
Shoot(k) ==
  /\ k \in Shots \ shot
  /\ shot' = shot \cup {k}
  /\ card' = card \cup {k}
  /\ UNCHANGED <<lib, ledger, worker, acked, faults>>

(* Mutant: a file name alone tells whether a frame was imported. *)
WantedByName(files) ==
  {k \in files \cap Included :
     \A q \in Keys : NameOf[q] = NameOf[k] => live[q] = None}

(* Pull and PullFiles: what is wanted is decided once, before the first
   download. *)
Wanted(files) == {k \in files \cap Included : live[k] = None}

PullFiles(w, files) ==
  /\ up /\ w \in Pullers /\ pc[w] = "idle"
  /\ todo' = [todo EXCEPT ![w] = Wanted(files)]
  /\ Goto(w, "next")
  /\ UNCHANGED <<camera, lib, ledger, errs, job, staged, acked, faults>>

Pull(w) == PullFiles(w, card)

(* The frames an event names, or what a listing saw of a card being written. *)
PullSome(w) == \E files \in SUBSET card : PullFiles(w, files)

EndPull(w) ==
  /\ pc[w] = "next" /\ todo[w] = {}
  /\ Goto(w, "idle")
  /\ errs' = [errs EXCEPT ![w] = 0]
  /\ UNCHANGED <<camera, lib, ledger, todo, job, staged, acked, faults>>

(* The context is cancelled: the loop returns before the next file. *)
CancelPull(w) ==
  /\ Fault
  /\ pc[w] = "next" /\ todo[w] # {}
  /\ Goto(w, "idle")
  /\ errs' = [errs EXCEPT ![w] = 0]
  /\ todo' = [todo EXCEPT ![w] = {}]
  /\ UNCHANGED <<camera, lib, ledger, job, staged, acked>>

StartFile(w) ==
  /\ pc[w] = "next"
  /\ \E k \in todo[w] :
       /\ job' = [job EXCEPT ![w] = Fresh(k, None)]
       /\ todo' = [todo EXCEPT ![w] = @ \ {k}]
  /\ Goto(w, "fetch")
  /\ UNCHANGED <<camera, lib, ledger, errs, staged, acked, faults>>

(* Download and hashFile. *)
Fetch(w) ==
  /\ pc[w] = "fetch"
  /\ job[w].key \in card
  /\ staged' = [staged EXCEPT ![w] = Frame[job[w].key]]
  /\ job' = [job EXCEPT ![w].data = Frame[job[w].key]]
  /\ Goto(w, "inspect")
  /\ UNCHANGED <<camera, lib, ledger, todo, errs, acked, faults>>

(* Ingest returns an entry; a key the ledger has is answered at once with the
   entry it has, whatever the bytes of the upload. *)
Answer(u, sum) == acked' = acked \cup {[key |-> u.key, data |-> u.data, sum |-> sum]}

Upload(w) == [key |-> job[w].key, data |-> job[w].data]

AlreadyHave(w, u) ==
  /\ up /\ w \in Uploaders /\ pc[w] = "idle"
  /\ live[u.key] # None
  /\ Answer(u, live[u.key].sum)
  /\ UNCHANGED <<camera, lib, ledger, worker, faults>>

(* Mutant: the upload is answered before it is imported. *)
AnswerFirst(w, u) ==
  /\ up /\ w \in Uploaders /\ pc[w] = "idle"
  /\ live[u.key] = None
  /\ Answer(u, u.data)
  /\ job' = [job EXCEPT ![w] = Fresh(u.key, u.data)]
  /\ Goto(w, "receive")
  /\ UNCHANGED <<camera, lib, ledger, todo, errs, staged, faults>>

StartIngest(w, u) ==
  /\ up /\ w \in Uploaders /\ pc[w] = "idle"
  /\ live[u.key] = None
  /\ job' = [job EXCEPT ![w] = Fresh(u.key, u.data)]
  /\ Goto(w, "receive")
  /\ UNCHANGED <<camera, lib, ledger, todo, errs, staged, acked, faults>>

(* writeAndHash. *)
Receive(w) ==
  /\ pc[w] = "receive"
  /\ staged' = [staged EXCEPT ![w] = job[w].data]
  /\ Goto(w, "dedupe")
  /\ UNCHANGED <<camera, lib, ledger, todo, errs, job, acked, faults>>

(* ByHash knows the bytes: the entry of another key answers, and the key of
   this upload is not recorded. *)
Duplicate(w) ==
  /\ pc[w] = "dedupe"
  /\ job[w].data \in known
  /\ Answer(Upload(w), job[w].data)
  /\ ImportDone(w)
  /\ UNCHANGED <<camera, lib, ledger, faults>>

NotDuplicate(w) ==
  /\ pc[w] = "dedupe"
  /\ job[w].data \notin known
  /\ Goto(w, "inspect")
  /\ UNCHANGED <<camera, lib, ledger, todo, errs, job, staged, acked, faults>>

(* captureTime, for both: EXIF, else the camera, the app or the clock. *)
Inspect(w) ==
  /\ pc[w] = "inspect"
  /\ \E f \in Dates[job[w].data] : job' = [job EXCEPT ![w].folder = f]
  /\ Goto(w, "probe")
  /\ UNCHANGED <<camera, lib, ledger, todo, errs, staged, acked, faults>>

(* place: the candidate of this round is stat'ed and, if not empty, hashed. *)
Target(w) == Candidate[<<job[w].folder, NameOf[job[w].key], job[w].i>>]

(* Mutants: an empty file counts as free; contents are never compared. *)
IsFreeOrEmpty(w) == lib[Target(w)] \in EmptyFiles \cup {None}
NeverSame(w) == FALSE

IsFree(w) == lib[Target(w)] = None
IsSame(w) == /\ lib[Target(w)] = job[w].data
             /\ job[w].data \notin EmptyFiles
             /\ Target(w) \notin Unreadable
LastSuffix(w) == job[w].i > MaxSuffix

FindFree(w) ==
  /\ pc[w] = "probe"
  /\ IsFree(w)
  /\ Goto(w, "move")
  /\ UNCHANGED <<camera, lib, ledger, todo, errs, job, staged, acked, faults>>

Adopt(w) ==
  /\ pc[w] = "probe"
  /\ ~IsFree(w) /\ IsSame(w)
  /\ Goto(w, "record")
  /\ UNCHANGED <<camera, lib, ledger, todo, errs, job, staged, acked, faults>>

TrySuffix(w) ==
  /\ pc[w] = "probe"
  /\ ~IsFree(w) /\ ~IsSame(w) /\ ~LastSuffix(w)
  /\ job' = [job EXCEPT ![w].i = @ + 1]
  /\ UNCHANGED <<camera, lib, ledger, pc, todo, errs, staged, acked, faults>>

NoFreeName(w) ==
  /\ pc[w] = "probe"
  /\ ~IsFree(w) /\ ~IsSame(w) /\ LastSuffix(w)
  /\ ImportFails(w)
  /\ UNCHANGED <<camera, lib, ledger, acked, faults>>

(* os.Rename replaces whatever is at the target by now. *)
Move(w) ==
  /\ pc[w] = "move"
  /\ lib' = [lib EXCEPT ![Target(w)] = staged[w]]
  /\ staged' = [staged EXCEPT ![w] = None]
  /\ Goto(w, "record")
  /\ UNCHANGED <<camera, ledger, todo, errs, job, acked, faults>>

(* manifest.Add returns nil: a pull may go on to delete the frame, Ingest
   answers. *)
(* Mutant: the entry names the file the photo would have had without a
   collision. *)
UnsuffixedEntry(w) ==
  [dest |-> Candidate[<<job[w].folder, NameOf[job[w].key], 0>>], sum |-> job[w].data]

Entry(w) == [dest |-> Target(w), sum |-> job[w].data]

Record(w) ==
  /\ pc[w] = "record"
  /\ L!Put(job[w].key, Entry(w)) /\ L!Saved
  /\ \/ /\ w \in Pullers /\ DeleteAfterImport
        /\ Goto(w, "delete")
        /\ UNCHANGED <<todo, errs, job, staged, acked>>
     \/ /\ w \in Pullers /\ ~DeleteAfterImport
        /\ ImportDone(w)
        /\ UNCHANGED acked
     \/ /\ w \in Uploaders
        /\ ImportDone(w)
        /\ Answer(Upload(w), job[w].data)
  /\ UNCHANGED <<camera, lib, faults>>

(* Add cannot save: the import fails, yet memory keeps the entry. *)
RecordFails(w) ==
  /\ Fault
  /\ pc[w] = "record"
  /\ L!Put(job[w].key, Entry(w)) /\ L!NotSaved
  /\ ImportFails(w)
  /\ UNCHANGED <<camera, lib, acked>>

(* DeleteAfterImport; a refusal of the camera is only logged. *)
Delete(w) ==
  /\ pc[w] = "delete"
  /\ card' \in {card, card \ {job[w].key}}
  /\ ImportDone(w)
  /\ UNCHANGED <<shot, lib, ledger, acked, faults>>

(* Any of the other steps fails: no staging file, a broken transfer, a
   cancelled request, a directory, a stat or a rename refused. *)
StepFails(w) ==
  /\ Fault
  /\ pc[w] \in {"fetch", "receive", "dedupe", "inspect", "probe", "move"}
  /\ ImportFails(w)
  /\ UNCHANGED <<camera, lib, ledger, acked>>

(* The process dies; library, card and staging files stay. *)
Crash ==
  /\ Fault
  /\ L!Crash
  /\ pc' = [w \in Workers |-> "idle"]
  /\ todo' = [w \in Workers |-> {}]
  /\ errs' = [w \in Workers |-> 0]
  /\ job' = [w \in Workers |-> Nothing]
  /\ UNCHANGED <<camera, lib, staged, acked>>

(* Mutant: the start does not read the manifest. *)
StartEmpty ==
  /\ ~up /\ up' = TRUE
  /\ staged' = [w \in Workers |-> None]
  /\ UNCHANGED <<camera, lib, live, saved, known, pc, todo, errs, job, acked, faults>>

(* setup: CleanStaging, then manifest.Load. *)
Restart ==
  /\ L!Load
  /\ staged' = [w \in Workers |-> None]
  /\ UNCHANGED <<camera, lib, pc, todo, errs, job, acked, faults>>

(* Somebody removes the manifest file while nothing runs. *)
LoseManifest ==
  /\ Fault
  /\ ~up
  /\ saved' = L!NoEntries
  /\ UNCHANGED <<camera, lib, live, known, up, worker, acked>>

(* What worker w does when nothing goes wrong, but for taking a free name. *)
Advance(w) ==
  \/ EndPull(w) \/ StartFile(w) \/ Fetch(w)
  \/ Receive(w) \/ Duplicate(w) \/ NotDuplicate(w)
  \/ Inspect(w) \/ Adopt(w) \/ TrySuffix(w) \/ NoFreeName(w)
  \/ Move(w) \/ Record(w) \/ Delete(w)

Progress(w) == Advance(w) \/ FindFree(w)

Mishap(w) == CancelPull(w) \/ StepFails(w) \/ RecordFails(w)

Request(w) == \E u \in Uploads : AlreadyHave(w, u) \/ StartIngest(w, u)

Others ==
  \/ \E k \in Shots : Shoot(k)
  \/ \E w \in Workers : Pull(w) \/ PullSome(w) \/ Request(w)
                        \/ Advance(w) \/ Mishap(w)
  \/ Crash \/ Restart

Next == Others \/ \E w \in Workers : FindFree(w)

Spec == Init /\ [][Next]_vars

(* The same importer when the manifest file may be lost. *)
LossySpec == Init /\ [][Next \/ LoseManifest]_vars

(* Nothing serialises place: two workers may both have found one name free,
   for different photos, and wait to rename.  A polite run is one where that
   never happens, as it never does with a single worker. *)
NoClash ==
  \A v, w \in Workers :
    pc[v] = "move" /\ pc[w] = "move" /\ Target(v) = Target(w)
      => job[v].data = job[w].data

PoliteNext == Others \/ \E w \in Workers : FindFree(w) /\ NoClash'

PoliteSpec == Init /\ [][PoliteNext]_vars

(* Workers are goroutines and keep going; the service is restarted; a full
   pull comes again and again, at every reconnect and on request, even if
   pulls for single events come between. *)
FairSpec ==
  /\ LossySpec
  /\ \A w \in Workers : WF_vars(Progress(w))
  /\ \A w \in Pullers : SF_vars(Pull(w))
  /\ WF_vars(Restart)
-----------------------------------------------------------------------------
(* The ledger never lies: the file an entry names holds the bytes the entry
   was recorded with, in memory and in what a restart would load. *)
HoldsItsBytes(e) == lib[e.dest] = e.sum

EntriesTruthful ==
  \A k \in Keys : /\ live[k] # None => HoldsItsBytes(live[k])
                  /\ saved[k] # None => HoldsItsBytes(saved[k])

(* A photo in the library is never replaced: place picks a free name or keeps
   what is there (sync.go:368, ARCHITECTURE.md:62). *)
NeverOverwritten ==
  [][\A p \in Paths : lib[p] # None => lib'[p] = lib[p]]_vars

(* A frame leaves the card only once it is safely in the library and in the
   saved manifest (sync.go:62), and stays there whatever happens next. *)
DeletedIsRecorded ==
  \A k \in shot \ card : saved[k] # None /\ lib[saved[k].dest] = Frame[k]

(* A photo is in the library; photos that go by a key. *)
InLibrary(d) == \E p \in Paths : lib[p] = d
PhotosOf(k) == {u.data : u \in {v \in Uploads : v.key = k}} \cup {Frame[x] : x \in Shots \cap {k}}

(* A companion app may forget an upload if the entry it was answered with has the
   SHA-256 of its bytes: the library holds them, by whatever way the answer came
   about.  If not, the library holds another photo of the same card, directory and
   name, the one that was there first. *)
AckedIsKept == \A a \in acked : InLibrary(a.sum) /\ a.sum \in PhotosOf(a.key)

(* An import that is repeated, after a crash before it was recorded or with a
   lost manifest, adopts the file it made before: no two names of one series
   hold the same photo (ARCHITECTURE.md:62), if they can be read back. *)
NoTwinCopies ==
  \A f \in Folders, n \in Names : \A i, j \in 0..MaxSuffix + 1 :
    LET p == Candidate[<<f, n, i>>]
        q == Candidate[<<f, n, j>>]
    IN lib[p] \in Contents \ EmptyFiles /\ lib[p] = lib[q] /\ {p, q} \cap Unreadable = {}
         => p = q

(* Every way out of an import, and every start, leaves no staging file. *)
StagingClean == \A w \in Workers : up /\ pc[w] = "idle" => staged[w] = None

(* Every frame of a wanted kind ends up in the manifest, however often the
   camera, the disk or the process failed on the way. *)
EventuallyImported ==
  \A k \in Included : [](k \in shot => <>[](live[k] # None))

(* The importer uses its ledger only as Ledger allows. *)
UsesLedger == L!LedgerSpec
=============================================================================

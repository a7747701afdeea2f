# Canon-RP-Sync in TLA+

rpsync imports photos from a Canon RP over Wi-Fi: a daemon finds the camera,
catches up on the card, waits for events and imports every frame as it is
shot; companion apps hand over photos through an HTTP API. This directory
models the parts of it whose correctness depends on the order of things —
interleavings, failures, crashes — checks them with TLC and proves what matters
most with TLAPS. Paths are relative to the repository.

## The system

| part | state it keeps | operations | talks to |
|---|---|---|---|
| manifest, `internal/manifest` | `entries`, `byID`, `byHash` under `mu`; the JSON file and its `.tmp` | Load, Add, AddAll, Remove, Save; Has, Get, ByID, ByHash, List, Stats | called by importer and API |
| importer, `internal/sync` | staging files, the library tree; nothing in memory but the manifest | Pull, PullFiles, Ingest, CleanStaging | camera client, manifest; reports to the watcher |
| watcher, `internal/watcher` | `status`, `client`, the channel `syncNow` | Run (connect, watch, sync), SyncNow, Client, Status | importer, camera client, bus |
| camera client, `internal/ccapi` | `reqMu`, the cached API index | ListFiles, FileInfo, Download, Delete, Thumbnail, PollEvents | the camera |
| event bus, `internal/events` | `history`, `subs` | Publish, Subscribe, Recent | everything publishes, the event stream subscribes |
| device store, `internal/api/auth.go` | `devices`, `byHash`, `modTime`; `devices.json`, `pairing.json` | Authenticate, Redeem, NewPairingCode, CancelPairing, Revoke, refresh | API handlers, CLI commands in other processes |
| discovery, `internal/discovery` | goroutines and channels of one search | Discover: SSDP on every interface, then a scan by a pool of workers | camera client's owners: the watcher, `rpsync pull`, `rpsync discover` |
| exif, `internal/exif` | the walk over one file | Read: JPEG segments, CR3 and MP4 boxes, TIFF directories | importer |
| API, `internal/api` | none of its own | pair, status, photos, previews, ingest, sync, devices, events | all of the above |
| remote, `internal/remote` | `status` | Run: Tailscale check loop, cloudflared supervisor | bus, child process |
| previews, `internal/thumb` | cached JPEGs and their temporary files | Generate, Cache | API |
| fake camera, `internal/cameratest` | the card, offered endpoints | answers of a camera | the tests; here the camera of `Camera` |
| `config`, `service`, `cmd/rpsync` | none, or configuration | precedence, installation, wiring | |

### What is hard, and what correct means

* **manifest** — every writer saves the whole ledger while it holds the mutex;
  each step of the save may fail or be the last thing the process does. The file must
  always be the ledger of some acknowledged save, the two indexes must follow
  the entries, and a recorded photo must be recognised by its bytes.
* **importer** — the watcher's pull and any number of ingest handlers share one
  importer and one library without a lock. Nothing in the library may be
  replaced, the ledger must name files that hold what was recorded, a frame may
  leave the card only when it is safe, an accepted upload must be kept, an import
  that is repeated must not duplicate a photo, and every frame must get there in
  the end.
* **watcher** — a poll must never be open while a download runs; an event thrown
  away, a request made during a sync or while the camera is away must be made up
  for by a later full pull; the status must say what is going on.
* **camera client** — few connections; requests serialised except the poll; a
  listing read page by page while the card changes; an index cached for the life
  of a client, also when reading it failed.
* **discovery** — a goroutine per interface and a pool of workers report while the
  search may be cancelled at any point: no address skipped, no answer lost, no
  goroutine waiting for one that has gone.
* **exif** — files are cut short, nested without end, and carry sizes that lie or
  wrap: reading must end, and the best date must win wherever it stands.
* **event bus** — bounded history and buffers, a slow subscriber loses events but
  blocks nobody; a stream that replays may repeat but must not miss an event.
* **device store** — several processes share two files and cache them by
  modification time: a revoked device must stay revoked, a redeemed one must stay
  paired, a code is good once.
* **remote** — restart with a bounded, reset backoff; a status is published when
  it changes.
* **previews** — concurrent generation of one preview through one temporary name;
  freshness decided by comparing modification times.

`PROJECT.json` lists these hazards with the line where each one bites and the
property that covers it, or why none does yet.

## The modules

| module | models |
|---|---|
| `Ledger` | what the manifest promises the importer: a map that changes atomically, whose durable copy is whole, with an index of digests |
| `Manifest` | `manifest.go`: maps, mutex, temporary file, rename, each step of the save, several processes |
| `ManifestProofs` | theorems about `Manifest`, among them that it implements `Ledger` |
| `Importer` | `sync.go`: pulls and ingests, one action per step, on top of `Ledger` |
| `MCImporter` | the small worlds in which TLC explores `Importer` |
| `ImporterProofs` | theorems about `Importer` |
| `Watcher` | `watcher.go`: the camera loop and its poll goroutine, sync requests, previews by API handlers |
| `WatcherProofs` | theorems about `Watcher` |
| `EventBus` | `events.go` and the handler that streams events: the lock, the fan-out, history, replay |
| `Remote` | `remote.go` on top of `EventBus`: Tailscale refresh, supervised connector, scanners, shutdown |
| `MCRemote` | the messages TLC considers for `Remote` |
| `RemoteProofs` | theorems about `EventBus`, and about `Remote`, among them that it implements `EventBus` |
| `DeviceStore` | `auth.go`, its handlers and the commands `pair` and `devices`: processes over two files, each step of a save |
| `DeviceStoreProofs` | theorems about `DeviceStore` |
| `Discovery` | `ssdp.go`: multicast answers, the scan and its workers, cancellation |
| `Camera` | `client.go` on top of `Discovery`: connecting, the API index, a listing page by page, the camera itself |
| `MCCamera` | a small card and API index for `Camera` |
| `CameraProofs` | theorems about `Discovery` and `Camera` |
| `Previews` | `thumb.go` and the handler of previews: source, freshness, temporary file |
| `MCPreviews` | a small library for `Previews` |
| `PreviewsProofs` | theorems about `Previews` |
| `Exif` | `exif.go`: the walk over segments, boxes and directories, decided as the file is read |
| `MCExif` | the TIFF blocks TLC considers for `Exif` |
| `ExifProofs` | theorems about `Exif` |

`Manifest` implements `Ledger` (property `ImplementsLedger`), and `Importer` uses
its ledger only through the actions of `Ledger` (`UsesLedger`), so what is
checked of the importer with an atomic `Put` holds with the stepwise save.
`Remote` extends `EventBus`: its goroutines and another component publish on one
bus, and clients read the stream. `RemoteUsesBus` proves that each of its steps
is a step of the bus or leaves the bus alone. `Camera` extends `Discovery`: the
owner of a client searches, connects to the first result and lists, and a failed
request leads back to a search.

### Manifest

`entries`, `byID` and `byHash` are the Go maps, per process. An entry is
abstracted to its digest: its key is where it is stored, and its ID is a
function of the key. `pc` says where a writer is in `saveLocked`: `open`
(`MkdirAll`, `OpenFile` with truncation), `write`, `rename`; `idle` is the mutex
being free. `fd` tells under which name the file being written is linked, because a rename by another process moves it: a write then lands in the
manifest itself. `reindexLocked` ranges over a Go map, so any of the keys that
share a digest may be the one `byHash` keeps. `acked` and `view` are history:
the last acknowledged ledger, and what readers saw when the mutex was last free.

### Importer

Workers are goroutines: `Pullers` run `Pull`/`PullFiles`, `Uploaders` run
`Ingest`. The steps of a file are

    next -> fetch ----------------> inspect -> probe -> move -> record -> delete
    idle -> receive -> dedupe ----> inspect     ^  |
                                                suffix

`fetch` is the download and its hash, `inspect` the capture date, `probe` one
round of the loop in `place` (stat and, for a non-empty file, hash), `move` the
rename, `record` is `manifest.Add`, `delete` the deletion from the card. Staging
names are unique (`os.CreateTemp`), so a staging file belongs to its worker. A
file is its contents, which stand for the SHA-256 as well: collisions of the
hash are left out. `Dates` gives for every contents the folders its capture date
may lead to: one if the bytes carry a date, several if the camera, the app or
the clock decides. `Candidate` is the table of names `name`, `name_1`, …; numbered
names of one file may coincide with the plain name of another. `acked` keeps of every
answer to an upload its key and bytes and the digest in the entry it was answered with:
an upload whose key is recorded is answered with the entry there is, whatever its bytes.
`AckedIsKept` says what an app may rely on all the same: the photo with the digest of
the answer is in the library. An app that compares digests knows whether it is its own;
where only one photo ever goes by a key, it is.

Every step may fail (`StepFails`, `RecordFails`, `CancelPull`), and the process
may die between any two (`Crash`). `faults` counts these, and `MaxFaults` bounds
them. A cleaning of the staging directory by another process shows up as a failed step
of its victim. A listing that fails changes nothing and is left out; a listing
that saw only a part of the card, and the files an event names, are `PullSome`.

The graceful end of a pull on cancellation is the return at the head of the
loop; a cancellation in the middle of a file is a failed step followed by it.

### Watcher

`pc` follows `Run`, `watch` and `sync`:

    connecting -> listing -> walking -> pulling <-> fetching
        ^            ^                     |  ^
     resting         |                     v  | an event with files
        ^         draining <- selecting <- looping
     leaving <-------------------+

`poller` is the goroutine of the long poll and the channel `results` it answers
into; `draining` and `quitting` are the waits for it after its context was
cancelled. `token` is the channel `syncNow`. `clients` counts the `ccapi.Client`s
made so far, one per connection, and `client` is the published one: the mutex
`reqMu` belongs to a client, so `Busy` is asked of one client. A pull is what
the loop sees of it: frames get imported or fail one by one, and
`MaxErrors` failures in a row end the connection. The walk over the card takes
time: it sees what was there when it began, and some of what came later.

The camera is external. It goes off and on (`PowerOff`, which leaves requests
and polls in flight unanswered), takes frames, and queues in `news` what it has
not reported in an event; a poll that is cancelled or breaks may take the queue with
it. `KeepsNews` says whether frames taken before or during an absence are still
reported after it. The fake camera of the tests keeps them; what a real
one does is not known from the repository, so it is a constant, and
`NothingForgotten` and `EventuallyTried` are claimed for cameras that do. For one
that does not, a camera that goes off during a download and is back before the next
poll is not noticed by a loop that tolerates a few failed files, and the frames
between are found by the next full pull only.

`request` is history: it follows one arbitrary sync request until a listing that
began after it succeeds. The status snapshot, what the loop publishes on the
event bus and the log are left out.

### EventBus

`Publish` appends to the history and offers the event to every subscriber under
one mutex, so it is three actions: `Publish` takes the mutex and fixes the set
of subscribers `due`, `Offer` is the send that does not block (a full channel
loses the event), `Published` unlocks. `Subscribe`, the unsubscribing that closes
the channel, and `Recent` need the mutex free and are one step each. A stream's
handler subscribes first and replays then (`phase`), so what is published in
between comes twice; `InOrder` therefore speaks of the replay and of what
follows it apart. The number `n` of an event, `from`, `lost` and
`replayed` are history: the code has nothing like them, which is why a client cannot notice
a loss itself. `sent` is what was written to the connection.

### Remote

`mode` is the configuration and what the host offers: `none`, `unknown`,
`tailscale`, and for cloudflared `external`, `unnamed` (externally run without a
hostname), `missing` (not installed), `named`, `quick`. `pc` follows `Run`:

    start -> parked                                     (nothing to supervise)
    start -> checking <-> resting                       (Tailscale)
    start -> top -> launched -> waiting -> exited -> backoff -> top   (cloudflared)

`set` changes the status under the lock and publishes after it: `Set` leaves the
change in `news` of the goroutine, `Tell` publishes it, and between the two other
goroutines may set and tell. The two scanners are goroutines of their own
(`scanning`); `line` is an address printed to a pipe and not read yet. The pipe
ends when the process is dead and no `child` it left holds it. Parsing of the
Tailscale status is abstracted to its outcomes, and messages for people are left out.

### DeviceStore

A device stands for its ID and its token. `disk` and `tmp` are `devices.json`
and its temporary file, `pairing` the file of the code; `cache` is what a
process remembers, with the modification time of the file it was read from. A
thread — a handler of the daemon, or a command, which is a process — goes through

    read -> install ------------------------------> act        (LoadDeviceStore)
    stat -> read -> install -> act                             (refresh)
    code -> check -> stat ... act -> clear -> marshal          (Redeem)
    marshal -> open -> write -> rename -> stamp                (Save)

The mutex covers only `act`, `marshal` and `stamp`; all between is interleaved, by
other handlers as well. `fd` is the name under which the file being written is linked,
as in `Manifest`. `Garbled` is what comes of two saves over each other and of a
write cut short. The time remembered is that of the file there is after the
save or the read, which may be another one (`TimeNow`). `overlapped` is history: some
operation changed devices, code or file while another was under way. Times do
not repeat; changes within the resolution of the clock are left out.

### Discovery and Camera

An address is a number, as only the order of results matters. `ear` is the
goroutine of an interface, `worker` one of the pool, `queue` what is not yet
handed out; the channel is unbuffered, so handing out is one step of both
(`Feed`). `live` is the context of the search. Cameras wake, sleep and move at
any time; `steady` and `met` remember which were awake all along and at all.

In `Camera` a file is card slot, directory and number. The camera shoots
into its last directory, and the user or an import removes files at any time,
also between two pages. `api` is the index as the client has it: unknown, read, or
given up, in which case every endpoint is asked for in version 100. The fake
camera of the tests is the reference of what a camera answers.

### Previews

`thumbSource` picks the photo a preview is made of, and `edition` counts the changes
of a photo. `dst` and `tmp` say per photo what is under the two names: of which edition
each chunk is, when the file was last written to, and the edition of the photo by then
(`by`). `jpeg.Encode` writes a buffer at a time, so a picture takes `Chunks` writes,
each at the place where its handler is in the file. `Create` empties the file, also if
another handler has it open: that one writes on where it was, and the head of the
picture comes from the other. A rename takes the file along for those who write it, and
a removal puts it out of reach (`fd`). Two encodings of one edition are the same bytes,
so handlers that decoded the same edition complete each other. Pictures of different
editions may differ in length too; that a longer tail stays is the case of a file of two
editions, and the model gives all pictures one length.

`CachedIsWhole` names what it takes for a torn preview to stay, and nothing else does: a
file open to handlers that had decoded different editions (it is marked `mixed`), or a
file that was renamed while another wrote it (`carried`) and a failure or a crash.
The marks belong to the file and go with it: one that is made anew is not marked.

### Exif

The file is not a sequence of bytes: it is decided as it is read, each box or
segment when the walk comes to it, so every file that fits the bounds is
covered. Sizes are integers from `-Half` to `Half - 1` that wrap. A JPEG counts in units of two
bytes, boxes in units of eight. `walkIFD` with `ReadEntry` and `applyState`
translate the code, where the state that a directory is read with runs through the
directories it links to. `Within`, `Says` and `Permitted` say the same without an
order of reading, and `DateIsBest` compares the two for whatever the walk came across.

## The runs

| run | world | what it shows |
|---|---|---|
| `manifest_sole` | 1 process, 2 keys, 2 digests and the empty one | `IndexesAgree`; `DiskIsLastSave`; `ImplementsLedger` |
| `import_card` | 1 puller, 2 frames, 1 uploader with a frame by its identity and without it and another photo of the same name; one file unreadable; deletion on; 2 faults; polite runs | `EntriesTruthful`; `DeletedIsRecorded`; `StagingClean`; `AckedIsKept`; `NeverOverwritten`; `UsesLedger` |
| `import_live` | 1 puller, 1 uploader that hands over a frame under another name, 3 frames, 3 faults among which the loss of the manifest file, fairness | `NoTwinCopies`; `EventuallyImported` |
| `watch_live` | 2 frames, 1 preview handler, 1 failure or power-off, fairness | `PollExclusive`; `NothingForgotten`; `RequestKept`; `RequestsAnswered`; `EventuallyTried`; `StopsCleanly` |
| `remote_stream` | all modes, connectors that leave a child, 1 stream, 4 publishers, 2 tunnels, 2 tailnet addresses, 1 fault, history of 3, replay and channel of 2, fairness | `NeverSentClosed`; `NoGap`; `InOrder`; `StatusIsCurrent`; `StreamShowsStatus`; `NothingLeftRunning`; `PublishingEnds`; `KeepsTrying`; `Stops` |
| `devices` | the daemon with 1 handler, 1 command, 2 devices, 2 codes, 2 guesses, 1 fault | `FileIsWhole`; `RevokedStaysOut`; `PairedStaysIn`; `CodeIsSingleUse` |
| `camera` | 2 places of the camera, 3 addresses, 2 workers, 3 files on 2 pages and 2 directories, 1 slow answer, 1 fault, fairness | `SearchIsTrue`; `SearchEnds`; `ListingIsExact`; `Recovers` |
| `previews` | 3 photos, one of them a JPEG beside its raw frame, pictures of 2 chunks, 2 handlers, 1 change of the photo, 1 tick of the clock, 1 fault | `CachedIsWhole`; `PreviewIsCurrent` |
| `exif` | every JPEG and box file of up to 12 units, 5-bit integers, any TIFF block of two directories, fairness | `TypeOK` (with the depth of the recursion); `DateIsBest`; `FoundIsKept`; `ReadEnds` |

Types are proved for every module; only the run of `Exif` checks them too, for the sake
of the depth of its recursion.

The bounds: two keys that share a digest are what the indexes can get wrong;
with `MaxSuffix = 0` a name has two candidates, so that photos of one name
exercise the first, the numbered and the exhausted case (the code allows 1001
suffixes, the loop is the same); `MaxErrors = 2` lets a run give up and go on;
two or three faults allow a failure followed by a crash, and a crash during the
repair of a crash. One power-off is an absence; two frames are one in a poll's answer
or in the pull and one in the queue. The safety properties of `Watcher` are
proved for any number of both.

In `remote_stream`, `MaxFaults` counts failures to launch, exits of the
connector, scanners that give up and changes of the tailnet; one of them gives
two runs of a connector with different tunnels. `MaxEvents` bounds the events of
the other component. The delay goes 2, 3, 3: doubling and the cap. A
channel of 2 overflows, a history of 3 drops its oldest, and a replay of 2 is
shorter than the history. `Advertised` is FALSE in the run: with an advertised
URL every refresh is published, changed or not, because the comparison in `set`
is made before the URL is replaced; `MaySetAgain` bounds the run for whoever sets
it TRUE. The theorems hold for both, for all bounds and sizes.

In `devices`, two devices are one to lose while the other is paired or revoked;
`MaxAttempts` is 2 for 5: the last guess and one before it. Five `Times` are
more than can be remembered at once by the two caches and the two files, so that a
new one is always left. With `GoesOn` FALSE nothing new begins once operations have
overlapped: the promises checked are about runs whose operations take turns, and
those under way are finished. `revoked_back` sets it TRUE. `FileIsWhole` is proved
for every value of these.

In `camera`, the camera has two possible places, one reached by the scan through
an address where nobody is; `Targets` are three addresses for two workers (254
for 64), so that a worker returns for more. `Patience` bounds searches that are
cut off or probes too slow, and `MaxFaults` failed requests; after them the network
is as patient as `Recovers` presumes. `PageSize` 1 makes two files two pages.

In `previews`, the raw frame without a JPEG has no preview of its own, and the
other two share one source. Two chunks tell the head of a picture from its tail, and
one change makes two editions: a file torn between them appears in a run without any fault
(two handlers, the change between their decodings, the second empties the file after the first
has written its head). `MaxTime`, `MaxEdits` and `MaxFaults` end a run, hence no check
for deadlock there. `exif` ends too, when the file is read. Its `Claims` reach up to
11, its files up to 12, and a 64-bit size may be any of the 32 integers; boxes nest to
the 6 levels and directories to the 4 of the code.

No check for deadlock either in `devices`, where codes and devices are used up, in
`watch_live` and `remote_stream`, where the daemon stops.

Three further runs show where a document and the code part:

| run | statement | what happens |
|---|---|---|
| `clash` | "a different one gets a `_1` suffix" (`docs/ARCHITECTURE.md:62`) | a pull and an upload find the same name free, the second rename replaces the first photo |
| `revoked_back` | "Its token stops working immediately" (`internal/api/auth.go:194`) | a request of another device, or of the same, authenticated meanwhile writes back the devices it had read before the revocation |
| `printer` | "decides whether an SSDP reply came from a Canon camera" (`discovery/ssdp.go:261`), "with a subnet-probe fallback" (`README.md:122`) | a Canon printer with a lower address is the first result of every search, the only one that is tried, and the scan does not run |

### Known disagreements without a run

Reading the code for these models showed further places where it does less
than a document says, or where nothing is promised and a user may be surprised.
Where a module covers the place it behaves as the code does:

* `manifest.go:329` speaks of interrupted writes that cannot corrupt the ledger.
  Two processes that share `path.tmp` can: one renames the file the other has just
  truncated, and the other dies (`Manifest` with two `Procs`). They also
  overwrite each other's entries. Nothing says that `rpsync pull` may run beside the daemon.
* `docs/API.md:186`: an upload that is answered by its bytes is not recorded
  under the identity it came with, so the next pull downloads the frame once more
  (and adopts the file there is).
* `docs/API.md:193`: `"imported": false` "means the daemon already had this file", but an
  upload whose key is recorded is answered so without a look at its bytes (`sync.go:269`).
  Uploads without card and directory share one key per name, so another photo of the same
  name is dropped. `import_card` contains the case, and its `AckedIsKept` says what an
  answer is worth all the same: the photo it names by its digest is kept.
* `thumb.go:64`: two requests whose decodings lie on either side of a change of the photo
  leave parts of two pictures in one preview, without any failure, and the preview is
  served until the photo changes again. No document promises otherwise.
* `docs/DEPLOYMENT.md:207`: a handler may hold the client of an earlier connection,
  with a mutex of its own, and ask beside the new one (`Watcher!Busy`).
* `remote.go:318`: with a connector that leaves a child holding its pipes, `Run`
  waits for the scanners before `cmd.Wait`, and `WaitDelay` counts only within `Wait`.
  `Stops` and `KeepsTrying` therefore make an exception for a `child` that lives on.
* `remote.go:143`: with an advertised URL an unchanged status is published again.
* `auth.go:148`: a change within the resolution of the modification time is not
  seen; `auth.go:209`: a revocation that cannot be saved is forgotten at the next reload.
* `exif.go:270`: seconds since 1904 wrap in a 64-bit duration, so the guard against
  far years is not reached (the date `"wrapped"` of `Exif`); `exif.go:201`: a movie
  header before the Canon box wins.
* `sync.go:229`: a crash between the record and the deletion leaves the frame on the
  card for good; `sync.go:184`: a camera that uses a name twice is not told apart.

### Polite runs

`NoClash` says that no two workers wait to rename different photos to the same
name. `clash` shows that the code does not ensure it, and `import_card` (whose
specification is `PoliteSpec`) that nothing else is needed: in runs where it
holds, every interleaving of pulls and uploads keeps the library and the ledger
in order. With a single worker it holds by itself.

### Fairness

`FairSpec` (`import_live`) assumes weak fairness of every worker's progress —
goroutines are scheduled, and downloads time out — and of the restart (the
service manager restarts the daemon), and strong fairness of a full pull: full
pulls come at every reconnect of the camera and on request. Without the last
nothing is promised, because files of an event that failed are not tried again
while the connection stays up. The manifest may be lost (as often as
`MaxFaults` allows), so the promise is that a frame is in the ledger again and again.

`FairSpec` of `Watcher` (`watch_live`) assumes weak fairness of the loop, of the
goroutine and of handlers that have sent their request, and that the camera
comes back; strong fairness of taking the mutex of a client (`sync.Mutex` hands
it on in turn) and of `case <-w.syncNow` (`select` chooses at random among ready
cases, so a token that stays is taken with probability one).

`FairSpec` of `Remote` (`remote_stream`) assumes weak fairness of the manager
(timers fire, commands end), of the kill when the context is cancelled, of the
scanners and of a publisher that holds the mutex; strong fairness of `Tell`, as
the mutex of the bus is handed on in turn. Nothing is assumed of streams: a
client may stop reading at any point, and `PublishingEnds` and `Stops` hold.

`FairSpec` of `Camera` (`camera`) assumes weak fairness of the owner (requests
have timeouts and so end one way or the other), of each goroutine of a search, and
of its deadlines; `Cancel` and slow answers need not happen and do so at most
`Patience` times. Nothing is assumed of the camera: `Recovers` speaks of one that stays on.
`Spec` of `Exif` assumes that a read returns. `DeviceStore` and `Previews`
claim no liveness.

## What is proved

`ImporterProofs`, for all values of the constants that satisfy
`ImporterAssumption`:

* `TypeCorrect`: `Spec => []TypeOK`. `TypeOK` is not inductive: the target of a
  worker is a path only because its key, bytes and folder were set at earlier steps.
  `JobOK` says so, and `TypeInv` is the conjunction.
* `LedgerIsTruthful`: `PoliteSpec => []EntriesTruthful`, and `PhotosStay`:
  `PoliteSpec => NeverOverwritten`. The invariant `SafeInv` adds what a worker
  knows (`WorkerOK`): its staging file holds its bytes; at `move` its target is
  free or, since it looked, was taken by the same bytes; at `record` the target holds
  its bytes. Only `Move` changes the library (`OnlyMoveChangesLib`), so the
  library grows (`StepGrows`), and what grows keeps entries true.
  Polite runs constrain only the step that takes a free name; `StaysPolite` proves that
  no other step makes two workers clash.
* `OneWorkerNeverOverwrites`: with one worker every run is polite.
* `LedgerIsUsedAsPromised`: `Spec => UsesLedger`. Every step is a step of `Ledger` or
  leaves the ledger alone (`LedgerMoves` names the few that do not), so what is proved
  here holds of an importer over `Manifest` with one process.
* `StagingStaysClean`: `Spec => []StagingClean`. `StageInv` speaks of a worker
  between two files of a pull as well, where it is not idle but must have no file either.
* `AnsweredUploadsAreKept`: `PoliteSpec => []AckedIsKept`, whatever the apps hand over.
  `KeyInv` says that what is under way and what is recorded under a key was taken or
  uploaded under that key (`PhotosOf`); `KeptInv` that the digests by which uploads are
  recognised, and those in the answers, are of photos in the library. The bytes of
  the upload itself need not be kept: they may be another photo of a recorded key.
* `DeletedFramesAreSafe`: `PoliteSpec => []DeletedIsRecorded`, if `FramesAgree`: who
  uploads under the identity of a frame of the card brings the bytes of that frame. The
  daemon has no means to tell, and a frame known by its key is deleted from the card.
  `SavedInv` says that memory has all that is saved and that who may delete a frame
  has seen it saved.
* `NoSecondCopies`: `PoliteLossySpec => []NoTwinCopies`, also when the manifest is lost,
  if `SeriesApart`: no file name is a numbered variant of another. The names a camera gives
  end in four digits (`IMG_0001.JPG`), so `_1` makes no other of them; an app may name a file so, and then the same
  photo may be filed under `IMG.JPG` by one series and under `IMG_1.JPG` by the other.
  `SeriesInv` says that a series is filled from the front and that a worker who
  looks at its n-th name has seen other bytes under the names before, or none it
  could read. `OneWorkerMakesNoCopies` needs no polite run.

`WatcherProofs`, for any number of frames, handlers and failures:

* `TypeCorrect` and `PollsExcludePulls`: `Spec => []PollExclusive`. The invariant
  `LoopInv` says what the loop holds at each place: a client while connected,
  no frame in hand unless it is being fetched, no pending pull while it polls, an
  answer only when there is one.
* `NoRequestLost`: `Spec => []RequestKept`, inductive by itself.
* `NoFrameForgotten`: `Spec => []NothingForgotten` if `KeepsNews`. `NothingForgotten`
  is not inductive, because what a listing has seen matters only when it ends;
  `WalkSees` says that a walk under way has seen, or the camera will report,
  all of the card.

`RemoteProofs`, about the bus alone (using nothing that `Remote` assumes), for any
publishers, streams, messages and sizes:

* `BusTypeCorrect`, `ClosedChannelsAreSafe`, `StreamsHaveNoGap` and
  `StreamsKeepOrder`: `BusSpec => []NoGap` and so on. `BusInv` adds what the mutex
  gives: who hands out an event holds the mutex and the event is the latest
  (`OnePublisher`), the history is the last numbers without a gap
  (`HistoryIsTail`), and what a client has is older than what it is about to be
  offered (`Known`), without which order would not be kept. The lemmas about
  `LastOf`, `Numbers` and moving the head of a channel carry the rest.

`RemoteProofs`, about the manager, for any tailnet, tunnels and delays, with or without
an advertised address, and even if connectors leave processes behind:

* `RemoteTypeCorrect`, and `RemoteUsesBus`: `Spec => BusSpec`, hence
  `StatusStreamHasNoGap`.
* `ConnectorIsReaped` and `NoStaleStatus` (`Spec => []StatusIsCurrent`). `Between`
  says that between two runs there is no connector and nobody scans, `Reported`
  that an unread line of a quick tunnel is an address of the present run.
* `StatusIsToldLast`: `Spec => []StreamShowsStatus`. `set` publishes after it let go
  of the status, so two goroutines could tell in the other order than they set. They do not:
  `OneVoice` says that a scanner with something to tell is scanning, that the manager
  has nothing while they do, and that both scanners say the same. Hence what is
  still to be published is always the present status (`NewsIsStatus`), and the last
  of it in the history, and in what a stream got and will get, is the status once nobody has
  any left (`Told`). The lemmas about the last news of a sequence
  (`AppendNews`, `LastOfNews`, `ConcatNews`) carry it through the replay,
  which may bring old news again.

`ManifestProofs`:

* `ManifestTypeCorrect` and `IndexesFollow` (`Spec => []IndexesAgree`), for any number
  of processes that share the file. `ReindexAgrees` and `MergeAgrees` say that
  an index built from a map agrees with it, and that a batch keeps the two
  together, whatever it replaces; `IndexesAgree` is then inductive.
* `SoleFileIsLastSave`: with one process, `Spec => []DiskIsLastSave`. `SaveInv`
  says what the save knows: at `write` its temporary file is linked and empty, at
  `rename` it holds memory and nobody has it open, and the manifest itself is
  never open for writing.
* `SoleImplementsLedger`: with one process, `Spec => ImplementsLedger`. `Held`
  says that readers see memory while the mutex is free, and that while a save
  runs memory is ahead of them by one change that `Ledger` allows (`Ahead`);
  `LedgerStep` maps every step, and `ReturnUpdates` the end of a save to `Update`.

`DeviceStoreProofs`, for any handlers, commands, devices and codes:

* `StoreTypeCorrect`, and `FileStaysWhole`: `Spec => []FileIsWhole`. The
  invariant `WholeInv` follows a save that nobody has disturbed: only a thread that
  writes has a file open and, unless operations overlapped, it is the temporary
  one, still empty; what is about to be renamed is whole.
* `RevocationHolds` and `PairingHolds`: `Spec => []RevokedStaysOut` and
  `[]PairedStaysIn`. `PromiseInv` holds of every run; its part `OrderInv` until
  operations overlap. It says that the file, the daemon's memory whenever it is as
  recent as the file, and the buffer of whoever saves have the paired devices and not the
  revoked ones, but for the one change the thread at work is making and has not answered
  for (`ThreadOK`); that no two writes have one time (`TimesApart`); that at most one thread
  is past its first change (`OneLate`), and nobody replaces the memory of one that
  has something to save (`NotReplaced`).
* `CodeMakesOneDevice`: `Spec => []CodeIsSingleUse`. `HandInv` says what a handler on its
  way through `Redeem` knows of the code. `SingleInv` is the argument: while a code
  can be used none of its devices is in a file, and one that was made is held by a
  handler that waits to clear the code; of the devices of a code at most one is
  anywhere from which it could be saved. A crash before the code is cleared leaves the code
  and no device, a crash after it at most the device.
  These three theorems speak of runs whose operations take turns (`InTurn`);
  `revoked_back` shows that the first fails otherwise.

`CameraProofs`, for any addresses, interfaces, workers, cards and page sizes:

* `CameraTypeCorrect`. The functions that pick the first address or directory return
  a member (`MinOf`, from well-foundedness, `FirstOf`).
* `SearchesAreTrue`: `Spec => SearchIsTrue`. `SearchInv` accounts for every address of the
  local networks with a camera that was awake all along: it is in the queue, with a worker
  or found, as long as the search is neither cut off nor slow; and what is heard or found
  was met. `PoolStep` covers the steps of the workers.
* `ListingsAreExact`: `Spec => ListingIsExact`. `ListInv` says of a file that stayed that it
  is listed or still ahead, on a page not read yet within the number of pages counted
  once (`Ahead`), and of a listed one that it is behind (`Behind`), so that it is
  not met again. New frames come after all others (`ShootKeepsPlaces`), and a deletion
  moves files to the front only (`RemoveLowersPlaces`), which makes a frame slip past the page being
  read, in a directory that shrank, and no frame come twice.

`PreviewsProofs`, for any library, handlers, times, changes and lengths of pictures:

* `PreviewsTypeCorrect`: the photo of a handler at work has a source (`Sourced`), by
  which `Stat` reads a time, and the file that a handler has open is there (`Linked`).
* `CachedStaysWhole`: `Spec => []CachedIsWhole`. `WholeInv` says of a file that is not
  mixed that its chunks are of one edition, the one that all who have it open write, and of
  a chunk it misses that somebody who has it open has yet to come to it. Of a temporary
  file the latter holds as long as anybody is at work on it (a crash leaves one that nobody
  completes, and the next request empties it), so it holds when the file is renamed, and
  from then on until one of those who have it open fails. One lemma per step that opens
  (`CreateStep`), writes (`ChunkWritten`, `EncodeStep`), moves (`RenameStep`) or loses a
  file (`EncodeFailsStep`, `CrashStep`); `QuietStep` covers the steps that touch none.
* `PreviewsStayCurrent`: `Spec => []PreviewIsCurrent`. `DatedInv` says that no
  preview is stamped ahead of the clock, and one last written before the last change no
  later than its photo.

`ExifProofs`, for any sizes, depths, blocks and width of integers:

* `ExifTypeCorrect`: `Spec => []TypeOK`, and with it the depth of the boxes: a box may be
  entered from a frame at most `MaxBoxes + 1` deep, and the last frame is left at
  once (`ReturnKeeps`, `PassBox`). A position behind a header stays within the
  integers because a box ends within them (`HeaderFacts`); one behind a box wraps
  (`WrappedIsWord`).
* `DatesAreKept`: `Spec => []FoundIsKept`. `ReadInv` adds that boxes are read within a
  frame, without which "the next box" would have no place, and that nothing is returned before the end.
* `DatesAreBest`: `Spec => []DateIsBest`, where the run has only blocks of two directories.
  `DateIsBest` is inductive once one knows what `walkIFD` computes, which is a
  recursion over levels and, within each, over entries. The induction theorems of the library
  quantify over predicates and cannot be used, so `Induction` states it for sets, from the
  well-foundedness of the numbers; `Recursion` follows, that a function defined by steps exists, and
  `EntriesAreRead`, `WalkGoes` and `WithinGoes` give the equations of the three recursions.
  `EntriesOverwrite` and `WalkOverwrites` are the inductions: a directory read with `n + 1`
  levels left leaves each tag as it was or with a value stated within `n` links, and with
  such a value if there is one (`Overwrites`). `WithinStep` turns "one link more at the end" into "one
  link more at the start", which is how the code recurses. `BestIsPermitted` concludes
  for `applyState`, and `BestStep` for every action.
* `ReadingShrinks`: `Spec => [][Left' < Left /\ Left \in Nat]_vars`, the part of `ReadEnds` that
  needs no fairness: a file of `n` units takes at most `3n + 3` steps. `Left` counts
  what is between the next box and the end of the outermost. That it shrinks when a box is left rests
  on `NestedIn`: a box ends where the next one begins, and a position before the
  start, where a size wrapped, is in a box from which only `SeekFails` leads on (`NextBox`,
  `PassNested`, `EnterNested`, `LeaveNested`). What is left to TLC is that a step is
  always possible before the end.

Only model-checked: liveness (`EventuallyImported`, `RequestsAnswered`, `EventuallyTried`, `StopsCleanly`,
`PublishingEnds`, `KeepsTrying`, `Stops`, `SearchEnds`, `Recovers`, `ReadEnds`),
which needs fairness and `ENABLED` and is beyond the prover. Every other property
of a passing run is a theorem.

## Plan

Done: `Ledger`, `Manifest` and `Importer`; `Watcher`; `EventBus` and `Remote`;
`DeviceStore`; `Discovery` and `Camera`; `Previews`; `Exif`; the theorems above.

Left:

1. An abstract store of devices that `DeviceStore` implements while operations
   take turns. It has to allow that what a failed save left in memory is
   written by the save of a later request.
2. `Watcher` composed with an abstract importer and with `Camera`, and its status
   snapshot with the events it publishes.
3. `List` with offset and limit, and the precedence of configuration, as operators
   against reference definitions.

## Not modelled

* configuration: defaults, file, environment and flags are merged once at the start by
  pure code; what comes of it are constants here;
* service installers and deployment files: they write files for other programs;
* the web page and the companion apps: clients of the API, represented by uploads,
  requests and streams in any order;
* scaling of pictures, HTTP routing, JSON and range serving, which keep no state;
* `List`, `Stats` and `sortTime` of the manifest: queries, but for the order that
  `Previews` uses.

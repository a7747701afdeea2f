---------------------------- MODULE DeviceStore ----------------------------
(***************************************************************************)
(* Paired devices and the pairing code: internal/api/auth.go, the handlers *)
(* and the middleware that use it, and the commands rpsync pair and rpsync *)
(* devices.                                                                *)
(*                                                                         *)
(* Two files are shared by the daemon and by commands in processes of      *)
(* their own.  A process keeps the devices in memory and reads the file    *)
(* again when its modification time is not the one it remembers.  A device *)
(* stands for its ID and its token as well; what else is known of it, the  *)
(* time it was last seen included, is left out.                            *)
(***************************************************************************)
EXTENDS Naturals, FiniteSets, TLC

CONSTANTS
    Devices,      \* the devices that may ever be paired
    Handlers,     \* goroutines of the daemon that serve a request
    Commands,     \* runs of rpsync pair and rpsync devices, each a process
    Daemon,       \* the process of the handlers
    Local,        \* a client on this computer, which needs no token
    Codes,        \* the pairing codes that may ever be made
    MaxAttempts,  \* wrong guesses that burn a code
    Times,        \* modification times
    Torn,         \* contents of a file that was opened and not yet written
    Garbled,      \* of one written in part, or by two saves over each other
    None,
    MaxFaults,    \* bound on failed writes and crashes
    GoesOn        \* bound: whether new operations begin after a conflict

ASSUME StoreAssumption ==
    /\ MaxAttempts \in Nat \ {0} /\ MaxFaults \in Nat /\ GoesOn \in BOOLEAN
    /\ Handlers \cap Commands = {} /\ Daemon \notin Handlers \cup Commands
    /\ Local \notin Devices /\ None \notin Devices \cup Times \cup Codes
    /\ \A D \in SUBSET Devices : Torn # D /\ Garbled # D
    /\ Garbled # Torn
    /\ \A D \in (SUBSET Devices) \cup {Torn, Garbled}, x \in Times : None # [set |-> D, time |-> x]
    /\ \A c \in Codes, n \in 0..MaxAttempts : None # [code |-> c, tries |-> n]

VARIABLES
    disk,      \* devices.json: its contents and its modification time
    tmp,       \* devices.json.tmp
    pairing,   \* pairing.json: the hashed code and the wrong guesses so far
    cache,     \* per process: devices (byHash knows the same) and modTime
    up,        \* the daemon has loaded the store
    at,        \* per thread: where it is in which request, see Places
    faults,
    paired,    \* history: devices with a token, not asked to be revoked since
    revoked,   \* history: devices whose revocation was confirmed
    issued,    \* history: which code made which device
    minted,    \* history: the codes made so far
    overlapped \* history: something changed under another operation

files == <<disk, tmp>>
history == <<paired, revoked, issued, minted>>
vars == <<files, pairing, cache, up, at, faults, history, overlapped>>

Threads == Handlers \cup Commands
Procs == {Daemon} \cup Commands
Proc(t) == IF t \in Handlers THEN Daemon ELSE t

Unreadable == {Torn, Garbled}
File == [set: (SUBSET Devices) \cup Unreadable, time: Times]
Pairing == [code: Codes, tries: 0..MaxAttempts]
Caches == [devices: SUBSET Devices, modTime: Times \cup {None}]
Blank == [devices |-> {}, modTime |-> None]

\* A request: who makes it, what it asks for, the device to revoke or the one
\* just made, and the code a device presents.
Requests == [who: Devices \cup {Local},
             kind: {"boot", "pair", "list", "revoke", "newcode", "cancel"},
             dev: Devices \cup {None}, guess: Codes \cup {None}]

\* phase: starting the process, authenticating the client, or serving it.
\* buf: the devices read from the file, or about to be written; seen: the pairing
\* state that was read; fd: the name of the file that is open for writing.
Places == [pc: {"idle", "stat", "read", "install", "act", "code", "check", "clear",
                "marshal", "open", "write", "rename", "remove", "stamp"},
           phase: {"load", "auth", "serve"}, op: Requests, buf: SUBSET Devices,
           seen: Pairing \cup {None}, fd: {"tmp", "disk", "gone"}]

Resting == [pc |-> "idle", phase |-> "serve", buf |-> {}, seen |-> None, fd |-> "gone",
            op |-> [who |-> Local, kind |-> "list", dev |-> None, guess |-> None]]

TypeOK ==
    /\ disk \in File \cup {None} /\ tmp \in File \cup {None}
    /\ pairing \in Pairing \cup {None}
    /\ cache \in [Procs -> Caches] /\ up \in BOOLEAN
    /\ at \in [Threads -> Places]
    /\ faults \in 0..MaxFaults
    /\ paired \subseteq Devices /\ revoked \subseteq Devices
    /\ issued \subseteq Codes \X Devices /\ minted \subseteq Codes
    /\ overlapped \in BOOLEAN

Init ==
    /\ disk = None /\ tmp = None /\ pairing = None
    /\ cache = [p \in Procs |-> Blank] /\ up = FALSE
    /\ at = [t \in Threads |-> Resting]
    /\ faults = 0
    /\ paired = {} /\ revoked = {} /\ issued = {} /\ minted = {} /\ overlapped = FALSE

-----------------------------------------------------------------------------
At(t, l) == at[t].pc = l
Serving(t, kind) == At(t, "act") /\ at[t].phase = "serve" /\ at[t].op.kind = kind
To(t, l) == at' = [at EXCEPT ![t].pc = l] /\ UNCHANGED cache

\* The request is answered; a command that is done is a process less.
End(t) == /\ at' = [at EXCEPT ![t] = Resting]
          /\ cache' = [p \in Procs |-> IF p = t THEN Blank ELSE cache[p]]

\* This action of t changes devices, code or file: is another one under way?
Touch(t) ==
    overlapped' = (overlapped \/ \E u \in Threads \ {t} : ~At(u, "idle"))

\* Modification times do not repeat; one that nobody remembers is as good as new.
InUse == {cache[p].modTime : p \in Procs} \cup {f.time : f \in {disk, tmp} \ {None}}
NewTimes == LET fresh == Times \ InUse
            IN IF fresh = {} THEN {} ELSE {CHOOSE x \in fresh : TRUE}

\* Where the handler of a request begins, once its client is known.
Entry(kind) == IF kind \in {"pair", "newcode", "cancel"} THEN "code" ELSE "stat"
Serve(t) == [at[t] EXCEPT !.phase = "serve", !.pc = Entry(at[t].op.kind),
                          !.buf = {}, !.fd = "gone"]

\* A request of a client: authenticated by its token, unless it is local or
\* the one that pairs.
Request(t) ==
    /\ t \in Handlers /\ At(t, "idle") /\ up /\ (overlapped => GoesOn)
    /\ \E r \in Requests :
         /\ r.kind # "boot"
         /\ r.kind = "revoke" <=> r.dev # None
         /\ r.guess # None => r.kind = "pair" /\ r.guess \in minted
         /\ r.kind = "pair" => r.who = Local
         /\ at' = [at EXCEPT ![t].op = r,
                             ![t].phase = IF r.who = Local THEN "serve" ELSE "auth",
                             ![t].pc = IF r.who = Local THEN Entry(r.kind) ELSE "stat"]
    /\ UNCHANGED <<files, pairing, cache, up, faults, history, overlapped>>

\* A process starts with LoadDeviceStore: the daemon, or a command.
Start(t) ==
    /\ At(t, "idle") /\ (overlapped => GoesOn)
    /\ \E r \in Requests :
         /\ r.who = Local /\ r.guess = None
         /\ IF t \in Handlers
            THEN r.kind = "boot" /\ ~up /\ \A u \in Handlers : At(u, "idle")
            ELSE r.kind \in {"newcode", "revoke", "list"}
         /\ r.kind = "revoke" <=> r.dev # None
         /\ at' = [at EXCEPT ![t].op = r, ![t].phase = "load", ![t].pc = "read"]
    /\ UNCHANGED <<files, pairing, cache, up, faults, history, overlapped>>

-----------------------------------------------------------------------------
(* refresh and reload *)

\* Mutant: what is in memory is never compared with the file.
TrustMemory(t) ==
    /\ At(t, "stat")
    /\ To(t, "act")
    /\ UNCHANGED <<files, pairing, up, faults, history, overlapped>>

Stat(t) ==
    /\ At(t, "stat")
    /\ To(t, IF disk = None \/ disk.time = cache[Proc(t)].modTime THEN "act" ELSE "read")
    /\ UNCHANGED <<files, pairing, up, faults, history, overlapped>>

Read(t) ==
    /\ At(t, "read") /\ disk # None /\ disk.set \notin Unreadable
    /\ at' = [at EXCEPT ![t].buf = disk.set, ![t].pc = "install"]
    /\ UNCHANGED <<files, pairing, cache, up, faults, history, overlapped>>

\* Without a file, or with one that cannot be parsed, the memory stays as it is;
\* a process that starts with the latter ends.
ReadNothing(t) ==
    /\ At(t, "read") /\ (disk # None => disk.set \in Unreadable)
    /\ IF at[t].phase = "load" /\ disk # None THEN End(t) ELSE To(t, "act")
    /\ UNCHANGED <<files, pairing, up, faults, history, overlapped>>

\* The time remembered is that of the file there is now, not of the one read.
TimeNow(p) == IF disk = None THEN cache[p].modTime ELSE disk.time

Install(t) ==
    /\ At(t, "install")
    /\ cache' = [cache EXCEPT ![Proc(t)] = [devices |-> at[t].buf,
                                            modTime |-> TimeNow(Proc(t))]]
    /\ at' = [at EXCEPT ![t].pc = "act", ![t].buf = {}]
    /\ UNCHANGED <<files, pairing, up, faults, history, overlapped>>

Loaded(t) ==
    /\ At(t, "act") /\ at[t].phase = "load"
    /\ at' = [at EXCEPT ![t] = Serve(t)]
    /\ up' = (up \/ t \in Handlers)
    /\ UNCHANGED <<files, pairing, cache, faults, history, overlapped>>

-----------------------------------------------------------------------------
(* what is done with the devices in memory, under the mutex *)

Mine(t) == cache[Proc(t)].devices

\* Authenticate, and the middleware
Lookup(t) ==
    /\ At(t, "act") /\ at[t].phase = "auth"
    /\ IF at[t].op.who \in Mine(t) THEN To(t, "marshal") ELSE End(t)
    /\ UNCHANGED <<files, pairing, up, faults, history, overlapped>>

List(t) ==
    /\ Serving(t, "list")
    /\ End(t)
    /\ UNCHANGED <<files, pairing, up, faults, history, overlapped>>

\* When the daemon starts and knows no device it makes a code, unless there is
\* one whose time is not over.
OfferFirstPairing(t) ==
    /\ Serving(t, "boot")
    /\ \/ Mine(t) = {} /\ To(t, "code")
       \/ (Mine(t) # {} \/ pairing # None) /\ End(t)
    /\ UNCHANGED <<files, pairing, up, faults, history, overlapped>>

Delete(t) ==
    LET d == at[t].op.dev IN
    /\ Serving(t, "revoke") /\ d \in Mine(t)
    /\ cache' = [cache EXCEPT ![Proc(t)].devices = @ \ {d}]
    /\ paired' = paired \ {d}
    /\ at' = [at EXCEPT ![t].pc = "marshal"]
    /\ Touch(t)
    /\ UNCHANGED <<files, pairing, up, faults, revoked, issued, minted>>

DeleteNothing(t) ==
    /\ Serving(t, "revoke") /\ at[t].op.dev \notin Mine(t)
    /\ End(t)
    /\ UNCHANGED <<files, pairing, up, faults, history, overlapped>>

\* The second half of Redeem
Add(t) ==
    /\ Serving(t, "pair")
    /\ \E d \in Devices \ {i[2] : i \in issued} :
         /\ cache' = [cache EXCEPT ![Proc(t)].devices = @ \cup {d}]
         /\ issued' = issued \cup {<<at[t].op.guess, d>>}
         /\ at' = [at EXCEPT ![t].op.dev = d, ![t].pc = "clear"]
    /\ Touch(t)
    /\ UNCHANGED <<files, pairing, up, faults, paired, revoked, minted>>

-----------------------------------------------------------------------------
(* the pairing code; its file is written and removed in one step, and whether *)
(* the time of a code is over is asked whenever it is looked at               *)

NewPairingCode(t) ==
    /\ At(t, "code") /\ at[t].op.kind \in {"newcode", "boot"}
    /\ \E c \in Codes \ minted : /\ pairing' = [code |-> c, tries |-> 0]
                                 /\ minted' = minted \cup {c}
    /\ End(t) /\ Touch(t)
    /\ UNCHANGED <<files, up, faults, paired, revoked, issued>>

CancelPairing(t) ==
    /\ At(t, "code") /\ at[t].op.kind = "cancel"
    /\ pairing' = None
    /\ End(t) /\ Touch(t)
    /\ UNCHANGED <<files, up, faults, history>>

\* Redeem reads the code, and decides about it a moment later.
ReadPairing(t) ==
    /\ At(t, "code") /\ at[t].op.kind = "pair"
    /\ IF pairing = None THEN End(t)
       ELSE at' = [at EXCEPT ![t].seen = pairing, ![t].pc = "check"] /\ UNCHANGED cache
    /\ UNCHANGED <<files, pairing, up, faults, history, overlapped>>

Expired(t) ==
    /\ At(t, "check")
    /\ pairing' = None
    /\ End(t) /\ Touch(t)
    /\ UNCHANGED <<files, up, faults, history>>

\* A wrong guess writes back what was read, with one guess more.
Refuse(t) ==
    LET s == at[t].seen IN
    /\ At(t, "check") /\ at[t].op.guess # s.code
    /\ pairing' = IF s.tries + 1 >= MaxAttempts THEN None ELSE [s EXCEPT !.tries = @ + 1]
    /\ End(t) /\ Touch(t)
    /\ UNCHANGED <<files, up, faults, history>>

Accept(t) ==
    LET s == at[t].seen IN
    /\ At(t, "check") /\ at[t].op.guess = s.code /\ s.tries < MaxAttempts
    /\ at' = [at EXCEPT ![t].seen = None, ![t].pc = "stat"]
    /\ UNCHANGED <<files, pairing, cache, up, faults, history, overlapped>>

\* Mutant: the code outlives the device it made.
KeepPairing(t) ==
    /\ At(t, "clear")
    /\ To(t, "marshal")
    /\ UNCHANGED <<files, pairing, up, faults, history, overlapped>>

\* Single use: the code is gone before the device is saved.
ClearPairing(t) ==
    /\ At(t, "clear")
    /\ pairing' = None
    /\ To(t, "marshal") /\ Touch(t)
    /\ UNCHANGED <<files, up, faults, history>>

-----------------------------------------------------------------------------
(* Save: the mutex covers only the encoding and the new time *)

Marshal(t) ==
    /\ At(t, "marshal")
    /\ at' = [at EXCEPT ![t].buf = Mine(t), ![t].pc = "open"]
    /\ UNCHANGED <<files, pairing, cache, up, faults, history, overlapped>>

\* Mutant: the file is written in place.
OpenInPlace(t) ==
    /\ At(t, "open")
    /\ \E x \in NewTimes : disk' = [set |-> Torn, time |-> x]
    /\ at' = [at EXCEPT ![t].fd = "disk", ![t].pc = "write"]
    /\ Touch(t)
    /\ UNCHANGED <<tmp, pairing, cache, up, faults, history>>

Open(t) ==
    /\ At(t, "open")
    /\ \E x \in NewTimes : tmp' = [set |-> Torn, time |-> x]
    /\ at' = [at EXCEPT ![t].fd = "tmp", ![t].pc = "write"]
    /\ Touch(t)
    /\ UNCHANGED <<disk, pairing, cache, up, faults, history>>

\* Contents s for the file thread t has open, if that still has a name.
Put(t, s) ==
    \E x \in NewTimes :
      LET f == [set |-> s, time |-> x] IN
      /\ tmp' = IF at[t].fd = "tmp" THEN f ELSE tmp
      /\ disk' = IF at[t].fd = "disk" THEN f ELSE disk

\* The file is as Open left it: no other save that has it open has written.
Empty(t) == \/ at[t].fd = "tmp" /\ tmp.set = Torn
            \/ at[t].fd = "disk" /\ disk.set = Torn

\* Another save may have renamed the file meanwhile, or removed it.  Over what
\* another save wrote, the new contents end with a rest of the old if shorter.
Write(t) ==
    /\ At(t, "write")
    /\ \E s \in {at[t].buf} \cup (IF Empty(t) THEN {} ELSE {Garbled}) : Put(t, s)
    /\ at' = [at EXCEPT ![t].fd = "gone", ![t].pc = "rename", ![t].buf = {}]
    /\ Touch(t)
    /\ UNCHANGED <<pairing, cache, up, faults, history>>

\* What is open under the temporary name is then open under the other.
Moved(fd) == IF fd = "tmp" THEN "disk" ELSE "gone"

Rename(t) ==
    /\ At(t, "rename") /\ tmp # None
    /\ disk' = tmp /\ tmp' = None
    /\ at' = [u \in Threads |-> [at[u] EXCEPT !.fd = Moved(@),
                                              !.pc = IF u = t THEN "stamp" ELSE @]]
    /\ Touch(t)
    /\ UNCHANGED <<pairing, cache, up, faults, history>>

RenameFails(t) ==
    /\ At(t, "rename") /\ tmp = None
    /\ To(t, "remove")
    /\ UNCHANGED <<files, pairing, up, faults, history, overlapped>>

\* After Save Authenticate goes on, whatever came of it; the others answer.
Answer(t) ==
    IF at[t].phase = "auth" THEN at' = [at EXCEPT ![t] = Serve(t)] /\ UNCHANGED cache
    ELSE End(t)

\* The removal after a failed rename hits the file of a save that began since.
RemoveTmp(t) ==
    /\ At(t, "remove") /\ tmp = None
    /\ Answer(t)
    /\ UNCHANGED <<files, pairing, up, faults, history, overlapped>>

RemoveOther(t) ==
    /\ At(t, "remove") /\ tmp # None
    /\ tmp' = None
    /\ at' = [u \in Threads |-> [at[u] EXCEPT !.fd = IF @ = "tmp" THEN "gone" ELSE @]]
    /\ Touch(t)
    /\ UNCHANGED <<disk, pairing, cache, up, faults, history>>

\* Mutant: a save that failed is taken for one that was done.
SaveFailsQuietly(t) ==
    /\ At(t, "open") /\ faults < MaxFaults
    /\ faults' = faults + 1
    /\ To(t, "stamp")
    /\ UNCHANGED <<files, pairing, up, history, overlapped>>

SaveFails(t) ==
    /\ At(t, "open") /\ faults < MaxFaults
    /\ faults' = faults + 1
    /\ Answer(t)
    /\ UNCHANGED <<files, pairing, up, history, overlapped>>

\* The disk is full: what could be written stays where it is.
WriteFails(t) ==
    /\ At(t, "write") /\ faults < MaxFaults
    /\ faults' = faults + 1
    /\ Put(t, Garbled)
    /\ Answer(t) /\ Touch(t)
    /\ UNCHANGED <<pairing, up, history>>

\* Stat after the rename, and the answer.
Stamped(t) == [cache EXCEPT ![Proc(t)].modTime = TimeNow(Proc(t))]

Stamp(t) ==
    /\ At(t, "stamp") /\ at[t].phase = "auth"
    /\ cache' = Stamped(t)
    /\ at' = [at EXCEPT ![t] = Serve(t)]
    /\ UNCHANGED <<files, pairing, up, faults, history, overlapped>>

StampAndAnswer(t) ==
    LET r == at[t].op IN
    /\ At(t, "stamp") /\ at[t].phase = "serve"
    /\ cache' = [p \in Procs |-> IF p = t THEN Blank ELSE Stamped(t)[p]]
    /\ at' = [at EXCEPT ![t] = Resting]
    /\ paired' = IF r.kind = "pair" THEN paired \cup {r.dev} ELSE paired
    /\ revoked' = IF r.kind = "revoke" THEN revoked \cup {r.dev} ELSE revoked
    /\ UNCHANGED <<files, pairing, up, faults, issued, minted, overlapped>>

-----------------------------------------------------------------------------
\* The daemon dies, or a command.
Crash(p) ==
    /\ faults < MaxFaults
    /\ \E t \in Threads : Proc(t) = p /\ ~At(t, "idle")
    /\ faults' = faults + 1
    /\ at' = [t \in Threads |-> IF Proc(t) = p THEN Resting ELSE at[t]]
    /\ cache' = [cache EXCEPT ![p] = Blank]
    /\ up' = (up /\ p # Daemon)
    /\ UNCHANGED <<files, pairing, history, overlapped>>

Step(t) ==
    \/ Stat(t) \/ Read(t) \/ ReadNothing(t) \/ Install(t) \/ Loaded(t)
    \/ Lookup(t) \/ List(t) \/ OfferFirstPairing(t) \/ Delete(t) \/ DeleteNothing(t)
    \/ Add(t) \/ NewPairingCode(t) \/ CancelPairing(t)
    \/ ReadPairing(t) \/ Expired(t) \/ Refuse(t) \/ Accept(t) \/ ClearPairing(t)
    \/ Marshal(t) \/ Open(t) \/ Write(t) \/ Rename(t) \/ RenameFails(t)
    \/ RemoveTmp(t) \/ RemoveOther(t) \/ SaveFails(t) \/ WriteFails(t)
    \/ Stamp(t) \/ StampAndAnswer(t)

Next ==
    \/ \E t \in Threads : Request(t) \/ Start(t) \/ Step(t)
    \/ \E p \in Procs : Crash(p)

Spec == Init /\ [][Next]_vars

-----------------------------------------------------------------------------
Quiet == \A t \in Threads : At(t, "idle")

\* The devices in the file, and those the next request to the daemon will know.
OnDisk == IF disk = None \/ disk.set \in Unreadable THEN {} ELSE disk.set
Known == IF disk = None \/ disk.set \in Unreadable \/ disk.time = cache[Daemon].modTime
         THEN cache[Daemon].devices ELSE disk.set

\* Whenever devices, code or file changed no other operation was under way, and
\* none is now: the condition under which the store keeps its promises.
InTurn == ~overlapped /\ Quiet

\* A file that cannot be parsed comes of saves that overlapped: no crash and no
\* failed write of a process by itself loses the devices.
FileIsWhole == disk # None /\ disk.set \in Unreadable => overlapped

\* A revocation that was confirmed holds for every process, also after a restart,
\* whichever process made it and whatever the others still have in memory.
RevokedStaysOut ==
    InTurn => revoked \cap OnDisk = {} /\ (up => revoked \cap Known = {})

\* A device that got its token keeps it until somebody asks to revoke it: no
\* process drops the devices another one has paired.
PairedStaysIn ==
    InTurn => paired \subseteq OnDisk /\ (up => paired \subseteq Known)

\* A code makes one device, also when the daemon dies in the middle of Redeem: a
\* second device of a code is made only if the first was never saved.
CodeIsSingleUse ==
    InTurn => \A i, j \in issued :
        i[1] = j[1] /\ {i[2], j[2]} \subseteq OnDisk \cup paired => i = j

\* auth.go: "Revoke removes a device. Its token stops working immediately."
TokenStopsWorking ==
    Quiet /\ up => revoked \cap Known = {}

-----------------------------------------------------------------------------
\* Devices and codes are interchangeable.
Alike == Permutations(Devices) \cup Permutations(Codes)
=============================================================================

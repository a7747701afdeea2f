------------------------------ MODULE Manifest ------------------------------
(***************************************************************************)
(* src/internal/manifest/manifest.go: the import ledger as a JSON file.    *)
(* Every writer takes mu, changes the three maps, and saves the whole      *)
(* ledger through path.tmp and a rename before it releases mu.  Each step  *)
(* of the save may fail and the process may die between any two of them.   *)
(* Every process that opens the file has maps and a mutex of its own; the  *)
(* two file names are all they share.                                      *)
(***************************************************************************)
EXTENDS Naturals

CONSTANTS
  Procs,      \* processes that open the manifest (daemon, rpsync pull)
  Keys,       \* card/dir/name
  Digests,    \* SHA-256 of some contents
  NoDigest,   \* an entry recorded without a hash
  Absent,     \* no entry
  NoKey       \* no entry for a digest

ASSUME ManifestAssumption ==
  /\ NoDigest \notin Digests
  /\ NoKey \notin Keys
  /\ \A d \in Digests \cup {NoDigest} : Absent # [sum |-> d]

(* An entry is abstracted to its hash: its key is where it is stored, and
   its ID is a function of the key. *)
Entries == [sum : Digests \cup {NoDigest}]
Maps == [Keys -> Entries \cup {Absent}]
NoEntries == [k \in Keys |-> Absent]
NoIndex == [d \in Digests |-> NoKey]
NoView == [map |-> NoEntries, known |-> {}]

(* What a file name may hold: nothing, text json.Unmarshal rejects, or a
   ledger. *)
Missing == [kind |-> "missing", map |-> NoEntries]
Garbage == [kind |-> "garbage", map |-> NoEntries]
Whole(m) == [kind |-> "whole", map |-> m]
FileContents == [kind : {"missing", "garbage", "whole"}, map : Maps]

VARIABLES
  entries,    \* entries[p]: key -> entry
  byID,       \* byID[p]: the same entries by public identifier
  byHash,     \* byHash[p]: digest -> key of the entry found by it
  pc,         \* where p is: down, idle (mu free), or a step of saveLocked
  path,       \* contents of the manifest file
  tmp,        \* contents of path.tmp
  fd,         \* where the file p writes is linked: tmp, path, nowhere
  acked,      \* history: the ledger of the last save that returned nil
  view        \* history: what readers of p see, the maps when mu was last free

vars == <<entries, byID, byHash, pc, path, tmp, fd, acked, view>>
memory == <<entries, byID, byHash>>
files == <<path, tmp, fd>>

TypeOK ==
  /\ entries \in [Procs -> Maps]
  /\ byID \in [Procs -> Maps]
  /\ byHash \in [Procs -> [Digests -> Keys \cup {NoKey}]]
  /\ pc \in [Procs -> {"down", "idle", "open", "write", "rename"}]
  /\ path \in FileContents
  /\ tmp \in FileContents
  /\ fd \in [Procs -> {"tmp", "path", "nowhere"}]
  /\ acked \in Maps
  /\ view \in [Procs -> [map : Maps, known : SUBSET Digests]]

Init ==
  /\ entries = [p \in Procs |-> NoEntries]
  /\ byID = [p \in Procs |-> NoEntries]
  /\ byHash = [p \in Procs |-> NoIndex]
  /\ pc = [p \in Procs |-> "down"]
  /\ path = Missing
  /\ tmp = Missing
  /\ fd = [p \in Procs |-> "nowhere"]
  /\ acked = NoEntries
  /\ view = [p \in Procs |-> NoView]
-----------------------------------------------------------------------------
(* Holders of a digest in a map, and the indexes reindexLocked may build: it
   ranges over a Go map, so any holder may be the last one written. *)
Holders(m, d) == {k \in Keys : m[k] # Absent /\ m[k].sum = d}

HashIndexes(m) ==
  {f \in [Digests -> Keys \cup {NoKey}] :
     \A d \in Digests : IF Holders(m, d) = {} THEN f[d] = NoKey
                                              ELSE f[d] \in Holders(m, d)}

(* The digests ByHash answers. *)
Found(index) == {d \in Digests : index[d] # NoKey}

(* Mutant: reindexing forgets byHash. *)
ReindexIDs(p, m) == byID' = [byID EXCEPT ![p] = m] /\ UNCHANGED byHash

Reindex(p, m) ==
  /\ byID' = [byID EXCEPT ![p] = m]
  /\ \E f \in HashIndexes(m) : byHash' = [byHash EXCEPT ![p] = f]

(* A batch maps the keys to record to their entries, the others to Absent. *)
Batches == {b \in Maps : b # NoEntries}
(* Mutant: a batch replaces what was there. *)
Replace(m, b) == b

Merge(m, b) == [k \in Keys |-> IF b[k] # Absent THEN b[k] ELSE m[k]]

(* addLocked for every entry of a batch: digests the batch does not hold keep
   what the index says of them, even when their entry was just replaced. *)
AddToHash(f, b) ==
  {g \in [Digests -> Keys \cup {NoKey}] :
     \A d \in Digests : IF Holders(b, d) = {} THEN g[d] = f[d]
                                              ELSE g[d] \in Holders(b, d)}

Load(p) ==
  /\ pc[p] = "down"
  /\ path.kind # "garbage"
  /\ entries' = [entries EXCEPT ![p] = path.map]
  /\ Reindex(p, path.map)
  /\ view' = [view EXCEPT ![p] = [map |-> path.map, known |-> Found(byHash'[p])]]
  /\ pc' = [pc EXCEPT ![p] = "idle"]
  /\ UNCHANGED <<files, acked>>

(* Add and AddAll: memory first, then the save. *)
Add(p, batch) ==
  /\ pc[p] = "idle"
  /\ entries' = [entries EXCEPT ![p] = Merge(@, batch)]
  /\ byID' = [byID EXCEPT ![p] = Merge(@, batch)]
  /\ \E g \in AddToHash(byHash[p], batch) : byHash' = [byHash EXCEPT ![p] = g]
  /\ pc' = [pc EXCEPT ![p] = "open"]
  /\ UNCHANGED <<files, acked, view>>

Remove(p, k) ==
  /\ pc[p] = "idle"
  /\ entries' = [entries EXCEPT ![p][k] = Absent]
  /\ Reindex(p, entries'[p])
  /\ pc' = [pc EXCEPT ![p] = "open"]
  /\ UNCHANGED <<files, acked, view>>

Save(p) ==
  /\ pc[p] = "idle"
  /\ pc' = [pc EXCEPT ![p] = "open"]
  /\ UNCHANGED <<memory, files, acked, view>>

(* The save returns, mu is released, and readers see what memory holds. *)
Return(p) ==
  /\ pc' = [pc EXCEPT ![p] = "idle"]
  /\ view' = [view EXCEPT ![p] = [map |-> entries[p], known |-> Found(byHash[p])]]

(* Mutant: the manifest is written in place. *)
OpenInPlace(p) ==
  /\ pc[p] = "open"
  /\ path' = Garbage
  /\ tmp' = Garbage
  /\ fd' = [fd EXCEPT ![p] = "path"]
  /\ pc' = [pc EXCEPT ![p] = "write"]
  /\ UNCHANGED <<memory, acked, view>>

(* os.WriteFile opens path.tmp with O_TRUNC: an existing file loses its
   contents, whoever else is writing it. *)
OpenTmp(p) ==
  /\ pc[p] = "open"
  /\ tmp' = Garbage
  /\ fd' = [fd EXCEPT ![p] = "tmp"]
  /\ pc' = [pc EXCEPT ![p] = "write"]
  /\ UNCHANGED <<memory, path, acked, view>>

(* The bytes land in the file opened, wherever it is linked by now.  Over the
   bytes of another writer the result is the ledger written only when it is
   the longer one. *)
Overwritten(old, m) == IF old.kind = "whole" /\ old.map # m
                       THEN {Whole(m), Garbage} ELSE {Whole(m)}

WriteTmp(p) ==
  /\ pc[p] = "write"
  /\ CASE fd[p] = "tmp"     -> tmp' \in Overwritten(tmp, entries[p]) /\ UNCHANGED path
       [] fd[p] = "path"    -> path' \in Overwritten(path, entries[p]) /\ UNCHANGED tmp
       [] fd[p] = "nowhere" -> UNCHANGED <<path, tmp>>
  /\ fd' = [fd EXCEPT ![p] = "nowhere"]
  /\ pc' = [pc EXCEPT ![p] = "rename"]
  /\ UNCHANGED <<memory, acked, view>>

(* os.Rename replaces the manifest; a file open at path.tmp is now open at
   path, and one open at the old path has no name any more. *)
Relinked(q) == CASE fd[q] = "tmp" -> "path" [] OTHER -> "nowhere"

Rename(p) ==
  /\ pc[p] = "rename"
  /\ tmp # Missing
  /\ path' = tmp
  /\ tmp' = Missing
  /\ fd' = [q \in Procs |-> Relinked(q)]
  /\ acked' = entries[p]
  /\ Return(p)
  /\ UNCHANGED memory

(* A directory that cannot be made or a file that cannot be opened. *)
OpenFails(p) ==
  /\ pc[p] = "open"
  /\ Return(p)
  /\ UNCHANGED <<memory, files, acked>>

(* A write cut short, e.g. by a full disk, leaves what was written. *)
WriteFails(p) ==
  /\ pc[p] = "write"
  /\ fd' = [fd EXCEPT ![p] = "nowhere"]
  /\ Return(p)
  /\ UNCHANGED <<memory, path, tmp, acked>>

Unlinked(q) == IF fd[q] = "tmp" THEN "nowhere" ELSE fd[q]

(* A failed rename removes the temporary file. *)
RenameFails(p) ==
  /\ pc[p] = "rename"
  /\ tmp' = Missing
  /\ fd' = [q \in Procs |-> Unlinked(q)]
  /\ Return(p)
  /\ UNCHANGED <<memory, path, acked>>

(* The process dies wherever it is; what it was writing stays as it is. *)
Crash(p) ==
  /\ pc[p] # "down"
  /\ pc' = [pc EXCEPT ![p] = "down"]
  /\ fd' = [fd EXCEPT ![p] = "nowhere"]
  /\ entries' = [entries EXCEPT ![p] = NoEntries]
  /\ byID' = [byID EXCEPT ![p] = NoEntries]
  /\ byHash' = [byHash EXCEPT ![p] = NoIndex]
  /\ view' = [view EXCEPT ![p] = NoView]
  /\ UNCHANGED <<path, tmp, acked>>

Step(p) ==
  \/ Load(p)
  \/ \E batch \in Batches : Add(p, batch)
  \/ \E k \in Keys : Remove(p, k)
  \/ Save(p)
  \/ OpenTmp(p) \/ OpenFails(p)
  \/ WriteTmp(p) \/ WriteFails(p)
  \/ Rename(p) \/ RenameFails(p)
  \/ Crash(p)

Next == \E p \in Procs : Step(p)

Spec == Init /\ [][Next]_vars
-----------------------------------------------------------------------------
(* Every maintenance of the indexes (addLocked, reindexLocked) keeps them in
   step with the entries.  The public identifiers name exactly the entries; a
   digest never leads to a key the ledger has forgotten, so a photo removed to be
   pulled again is not reported as already imported; and every recorded photo is
   found by its bytes, whichever of several entries with the same bytes was added,
   replaced or removed before. *)
IndexesAgree ==
  \A p \in Procs :
    /\ byID[p] = entries[p]
    /\ \A d \in Digests : byHash[p][d] # NoKey => entries[p][byHash[p][d]] # Absent
    /\ \A k \in Keys : entries[p][k] # Absent /\ entries[p][k].sum \in Digests
                        => byHash[p][entries[p][k].sum] # NoKey

(* What the manifest file holds is exactly the ledger of the last save that
   returned nil: a failed or interrupted save neither loses an acknowledged
   import nor leaves a part of its own. *)
DiskIsLastSave == path.kind # "garbage" /\ path.map = acked

Owner == CHOOSE p \in Procs : TRUE

(* A single process keeps the promise of Ledger.  Readers take mu, so the
   memory they see is that of its last release; a start loads the file. *)
L == INSTANCE Ledger WITH live <- view[Owner].map, known <- view[Owner].known,
                          saved <- path.map, up <- pc[Owner] # "down"
ImplementsLedger == L!LedgerSpec
=============================================================================

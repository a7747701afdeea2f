------------------------------- MODULE Ledger -------------------------------
(***************************************************************************)
(* What the manifest promises to the importer: a map from camera-side keys *)
(* to entries that changes in one step, whose durable copy is always the   *)
(* complete map of some earlier moment, and an index of digests that knows *)
(* at least every recorded photo.  Manifest.tla implements it with a lock, *)
(* a temporary file and a rename; Importer.tla is built on it.             *)
(***************************************************************************)
CONSTANTS
  Keys,       \* camera-side identities, card/dir/name
  Digests,    \* content hashes
  Entries,    \* records with a field sum: a digest, or something not in Digests
              \* for an entry recorded without one
  Absent      \* "no entry"

VARIABLES
  live,       \* the map in memory, as every reader of the process sees it
  saved,      \* the map a process starting now would load
  known,      \* the digests ByHash answers
  up          \* the process is running

ledgerVars == <<live, saved, known, up>>

Maps == [Keys -> Entries \cup {Absent}]
NoEntries == [k \in Keys |-> Absent]
Recorded(map) == {k \in Keys : map[k] # Absent}
Sums(map) == {map[k].sum : k \in Recorded(map)} \cap Digests

LedgerTypeOK ==
  /\ live \in Maps
  /\ saved \in Maps
  /\ known \subseteq Digests
  /\ up \in BOOLEAN

LedgerInit ==
  /\ live = NoEntries
  /\ saved = NoEntries
  /\ known = {}
  /\ up = FALSE

(* An update of memory reaches the disk whole, or not at all when the save
   fails; the memory keeps it either way. *)
SavedMaybe == saved' \in {live', saved}   \* mutant: errors are swallowed

Saved == saved' = live'
NotSaved == saved' = saved

(* One entry is recorded under k. *)
Put(k, e) ==
  /\ up
  /\ live' = [live EXCEPT ![k] = e]
  /\ known' = known \cup ({e.sum} \cap Digests)
  /\ UNCHANGED up

(* Any number of entries are recorded: nothing is forgotten, and the index
   grows by digests that are now recorded and by no others. *)
PutSome ==
  /\ up
  /\ live' \in Maps
  /\ \A k \in Keys : live'[k] = Absent => live[k] = Absent
  /\ Sums(live') \subseteq known'
  /\ known \subseteq known'
  /\ known' \subseteq known \cup Sums(live')
  /\ UNCHANGED up

Forget(k) ==
  /\ up
  /\ live' = [live EXCEPT ![k] = Absent]
  /\ known' = Sums(live')
  /\ UNCHANGED up

Resave ==
  /\ up
  /\ UNCHANGED <<live, known, up>>

Update == (PutSome \/ (\E k \in Keys : Forget(k)) \/ Resave) /\ (Saved \/ NotSaved)

(* A crash takes the memory away, a start reads the durable copy back. *)
Crash ==
  /\ up
  /\ up' = FALSE
  /\ live' = NoEntries
  /\ known' = {}
  /\ UNCHANGED saved

Load ==
  /\ ~up
  /\ up' = TRUE
  /\ live' = saved
  /\ known' = Sums(saved)
  /\ UNCHANGED saved

LedgerNext == Update \/ Crash \/ Load

LedgerSpec == LedgerInit /\ [][LedgerNext]_ledgerVars

(* A recorded photo is always recognised by its bytes (ByHash), whatever was
   recorded, forgotten or loaded before. *)
RecordedIsKnown == Sums(live) \subseteq known
=============================================================================

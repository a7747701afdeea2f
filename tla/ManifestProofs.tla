--------------------------- MODULE ManifestProofs ---------------------------
(***************************************************************************)
(* Theorems about Manifest, for any keys and digests: types and indexes    *)
(* for any number of processes, and for a single one that the file is      *)
(* always the last acknowledged ledger and the whole implements Ledger.    *)
(***************************************************************************)
EXTENDS Manifest, TLAPS

\* What an index of a map may be, spelled out.
LEMMA IndexOf ==
  ASSUME NEW m, NEW f \in HashIndexes(m)
  PROVE  /\ f \in [Digests -> Keys \cup {NoKey}]
         /\ \A d \in Digests : Holders(m, d) = {} => f[d] = NoKey
         /\ \A d \in Digests : Holders(m, d) # {} => f[d] \in Holders(m, d)
  BY DEF HashIndexes

\* The same of an index to which a batch is added.
LEMMA AddedTo ==
  ASSUME NEW f, NEW b, NEW g \in AddToHash(f, b)
  PROVE  /\ g \in [Digests -> Keys \cup {NoKey}]
         /\ \A d \in Digests : Holders(b, d) = {} => g[d] = f[d]
         /\ \A d \in Digests : Holders(b, d) # {} => g[d] \in Holders(b, d)
  BY DEF AddToHash

\* Batches and removals make maps of maps.
LEMMA MapsClosed ==
  /\ NoEntries \in Maps
  /\ \A m \in Maps, b \in Batches : Merge(m, b) \in Maps
  /\ \A m \in Maps, k \in Keys : [m EXCEPT ![k] = Absent] \in Maps
  BY DEF Maps, NoEntries, Batches, Merge

LEMMA FilesClosed ==
  /\ Missing \in FileContents /\ Garbage \in FileContents
  /\ \A m \in Maps : Whole(m) \in FileContents
  BY MapsClosed DEF Missing, Garbage, Whole, FileContents

-----------------------------------------------------------------------------
LEMMA TypeInit == Init => TypeOK
  <1> SUFFICES ASSUME Init PROVE TypeOK
    OBVIOUS
  <1>1. NoIndex \in [Digests -> Keys \cup {NoKey}]
    BY DEF NoIndex
  <1>2. NoView \in [map : Maps, known : SUBSET Digests]
    BY MapsClosed DEF NoView
  <1> QED
    BY <1>1, <1>2, MapsClosed, FilesClosed DEF Init, TypeOK

\* What readers see when the mutex is free again has its type.
LEMMA ReturnType ==
  ASSUME TypeOK, NEW p \in Procs, Return(p)
  PROVE  /\ pc' \in [Procs -> {"down", "idle", "open", "write", "rename"}]
         /\ view' \in [Procs -> [map : Maps, known : SUBSET Digests]]
  BY DEF TypeOK, Return, Found

\* No step of the save, nor a crash, disturbs the types.
LEMMA TypeStep == TypeOK /\ [Next]_vars => TypeOK'
  <1> SUFFICES ASSUME TypeOK, [Next]_vars PROVE TypeOK'
    OBVIOUS
  <1> USE DEF TypeOK
  <1>1. CASE UNCHANGED vars
    BY <1>1 DEF vars
  <1>2. ASSUME NEW p \in Procs, Load(p) PROVE TypeOK'
    <2>1. path.map \in Maps
      BY DEF FileContents
    <2>2. byHash'[p] \in [Digests -> Keys \cup {NoKey}] /\ byHash' \in [Procs -> [Digests -> Keys \cup {NoKey}]]
      BY <1>2, IndexOf DEF Load, Reindex
    <2>3. Found(byHash'[p]) \in SUBSET Digests
      BY DEF Found
    <2> QED
      BY <1>2, <2>1, <2>2, <2>3 DEF Load, Reindex, files
  <1>3. ASSUME NEW p \in Procs, NEW b \in Batches, Add(p, b) PROVE TypeOK'
    <2>1. byHash' \in [Procs -> [Digests -> Keys \cup {NoKey}]]
      BY <1>3, AddedTo DEF Add
    <2> QED
      BY <1>3, <2>1, MapsClosed DEF Add, files
  <1>4. ASSUME NEW p \in Procs, NEW k \in Keys, Remove(p, k) PROVE TypeOK'
    <2>1. entries' \in [Procs -> Maps]
      <3>1. entries' = [entries EXCEPT ![p] = [entries[p] EXCEPT ![k] = Absent]]
        BY <1>4 DEF Remove
      <3> QED
        BY <3>1, MapsClosed
    <2>2. byHash' \in [Procs -> [Digests -> Keys \cup {NoKey}]]
      BY <1>4, IndexOf DEF Remove, Reindex
    <2> QED
      BY <1>4, <2>1, <2>2 DEF Remove, Reindex, files
  <1>5. ASSUME NEW p \in Procs, Save(p) PROVE TypeOK'
    BY <1>5 DEF Save, memory, files
  <1>6. ASSUME NEW p \in Procs, OpenTmp(p) PROVE TypeOK'
    BY <1>6, FilesClosed DEF OpenTmp, memory
  <1>7. ASSUME NEW p \in Procs, OpenFails(p) PROVE TypeOK'
    BY <1>7, ReturnType DEF OpenFails, memory, files
  <1>8. ASSUME NEW p \in Procs, WriteTmp(p) PROVE TypeOK'
    <2>1. Overwritten(tmp, entries[p]) \subseteq FileContents /\ Overwritten(path, entries[p]) \subseteq FileContents
      BY FilesClosed DEF Overwritten
    <2>2. tmp' \in FileContents /\ path' \in FileContents
      BY <1>8, <2>1 DEF WriteTmp
    <2> QED
      BY <1>8, <2>2 DEF WriteTmp, memory
  <1>9. ASSUME NEW p \in Procs, WriteFails(p) PROVE TypeOK'
    BY <1>9, ReturnType DEF WriteFails, memory
  <1>10. ASSUME NEW p \in Procs, Rename(p) PROVE TypeOK'
    <2>1. fd' \in [Procs -> {"tmp", "path", "nowhere"}]
      BY <1>10 DEF Rename, Relinked
    <2> QED
      BY <1>10, <2>1, ReturnType, FilesClosed DEF Rename, memory
  <1>11. ASSUME NEW p \in Procs, RenameFails(p) PROVE TypeOK'
    <2>1. fd' \in [Procs -> {"tmp", "path", "nowhere"}]
      BY <1>11 DEF RenameFails, Unlinked
    <2> QED
      BY <1>11, <2>1, ReturnType, FilesClosed DEF RenameFails, memory
  <1>12. ASSUME NEW p \in Procs, Crash(p) PROVE TypeOK'
    <2>1. NoView \in [map : Maps, known : SUBSET Digests] /\ NoIndex \in [Digests -> Keys \cup {NoKey}]
      BY MapsClosed DEF NoView, NoIndex
    <2> QED
      BY <1>12, <2>1, MapsClosed DEF Crash
  <1> QED
    BY <1>1, <1>2, <1>3, <1>4, <1>5, <1>6, <1>7, <1>8, <1>9, <1>10, <1>11, <1>12 DEF Next, Step

\* TYPES.  Maps, files and indexes keep their types for any number of processes
\* that share the file.
THEOREM ManifestTypeCorrect == Spec => []TypeOK
  <1> QED
    BY TypeInit, TypeStep, PTL DEF Spec

-----------------------------------------------------------------------------
\* What the indexes say of one map.
Agree(m, ids, f) ==
  /\ ids = m
  /\ \A d \in Digests : f[d] # NoKey => m[f[d]] # Absent
  /\ \A k \in Keys : m[k] # Absent /\ m[k].sum \in Digests => f[m[k].sum] # NoKey

\* An index that is built from a map agrees with it.
LEMMA ReindexAgrees ==
  ASSUME NEW m, NEW f \in HashIndexes(m)
  PROVE  Agree(m, m, f)
  BY IndexOf, ManifestAssumption DEF Agree, Holders

\* A batch keeps indexes and map together, whatever it replaces.
LEMMA MergeAgrees ==
  ASSUME NEW m \in Maps, NEW b \in Batches, NEW f \in [Digests -> Keys \cup {NoKey}],
         NEW g \in AddToHash(f, b), Agree(m, m, f)
  PROVE  Agree(Merge(m, b), Merge(m, b), g)
  <1> DEFINE n == Merge(m, b)
  <1>1. \A k \in Keys : n[k] = IF b[k] # Absent THEN b[k] ELSE m[k]
    BY DEF Merge
  <1>2. ASSUME NEW d \in Digests, g[d] # NoKey PROVE n[g[d]] # Absent
    <2>1. CASE Holders(b, d) = {}
      <3>1. g[d] = f[d] /\ f[d] \in Keys
        BY <1>2, <2>1, AddedTo
      <3> QED
        BY <1>1, <1>2, <3>1 DEF Agree
    <2>2. CASE Holders(b, d) # {}
      BY <1>1, <2>2, AddedTo DEF Holders
    <2> QED
      BY <2>1, <2>2
  <1>3. ASSUME NEW k \in Keys, n[k] # Absent, n[k].sum \in Digests PROVE g[n[k].sum] # NoKey
    <2> DEFINE d == n[k].sum
    <2>1. CASE Holders(b, d) = {}
      <3>1. b[k] = Absent
        BY <1>1, <1>3, <2>1 DEF Holders
      <3>2. m[k] = n[k]
        BY <1>1, <3>1
      <3> QED
        BY <1>3, <2>1, <3>2, AddedTo DEF Agree
    <2>2. CASE Holders(b, d) # {}
      BY <1>3, <2>2, AddedTo, ManifestAssumption DEF Holders
    <2> QED
      BY <2>1, <2>2
  <1> QED
    BY <1>2, <1>3 DEF Agree

LEMMA AgreeAll == IndexesAgree <=> \A p \in Procs : Agree(entries[p], byID[p], byHash[p])
  BY DEF IndexesAgree, Agree

LEMMA NothingAgrees == Agree(NoEntries, NoEntries, NoIndex)
  BY ManifestAssumption DEF Agree, NoEntries, NoIndex

LEMMA AgreeInit == Init => IndexesAgree
  <1> SUFFICES ASSUME Init, NEW p \in Procs PROVE Agree(entries[p], byID[p], byHash[p])
    BY AgreeAll
  <1>1. entries[p] = NoEntries /\ byID[p] = NoEntries /\ byHash[p] = NoIndex
    BY DEF Init
  <1> QED
    BY <1>1, NothingAgrees

LEMMA AgreeStep == TypeOK /\ IndexesAgree /\ [Next]_vars => IndexesAgree'
  <1> SUFFICES ASSUME TypeOK, IndexesAgree, [Next]_vars PROVE IndexesAgree'
    OBVIOUS
  <1>0. ASSUME UNCHANGED memory PROVE IndexesAgree'
    BY <1>0 DEF IndexesAgree, memory
  <1>1. CASE UNCHANGED vars
    BY <1>0, <1>1 DEF vars, memory
  <1>2. ASSUME NEW p \in Procs, Load(p) PROVE IndexesAgree'
    <2>1. Agree(entries'[p], byID'[p], byHash'[p])
      BY <1>2, ReindexAgrees DEF Load, Reindex, TypeOK
    <2>2. \A q \in Procs \ {p} : Agree(entries'[q], byID'[q], byHash'[q])
      BY <1>2, AgreeAll DEF Load, Reindex, TypeOK
    <2> QED
      BY <2>1, <2>2 DEF IndexesAgree, Agree
  <1>3. ASSUME NEW p \in Procs, NEW b \in Batches, Add(p, b) PROVE IndexesAgree'
    <2>1. Agree(entries'[p], byID'[p], byHash'[p])
      <3>1. entries[p] \in Maps /\ byHash[p] \in [Digests -> Keys \cup {NoKey}]
        BY DEF TypeOK
      <3>2. byID[p] = entries[p] /\ Agree(entries[p], entries[p], byHash[p])
        BY AgreeAll DEF Agree
      <3>3. entries'[p] = Merge(entries[p], b) /\ byID'[p] = Merge(entries[p], b)
        BY <1>3, <3>2 DEF Add, TypeOK
      <3>4. byHash'[p] \in AddToHash(byHash[p], b)
        BY <1>3 DEF Add, TypeOK
      <3> QED
        BY <3>1, <3>2, <3>3, <3>4, MergeAgrees
    <2>2. \A q \in Procs \ {p} : Agree(entries'[q], byID'[q], byHash'[q])
      BY <1>3, AgreeAll DEF Add, TypeOK
    <2> QED
      BY <2>1, <2>2 DEF IndexesAgree, Agree
  <1>4. ASSUME NEW p \in Procs, NEW k \in Keys, Remove(p, k) PROVE IndexesAgree'
    <2>1. Agree(entries'[p], byID'[p], byHash'[p])
      BY <1>4, ReindexAgrees DEF Remove, Reindex, TypeOK
    <2>2. \A q \in Procs \ {p} : Agree(entries'[q], byID'[q], byHash'[q])
      BY <1>4, AgreeAll DEF Remove, Reindex, TypeOK
    <2> QED
      BY <2>1, <2>2 DEF IndexesAgree, Agree
  <1>5. ASSUME NEW p \in Procs, Save(p) \/ OpenTmp(p) \/ OpenFails(p) \/ WriteTmp(p)
                                \/ WriteFails(p) \/ Rename(p) \/ RenameFails(p)
        PROVE  IndexesAgree'
    BY <1>0, <1>5 DEF Save, OpenTmp, OpenFails, WriteTmp, WriteFails, Rename, RenameFails
  <1>6. ASSUME NEW p \in Procs, Crash(p) PROVE IndexesAgree'
    <2>1. Agree(entries'[p], byID'[p], byHash'[p])
      BY <1>6, NothingAgrees DEF Crash, TypeOK
    <2>2. \A q \in Procs \ {p} : Agree(entries'[q], byID'[q], byHash'[q])
      BY <1>6, AgreeAll DEF Crash, TypeOK
    <2> QED
      BY <2>1, <2>2 DEF IndexesAgree, Agree
  <1> QED
    BY <1>1, <1>2, <1>3, <1>4, <1>5, <1>6 DEF Next, Step

\* THE INDEXES FOLLOW.  In every process, whatever the others do to the file, the
\* indexes name exactly what is recorded: identifiers, and digests of some holder.
THEOREM IndexesFollow == Spec => []IndexesAgree
  <1> QED
    BY TypeInit, TypeStep, AgreeInit, AgreeStep, PTL DEF Spec
-----------------------------------------------------------------------------
(* A single process.  Without a second writer the temporary file it renames is
   the one it wrote: nobody truncates it, and nobody holds the manifest open. *)
SaveInv(o) ==
  /\ fd[o] # "path"
  /\ pc[o] = "write" => fd[o] = "tmp" /\ tmp = Garbage
  /\ pc[o] = "rename" => fd[o] = "nowhere" /\ tmp = Whole(entries[o])
  /\ DiskIsLastSave

LEMMA SaveInit == ASSUME NEW o, Procs = {o}, Init PROVE SaveInv(o)
  BY DEF Init, SaveInv, DiskIsLastSave, Missing

LEMMA SaveStep ==
  ASSUME NEW o, Procs = {o}, TypeOK, SaveInv(o), [Next]_vars
  PROVE  SaveInv(o)'
  <1> USE DEF SaveInv, DiskIsLastSave, TypeOK
  <1>1. CASE UNCHANGED vars
    BY <1>1 DEF vars
  <1>2. CASE Load(o)
    BY <1>2 DEF Load, files
  <1>3. ASSUME NEW b \in Batches, Add(o, b) PROVE SaveInv(o)'
    BY <1>3 DEF Add, files
  <1>4. ASSUME NEW k \in Keys, Remove(o, k) PROVE SaveInv(o)'
    BY <1>4 DEF Remove, files
  <1>5. CASE Save(o)
    BY <1>5 DEF Save, files
  <1>6. CASE OpenTmp(o)
    BY <1>6 DEF OpenTmp
  <1>7. CASE OpenFails(o) \/ WriteFails(o)
    BY <1>7 DEF OpenFails, WriteFails, Return, files
  <1>8. CASE WriteTmp(o)
    <2>1. fd[o] = "tmp" /\ tmp.kind = "garbage"
      BY <1>8 DEF WriteTmp, Garbage
    <2>2. tmp' \in Overwritten(tmp, entries[o]) /\ UNCHANGED path
      BY <1>8, <2>1 DEF WriteTmp
    <2>3. tmp' = Whole(entries[o])
      BY <2>1, <2>2 DEF Overwritten
    <2> QED
      BY <1>8, <2>2, <2>3 DEF WriteTmp, memory
  <1>9. CASE Rename(o)
    <2>1. path' = Whole(entries[o]) /\ acked' = entries[o]
      BY <1>9 DEF Rename
    <2>2. fd'[o] = "nowhere" /\ pc'[o] = "idle"
      BY <1>9 DEF Rename, Relinked, Return
    <2> QED
      BY <2>1, <2>2 DEF Whole
  <1>10. CASE RenameFails(o)
    <2>1. fd'[o] = "nowhere" /\ pc'[o] = "idle" /\ UNCHANGED <<path, acked>>
      BY <1>10 DEF RenameFails, Unlinked, Return
    <2> QED
      BY <2>1
  <1>11. CASE Crash(o)
    BY <1>11 DEF Crash
  <1> QED
    BY <1>1, <1>2, <1>3, <1>4, <1>5, <1>6, <1>7, <1>8, <1>9, <1>10, <1>11 DEF Next, Step

\* THE FILE IS THE LAST SAVE.  A single process that saves, fails or dies at any
\* step leaves the manifest as the last save that returned nil wrote it.
THEOREM SoleFileIsLastSave ==
  ASSUME NEW o, Procs = {o}
  PROVE  Spec => []DiskIsLastSave
  <1>1. Init => SaveInv(o)
    BY SaveInit
  <1>2. TypeOK /\ SaveInv(o) /\ [Next]_vars => SaveInv(o)'
    BY SaveStep
  <1>3. SaveInv(o) => DiskIsLastSave
    BY DEF SaveInv
  <1> QED
    BY <1>1, <1>2, <1>3, TypeInit, TypeStep, PTL DEF Spec
-----------------------------------------------------------------------------
(* The refinement.  While a save runs, memory is one change ahead of what readers
   see, and the change is one that Ledger allows. *)
Ahead(old, known, new, found) ==
  \/ /\ \A k \in Keys : new[k] = Absent => old[k] = Absent
     /\ L!Sums(new) \subseteq found
     /\ known \subseteq found
     /\ found \subseteq known \cup L!Sums(new)
  \/ \E k \in Keys : new = [old EXCEPT ![k] = Absent] /\ found = L!Sums(new)

Held(o) ==
  /\ pc[o] = "idle" => view[o] = [map |-> entries[o], known |-> Found(byHash[o])]
  /\ pc[o] \in {"open", "write", "rename"}
       => Ahead(view[o].map, view[o].known, entries[o], Found(byHash[o]))

LEMMA IndexKnows ==
  ASSUME NEW m \in Maps, NEW f \in HashIndexes(m)
  PROVE  Found(f) = L!Sums(m)
  <1>1. \A d \in Digests : f[d] # NoKey <=> Holders(m, d) # {}
    BY IndexOf, ManifestAssumption DEF Holders
  <1> QED
    BY <1>1 DEF Found, Holders, L!Sums, L!Recorded

LEMMA AddedKnows ==
  ASSUME NEW m \in Maps, NEW b \in Batches, NEW f \in [Digests -> Keys \cup {NoKey}],
         NEW g \in AddToHash(f, b), Agree(m, m, f)
  PROVE  Ahead(m, Found(f), Merge(m, b), Found(g))
  <1> DEFINE n == Merge(m, b)
  <1>1. \A k \in Keys : n[k] = IF b[k] # Absent THEN b[k] ELSE m[k]
    BY DEF Merge
  <1>2. \A k \in Keys : n[k] = Absent => m[k] = Absent
    BY <1>1
  <1>3. Agree(n, n, g)
    BY MergeAgrees
  <1>4. L!Sums(n) \subseteq Found(g)
    BY <1>3 DEF Agree, Found, L!Sums, L!Recorded
  <1>5. \A d \in Digests : Holders(b, d) # {} => g[d] \in Keys
    BY AddedTo DEF Holders
  <1>6. Found(f) \subseteq Found(g)
    BY <1>5, AddedTo, ManifestAssumption DEF Found
  <1>7. \A d \in Digests : Holders(b, d) # {} => d \in L!Sums(n)
    BY <1>1 DEF Holders, L!Sums, L!Recorded
  <1>8. Found(g) \subseteq Found(f) \cup L!Sums(n)
    BY <1>7, AddedTo DEF Found
  <1> QED
    BY <1>2, <1>4, <1>6, <1>8 DEF Ahead

LEMMA HeldInit == ASSUME NEW o, Procs = {o}, Init PROVE Held(o)
  BY DEF Init, Held

LEMMA HeldStep ==
  ASSUME NEW o, Procs = {o}, TypeOK, IndexesAgree, Held(o), [Next]_vars
  PROVE  Held(o)'
  <1> USE DEF TypeOK
  <1>1. CASE UNCHANGED vars
    BY <1>1 DEF vars, Held
  <1>2. CASE Load(o)
    <2>1. entries'[o] = path.map /\ pc'[o] = "idle"
      BY <1>2 DEF Load
    <2>2. view'[o] = [map |-> path.map, known |-> Found(byHash'[o])]
      BY <1>2 DEF Load
    <2> QED
      BY <2>1, <2>2 DEF Held, Found
  <1>3. ASSUME NEW b \in Batches, Add(o, b) PROVE Held(o)'
    <2>1. Agree(entries[o], entries[o], byHash[o])
      BY AgreeAll DEF Agree
    <2>2. /\ entries'[o] = Merge(entries[o], b)
          /\ byHash'[o] \in AddToHash(byHash[o], b)
          /\ pc'[o] = "open" /\ view'[o] = view[o]
          /\ view[o] = [map |-> entries[o], known |-> Found(byHash[o])]
      BY <1>3 DEF Add, Held
    <2>3. Ahead(entries[o], Found(byHash[o]), entries'[o], Found(byHash'[o]))
      BY <2>1, <2>2, AddedKnows
    <2> QED
      BY <2>2, <2>3 DEF Held, Found
  <1>4. ASSUME NEW k \in Keys, Remove(o, k) PROVE Held(o)'
    <2>1. /\ entries'[o] = [entries[o] EXCEPT ![k] = Absent]
          /\ pc'[o] = "open" /\ view'[o] = view[o]
          /\ view[o] = [map |-> entries[o], known |-> Found(byHash[o])]
      BY <1>4 DEF Remove, Held
    <2>2. byHash'[o] \in HashIndexes(entries'[o]) /\ entries'[o] \in Maps
      BY <1>4, <2>1, MapsClosed DEF Remove, Reindex
    <2>3. Found(byHash'[o]) = L!Sums(entries'[o])
      BY <2>2, IndexKnows
    <2>4. Ahead(entries[o], Found(byHash[o]), entries'[o], Found(byHash'[o]))
      BY <2>1, <2>3 DEF Ahead
    <2> QED
      BY <2>1, <2>4 DEF Held, Found
  <1>5. CASE Save(o)
    <2>1. /\ pc'[o] = "open" /\ UNCHANGED <<entries, byHash, view>>
          /\ view[o] = [map |-> entries[o], known |-> Found(byHash[o])]
      BY <1>5 DEF Save, Held, memory
    <2>2. L!Sums(entries[o]) \subseteq Found(byHash[o])
      BY DEF IndexesAgree, Found, L!Sums, L!Recorded
    <2>3. Ahead(entries[o], Found(byHash[o]), entries[o], Found(byHash[o]))
      BY <2>2 DEF Ahead
    <2> QED
      BY <2>1, <2>3 DEF Held, Found
  <1>6. CASE OpenTmp(o)
    BY <1>6 DEF OpenTmp, Held, memory, Found
  <1>7. CASE WriteTmp(o)
    BY <1>7 DEF WriteTmp, Held, memory, Found
  <1>8. CASE OpenFails(o) \/ WriteFails(o) \/ Rename(o) \/ RenameFails(o)
    <2>1. Return(o) /\ UNCHANGED memory
      BY <1>8 DEF OpenFails, WriteFails, Rename, RenameFails
    <2> QED
      BY <2>1 DEF Return, Held, memory, Found
  <1>9. CASE Crash(o)
    BY <1>9 DEF Crash, Held
  <1> QED
    BY <1>1, <1>2, <1>3, <1>4, <1>5, <1>6, <1>7, <1>8, <1>9 DEF Next, Step

LEMMA OwnerIs == ASSUME NEW o, Procs = {o} PROVE Owner = o
  BY DEF Owner

\* A change that memory is ahead by becomes visible when the save returns.
LEMMA ReturnUpdates ==
  ASSUME NEW o, Procs = {o}, TypeOK, Held(o), Return(o), UNCHANGED memory,
         pc[o] \in {"open", "write", "rename"},
         path'.map \in {entries[o], path.map}
  PROVE  L!Update
  <1>0. Owner = o
    BY OwnerIs
  <1>1. view'[o] = [map |-> entries[o], known |-> Found(byHash[o])] /\ pc'[o] = "idle"
    BY DEF Return, TypeOK
  <1>2. view'[o].map = entries[o] /\ view'[o].known = Found(byHash[o])
    BY <1>1
  <1>3. (pc[o] # "down") = TRUE /\ (pc'[o] # "down") = TRUE
    BY <1>1
  <1>4. L!PutSome \/ \E k \in Keys : L!Forget(k)
    <2>1. CASE \E k \in Keys : /\ entries[o] = [view[o].map EXCEPT ![k] = Absent]
                               /\ Found(byHash[o]) = L!Sums(entries[o])
      BY <1>0, <1>2, <1>3, <2>1 DEF L!Forget
    <2>2. CASE /\ \A k \in Keys : entries[o][k] = Absent => view[o].map[k] = Absent
               /\ L!Sums(entries[o]) \subseteq Found(byHash[o])
               /\ view[o].known \subseteq Found(byHash[o])
               /\ Found(byHash[o]) \subseteq view[o].known \cup L!Sums(entries[o])
      <3>1. entries[o] \in L!Maps
        BY DEF TypeOK, Maps, L!Maps
      <3> QED
        BY <1>0, <1>2, <1>3, <2>2, <3>1 DEF L!PutSome
    <2>3. Ahead(view[o].map, view[o].known, entries[o], Found(byHash[o]))
      BY DEF Held
    <2> QED
      BY <2>1, <2>2, <2>3 DEF Ahead
  <1>5. L!Saved \/ L!NotSaved
    BY <1>0, <1>2 DEF L!Saved, L!NotSaved
  <1> QED
    BY <1>4, <1>5 DEF L!Update

LEMMA LedgerStep ==
  ASSUME NEW o, Procs = {o}, TypeOK, SaveInv(o), Held(o), [Next]_vars
  PROVE  [L!LedgerNext]_(L!ledgerVars)
  <1> USE OwnerIs DEF L!LedgerNext, L!ledgerVars
  <1>1. CASE UNCHANGED vars
    BY <1>1 DEF vars
  <1>2. CASE Load(o)
    <2>1. byHash'[o] \in HashIndexes(path.map) /\ path.map \in Maps
      BY <1>2 DEF Load, Reindex, TypeOK, FileContents
    <2>2. Found(byHash'[o]) = L!Sums(path.map)
      BY <2>1, IndexKnows
    <2>3. /\ pc[o] = "down" /\ pc'[o] = "idle" /\ path' = path
          /\ view'[o] = [map |-> path.map, known |-> Found(byHash'[o])]
      BY <1>2 DEF Load, TypeOK, files
    <2> QED
      BY <2>2, <2>3 DEF L!Load
  <1>3. ASSUME pc[o] # "down", pc'[o] # "down", UNCHANGED view, path'.map = path.map
        PROVE  UNCHANGED L!ledgerVars
    BY <1>3
  <1>4. CASE (\E b \in Batches : Add(o, b)) \/ (\E k \in Keys : Remove(o, k)) \/ Save(o)
    BY <1>3, <1>4 DEF Add, Remove, Save, files, TypeOK
  <1>5. CASE OpenTmp(o)
    BY <1>3, <1>5 DEF OpenTmp, TypeOK
  <1>6. CASE WriteTmp(o)
    <2>1. UNCHANGED path
      BY <1>6 DEF WriteTmp, SaveInv
    <2> QED
      BY <1>3, <1>6, <2>1 DEF WriteTmp, TypeOK
  <1>7. CASE OpenFails(o) \/ WriteFails(o) \/ RenameFails(o)
    <2>1. /\ Return(o) /\ UNCHANGED memory /\ path' = path
          /\ pc[o] \in {"open", "write", "rename"}
      BY <1>7, SMTT(30) DEF OpenFails, WriteFails, RenameFails, files, SaveInv
    <2> QED
      BY <2>1, ReturnUpdates
  <1>8. CASE Rename(o)
    <2>1. path' = Whole(entries[o]) /\ pc[o] = "rename" /\ Return(o) /\ UNCHANGED memory
      BY <1>8 DEF Rename, SaveInv
    <2>2. path'.map = entries[o]
      BY <2>1 DEF Whole
    <2> QED
      BY <2>1, <2>2, ReturnUpdates
  <1>9. CASE Crash(o)
    BY <1>9 DEF Crash, L!Crash, NoView, TypeOK, NoEntries, L!NoEntries
  <1> QED
    BY <1>1, <1>2, <1>4, <1>5, <1>6, <1>7, <1>8, <1>9 DEF Next, Step

LEMMA LedgerStart == ASSUME NEW o, Procs = {o}, Init PROVE L!LedgerInit
  BY OwnerIs DEF Init, L!LedgerInit, NoView, Missing, NoEntries, L!NoEntries

\* THE LEDGER IS IMPLEMENTED.  What readers of a single process see and what its
\* next start would load change together as Ledger says, step by step: the lock
\* hides the maps while they are ahead of the file.
THEOREM SoleImplementsLedger ==
  ASSUME NEW o, Procs = {o}
  PROVE  Spec => ImplementsLedger
  <1>1. Init => TypeOK /\ IndexesAgree /\ SaveInv(o) /\ Held(o)
    BY TypeInit, AgreeInit, SaveInit, HeldInit
  <1>2. TypeOK /\ IndexesAgree /\ SaveInv(o) /\ Held(o) /\ [Next]_vars
          => (TypeOK /\ IndexesAgree /\ SaveInv(o) /\ Held(o))'
    BY TypeStep, AgreeStep, SaveStep, HeldStep
  <1>3. TypeOK /\ SaveInv(o) /\ Held(o) /\ [Next]_vars => [L!LedgerNext]_(L!ledgerVars)
    BY LedgerStep
  <1>4. Init => L!LedgerInit
    BY LedgerStart
  <1> QED
    BY <1>1, <1>2, <1>3, <1>4, PTL DEF Spec, ImplementsLedger, L!LedgerSpec
=============================================================================

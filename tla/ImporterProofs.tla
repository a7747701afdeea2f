--------------------------- MODULE ImporterProofs ---------------------------
(* What holds of Importer for every value of its constants. *)
EXTENDS Importer, TLAPS

USE DEF L!LedgerTypeOK, L!Maps

(* What a worker knows of its file at each step. *)
JobOK ==
  \A w \in Workers :
    /\ pc[w] \in {"next", "fetch"} => w \in Pullers
    /\ pc[w] = "fetch" => job[w].key \in Shots
    /\ pc[w] \in {"receive", "dedupe"} => w \in Uploaders
    /\ pc[w] \in {"receive", "dedupe", "inspect", "probe", "move", "record", "delete"}
         => /\ job[w].key \in Keys
            /\ job[w].data \in Contents
            /\ w \in Uploaders => Upload(w) \in Uploads
    /\ pc[w] \in {"probe", "move", "record", "delete"} => job[w].folder \in Folders

TypeInv == TypeOK /\ JobOK

LEMMA InitTypeInv == Init => TypeInv
<1> SUFFICES ASSUME Init PROVE TypeInv
  OBVIOUS
<1>1. L!LedgerTypeOK
  BY DEF Init, L!LedgerInit, L!NoEntries, L!LedgerTypeOK, L!Maps
<1>2. job \in [Workers -> Jobs]
  BY ImporterAssumption DEF Init, Nothing, Fresh, Jobs
<1>3. TypeOK
  BY <1>1, <1>2, ImporterAssumption DEF Init, TypeOK, Steps
<1>4. JobOK
  BY DEF Init, JobOK
<1> QED
  BY <1>3, <1>4 DEF TypeInv

LEMMA LeaveFileTyped ==
  ASSUME TypeInv, NEW w \in Workers, NEW step \in {"idle", "next"}, LeaveFile(w, step),
         step = "next" => w \in Pullers
  PROVE  /\ pc' \in [Workers -> Steps]
         /\ job' \in [Workers -> Jobs]
         /\ staged' \in [Workers -> Contents \cup {None}]
         /\ JobOK'
BY ImporterAssumption
   DEF TypeInv, TypeOK, JobOK, LeaveFile, Goto, Nothing, Fresh, Jobs, Steps, Upload

LEMMA TargetTyped ==
  ASSUME TypeInv, NEW w \in Workers, pc[w] \in {"probe", "move", "record", "delete"}
  PROVE  /\ Target(w) \in Paths
         /\ Entry(w) \in Entries
BY ImporterAssumption
   DEF TypeInv, TypeOK, JobOK, Target, Entry, Entries, Jobs

(* A worker that has received its file may answer with the bytes. *)
LEMMA AnswerTyped ==
  ASSUME TypeInv, NEW w \in Workers, pc[w] \in {"dedupe", "record"},
         Answer(Upload(w), job[w].data)
  PROVE  acked' \subseteq Answers
<1>1. job[w].key \in Keys /\ job[w].data \in Contents
  BY DEF TypeInv, JobOK
<1>2. acked \subseteq Answers
  BY DEF TypeInv, TypeOK
<1>3. acked' = acked \cup {[key |-> job[w].key, data |-> job[w].data, sum |-> job[w].data]}
  BY DEF Answer, Upload
<1> QED
  BY <1>1, <1>2, <1>3 DEF Answers

(* Both ways an import ends keep the types. *)
LEMMA ImportFailsTyped ==
  ASSUME TypeInv, NEW w \in Workers, ImportFails(w)
  PROVE  /\ pc' \in [Workers -> Steps]
         /\ todo' \in [Workers -> SUBSET Shots]
         /\ errs' \in [Workers -> 0..MaxErrors]
         /\ job' \in [Workers -> Jobs]
         /\ staged' \in [Workers -> Contents \cup {None}]
         /\ JobOK'
<1>1. PICK step \in {"idle", "next"} :
         LeaveFile(w, step) /\ (step = "next" => w \in Pullers)
  BY DEF ImportFails
<1>2. todo' \in [Workers -> SUBSET Shots] /\ errs' \in [Workers -> 0..MaxErrors]
  BY ImporterAssumption DEF ImportFails, GivesUp, TypeInv, TypeOK
<1> QED
  BY <1>1, <1>2, LeaveFileTyped

LEMMA ImportDoneTyped ==
  ASSUME TypeInv, NEW w \in Workers, ImportDone(w)
  PROVE  /\ pc' \in [Workers -> Steps]
         /\ todo' \in [Workers -> SUBSET Shots]
         /\ errs' \in [Workers -> 0..MaxErrors]
         /\ job' \in [Workers -> Jobs]
         /\ staged' \in [Workers -> Contents \cup {None}]
         /\ JobOK'
<1>1. PICK step \in {"idle", "next"} :
         LeaveFile(w, step) /\ (step = "next" => w \in Pullers)
  BY DEF ImportDone
<1>2. todo' \in [Workers -> SUBSET Shots] /\ errs' \in [Workers -> 0..MaxErrors]
  BY ImporterAssumption DEF ImportDone, TypeInv, TypeOK
<1> QED
  BY <1>1, <1>2, LeaveFileTyped

(* An update of the ledger with an entry keeps it one. *)
LEMMA PutTyped ==
  ASSUME L!LedgerTypeOK, NEW k \in Keys, NEW e \in Entries, L!Put(k, e),
         saved' \in {live', saved}
  PROVE  L!LedgerTypeOK'
BY DEF L!Put, L!LedgerTypeOK, L!Maps, Entries

LEMMA TypeStep == TypeInv /\ [Next]_vars => TypeInv'
<1> SUFFICES ASSUME TypeInv, [Next]_vars PROVE TypeInv'
  OBVIOUS
<1> USE ImporterAssumption
<1>1. ASSUME NEW k \in Shots, Shoot(k) PROVE TypeInv'
  BY <1>1 DEF Shoot, TypeInv, TypeOK, JobOK, ledger, worker, Upload
<1>2. ASSUME NEW w \in Workers, NEW files \in SUBSET card, PullFiles(w, files)
      PROVE TypeInv'
  BY <1>2 DEF PullFiles, Wanted, Goto, TypeInv, TypeOK, JobOK, camera, ledger, Upload, Steps
<1>3. ASSUME NEW w \in Workers, NEW u \in Uploads, AlreadyHave(w, u) PROVE TypeInv'
  <2>1. u.key \in Keys /\ u.data \in Contents /\ live[u.key].sum \in Contents
    BY <1>3 DEF AlreadyHave, TypeInv, TypeOK, Entries
  <2>2. acked' \subseteq Answers
    BY <1>3, <2>1 DEF AlreadyHave, Answer, Answers, TypeInv, TypeOK
  <2> QED
    BY <1>3, <2>2 DEF AlreadyHave, TypeInv, TypeOK, JobOK, camera, ledger, worker, Upload
<1>4. ASSUME NEW w \in Workers, NEW u \in Uploads, StartIngest(w, u) PROVE TypeInv'
  <2>1. job' \in [Workers -> Jobs]
    <3>1. u.key \in Keys /\ u.data \in Contents
      OBVIOUS
    <3>2. Fresh(u.key, u.data) \in Jobs
      BY <3>1 DEF Fresh, Jobs
    <3> QED
      BY <1>4, <3>2 DEF StartIngest, TypeInv, TypeOK
  <2>2. TypeOK'
    BY <1>4, <2>1 DEF StartIngest, Goto, TypeInv, TypeOK, JobOK, camera, ledger, Steps
  <2>3. JobOK'
    BY <1>4 DEF StartIngest, Goto, TypeInv, TypeOK, JobOK, Upload, Jobs, Fresh, Nothing
  <2> QED
    BY <2>2, <2>3 DEF TypeInv
<1>5. ASSUME NEW w \in Workers, EndPull(w) PROVE TypeInv'
  BY <1>5 DEF EndPull, Goto, TypeInv, TypeOK, JobOK, camera, ledger, Upload, Steps
<1>6. ASSUME NEW w \in Workers, StartFile(w) PROVE TypeInv'
  <2>1. job' \in [Workers -> Jobs]
    BY <1>6 DEF StartFile, TypeInv, TypeOK, JobOK, Jobs, Fresh, Nothing
  <2>2. TypeOK'
    BY <1>6, <2>1 DEF StartFile, Goto, TypeInv, TypeOK, JobOK, camera, ledger, Steps
  <2>3. JobOK'
    <3>1. job'[w].key \in Shots /\ w \in Pullers
      BY <1>6 DEF StartFile, TypeInv, TypeOK, JobOK, Fresh
    <3>2. \A v \in Workers \ {w} : job'[v] = job[v] /\ pc'[v] = pc[v]
      BY <1>6 DEF StartFile, Goto, TypeInv, TypeOK
    <3> QED
      BY <1>6, <3>1, <3>2 DEF StartFile, Goto, TypeInv, TypeOK, JobOK, Upload
  <2> QED
    BY <2>2, <2>3 DEF TypeInv
<1>7. ASSUME NEW w \in Workers, Fetch(w) PROVE TypeInv'
  <2>1. job' \in [Workers -> Jobs]
    <3>1. Frame[job[w].key] \in Contents
      BY <1>7 DEF Fetch, TypeInv, TypeOK
    <3>2. [job[w] EXCEPT !.data = Frame[job[w].key]] \in Jobs
      BY <3>1 DEF TypeInv, TypeOK, Jobs
    <3> QED
      BY <1>7, <3>2 DEF Fetch, TypeInv, TypeOK
  <2>2. TypeOK'
    BY <1>7, <2>1 DEF Fetch, Goto, TypeInv, TypeOK, JobOK, camera, ledger, Steps
  <2>3. JobOK'
    <3>1. job'[w].key \in Shots /\ job'[w].data \in Contents /\ w \in Pullers
      BY <1>7 DEF Fetch, TypeInv, TypeOK, JobOK, Jobs
    <3>2. \A v \in Workers \ {w} : job'[v] = job[v] /\ pc'[v] = pc[v]
      BY <1>7 DEF Fetch, Goto, TypeInv, TypeOK
    <3> QED
      BY <1>7, <3>1, <3>2 DEF Fetch, Goto, TypeInv, TypeOK, JobOK, Upload
  <2> QED
    BY <2>2, <2>3 DEF TypeInv
<1>8. ASSUME NEW w \in Workers, Receive(w) PROVE TypeInv'
  BY <1>8 DEF Receive, Goto, TypeInv, TypeOK, JobOK, camera, ledger, Upload, Steps
<1>9. ASSUME NEW w \in Workers, Duplicate(w) PROVE TypeInv'
  BY <1>9, ImportDoneTyped, AnswerTyped
     DEF Duplicate, TypeInv, TypeOK, JobOK, camera, ledger, Upload
<1>10. ASSUME NEW w \in Workers, NotDuplicate(w) PROVE TypeInv'
  BY <1>10 DEF NotDuplicate, Goto, TypeInv, TypeOK, JobOK, camera, ledger, Upload, Steps
<1>11. ASSUME NEW w \in Workers, Inspect(w) PROVE TypeInv'
  <2>1. job' \in [Workers -> Jobs]
    BY <1>11 DEF Inspect, TypeInv, TypeOK, JobOK, Jobs
  <2>2. TypeOK'
    BY <1>11, <2>1 DEF Inspect, Goto, TypeInv, TypeOK, JobOK, camera, ledger, Steps
  <2>3. JobOK'
    BY <1>11 DEF Inspect, Goto, TypeInv, TypeOK, JobOK, Upload, Jobs
  <2> QED
    BY <2>2, <2>3 DEF TypeInv
<1>12. ASSUME NEW w \in Workers, FindFree(w) \/ Adopt(w) PROVE TypeInv'
  BY <1>12 DEF FindFree, Adopt, Goto, TypeInv, TypeOK, JobOK, camera, ledger, Upload, Steps
<1>13. ASSUME NEW w \in Workers, TrySuffix(w) PROVE TypeInv'
  BY <1>13 DEF TrySuffix, LastSuffix, Goto, TypeInv, TypeOK, JobOK, camera, ledger, Upload, Jobs
<1>14. ASSUME NEW w \in Workers, NoFreeName(w) PROVE TypeInv'
  BY <1>14, ImportFailsTyped DEF NoFreeName, TypeInv, TypeOK, camera, ledger
<1>15. ASSUME NEW w \in Workers, Move(w) PROVE TypeInv'
  BY <1>15, TargetTyped DEF Move, Goto, TypeInv, TypeOK, JobOK, camera, ledger, Upload, Steps
<1>16. ASSUME NEW w \in Workers, Record(w) PROVE TypeInv'
  BY <1>16, TargetTyped, PutTyped, ImportDoneTyped, AnswerTyped
     DEF Record, L!Saved, Goto, TypeInv, TypeOK, JobOK, camera, Upload, Steps
<1>17. ASSUME NEW w \in Workers, Delete(w) PROVE TypeInv'
  BY <1>17, ImportDoneTyped DEF Delete, TypeInv, TypeOK, ledger
<1>18. ASSUME NEW w \in Workers, CancelPull(w) PROVE TypeInv'
  BY <1>18 DEF CancelPull, Fault, Goto, TypeInv, TypeOK, JobOK, camera, ledger, Upload, Steps
<1>19. ASSUME NEW w \in Workers, StepFails(w) PROVE TypeInv'
  BY <1>19, ImportFailsTyped DEF StepFails, Fault, TypeInv, TypeOK, camera, ledger
<1>20. ASSUME NEW w \in Workers, RecordFails(w) PROVE TypeInv'
  BY <1>20, TargetTyped, PutTyped, ImportFailsTyped
     DEF RecordFails, L!NotSaved, Fault, TypeInv, TypeOK, JobOK, camera
<1>21. ASSUME Crash PROVE TypeInv'
  <2>1. job' \in [Workers -> Jobs]
    BY <1>21 DEF Crash, TypeInv, TypeOK, JobOK, Jobs, Fresh, Nothing
  <2>2. TypeOK'
    <3>1. L!LedgerTypeOK'
      BY <1>21 DEF Crash, L!Crash, L!NoEntries, L!LedgerTypeOK, L!Maps, TypeInv, TypeOK
    <3> QED
      BY <1>21, <2>1, <3>1 DEF Crash, Fault, TypeInv, TypeOK, camera, Steps
  <2>3. JobOK'
    BY <1>21 DEF Crash, Goto, TypeInv, TypeOK, JobOK, Upload, Jobs, Fresh, Nothing
  <2> QED
    BY <2>2, <2>3 DEF TypeInv
<1>22. ASSUME Restart PROVE TypeInv'
  BY <1>22 DEF Restart, L!Load, L!Sums, L!Recorded, TypeInv, TypeOK, JobOK, camera, Upload
<1>23. ASSUME UNCHANGED vars PROVE TypeInv'
  BY <1>23 DEF vars, camera, ledger, worker, TypeInv, TypeOK, JobOK, Upload
<1> QED
  BY <1>1, <1>2, <1>3, <1>4, <1>5, <1>6, <1>7, <1>8, <1>9, <1>10, <1>11, <1>12, <1>13,
     <1>14, <1>15, <1>16, <1>17, <1>18, <1>19, <1>20, <1>21, <1>22, <1>23
     DEF Next, Others, Pull, PullSome, Request, Progress, Advance, Mishap

(* Every variable keeps its type in every run, whatever the sizes of the
   world and the number of workers, failures and crashes. *)
THEOREM TypeCorrect == Spec => []TypeOK
<1>1. Init => TypeInv
  BY InitTypeInv
<1>2. TypeInv /\ [Next]_vars => TypeInv'
  BY TypeStep
<1>3. TypeInv => TypeOK
  BY DEF TypeInv
<1> QED
  BY <1>1, <1>2, <1>3, PTL DEF Spec

-----------------------------------------------------------------------------
(* Why nothing is overwritten in a polite run: a worker about to rename found
   its target free, and whoever took it since brought the same bytes. *)
WorkerOK(w) ==
  /\ pc[w] \in {"dedupe", "inspect", "probe", "move"} => staged[w] = job[w].data
  /\ pc[w] = "move" => lib[Target(w)] \in {None, job[w].data}
  /\ pc[w] = "record" => lib[Target(w)] = job[w].data

Down == ~up => \A w \in Workers : pc[w] = "idle"

SafeInv ==
  /\ NoClash
  /\ Down
  /\ \A w \in Workers : WorkerOK(w)
  /\ EntriesTruthful

Grows == \A p \in Paths : lib[p] # None => lib'[p] = lib[p]

(* Only a rename changes the library. *)
LEMMA OnlyMoveChangesLib ==
  ASSUME [Next]_vars PROVE UNCHANGED lib \/ \E w \in Workers : Move(w)
BY DEF Next, Others, Shoot, Pull, PullSome, PullFiles, Request, AlreadyHave, StartIngest, Progress, Advance,
       EndPull, StartFile, Fetch, Receive, Duplicate, NotDuplicate, Inspect, FindFree,
       Adopt, TrySuffix, NoFreeName, Record, Delete, Mishap, CancelPull, StepFails,
       RecordFails, Crash, Restart, vars

LEMMA StepGrows ==
  ASSUME TypeInv, SafeInv, [Next]_vars PROVE Grows
<1>1. CASE UNCHANGED lib
  BY <1>1 DEF Grows
<1>2. ASSUME NEW w \in Workers, Move(w) PROVE Grows
  BY <1>2, TargetTyped DEF Move, SafeInv, WorkerOK, Grows, TypeInv, TypeOK
<1> QED
  BY <1>1, <1>2, OnlyMoveChangesLib

(* The ledger stays truthful when the library grows and the entries recorded
   are true. *)
LEMMA InitSafeInv == Init => SafeInv
BY ImporterAssumption
   DEF Init, SafeInv, NoClash, Down, WorkerOK, EntriesTruthful, L!LedgerInit, L!NoEntries

LEMMA TruthfulStep ==
  ASSUME TypeInv, TypeInv', SafeInv, [Next]_vars PROVE EntriesTruthful'
<1> USE ImporterAssumption
<1>1. Grows
  BY StepGrows
<1>2. \A e \in Entries : HoldsItsBytes(e) => HoldsItsBytes(e)'
  BY <1>1 DEF Grows, HoldsItsBytes, Entries, TypeInv, TypeOK
<1>3. CASE UNCHANGED <<live, saved>>
  BY <1>2, <1>3 DEF SafeInv, EntriesTruthful, TypeInv, TypeOK
<1>4. ASSUME NEW w \in Workers, pc[w] = "record", saved' \in {live', saved},
             L!Put(job[w].key, Entry(w)), UNCHANGED lib
      PROVE  EntriesTruthful'
  <2>1. PICK e \in Entries : e = Entry(w)
    BY <1>4, TargetTyped
  <2>2. HoldsItsBytes(e)
    BY <1>4, <2>1 DEF SafeInv, WorkerOK, HoldsItsBytes, Entry
  <2>3. HoldsItsBytes(e)'
    BY <1>2, <2>2
  <2>4. \A k \in Keys : live'[k] = live[k] \/ live'[k] = e
    BY <1>4, <2>1 DEF L!Put, TypeInv, TypeOK
  <2> QED
    BY <1>2, <1>4, <2>3, <2>4 DEF SafeInv, EntriesTruthful, TypeInv, TypeOK
<1>5. CASE Crash
  BY <1>2, <1>5 DEF Crash, L!Crash, L!NoEntries, SafeInv, EntriesTruthful, TypeInv, TypeOK
<1>6. CASE Restart
  BY <1>2, <1>6 DEF Restart, L!Load, SafeInv, EntriesTruthful, TypeInv, TypeOK
<1>7. \/ UNCHANGED <<live, saved>>
      \/ Crash
      \/ Restart
      \/ \E w \in Workers : Record(w) \/ RecordFails(w)
  BY DEF Next, Others, Shoot, Pull, PullSome, PullFiles, Request, AlreadyHave, StartIngest, Progress, Advance,
         EndPull, StartFile, Fetch, Receive, Duplicate, NotDuplicate, Inspect, FindFree,
         Adopt, TrySuffix, NoFreeName, Move, Delete, Mishap, CancelPull, StepFails,
         vars, ledger
<1> QED
  BY <1>3, <1>4, <1>5, <1>6, <1>7 DEF Record, RecordFails, L!Saved, L!NotSaved

(* What the other workers know is not touched by a step of one of them. *)
LEMMA OthersOK ==
  ASSUME TypeInv, TypeInv', SafeInv, NEW w \in Workers, NEW v \in Workers,
         pc'[v] = pc[v], job'[v] = job[v], staged'[v] = staged[v],
         \/ UNCHANGED lib
         \/ Move(w) /\ v # w
  PROVE  WorkerOK(v)'
<1> USE ImporterAssumption
<1>1. Target(v)' = Target(v)
  BY DEF Target
<1>2. CASE UNCHANGED lib
  BY <1>1, <1>2 DEF SafeInv, WorkerOK
<1>3. CASE Move(w) /\ v # w
  <2>1. pc[v] = "move" /\ Target(v) = Target(w) => job[v].data = job[w].data
    BY <1>3 DEF SafeInv, NoClash, Move
  <2>2. ASSUME pc[v] \in {"move", "record"}, Target(v) # Target(w)
        PROVE  lib'[Target(v)] = lib[Target(v)]
    BY <1>3, <2>2, TargetTyped DEF Move, TypeInv, TypeOK
  <2>3. ASSUME pc[v] \in {"move", "record"}, Target(v) = Target(w)
        PROVE  lib'[Target(v)] = job[w].data
    BY <1>3, <2>3, TargetTyped DEF Move, SafeInv, WorkerOK, TypeInv, TypeOK
  <2>4. pc[v] = "record" /\ Target(v) = Target(w) => job[v].data = job[w].data
    BY <1>3, TargetTyped DEF Move, SafeInv, WorkerOK, TypeInv, TypeOK, JobOK
  <2> QED
    BY <1>1, <1>3, <2>1, <2>2, <2>3, <2>4 DEF SafeInv, WorkerOK
<1> QED
  BY <1>2, <1>3

Only(w) ==
  \A v \in Workers \ {w} : pc'[v] = pc[v] /\ job'[v] = job[v] /\ staged'[v] = staged[v]

(* A worker that leaves its file is between files, where WorkerOK asks nothing. *)
LEMMA LeftOK ==
  ASSUME TypeInv, NEW w \in Workers, ImportFails(w) \/ ImportDone(w)
  PROVE  Only(w) /\ WorkerOK(w)'
<1>1. PICK step \in {"idle", "next"} : LeaveFile(w, step)
  BY DEF ImportFails, ImportDone
<1> QED
  BY <1>1 DEF LeaveFile, Goto, Only, WorkerOK, TypeInv, TypeOK

LEMMA WorkersStep ==
  ASSUME TypeInv, TypeInv', SafeInv, [Next]_vars PROVE \A v \in Workers : WorkerOK(v)'
<1> USE ImporterAssumption
<1>1. ASSUME NEW w \in Workers, Only(w), WorkerOK(w)', UNCHANGED lib \/ Move(w)
      PROVE  \A v \in Workers : WorkerOK(v)'
  BY <1>1, OthersOK DEF Only
<1>2. ASSUME UNCHANGED <<pc, job, staged, lib>> PROVE \A v \in Workers : WorkerOK(v)'
  BY <1>2, OthersOK
<1>3. ASSUME NEW w \in Workers, NEW files \in SUBSET card, PullFiles(w, files)
      PROVE  \A v \in Workers : WorkerOK(v)'
  <2>1. Only(w) /\ WorkerOK(w)'
    BY <1>3 DEF PullFiles, Goto, Only, WorkerOK, TypeInv, TypeOK
  <2> QED
    BY <1>1, <1>3, <2>1 DEF PullFiles
<1>4. ASSUME NEW w \in Workers, NEW u \in Uploads, StartIngest(w, u)
      PROVE  \A v \in Workers : WorkerOK(v)'
  <2>1. Only(w) /\ WorkerOK(w)'
    BY <1>4 DEF StartIngest, Goto, Only, WorkerOK, TypeInv, TypeOK
  <2> QED
    BY <1>1, <1>4, <2>1 DEF StartIngest
<1>5. ASSUME NEW w \in Workers, Progress(w) \/ Mishap(w)
      PROVE  \A v \in Workers : WorkerOK(v)'
  <2>1. CASE EndPull(w) \/ StartFile(w) \/ CancelPull(w)
    <3>1. Only(w) /\ WorkerOK(w)' /\ UNCHANGED lib
      BY <2>1 DEF EndPull, StartFile, CancelPull, Goto, Only, WorkerOK, TypeInv, TypeOK
    <3> QED
      BY <1>1, <3>1
  <2>2. CASE Fetch(w)
    <3>1. Only(w) /\ WorkerOK(w)' /\ UNCHANGED lib
      BY <2>2 DEF Fetch, Goto, Only, WorkerOK, TypeInv, TypeOK, Jobs
    <3> QED
      BY <1>1, <3>1
  <2>3. CASE Receive(w) \/ NotDuplicate(w)
    <3>1. Only(w) /\ WorkerOK(w)' /\ UNCHANGED lib
      BY <2>3 DEF Receive, NotDuplicate, Goto, Only, SafeInv, WorkerOK, TypeInv, TypeOK
    <3> QED
      BY <1>1, <3>1
  <2>4. CASE Inspect(w) \/ TrySuffix(w)
    <3>1. Only(w) /\ WorkerOK(w)' /\ UNCHANGED lib
      BY <2>4 DEF Inspect, TrySuffix, Goto, Only, SafeInv, WorkerOK, TypeInv, TypeOK, Jobs
    <3> QED
      BY <1>1, <3>1
  <2>5. CASE FindFree(w) \/ Adopt(w)
    <3>1. Only(w) /\ UNCHANGED <<lib, job, staged>>
      BY <2>5 DEF FindFree, Adopt, Goto, Only, TypeInv, TypeOK
    <3>2. Target(w)' = Target(w)
      BY <3>1 DEF Target
    <3>3. WorkerOK(w)'
      BY <2>5, <3>1, <3>2 DEF FindFree, Adopt, IsFree, IsSame, Goto, SafeInv, WorkerOK,
                              TypeInv, TypeOK
    <3> QED
      BY <1>1, <3>1, <3>3
  <2>6. CASE Move(w)
    <3>1. Only(w) /\ UNCHANGED job
      BY <2>6 DEF Move, Goto, Only, TypeInv, TypeOK
    <3>2. Target(w)' = Target(w)
      BY <3>1 DEF Target
    <3>3. WorkerOK(w)'
      BY <2>6, <3>1, <3>2, TargetTyped DEF Move, Goto, SafeInv, WorkerOK, TypeInv, TypeOK
    <3> QED
      BY <1>1, <2>6, <3>1, <3>3
  <2>7. CASE Duplicate(w) \/ NoFreeName(w) \/ Delete(w) \/ StepFails(w) \/ RecordFails(w)
    BY <1>1, <2>7, LeftOK DEF Duplicate, NoFreeName, Delete, StepFails, RecordFails
  <2>8. CASE Record(w)
    <3>1. CASE ImportDone(w)
      BY <1>1, <2>8, <3>1, LeftOK DEF Record
    <3>2. CASE Goto(w, "delete") /\ UNCHANGED <<job, staged>>
      <4>1. Only(w) /\ WorkerOK(w)'
        BY <3>2 DEF Goto, Only, WorkerOK, TypeInv, TypeOK
      <4> QED
        BY <1>1, <2>8, <4>1 DEF Record
    <3> QED
      BY <2>8, <3>1, <3>2 DEF Record
  <2> QED
    BY <1>5, <2>1, <2>2, <2>3, <2>4, <2>5, <2>6, <2>7, <2>8 DEF Progress, Advance, Mishap
<1>6. ASSUME Crash PROVE \A v \in Workers : WorkerOK(v)'
  BY <1>6 DEF Crash, WorkerOK, TypeInv, TypeOK
<1>7. ASSUME Restart PROVE \A v \in Workers : WorkerOK(v)'
  BY <1>7 DEF Restart, L!Load, SafeInv, Down, WorkerOK, TypeInv, TypeOK
<1> QED
  BY <1>2, <1>3, <1>4, <1>5, <1>6, <1>7
     DEF Next, Others, Progress, Shoot, Pull, PullSome, Request, AlreadyHave, worker, vars

(* Nothing moves in a process that is not running. *)
LEMMA DownStep ==
  ASSUME TypeInv, Down, [Next]_vars PROVE Down'
<1>1. CASE ~up
  BY <1>1 DEF Down, Next, Others, Shoot, Pull, PullSome, PullFiles, Request, AlreadyHave, StartIngest,
     Progress, Advance, EndPull, StartFile, Fetch, Receive, Duplicate, NotDuplicate, Inspect, FindFree,
     Adopt, TrySuffix, NoFreeName, Move, Record, Delete, Mishap, CancelPull, StepFails,
     RecordFails, Crash, L!Crash, Restart, L!Load, vars, worker, ledger
<1>2. CASE up
  <2>1. CASE Crash
    BY <2>1 DEF Crash, Down
  <2>2. CASE ~Crash
    <3>1. up'
      BY <1>2, <2>2 DEF Next, Others, Shoot, Pull, PullSome, PullFiles, Request, AlreadyHave,
         StartIngest, Progress, Advance, EndPull, StartFile, Fetch, Receive, Duplicate, NotDuplicate,
         Inspect, FindFree, Adopt, TrySuffix, NoFreeName, Move, Record, Delete, Mishap,
         CancelPull, StepFails, RecordFails, L!Put, Restart, L!Load, vars, ledger
    <3> QED
      BY <3>1 DEF Down
  <2> QED
    BY <2>1, <2>2
<1> QED
  BY <1>1, <1>2 DEF TypeInv, TypeOK

(* A worker that waits to rename has found a free name and nothing else. *)
LEMMA WaitersStay ==
  ASSUME TypeInv, Others \/ UNCHANGED vars
  PROVE  \A v \in Workers : pc'[v] = "move" => pc[v] = "move" /\ job'[v] = job[v]
<1> USE DEF TypeInv, TypeOK, Goto
<1>1. CASE UNCHANGED vars \/ Crash \/ Restart \/ \E k \in Shots : Shoot(k)
  BY <1>1 DEF vars, worker, Crash, Restart, Shoot
<1>2. ASSUME NEW w \in Workers, Pull(w) \/ PullSome(w) \/ Request(w)
      PROVE  \A v \in Workers : pc'[v] = "move" => pc[v] = "move" /\ job'[v] = job[v]
  BY <1>2 DEF Pull, PullSome, PullFiles, Request, AlreadyHave, StartIngest, worker
<1>3. ASSUME NEW w \in Workers, ImportFails(w) \/ ImportDone(w)
      PROVE  \A v \in Workers : pc'[v] = "move" => pc[v] = "move" /\ job'[v] = job[v]
  <2>1. PICK step \in {"idle", "next"} : LeaveFile(w, step)
    BY <1>3 DEF ImportFails, ImportDone
  <2> QED
    BY <2>1 DEF LeaveFile
<1>4. ASSUME NEW w \in Workers, Advance(w)
      PROVE  \A v \in Workers : pc'[v] = "move" => pc[v] = "move" /\ job'[v] = job[v]
  <2>1. CASE EndPull(w) \/ StartFile(w) \/ Fetch(w) \/ Receive(w) \/ NotDuplicate(w)
    BY <2>1 DEF EndPull, StartFile, Fetch, Receive, NotDuplicate
  <2>2. CASE Inspect(w) \/ Adopt(w) \/ TrySuffix(w) \/ Move(w)
    BY <2>2 DEF Inspect, Adopt, TrySuffix, Move
  <2>3. CASE Duplicate(w) \/ NoFreeName(w) \/ Delete(w)
    BY <1>3, <2>3 DEF Duplicate, NoFreeName, Delete
  <2>4. CASE Record(w)
    <3>1. ImportDone(w) \/ (Goto(w, "delete") /\ UNCHANGED job)
      BY <2>4 DEF Record
    <3> QED
      BY <1>3, <3>1
  <2> QED
    BY <1>4, <2>1, <2>2, <2>3, <2>4 DEF Advance
<1>5. ASSUME NEW w \in Workers, Mishap(w)
      PROVE  \A v \in Workers : pc'[v] = "move" => pc[v] = "move" /\ job'[v] = job[v]
  <2>1. CASE CancelPull(w)
    BY <2>1 DEF CancelPull
  <2>2. CASE StepFails(w) \/ RecordFails(w)
    BY <1>3, <2>2 DEF StepFails, RecordFails
  <2> QED
    BY <1>5, <2>1, <2>2 DEF Mishap
<1> QED
  BY <1>1, <1>2, <1>4, <1>5 DEF Others

(* So only the choice of a free name could make two workers clash. *)
LEMMA StaysPolite == TypeInv /\ NoClash /\ [PoliteNext]_vars => [Next]_vars /\ NoClash'
<1> SUFFICES ASSUME TypeInv, NoClash, [PoliteNext]_vars PROVE [Next]_vars /\ NoClash'
  OBVIOUS
<1>1. CASE Others \/ UNCHANGED vars
  <2>1. \A v \in Workers : pc'[v] = "move" =>
          pc[v] = "move" /\ job'[v] = job[v] /\ Target(v)' = Target(v)
    BY <1>1, WaitersStay DEF Target
  <2> QED
    BY <1>1, <2>1 DEF NoClash, Next
<1> QED
  BY <1>1 DEF PoliteNext, Next

LEMMA SafeStep == TypeInv /\ SafeInv /\ [PoliteNext]_vars => [Next]_vars /\ SafeInv'
<1> SUFFICES ASSUME TypeInv, SafeInv, [PoliteNext]_vars PROVE [Next]_vars /\ SafeInv'
  OBVIOUS
<1>1. [Next]_vars /\ NoClash'
  BY StaysPolite DEF SafeInv
<1>2. TypeInv'
  BY <1>1, TypeStep
<1>3. Down'
  BY <1>1, DownStep DEF SafeInv
<1> QED
  BY <1>1, <1>2, <1>3, WorkersStep, TruthfulStep DEF SafeInv

(* In a polite run, what memory and disk say of the library is always true. *)
THEOREM LedgerIsTruthful == PoliteSpec => []EntriesTruthful
<1>1. Init => TypeInv /\ SafeInv
  BY InitTypeInv, InitSafeInv
<1>2. TypeInv /\ SafeInv /\ [PoliteNext]_vars => (TypeInv /\ SafeInv)'
  BY TypeStep, SafeStep
<1>3. SafeInv => EntriesTruthful
  BY DEF SafeInv
<1> QED
  BY <1>1, <1>2, <1>3, PTL DEF PoliteSpec

(* In a polite run no import, of the card or of an app, replaces a photo. *)
THEOREM PhotosStay == PoliteSpec => NeverOverwritten
<1>1. Init => TypeInv /\ SafeInv
  BY InitTypeInv, InitSafeInv
<1>2. TypeInv /\ SafeInv /\ [PoliteNext]_vars => (TypeInv /\ SafeInv)'
  BY TypeStep, SafeStep
<1>3. TypeInv /\ SafeInv /\ [PoliteNext]_vars
        => [\A p \in Paths : lib[p] # None => lib'[p] = lib[p]]_vars
  BY StepGrows, SafeStep DEF Grows
<1> QED
  BY <1>1, <1>2, <1>3, PTL DEF PoliteSpec, NeverOverwritten

(* A single worker, as in `rpsync pull`, is always polite. *)
OneWorker == \A v, w \in Workers : v = w

THEOREM OneWorkerNeverOverwrites ==
  ASSUME OneWorker PROVE Spec => NeverOverwritten /\ []EntriesTruthful
<1>1. NoClash'
  BY DEF NoClash, OneWorker
<1>2. Next => PoliteNext
  BY <1>1 DEF Next, PoliteNext
<1>3. Spec => PoliteSpec
  BY <1>2, PTL DEF Spec, PoliteSpec
<1> QED
  BY <1>3, PhotosStay, LedgerIsTruthful, PTL
-----------------------------------------------------------------------------
(* The ledger as the importer uses it.  Only the end of an import, a crash and a
   start touch it. *)
LEMMA LedgerMoves ==
  ASSUME [Next]_vars
  PROVE  \/ UNCHANGED ledger
         \/ \E w \in Workers : Record(w) \/ RecordFails(w)
         \/ Crash
         \/ Restart
BY DEF Next, Others, Shoot, Pull, PullSome, PullFiles, Request, AlreadyHave, StartIngest,
       Advance, EndPull, StartFile, Fetch, Receive, Duplicate, NotDuplicate, Inspect, FindFree,
       Adopt, TrySuffix, NoFreeName, Move, Delete, Mishap, CancelPull, StepFails, vars

(* What is put into the ledger is one entry, which Ledger allows if the digests
   that are known include those recorded before. *)
LEMMA PutIsUpdate ==
  ASSUME TypeInv, L!RecordedIsKnown, NEW k \in Keys, NEW e \in Entries, L!Put(k, e),
         L!Saved \/ L!NotSaved
  PROVE  L!Update
<1>1. up /\ live' = [live EXCEPT ![k] = e] /\ known' = known \cup {e.sum} /\ UNCHANGED up
  BY DEF L!Put, Entries
<1>2. live \in [Keys -> Entries \cup {None}] /\ e # None /\ e.sum \in Contents
  BY ImporterAssumption DEF TypeInv, TypeOK, Entries
<1>3. live' \in L!Maps
  BY <1>1, <1>2
<1>4. \A q \in Keys : live'[q] = IF q = k THEN e ELSE live[q]
  BY <1>1, <1>2
<1>5. L!Sums(live') \subseteq L!Sums(live) \cup {e.sum}
  BY <1>4 DEF L!Sums, L!Recorded
<1>6. e.sum \in L!Sums(live')
  BY <1>2, <1>4 DEF L!Sums, L!Recorded
<1>7. L!PutSome
  BY <1>1, <1>2, <1>3, <1>4, <1>5, <1>6 DEF L!PutSome, L!RecordedIsKnown
<1> QED
  BY <1>7 DEF L!Update

LEMMA LedgerStep ==
  ASSUME TypeInv, L!RecordedIsKnown, [Next]_vars
  PROVE  [L!LedgerNext]_(L!ledgerVars)
<1>1. ASSUME NEW w \in Workers, Record(w) \/ RecordFails(w) PROVE L!LedgerNext
  <2>1. job[w].key \in Keys /\ Entry(w) \in Entries
    BY <1>1, TargetTyped DEF Record, RecordFails, TypeInv, JobOK
  <2>2. L!Put(job[w].key, Entry(w)) /\ (L!Saved \/ L!NotSaved)
    BY <1>1 DEF Record, RecordFails
  <2> QED
    BY <2>1, <2>2, PutIsUpdate DEF L!LedgerNext
<1> QED
  BY <1>1, LedgerMoves DEF ledger, L!ledgerVars, L!LedgerNext, Crash, Restart

(* What is recorded stays known to ByHash, in every use Ledger allows. *)
LEMMA KnownStep ==
  ASSUME TypeInv, L!RecordedIsKnown, [L!LedgerNext]_(L!ledgerVars)
  PROVE  L!RecordedIsKnown'
<1>1. CASE UNCHANGED L!ledgerVars
  BY <1>1 DEF L!ledgerVars, L!RecordedIsKnown, L!Sums, L!Recorded
<1>2. CASE L!Update
  BY <1>2 DEF L!Update, L!PutSome, L!Forget, L!Resave, L!RecordedIsKnown, L!Sums, L!Recorded
<1>3. CASE L!Crash
  BY <1>3 DEF L!Crash, L!NoEntries, L!RecordedIsKnown, L!Sums, L!Recorded
<1>4. CASE L!Load
  BY <1>4 DEF L!Load, L!RecordedIsKnown, L!Sums, L!Recorded
<1> QED
  BY <1>1, <1>2, <1>3, <1>4 DEF L!LedgerNext

LEMMA InitKnown == Init => L!RecordedIsKnown
BY DEF Init, L!LedgerInit, L!NoEntries, L!RecordedIsKnown, L!Sums, L!Recorded

(* USE.  Whatever fails, and however many workers share it, the importer changes
   its ledger only as Ledger says that a ledger may change. *)
THEOREM LedgerIsUsedAsPromised == Spec => UsesLedger
<1>1. Init => TypeInv /\ L!RecordedIsKnown /\ L!LedgerInit
  BY InitTypeInv, InitKnown DEF Init
<1>2. TypeInv /\ L!RecordedIsKnown /\ [Next]_vars
        => (TypeInv /\ L!RecordedIsKnown)' /\ [L!LedgerNext]_(L!ledgerVars)
  BY TypeStep, LedgerStep, KnownStep
<1> QED
  BY <1>1, <1>2, PTL DEF Spec, UsesLedger, L!LedgerSpec

-----------------------------------------------------------------------------
(* Staging files.  A worker between two files has none, and none is left when the
   process is up again. *)
Between(w) == pc[w] \in {"idle", "next"}
StageInv ==
  /\ Down
  /\ \A w \in Workers : up /\ Between(w) => staged[w] = None

(* A worker that is between files was so before, and had none, or has just left
   one, or the process has just started. *)
LEMMA BetweenStep ==
  ASSUME TypeInv, Down, [Next]_vars, NEW v \in Workers, up', Between(v)'
  PROVE  staged'[v] = None \/ (up /\ Between(v) /\ staged'[v] = staged[v])
<1> USE DEF TypeInv, TypeOK, Between, Goto
<1>1. CASE UNCHANGED vars \/ \E k \in Shots : Shoot(k)
  BY <1>1 DEF vars, worker, ledger, Shoot
<1>2. CASE Crash \/ Restart
  BY <1>2 DEF Crash, L!Crash, Restart
<1>3. ASSUME NEW w \in Workers, Pull(w) \/ PullSome(w) \/ Request(w)
      PROVE  staged'[v] = None \/ (up /\ Between(v) /\ staged'[v] = staged[v])
  BY <1>3 DEF Pull, PullSome, PullFiles, Request, AlreadyHave, StartIngest, worker
<1>4. ASSUME NEW w \in Workers, ImportFails(w) \/ ImportDone(w), up' = up
      PROVE  staged'[v] = None \/ (up /\ Between(v) /\ staged'[v] = staged[v])
  <2>1. PICK step \in {"idle", "next"} : LeaveFile(w, step)
    BY <1>4 DEF ImportFails, ImportDone
  <2> QED
    BY <1>4, <2>1 DEF LeaveFile
<1>5. ASSUME NEW w \in Workers, Advance(w) \/ FindFree(w)
      PROVE  staged'[v] = None \/ (up /\ Between(v) /\ staged'[v] = staged[v])
  <2>1. CASE EndPull(w) \/ StartFile(w) \/ Fetch(w) \/ Receive(w) \/ NotDuplicate(w)
    BY <2>1 DEF EndPull, StartFile, Fetch, Receive, NotDuplicate, ledger
  <2>2. CASE Inspect(w) \/ Adopt(w) \/ TrySuffix(w) \/ Move(w) \/ FindFree(w)
    BY <2>2 DEF Inspect, Adopt, TrySuffix, Move, FindFree, ledger
  <2>3. CASE Duplicate(w) \/ NoFreeName(w) \/ Delete(w)
    BY <1>4, <2>3 DEF Duplicate, NoFreeName, Delete, ledger
  <2>4. CASE Record(w)
    <3>1. (ImportDone(w) \/ (Goto(w, "delete") /\ UNCHANGED staged)) /\ up' = up
      BY <2>4 DEF Record, L!Put
    <3> QED
      BY <1>4, <3>1
  <2> QED
    BY <1>5, <2>1, <2>2, <2>3, <2>4 DEF Advance
<1>6. ASSUME NEW w \in Workers, Mishap(w)
      PROVE  staged'[v] = None \/ (up /\ Between(v) /\ staged'[v] = staged[v])
  <2>1. CASE CancelPull(w)
    BY <2>1 DEF CancelPull, ledger
  <2>2. CASE StepFails(w) \/ RecordFails(w)
    BY <1>4, <2>2 DEF StepFails, RecordFails, L!Put, ledger
  <2> QED
    BY <1>6, <2>1, <2>2 DEF Mishap
<1> QED
  BY <1>1, <1>2, <1>3, <1>5, <1>6 DEF Next, Others

(* STAGING.  Every way out of an import, also a failed or cancelled one, and every
   start after a crash leave no staging file behind. *)
THEOREM StagingStaysClean == Spec => []StagingClean
<1>1. Init => TypeInv /\ StageInv
  BY InitTypeInv DEF Init, StageInv, Down, L!LedgerInit
<1>2. TypeInv /\ StageInv /\ [Next]_vars => StageInv'
  BY DownStep, BetweenStep DEF StageInv
<1>3. StageInv => StagingClean
  BY DEF StageInv, Between, StagingClean
<1> QED
  BY <1>1, <1>2, <1>3, TypeStep, PTL DEF Spec
-----------------------------------------------------------------------------
(* Has and Ingest go by the key.  The photos of a key are those that came with it,
   from the camera or from apps; of a name that an app made up there may be several. *)
LEMMA PhotosOfShot ==
  ASSUME NEW k \in Shots PROVE Frame[k] \in PhotosOf(k)
BY DEF PhotosOf

LEMMA PhotosOfUpload ==
  ASSUME NEW u \in Uploads PROVE u.data \in PhotosOf(u.key)
BY DEF PhotosOf

(* An app that says which frame of the camera it hands over has its bytes.  Under the
   names it makes up it may hand over what it likes. *)
FramesAgree == \A u \in Uploads : u.key \in Shots => u.data = Frame[u.key]

LEMMA PhotoOfShot ==
  ASSUME FramesAgree, NEW k \in Shots, NEW d \in PhotosOf(k) PROVE d = Frame[k]
BY DEF FramesAgree, PhotosOf

Busy == {"receive", "dedupe", "inspect", "probe", "move", "record", "delete"}

(* What is under way, and every entry, is a photo of its key. *)
KeyInv ==
  /\ \A w \in Workers : pc[w] \in Busy => job[w].data \in PhotosOf(job[w].key)
  /\ \A k \in Keys : live[k] # None => live[k].sum \in PhotosOf(k)
  /\ \A k \in Keys : saved[k] # None => saved[k].sum \in PhotosOf(k)

(* A file a worker is busy with was in hand before, or has just been downloaded or
   handed over. *)
LEMMA BusyStep ==
  ASSUME TypeInv, [Next]_vars, NEW v \in Workers, pc'[v] \in Busy
  PROVE  \/ pc[v] \in Busy /\ job'[v].key = job[v].key /\ job'[v].data = job[v].data
         \/ job'[v].key \in Shots /\ job'[v].data = Frame[job'[v].key]
         \/ \E u \in Uploads : job'[v].key = u.key /\ job'[v].data = u.data
<1> DEFINE Kept == pc[v] \in Busy /\ job'[v].key = job[v].key /\ job'[v].data = job[v].data
<1> USE DEF TypeInv, TypeOK, Goto, Busy
<1>1. CASE UNCHANGED vars \/ Crash \/ Restart \/ \E k \in Shots : Shoot(k)
  BY <1>1 DEF vars, worker, Crash, Restart, Shoot
<1>2. ASSUME NEW w \in Workers, Pull(w) \/ PullSome(w) PROVE Kept
  BY <1>2 DEF Pull, PullSome, PullFiles
<1>3. ASSUME NEW w \in Workers, NEW u \in Uploads, AlreadyHave(w, u) \/ StartIngest(w, u)
      PROVE  Kept \/ (job'[v].key = u.key /\ job'[v].data = u.data)
  BY <1>3 DEF AlreadyHave, StartIngest, Fresh, worker
<1>4. ASSUME NEW w \in Workers, ImportFails(w) \/ ImportDone(w) PROVE Kept
  <2>1. PICK step \in {"idle", "next"} : LeaveFile(w, step)
    BY <1>4 DEF ImportFails, ImportDone
  <2> QED
    BY <2>1 DEF LeaveFile
<1>5. ASSUME NEW w \in Workers, Fetch(w)
      PROVE  Kept \/ (job'[v].key \in Shots /\ job'[v].data = Frame[job'[v].key])
  <2>1. v # w => Kept
    BY <1>5 DEF Fetch
  <2>2. v = w => job'[v].key = job[v].key /\ job'[v].data = Frame[job[v].key]
    BY <1>5 DEF Fetch, Jobs
  <2>3. job[w].key \in Shots
    BY <1>5 DEF Fetch, JobOK
  <2> QED
    BY <2>1, <2>2, <2>3
<1>6. ASSUME NEW w \in Workers, Inspect(w) \/ TrySuffix(w) PROVE Kept
  BY <1>6 DEF Inspect, TrySuffix, Jobs
<1>7. ASSUME NEW w \in Workers,
             \/ EndPull(w) \/ StartFile(w) \/ Receive(w) \/ NotDuplicate(w)
             \/ Adopt(w) \/ FindFree(w) \/ Move(w) \/ CancelPull(w)
      PROVE  Kept
  BY <1>7 DEF EndPull, StartFile, Receive, NotDuplicate, Adopt, FindFree, Move, CancelPull
<1>8. ASSUME NEW w \in Workers, Record(w) PROVE Kept
  <2>1. ImportDone(w) \/ (pc[w] = "record" /\ Goto(w, "delete") /\ UNCHANGED job)
    BY <1>8 DEF Record
  <2> QED
    BY <1>4, <2>1
<1>9. ASSUME NEW w \in Workers,
             Duplicate(w) \/ NoFreeName(w) \/ Delete(w) \/ StepFails(w) \/ RecordFails(w)
      PROVE  Kept
  BY <1>4, <1>9 DEF Duplicate, NoFreeName, Delete, StepFails, RecordFails
<1> QED
  BY <1>1, <1>2, <1>3, <1>5, <1>6, <1>7, <1>8, <1>9
     DEF Next, Others, Request, Advance, Mishap

(* What the ledger says of a key it said before, in memory or on disk, or has been
   told by a worker at the end of an import. *)
LEMMA EntryStep ==
  ASSUME TypeInv, [Next]_vars, NEW k \in Keys, NEW e, e \in {live'[k], saved'[k]}, e # None
  PROVE  \/ e \in {live[k], saved[k]}
         \/ \E w \in Workers : pc[w] = "record" /\ job[w].key = k /\ e = Entry(w)
<1> USE DEF TypeInv, TypeOK
<1>1. CASE UNCHANGED ledger
  BY <1>1 DEF ledger
<1>2. ASSUME NEW w \in Workers, Record(w) \/ RecordFails(w)
      PROVE  e \in {live[k], saved[k]} \/ (pc[w] = "record" /\ job[w].key = k /\ e = Entry(w))
  <2>1. /\ pc[w] = "record" /\ saved' \in {live', saved}
        /\ live' = [live EXCEPT ![job[w].key] = Entry(w)]
    BY <1>2 DEF Record, RecordFails, L!Put, L!Saved, L!NotSaved
  <2> QED
    BY <2>1
<1>3. CASE Crash
  BY <1>3 DEF Crash, L!Crash, L!NoEntries
<1>4. CASE Restart
  BY <1>4 DEF Restart, L!Load
<1> QED
  BY <1>1, <1>2, <1>3, <1>4, LedgerMoves

LEMMA KeyStep ==
  ASSUME TypeInv, TypeInv', KeyInv, [Next]_vars
  PROVE  KeyInv'
<1>1. ASSUME NEW v \in Workers, pc'[v] \in Busy PROVE job'[v].data \in PhotosOf(job'[v].key)
  BY <1>1, BusyStep, PhotosOfShot, PhotosOfUpload DEF KeyInv
<1>2. ASSUME NEW k \in Keys, NEW e, e \in {live'[k], saved'[k]}, e # None
      PROVE  e.sum \in PhotosOf(k)
  <2>1. CASE e \in {live[k], saved[k]}
    BY <1>2, <2>1 DEF KeyInv
  <2>2. ASSUME NEW w \in Workers, pc[w] = "record", job[w].key = k, e = Entry(w)
        PROVE  e.sum \in PhotosOf(k)
    BY <2>2 DEF KeyInv, Busy, Entry
  <2> QED
    BY <1>2, <2>1, <2>2, EntryStep
<1>3. \A k : PhotosOf(k)' = PhotosOf(k)
  BY DEF PhotosOf
<1> QED
  BY <1>1, <1>2, <1>3 DEF KeyInv

LEMMA InitKey == Init => KeyInv
BY DEF Init, KeyInv, Busy, L!LedgerInit, L!NoEntries

-----------------------------------------------------------------------------
(* Deleted frames.  Memory has all that is saved, so no save loses an entry; a
   worker that may delete a frame has seen it saved. *)
SavedInv ==
  /\ up => \A k \in Keys : saved[k] # None => live[k] # None
  /\ \A w \in Workers : pc[w] = "delete" => saved[job[w].key] # None
  /\ \A k \in shot \ card : saved[k] # None

LEMMA SavedStays ==
  ASSUME TypeInv, SavedInv, [Next]_vars, NEW k \in Keys, saved[k] # None
  PROVE  saved'[k] # None
<1> USE DEF TypeInv, TypeOK
<1>1. ASSUME NEW w \in Workers, Record(w) \/ RecordFails(w) PROVE saved'[k] # None
  <2>1. /\ up /\ Entry(w) # None /\ saved' \in {live', saved}
        /\ live' = [live EXCEPT ![job[w].key] = Entry(w)]
    BY <1>1, TargetTyped, ImporterAssumption
       DEF Record, RecordFails, L!Put, L!Saved, L!NotSaved, Entries
  <2> QED
    BY <2>1 DEF SavedInv
<1> QED
  BY <1>1, LedgerMoves DEF ledger, Crash, L!Crash, Restart, L!Load

(* Only an import that was recorded goes on to delete, and keeps its key. *)
LEMMA DeleteStep ==
  ASSUME TypeInv, [Next]_vars, NEW v \in Workers, pc'[v] = "delete"
  PROVE  /\ job'[v] = job[v]
         /\ pc[v] = "delete" \/ (pc[v] = "record" /\ Record(v))
<1> USE DEF TypeInv, TypeOK, Goto
<1>1. CASE UNCHANGED vars \/ Crash \/ Restart \/ \E k \in Shots : Shoot(k)
  BY <1>1 DEF vars, worker, Crash, Restart, Shoot
<1>2. ASSUME NEW w \in Workers, Pull(w) \/ PullSome(w) \/ Request(w)
      PROVE  job'[v] = job[v] /\ pc[v] = "delete"
  BY <1>2 DEF Pull, PullSome, PullFiles, Request, AlreadyHave, StartIngest, worker
<1>3. ASSUME NEW w \in Workers, ImportFails(w) \/ ImportDone(w)
      PROVE  job'[v] = job[v] /\ pc[v] = "delete"
  <2>1. PICK step \in {"idle", "next"} : LeaveFile(w, step)
    BY <1>3 DEF ImportFails, ImportDone
  <2> QED
    BY <2>1 DEF LeaveFile
<1>4. ASSUME NEW w \in Workers,
             \/ EndPull(w) \/ StartFile(w) \/ Fetch(w) \/ Receive(w) \/ NotDuplicate(w)
             \/ Inspect(w) \/ Adopt(w) \/ TrySuffix(w) \/ FindFree(w) \/ Move(w) \/ CancelPull(w)
      PROVE  job'[v] = job[v] /\ pc[v] = "delete"
  BY <1>4 DEF EndPull, StartFile, Fetch, Receive, NotDuplicate, Inspect, Adopt, TrySuffix,
              FindFree, Move, CancelPull
<1>5. ASSUME NEW w \in Workers, Record(w)
      PROVE  job'[v] = job[v] /\ (pc[v] = "delete" \/ (v = w /\ pc[v] = "record"))
  <2>1. pc[w] = "record" /\ (ImportDone(w) \/ (Goto(w, "delete") /\ UNCHANGED job))
    BY <1>5 DEF Record
  <2> QED
    BY <1>3, <2>1
<1>6. ASSUME NEW w \in Workers,
             Duplicate(w) \/ NoFreeName(w) \/ Delete(w) \/ StepFails(w) \/ RecordFails(w)
      PROVE  job'[v] = job[v] /\ pc[v] = "delete"
  BY <1>3, <1>6 DEF Duplicate, NoFreeName, Delete, StepFails, RecordFails
<1> QED
  BY <1>1, <1>2, <1>4, <1>5, <1>6 DEF Next, Others, Advance, Mishap

(* A frame leaves the card only by the delete at the end of its import. *)
LEMMA CardStep ==
  ASSUME [Next]_vars
  PROVE  \/ shot' \ card' \subseteq shot \ card
         \/ \E w \in Workers : pc[w] = "delete" /\ shot' \ card' \subseteq (shot \ card) \cup {job[w].key}
BY DEF Next, Others, Shoot, Pull, PullSome, PullFiles, Request, AlreadyHave, StartIngest,
       Advance, EndPull, StartFile, Fetch, Receive, Duplicate, NotDuplicate, Inspect, FindFree,
       Adopt, TrySuffix, NoFreeName, Move, Record, Delete, Mishap, CancelPull, StepFails,
       RecordFails, Crash, Restart, camera, vars

LEMMA SavedStep ==
  ASSUME TypeInv, TypeInv', SavedInv, [Next]_vars
  PROVE  SavedInv'
<1> USE DEF TypeInv, TypeOK
<1>1. ASSUME up', NEW k \in Keys, saved'[k] # None PROVE live'[k] # None
  <2>1. CASE UNCHANGED ledger
    BY <1>1, <2>1 DEF ledger, SavedInv
  <2>2. ASSUME NEW w \in Workers, Record(w) \/ RecordFails(w) PROVE live'[k] # None
    <3>1. /\ up /\ Entry(w) # None /\ saved' \in {live', saved}
          /\ live' = [live EXCEPT ![job[w].key] = Entry(w)]
      BY <2>2, TargetTyped, ImporterAssumption
         DEF Record, RecordFails, L!Put, L!Saved, L!NotSaved, Entries
    <3> QED
      BY <1>1, <3>1 DEF SavedInv
  <2>3. CASE Crash
    BY <1>1, <2>3 DEF Crash, L!Crash
  <2>4. CASE Restart
    BY <1>1, <2>4 DEF Restart, L!Load
  <2> QED
    BY <2>1, <2>2, <2>3, <2>4, LedgerMoves
<1>2. ASSUME NEW w \in Workers, pc'[w] = "delete" PROVE saved'[job'[w].key] # None
  <2>1. job'[w] = job[w] /\ job[w].key \in Keys
    BY <1>2, DeleteStep DEF JobOK
  <2>2. CASE pc[w] = "delete"
    BY <2>1, <2>2, SavedStays DEF SavedInv
  <2>3. CASE pc[w] = "record" /\ Record(w)
    <3>1. saved' = [live EXCEPT ![job[w].key] = Entry(w)] /\ Entry(w) # None
      BY <2>3, TargetTyped, ImporterAssumption DEF Record, L!Put, L!Saved, Entries
    <3> QED
      BY <2>1, <3>1
  <2> QED
    BY <1>2, <2>2, <2>3, DeleteStep
<1>3. ASSUME NEW k \in shot' \ card' PROVE saved'[k] # None
  <2>1. k \in Keys
    BY ImporterAssumption
  <2>2. k \in shot \ card \/ \E w \in Workers : pc[w] = "delete" /\ k = job[w].key
    BY CardStep
  <2>3. saved[k] # None
    BY <2>2 DEF SavedInv
  <2> QED
    BY <2>1, <2>3, SavedStays
<1> QED
  BY <1>1, <1>2, <1>3 DEF SavedInv

LEMMA InitSaved == Init => SavedInv
BY DEF Init, SavedInv, L!LedgerInit, L!NoEntries

(* DELETED.  In a polite run a frame that has left the card is in the manifest a
   restart would load, and its bytes are in the library under that entry. *)
THEOREM DeletedFramesAreSafe ==
  ASSUME FramesAgree PROVE PoliteSpec => []DeletedIsRecorded
<1>1. Init => TypeInv /\ SafeInv /\ KeyInv /\ SavedInv
  BY InitTypeInv, InitSafeInv, InitKey, InitSaved
<1>2. TypeInv /\ SafeInv /\ KeyInv /\ SavedInv /\ [PoliteNext]_vars
        => (TypeInv /\ SafeInv /\ KeyInv /\ SavedInv)'
  BY SafeStep, TypeStep, KeyStep, SavedStep
<1>3. TypeInv /\ SafeInv /\ KeyInv /\ SavedInv => DeletedIsRecorded
  BY ImporterAssumption, PhotoOfShot
     DEF TypeInv, TypeOK, SafeInv, EntriesTruthful, HoldsItsBytes, KeyInv, SavedInv,
         DeletedIsRecorded
<1> QED
  BY <1>1, <1>2, <1>3, PTL DEF PoliteSpec
-----------------------------------------------------------------------------
(* Answered uploads.  The digests ByHash answers with are those of photos that are
   in the library, and so is the digest of every answer. *)
KeptInv ==
  /\ \A d \in known : InLibrary(d)
  /\ \A a \in acked : InLibrary(a.sum) /\ a.sum \in PhotosOf(a.key)

LEMMA KeptStays ==
  ASSUME TypeInv, SafeInv, [Next]_vars, NEW d \in Contents, InLibrary(d)
  PROVE  InLibrary(d)'
<1>1. PICK p \in Paths : lib[p] = d
  BY DEF InLibrary
<1>2. lib'[p] = d
  BY <1>1, StepGrows, ImporterAssumption DEF Grows
<1> QED
  BY <1>2 DEF InLibrary

(* A digest is known since an import was recorded or the manifest loaded. *)
LEMMA KnownMoves ==
  ASSUME TypeInv, [Next]_vars, NEW d \in known'
  PROVE  \/ d \in known
         \/ \E w \in Workers : pc[w] = "record" /\ d = job[w].data
         \/ \E k \in Keys : saved[k] # None /\ d = saved[k].sum
<1>1. CASE UNCHANGED ledger
  BY <1>1 DEF ledger
<1>2. ASSUME NEW w \in Workers, Record(w) \/ RecordFails(w)
      PROVE  d \in known \/ (pc[w] = "record" /\ d = job[w].data)
  BY <1>2 DEF Record, RecordFails, L!Put, Entry
<1>3. CASE Crash
  BY <1>3 DEF Crash, L!Crash
<1>4. CASE Restart
  BY <1>4 DEF Restart, L!Load, L!Sums, L!Recorded
<1> QED
  BY <1>1, <1>2, <1>3, <1>4, LedgerMoves

(* An upload is answered by its key, by its bytes or when it is recorded. *)
LEMMA AckMoves ==
  ASSUME TypeInv, [Next]_vars, NEW a \in acked'
  PROVE  \/ a \in acked
         \/ a.key \in Keys /\ live[a.key] # None /\ a.sum = live[a.key].sum
         \/ \E w \in Workers : /\ a.key = job[w].key /\ a.sum = job[w].data
                               /\ \/ pc[w] = "dedupe" /\ job[w].data \in known
                                  \/ pc[w] = "record"
<1>1. ASSUME NEW w \in Workers, NEW u \in Uploads, AlreadyHave(w, u)
      PROVE  a \in acked \/ (a.key \in Keys /\ live[a.key] # None /\ a.sum = live[a.key].sum)
  <2>1. u.key \in Keys
    BY ImporterAssumption
  <2> QED
    BY <1>1, <2>1 DEF AlreadyHave, Answer
<1>2. ASSUME NEW w \in Workers, Duplicate(w) \/ Record(w)
      PROVE  a \in acked \/ /\ a.key = job[w].key /\ a.sum = job[w].data
                            /\ \/ pc[w] = "dedupe" /\ job[w].data \in known
                               \/ pc[w] = "record"
  BY <1>2 DEF Duplicate, Record, Answer, Upload
<1>3. \/ UNCHANGED acked
      \/ \E w \in Workers, u \in Uploads : AlreadyHave(w, u)
      \/ \E w \in Workers : Duplicate(w) \/ Record(w)
  BY DEF Next, Others, Shoot, Pull, PullSome, PullFiles, Request, StartIngest,
         Advance, EndPull, StartFile, Fetch, Receive, NotDuplicate, Inspect,
         FindFree, Adopt, TrySuffix, NoFreeName, Move, Delete, Mishap, CancelPull, StepFails,
         RecordFails, Crash, Restart, vars
<1> QED
  BY <1>1, <1>2, <1>3

LEMMA KeptStep ==
  ASSUME TypeInv, TypeInv', SafeInv, KeyInv, KeptInv, [Next]_vars
  PROVE  KeptInv'
<1> USE DEF TypeInv, TypeOK
<1>1. ASSUME NEW e \in Entries, HoldsItsBytes(e) PROVE InLibrary(e.sum)
  BY <1>1 DEF HoldsItsBytes, InLibrary, Entries
<1>2. ASSUME NEW w \in Workers, pc[w] = "record" PROVE InLibrary(job[w].data)
  BY <1>2, TargetTyped DEF SafeInv, WorkerOK, InLibrary
<1>3. ASSUME NEW d \in known' PROVE InLibrary(d)'
  <2>1. d \in Contents
    OBVIOUS
  <2>2. ASSUME NEW k \in Keys, saved[k] # None, d = saved[k].sum PROVE InLibrary(d)
    BY <1>1, <2>2 DEF SafeInv, EntriesTruthful
  <2>3. InLibrary(d)
    BY <1>2, <2>2, KnownMoves DEF KeptInv
  <2> QED
    BY <2>1, <2>3, KeptStays
<1>4. ASSUME NEW a \in acked' PROVE InLibrary(a.sum)' /\ a.sum \in PhotosOf(a.key)
  <2>1. a.sum \in Contents
    BY DEF Answers
  <2>2. ASSUME a.key \in Keys, live[a.key] # None, a.sum = live[a.key].sum
        PROVE  InLibrary(a.sum) /\ a.sum \in PhotosOf(a.key)
    <3>1. live[a.key] \in Entries /\ HoldsItsBytes(live[a.key])
      BY <2>2 DEF SafeInv, EntriesTruthful
    <3> QED
      BY <1>1, <2>2, <3>1 DEF KeyInv
  <2>3. ASSUME NEW w \in Workers, a.key = job[w].key, a.sum = job[w].data,
               \/ pc[w] = "dedupe" /\ job[w].data \in known
               \/ pc[w] = "record"
        PROVE  InLibrary(a.sum) /\ a.sum \in PhotosOf(a.key)
    BY <1>2, <2>3 DEF KeptInv, KeyInv, Busy
  <2>4. InLibrary(a.sum) /\ a.sum \in PhotosOf(a.key)
    BY <2>2, <2>3, AckMoves DEF KeptInv
  <2> QED
    BY <2>1, <2>4, KeptStays
<1>5. \A k : PhotosOf(k)' = PhotosOf(k)
  BY DEF PhotosOf
<1> QED
  BY <1>3, <1>4, <1>5 DEF KeptInv, InLibrary

(* ACKED.  In a polite run the photo whose digest answers an upload, by its key, by
   its hash or after an import, is in the library, and stays there; it is the upload,
   or came under the same key.  Nothing is assumed of what apps hand over. *)
THEOREM AnsweredUploadsAreKept == PoliteSpec => []AckedIsKept
<1>1. Init => TypeInv /\ SafeInv /\ KeyInv /\ KeptInv
  BY InitTypeInv, InitSafeInv, InitKey DEF Init, KeptInv, L!LedgerInit
<1>2. TypeInv /\ SafeInv /\ KeyInv /\ KeptInv /\ [PoliteNext]_vars
        => (TypeInv /\ SafeInv /\ KeyInv /\ KeptInv)'
  BY SafeStep, TypeStep, KeyStep, KeptStep
<1>3. KeptInv => AckedIsKept
  BY DEF KeptInv, AckedIsKept
<1> QED
  BY <1>1, <1>2, <1>3, PTL DEF PoliteSpec
-----------------------------------------------------------------------------
(* Copies.  The manifest may be lost too, between two polite runs. *)
PoliteLossySpec == Init /\ [][PoliteNext \/ LoseManifest]_vars

LEMMA LossStep ==
  ASSUME TypeInv, SafeInv, LoseManifest
  PROVE  TypeInv' /\ SafeInv' /\ UNCHANGED <<lib, pc, job>>
<1> USE DEF LoseManifest, Fault, camera, worker, TypeInv, TypeOK
<1>1. UNCHANGED <<shot, card, lib, live, known, up, pc, todo, errs, job, staged, acked>>
  OBVIOUS
<1>2. TypeInv'
  BY <1>1, ImporterAssumption DEF L!NoEntries, JobOK, Upload
<1>3. EntriesTruthful'
  BY <1>1 DEF L!NoEntries, SafeInv, EntriesTruthful, HoldsItsBytes
<1>4. NoClash' /\ Down' /\ \A w \in Workers : WorkerOK(w)'
  BY <1>1 DEF SafeInv, NoClash, Down, WorkerOK, Target
<1> QED
  BY <1>1, <1>2, <1>3, <1>4 DEF SafeInv

(* No file name is a numbered variant of another one.  Where one is, as IMG_1.JPG
   beside IMG.JPG, the same photo may be filed under both. *)
Series == Folders \X Names
Nth(s, i) == Candidate[<<s[1], s[2], i>>]
SeriesApart ==
  \A s, t \in Series : \A i, j \in 0..MaxSuffix + 1 : Nth(s, i) = Nth(t, j) => s = t /\ i = j

(* The files of a series are filled one after the other, no two with the same
   photo, and a worker that got as far as the i-th has seen all before it taken by
   other photos, if it could tell. *)
SeriesOf(w) == <<job[w].folder, NameOf[job[w].key]>>
Before == {"fetch", "receive", "dedupe", "inspect"}
Readable(p, d) == d \notin EmptyFiles /\ p \notin Unreadable

SeriesInv ==
  /\ \A s \in Series : \A i, j \in 0..MaxSuffix + 1 : i < j /\ lib[Nth(s, j)] # None =>
       /\ lib[Nth(s, i)] # None
       /\ lib[Nth(s, i)] = lib[Nth(s, j)] =>
            ~Readable(Nth(s, i), lib[Nth(s, i)]) \/ Nth(s, j) \in Unreadable
  /\ \A w \in Workers : pc[w] \in Before => job[w].i = 0
  /\ \A w \in Workers : pc[w] \in {"probe", "move"} =>
       \A i \in 0..MaxSuffix + 1 : i < job[w].i =>
         LET p == Nth(SeriesOf(w), i)
         IN lib[p] # None /\ (lib[p] = job[w].data => ~Readable(p, job[w].data))

LEMMA NthTyped ==
  ASSUME NEW s \in Series, NEW i \in 0..MaxSuffix + 1
  PROVE  Nth(s, i) \in Paths
BY ImporterAssumption DEF Series, Nth

LEMMA WorkersSeries ==
  ASSUME TypeInv, NEW w \in Workers, pc[w] \in {"probe", "move"}
  PROVE  /\ SeriesOf(w) \in Series
         /\ job[w].i \in 0..MaxSuffix + 1
         /\ job[w].data \in Contents
         /\ Target(w) = Nth(SeriesOf(w), job[w].i)
BY ImporterAssumption DEF TypeInv, TypeOK, JobOK, Jobs, SeriesOf, Series, Target, Nth

(* How a worker came to look for a name: it has just begun, or it has found one
   more taken. *)
LEMMA ProbeStep ==
  ASSUME TypeInv, [Next]_vars, NEW v \in Workers, pc'[v] \in Before \cup {"probe", "move"}
  PROVE  \/ /\ job'[v] = job[v]
            /\ pc[v] \in Before <=> pc'[v] \in Before
            /\ pc[v] \in {"probe", "move"} <=> pc'[v] \in {"probe", "move"}
         \/ pc'[v] \in Before /\ job'[v].i = 0
         \/ pc'[v] \in Before /\ pc[v] \in Before /\ job'[v].i = job[v].i
         \/ pc'[v] \notin Before /\ pc[v] \in Before /\ job'[v].i = job[v].i
         \/ TrySuffix(v)
<1> DEFINE Same == /\ job'[v] = job[v]
                   /\ pc[v] \in Before <=> pc'[v] \in Before
                   /\ pc[v] \in {"probe", "move"} <=> pc'[v] \in {"probe", "move"}
<1> USE DEF TypeInv, TypeOK, Goto, Before
<1>1. CASE UNCHANGED vars \/ Crash \/ Restart \/ \E k \in Shots : Shoot(k)
  BY <1>1 DEF vars, worker, Crash, Restart, Shoot
<1>2. ASSUME NEW w \in Workers, Pull(w) \/ PullSome(w) PROVE Same
  BY <1>2 DEF Pull, PullSome, PullFiles
<1>3. ASSUME NEW w \in Workers, Request(w)
      PROVE  Same \/ (pc'[v] \in Before /\ job'[v].i = 0)
  BY <1>3 DEF Request, AlreadyHave, StartIngest, Fresh, worker
<1>4. ASSUME NEW w \in Workers, ImportFails(w) \/ ImportDone(w) PROVE Same
  <2>1. PICK step \in {"idle", "next"} : LeaveFile(w, step)
    BY <1>4 DEF ImportFails, ImportDone
  <2> QED
    BY <2>1 DEF LeaveFile
<1>5. ASSUME NEW w \in Workers, StartFile(w)
      PROVE  Same \/ (pc'[v] \in Before /\ job'[v].i = 0)
  BY <1>5 DEF StartFile, Fresh
<1>6. ASSUME NEW w \in Workers, Fetch(w)
      PROVE  Same \/ (pc'[v] \in Before /\ pc[v] \in Before /\ job'[v].i = job[v].i)
  BY <1>6 DEF Fetch, Jobs
<1>7. ASSUME NEW w \in Workers, Inspect(w)
      PROVE  Same \/ (pc'[v] \notin Before /\ pc[v] \in Before /\ job'[v].i = job[v].i)
  BY <1>7 DEF Inspect, Jobs
<1>8. ASSUME NEW w \in Workers, TrySuffix(w) PROVE Same \/ TrySuffix(v)
  <2>1. v # w => Same
    BY <1>8 DEF TrySuffix
  <2> QED
    BY <1>8, <2>1
<1>9. ASSUME NEW w \in Workers,
             \/ EndPull(w) \/ Receive(w) \/ NotDuplicate(w)
             \/ Adopt(w) \/ FindFree(w) \/ Move(w) \/ CancelPull(w)
      PROVE  Same
  BY <1>9 DEF EndPull, Receive, NotDuplicate, Adopt, FindFree, Move, CancelPull
<1>10. ASSUME NEW w \in Workers, Record(w) PROVE Same
  <2>1. ImportDone(w) \/ (pc[w] = "record" /\ Goto(w, "delete") /\ UNCHANGED job)
    BY <1>10 DEF Record
  <2> QED
    BY <1>4, <2>1
<1>11. ASSUME NEW w \in Workers,
              Duplicate(w) \/ NoFreeName(w) \/ Delete(w) \/ StepFails(w) \/ RecordFails(w)
       PROVE  Same
  BY <1>4, <1>11 DEF Duplicate, NoFreeName, Delete, StepFails, RecordFails
<1> QED
  BY <1>1, <1>2, <1>3, <1>5, <1>6, <1>7, <1>8, <1>9, <1>10, <1>11
     DEF Next, Others, Advance, Mishap

(* The files of the series stay in order when one more is filled. *)
LEMMA FilledInOrder ==
  ASSUME SeriesApart, TypeInv, SafeInv, SeriesInv, NEW w \in Workers, Move(w),
         NEW s \in Series, NEW i \in 0..MaxSuffix + 1, NEW j \in 0..MaxSuffix + 1,
         i < j, lib'[Nth(s, j)] # None
  PROVE  /\ lib'[Nth(s, i)] # None
         /\ lib'[Nth(s, i)] = lib'[Nth(s, j)] =>
              ~Readable(Nth(s, i), lib'[Nth(s, i)]) \/ Nth(s, j) \in Unreadable
<1> DEFINE t == SeriesOf(w)
           n == job[w].i
           d == job[w].data
<1> USE ImporterAssumption
<1>1. /\ pc[w] = "move" /\ t \in Series /\ n \in 0..MaxSuffix + 1 /\ d \in Contents
      /\ lib' = [lib EXCEPT ![Nth(t, n)] = d]
      /\ Nth(t, n) \in Paths
  BY WorkersSeries, NthTyped DEF Move, SafeInv, WorkerOK
<1>2. /\ lib[Nth(t, n)] \in {None, d}
      /\ \A k \in 0..MaxSuffix + 1 : k < n =>
           /\ lib[Nth(t, k)] # None
           /\ lib[Nth(t, k)] = d => ~Readable(Nth(t, k), d)
  BY <1>1, WorkersSeries DEF SafeInv, WorkerOK, SeriesInv
<1>3. Nth(s, i) \in Paths /\ Nth(s, j) \in Paths /\ Nth(s, i) # Nth(s, j)
  BY NthTyped DEF SeriesApart
<1>4. CASE Nth(s, j) = Nth(t, n)
  <2>1. s = t /\ j = n
    BY <1>1, <1>4 DEF SeriesApart
  <2> QED
    BY <1>1, <1>2, <1>3, <1>4, <2>1 DEF TypeInv, TypeOK
<1>5. CASE Nth(s, j) # Nth(t, n)
  <2>1. lib'[Nth(s, j)] = lib[Nth(s, j)]
    BY <1>1, <1>3, <1>5 DEF TypeInv, TypeOK
  <2>2. lib[Nth(s, i)] # None
    BY <2>1 DEF SeriesInv
  <2>3. lib'[Nth(s, i)] = lib[Nth(s, i)]
    BY <1>1, <1>2, <1>3, <2>2 DEF TypeInv, TypeOK
  <2> QED
    BY <2>1, <2>3 DEF SeriesInv
<1> QED
  BY <1>4, <1>5

LEMMA SeriesStep ==
  ASSUME SeriesApart, TypeInv, TypeInv', SafeInv, SeriesInv, [Next]_vars
  PROVE  SeriesInv'
<1> USE ImporterAssumption
<1>1. ASSUME NEW s \in Series, NEW i \in 0..MaxSuffix + 1, NEW j \in 0..MaxSuffix + 1,
             i < j, lib'[Nth(s, j)] # None
      PROVE  /\ lib'[Nth(s, i)] # None
             /\ lib'[Nth(s, i)] = lib'[Nth(s, j)] =>
                  ~Readable(Nth(s, i), lib'[Nth(s, i)]) \/ Nth(s, j) \in Unreadable
  <2>1. CASE UNCHANGED lib
    BY <1>1, <2>1 DEF SeriesInv
  <2> QED
    BY <1>1, <2>1, FilledInOrder, OnlyMoveChangesLib
<1>2. ASSUME NEW v \in Workers, pc'[v] \in Before PROVE job'[v].i = 0
  BY <1>2, ProbeStep DEF SeriesInv, TrySuffix, Before, TypeInv, TypeOK
<1>3. ASSUME NEW v \in Workers, pc'[v] \in {"probe", "move"}, NEW i \in 0..MaxSuffix + 1,
             i < job'[v].i, NEW s \in Series, s = <<job'[v].folder, NameOf[job'[v].key]>>
      PROVE  /\ lib'[Nth(s, i)] # None
             /\ lib'[Nth(s, i)] = job'[v].data => ~Readable(Nth(s, i), job'[v].data)
  <2>1. ASSUME lib[Nth(s, i)] # None,
               lib[Nth(s, i)] = job'[v].data => ~Readable(Nth(s, i), job'[v].data)
        PROVE  /\ lib'[Nth(s, i)] # None
               /\ lib'[Nth(s, i)] = job'[v].data => ~Readable(Nth(s, i), job'[v].data)
    BY <2>1, StepGrows, NthTyped DEF Grows
  <2>2. CASE pc[v] \in {"probe", "move"} /\ job'[v] = job[v]
    BY <1>3, <2>1, <2>2 DEF SeriesInv, SeriesOf
  <2>3. CASE TrySuffix(v)
    <3>1. /\ pc[v] = "probe" /\ ~IsFree(v) /\ ~IsSame(v)
          /\ job'[v] = [job[v] EXCEPT !.i = @ + 1]
      BY <2>3 DEF TrySuffix, TypeInv, TypeOK
    <3>2. /\ s = SeriesOf(v) /\ job'[v].data = job[v].data /\ job'[v].i = job[v].i + 1
      BY <1>3, <3>1 DEF SeriesOf, TypeInv, TypeOK, Jobs
    <3>3. Target(v) = Nth(s, job[v].i) /\ job[v].i \in 0..MaxSuffix + 1
      BY <3>1, <3>2, WorkersSeries
    <3>4. i < job[v].i \/ i = job[v].i
      BY <1>3, <3>2, <3>3
    <3>5. lib[Nth(s, i)] # None
          /\ (lib[Nth(s, i)] = job[v].data => ~Readable(Nth(s, i), job[v].data))
      BY <3>1, <3>2, <3>3, <3>4 DEF SeriesInv, IsFree, IsSame, Readable
    <3> QED
      BY <2>1, <3>2, <3>5
  <2>4. CASE job'[v].i = 0
    BY <1>3, <2>4
  <2> QED
    BY <1>3, <2>2, <2>3, <2>4, ProbeStep DEF SeriesInv, Before
<1>4. \A v \in Workers : pc'[v] \in {"probe", "move"} =>
        <<job'[v].folder, NameOf[job'[v].key]>> \in Series
  BY DEF TypeInv, JobOK, Series
<1> QED
  BY <1>1, <1>2, <1>3, <1>4 DEF SeriesInv, SeriesOf, Nth, Readable

LEMMA InitSeries == Init => SeriesInv
BY NthTyped DEF Init, SeriesInv, Before

(* COPIES.  In a polite run an import that comes again, after a crash before it was
   recorded or with a lost manifest, adopts the file it made before. *)
THEOREM NoSecondCopies == ASSUME SeriesApart PROVE PoliteLossySpec => []NoTwinCopies
<1>1. Init => TypeInv /\ SafeInv /\ SeriesInv
  BY InitTypeInv, InitSafeInv, InitSeries
<1>2. TypeInv /\ SafeInv /\ SeriesInv /\ [PoliteNext]_vars => (TypeInv /\ SafeInv /\ SeriesInv)'
  BY SafeStep, TypeStep, SeriesStep
<1>3. TypeInv /\ SafeInv /\ SeriesInv /\ LoseManifest => (TypeInv /\ SafeInv /\ SeriesInv)'
  <2>1. SeriesInv /\ UNCHANGED <<lib, pc, job>> => SeriesInv'
    BY DEF SeriesInv, SeriesOf
  <2> QED
    BY <2>1, LossStep
<1>4. TypeInv /\ SafeInv /\ SeriesInv /\ [PoliteNext \/ LoseManifest]_vars
        => (TypeInv /\ SafeInv /\ SeriesInv)'
  BY <1>2, <1>3
<1>5. TypeInv /\ SeriesInv => NoTwinCopies
  <2> SUFFICES ASSUME TypeInv, SeriesInv, NEW f \in Folders, NEW n \in Names,
                      NEW i \in 0..MaxSuffix + 1, NEW j \in 0..MaxSuffix + 1,
                      lib[Nth(<<f, n>>, i)] \in Contents \ EmptyFiles,
                      lib[Nth(<<f, n>>, i)] = lib[Nth(<<f, n>>, j)],
                      Nth(<<f, n>>, i) \notin Unreadable, Nth(<<f, n>>, j) \notin Unreadable
               PROVE  i = j
    BY DEF NoTwinCopies, Nth
  <2>1. <<f, n>> \in Series
    BY DEF Series
  <2>2. i < j \/ j < i \/ i = j
    BY ImporterAssumption
  <2> QED
    BY <2>1, <2>2, ImporterAssumption DEF SeriesInv, Readable
<1> QED
  BY <1>1, <1>4, <1>5, PTL DEF PoliteLossySpec

(* So it is whenever one worker is all there is. *)
THEOREM OneWorkerMakesNoCopies ==
  ASSUME SeriesApart, OneWorker PROVE LossySpec => []NoTwinCopies
<1>1. NoClash'
  BY DEF NoClash, OneWorker
<1>2. Next => PoliteNext
  BY <1>1 DEF Next, PoliteNext
<1>3. LossySpec => PoliteLossySpec
  BY <1>2, PTL DEF LossySpec, PoliteLossySpec
<1> QED
  BY <1>3, NoSecondCopies
=============================================================================

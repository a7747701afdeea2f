------------------------- MODULE DeviceStoreProofs -------------------------
(***************************************************************************)
(* Theorems about DeviceStore, for any number of devices, requests,        *)
(* processes and failures.                                                 *)
(***************************************************************************)
EXTENDS DeviceStore, TLAPS

Saving == {"clear", "marshal", "open", "write", "rename", "remove", "stamp"}

\* What a thread knows at its place, without which the types would not be kept: a
\* guess is judged by the code that was read; who redeems has shown a code, and has
\* made a device when it comes to the save.
Sound(x) ==
    /\ x.pc = "check" => x.seen \in Pairing
    /\ x.op.kind = "revoke" => x.op.dev \in Devices
    /\ x.op.kind = "pair" => x.phase = "serve"
    /\ x.op.kind = "pair" /\ x.pc \in {"stat", "read", "install", "act"} \cup Saving
         => x.op.guess \in Codes
    /\ x.op.kind = "pair" /\ x.pc \in Saving => x.op.dev \in Devices

SoundPlaces == {x \in Places : Sound(x)}
TypeInv == TypeOK /\ at \in [Threads -> SoundPlaces]

\* A thread at rest is at a sound place.
LEMMA RestingPlace == Resting \in SoundPlaces
  BY DEF Resting, SoundPlaces, Sound, Places, Requests, Saving

\* The process of a thread is one of the processes.
LEMMA ProcOf == \A t \in Threads : Proc(t) \in Procs
  BY DEF Threads, Procs, Proc

LEMMA TypeInit == Init => TypeInv
  <1> SUFFICES ASSUME Init PROVE TypeInv
    OBVIOUS
  <1>1. at \in [Threads -> SoundPlaces] /\ at \in [Threads -> Places]
    BY RestingPlace DEF Init, SoundPlaces
  <1>2. cache \in [Procs -> Caches]
    BY DEF Init, Caches, Blank
  <1>3. faults \in 0..MaxFaults
    BY StoreAssumption DEF Init
  <1> QED
    BY <1>1, <1>2, <1>3 DEF Init, TypeOK, TypeInv

\* What a step finds in its thread, in the memory of its process and in the file.
LEMMA Here ==
  ASSUME TypeInv, NEW t \in Threads
  PROVE  /\ at[t] \in SoundPlaces /\ at[t] \in Places /\ Sound(at[t])
         /\ at[t].buf \in SUBSET Devices /\ at[t].seen \in Pairing \cup {None}
         /\ at[t].op \in Requests
         /\ Mine(t) \in SUBSET Devices
         /\ TimeNow(Proc(t)) \in Times \cup {None}
  BY ProcOf DEF TypeInv, TypeOK, SoundPlaces, Places, Mine, TimeNow, Caches, File

\* Going on to the handler of a request.
LEMMA ServePlace ==
  ASSUME TypeInv, NEW t \in Threads, at[t].op.kind # "pair"
  PROVE  Serve(t) \in SoundPlaces
  <1>1. Serve(t) \in Places
    BY Here DEF Places, Serve, Entry
  <1>2. Sound(Serve(t))
    BY Here DEF Places, Serve, Entry, Sound, Saving
  <1> QED
    BY <1>1, <1>2 DEF SoundPlaces

\* Replacing the place of one thread.
LEMMA Placed ==
  ASSUME TypeInv, NEW t \in Threads, NEW x \in SoundPlaces
  PROVE  [at EXCEPT ![t] = x] \in [Threads -> SoundPlaces]
  BY DEF TypeInv

LEMMA ToPlace ==
  ASSUME TypeInv, NEW t \in Threads, NEW l, To(t, l),
         \/ l \in {"act", "read"} /\ at[t].pc \in {"stat", "read"}
         \/ l = "marshal" /\ at[t].pc \in {"act", "clear"}
                          /\ (at[t].pc = "act" => at[t].op.kind # "pair")
         \/ l = "code" /\ at[t].op.kind # "pair"
         \/ l = "remove" /\ at[t].pc = "rename"
  PROVE  at' \in [Threads -> SoundPlaces]
  <1> DEFINE x == [at[t] EXCEPT !.pc = l]
  <1>1. x \in Places /\ Sound(x)
    BY Here DEF Places, Sound, Saving
  <1>2. at' = [at EXCEPT ![t] = x]
    BY DEF To
  <1> QED
    BY <1>1, <1>2, Placed DEF SoundPlaces

LEMMA EndPlace ==
  ASSUME TypeInv, NEW t \in Threads, End(t) PROVE at' \in [Threads -> SoundPlaces]
  BY RestingPlace, Placed DEF End

LEMMA AnswerPlace ==
  ASSUME TypeInv, NEW t \in Threads, Answer(t) PROVE at' \in [Threads -> SoundPlaces]
  <1>1. CASE at[t].phase = "auth"
    BY <1>1, ServePlace, Placed, Here DEF Answer, Sound
  <1>2. CASE at[t].phase # "auth"
    BY <1>2, EndPlace DEF Answer
  <1> QED
    BY <1>1, <1>2


\* Every step leaves every thread at a sound place.
LEMMA PlaceStep ==
  ASSUME TypeInv, [Next]_vars PROVE at' \in [Threads -> SoundPlaces]
  <1>1. ASSUME NEW t \in Threads, Request(t) PROVE at' \in [Threads -> SoundPlaces]
    <2> PICK r \in Requests :
          /\ r.kind = "revoke" <=> r.dev # None
          /\ r.kind = "pair" => r.who = Local
          /\ at' = [at EXCEPT ![t] = 
               [at[t] EXCEPT !.op = r,
                       !.phase = IF r.who = Local THEN "serve" ELSE "auth",
                       !.pc = IF r.who = Local THEN Entry(r.kind) ELSE "stat"]]
      BY <1>1 DEF Request
    <2> DEFINE x == [at[t] EXCEPT !.op = r,
                       !.phase = IF r.who = Local THEN "serve" ELSE "auth",
                       !.pc = IF r.who = Local THEN Entry(r.kind) ELSE "stat"]
    <2>1. x \in Places
      BY Here DEF Places, Entry
    <2>2. Sound(x)
      BY Here DEF Sound, Places, Saving, Entry, Requests
    <2> QED
      BY <2>1, <2>2, Placed DEF SoundPlaces
  <1>2. ASSUME NEW t \in Threads, Start(t) PROVE at' \in [Threads -> SoundPlaces]
    <2> PICK r \in Requests :
          /\ r.kind = "revoke" <=> r.dev # None
          /\ r.kind # "pair"
          /\ at' = [at EXCEPT ![t] = 
               [at[t] EXCEPT !.op = r, !.phase = "load", !.pc = "read"]]
      BY <1>2 DEF Start
    <2> DEFINE x == [at[t] EXCEPT !.op = r, !.phase = "load", !.pc = "read"]
    <2>1. x \in Places
      BY Here DEF Places, Entry
    <2>2. Sound(x)
      BY Here DEF Sound, Places, Saving, Entry, Requests
    <2> QED
      BY <2>1, <2>2, Placed DEF SoundPlaces
  <1>3. ASSUME NEW t \in Threads, Stat(t) PROVE at' \in [Threads -> SoundPlaces]
    BY <1>3, ToPlace DEF Stat, At
  <1>4. ASSUME NEW t \in Threads, Read(t) PROVE at' \in [Threads -> SoundPlaces]
    <2> DEFINE x == [at[t] EXCEPT !.buf = disk.set, !.pc = "install"]
    <2>1. at' = [at EXCEPT ![t] = x]
      BY <1>4 DEF Read
    <2>2. x \in Places
      BY <1>4, Here DEF Read, Places, TypeInv, TypeOK, File
    <2>3. Sound(x)
      BY <1>4, Here DEF Read, Sound, Places, Saving, At
    <2> QED
      BY <2>1, <2>2, <2>3, Placed DEF SoundPlaces
  <1>5. ASSUME NEW t \in Threads, ReadNothing(t) PROVE at' \in [Threads -> SoundPlaces]
    BY <1>5, ToPlace, EndPlace DEF ReadNothing, At
  <1>6. ASSUME NEW t \in Threads, Install(t) PROVE at' \in [Threads -> SoundPlaces]
    <2> DEFINE x == [at[t] EXCEPT !.pc = "act", !.buf = {}]
    <2>1. at' = [at EXCEPT ![t] = x]
      BY <1>6 DEF Install
    <2>2. x \in Places
      BY <1>6, Here DEF Install, Places
    <2>3. Sound(x)
      BY <1>6, Here DEF Install, Sound, Places, Saving, At
    <2> QED
      BY <2>1, <2>2, <2>3, Placed DEF SoundPlaces
  <1>7. ASSUME NEW t \in Threads, Loaded(t) PROVE at' \in [Threads -> SoundPlaces]
    BY <1>7, ServePlace, Placed, Here DEF Loaded, Sound
  <1>8. ASSUME NEW t \in Threads, Lookup(t) PROVE at' \in [Threads -> SoundPlaces]
    BY <1>8, ToPlace, EndPlace, Here DEF Lookup, At, Sound
  <1>9. ASSUME NEW t \in Threads, List(t) PROVE at' \in [Threads -> SoundPlaces]
    BY <1>9, EndPlace DEF List
  <1>10. ASSUME NEW t \in Threads, OfferFirstPairing(t) PROVE at' \in [Threads -> SoundPlaces]
    BY <1>10, ToPlace, EndPlace DEF OfferFirstPairing, Serving
  <1>11. ASSUME NEW t \in Threads, Delete(t) PROVE at' \in [Threads -> SoundPlaces]
    <2> DEFINE x == [at[t] EXCEPT !.pc = "marshal"]
    <2>1. at' = [at EXCEPT ![t] = x]
      BY <1>11 DEF Delete
    <2>2. x \in Places
      BY <1>11, Here DEF Delete, Places
    <2>3. Sound(x)
      BY <1>11, Here DEF Delete, Sound, Places, Saving, At, Serving
    <2> QED
      BY <2>1, <2>2, <2>3, Placed DEF SoundPlaces
  <1>12. ASSUME NEW t \in Threads, DeleteNothing(t) PROVE at' \in [Threads -> SoundPlaces]
    BY <1>12, EndPlace DEF DeleteNothing
  <1>13. ASSUME NEW t \in Threads, Add(t) PROVE at' \in [Threads -> SoundPlaces]
    <2> PICK d \in Devices :
          at' = [at EXCEPT ![t] = [at[t] EXCEPT !.op = [at[t].op EXCEPT !.dev = d],
                                                !.pc = "clear"]]
      BY <1>13 DEF Add
    <2> DEFINE x == [at[t] EXCEPT !.op = [at[t].op EXCEPT !.dev = d], !.pc = "clear"]
    <2>1. [at[t].op EXCEPT !.dev = d] \in Requests
      BY Here DEF Requests
    <2>2. x \in Places
      BY <2>1, Here DEF Places
    <2>3. Sound(x)
      BY <1>13, Here DEF Sound, Places, Requests, Saving, Add, Serving, At
    <2> QED
      BY <2>2, <2>3, Placed DEF SoundPlaces
  <1>14. ASSUME NEW t \in Threads, NewPairingCode(t) PROVE at' \in [Threads -> SoundPlaces]
    BY <1>14, EndPlace DEF NewPairingCode
  <1>15. ASSUME NEW t \in Threads, CancelPairing(t) PROVE at' \in [Threads -> SoundPlaces]
    BY <1>15, EndPlace DEF CancelPairing
  <1>16. ASSUME NEW t \in Threads, ReadPairing(t) PROVE at' \in [Threads -> SoundPlaces]
    <2>1. CASE pairing = None
      BY <1>16, <2>1, EndPlace DEF ReadPairing
    <2>2. CASE pairing # None
      <3> DEFINE x == [at[t] EXCEPT !.seen = pairing, !.pc = "check"]
      <3>1. at' = [at EXCEPT ![t] = x]
        BY <1>16, <2>2 DEF ReadPairing
      <3>2. x \in Places /\ Sound(x)
        BY <2>2, Here DEF Places, Sound, Saving, TypeInv, TypeOK
      <3> QED
        BY <3>1, <3>2, Placed DEF SoundPlaces
    <2> QED
      BY <2>1, <2>2
  <1>17. ASSUME NEW t \in Threads, Expired(t) PROVE at' \in [Threads -> SoundPlaces]
    BY <1>17, EndPlace DEF Expired
  <1>18. ASSUME NEW t \in Threads, Refuse(t) PROVE at' \in [Threads -> SoundPlaces]
    BY <1>18, EndPlace DEF Refuse
  <1>19. ASSUME NEW t \in Threads, Accept(t) PROVE at' \in [Threads -> SoundPlaces]
    <2> DEFINE x == [at[t] EXCEPT !.seen = None, !.pc = "stat"]
    <2>1. at' = [at EXCEPT ![t] = x]
      BY <1>19 DEF Accept
    <2>2. x \in Places
      BY <1>19, Here DEF Accept, Places
    <2>3. Sound(x)
      BY <1>19, Here DEF Accept, Sound, Places, Saving, At, Pairing
    <2> QED
      BY <2>1, <2>2, <2>3, Placed DEF SoundPlaces
  <1>20. ASSUME NEW t \in Threads, ClearPairing(t) PROVE at' \in [Threads -> SoundPlaces]
    BY <1>20, ToPlace DEF ClearPairing, At
  <1>21. ASSUME NEW t \in Threads, Marshal(t) PROVE at' \in [Threads -> SoundPlaces]
    <2> DEFINE x == [at[t] EXCEPT !.buf = Mine(t), !.pc = "open"]
    <2>1. at' = [at EXCEPT ![t] = x]
      BY <1>21 DEF Marshal
    <2>2. x \in Places
      BY <1>21, Here DEF Marshal, Places
    <2>3. Sound(x)
      BY <1>21, Here DEF Marshal, Sound, Places, Saving, At
    <2> QED
      BY <2>1, <2>2, <2>3, Placed DEF SoundPlaces
  <1>22. ASSUME NEW t \in Threads, Open(t) PROVE at' \in [Threads -> SoundPlaces]
    <2> DEFINE x == [at[t] EXCEPT !.fd = "tmp", !.pc = "write"]
    <2>1. at' = [at EXCEPT ![t] = x]
      BY <1>22 DEF Open
    <2>2. x \in Places
      BY <1>22, Here DEF Open, Places
    <2>3. Sound(x)
      BY <1>22, Here DEF Open, Sound, Places, Saving, At
    <2> QED
      BY <2>1, <2>2, <2>3, Placed DEF SoundPlaces
  <1>23. ASSUME NEW t \in Threads, Write(t) PROVE at' \in [Threads -> SoundPlaces]
    <2> DEFINE x == [at[t] EXCEPT !.fd = "gone", !.pc = "rename", !.buf = {}]
    <2>1. at' = [at EXCEPT ![t] = x]
      BY <1>23 DEF Write
    <2>2. x \in Places
      BY <1>23, Here DEF Write, Places
    <2>3. Sound(x)
      BY <1>23, Here DEF Write, Sound, Places, Saving, At
    <2> QED
      BY <2>1, <2>2, <2>3, Placed DEF SoundPlaces
  <1>24. ASSUME NEW t \in Threads, Rename(t) PROVE at' \in [Threads -> SoundPlaces]
    <2>1. ASSUME NEW u \in Threads
          PROVE  [at[u] EXCEPT !.fd = Moved(at[u].fd),
                               !.pc = IF u = t THEN "stamp" ELSE at[u].pc] \in SoundPlaces
      <3> DEFINE x == [at[u] EXCEPT !.fd = Moved(at[u].fd),
                                    !.pc = IF u = t THEN "stamp" ELSE at[u].pc]
      <3>1. at[u] \in Places /\ Sound(at[u])
        BY Here
      <3>2. x \in Places
        BY <3>1 DEF Places, Moved
      <3>3. Sound(x)
        BY <1>24, <3>1 DEF Sound, Places, Saving, Rename, At
      <3> QED
        BY <3>2, <3>3 DEF SoundPlaces
    <2> QED
      BY <1>24, <2>1 DEF Rename
  <1>25. ASSUME NEW t \in Threads, RenameFails(t) PROVE at' \in [Threads -> SoundPlaces]
    BY <1>25, ToPlace DEF RenameFails, At
  <1>26. ASSUME NEW t \in Threads, RemoveTmp(t) PROVE at' \in [Threads -> SoundPlaces]
    BY <1>26, AnswerPlace DEF RemoveTmp
  <1>27. ASSUME NEW t \in Threads, RemoveOther(t) PROVE at' \in [Threads -> SoundPlaces]
    <2>1. ASSUME NEW u \in Threads
          PROVE  [at[u] EXCEPT !.fd = IF at[u].fd = "tmp" THEN "gone" ELSE at[u].fd]
                   \in SoundPlaces
      <3>1. at[u] \in Places /\ Sound(at[u])
        BY Here
      <3> QED
        BY <3>1 DEF SoundPlaces, Sound, Places, Saving
    <2> QED
      BY <1>27, <2>1 DEF RemoveOther
  <1>28. ASSUME NEW t \in Threads, SaveFails(t) PROVE at' \in [Threads -> SoundPlaces]
    BY <1>28, AnswerPlace DEF SaveFails
  <1>29. ASSUME NEW t \in Threads, Stamp(t) PROVE at' \in [Threads -> SoundPlaces]
    BY <1>29, ServePlace, Placed, Here DEF Stamp, Sound
  <1>30. ASSUME NEW t \in Threads, StampAndAnswer(t) PROVE at' \in [Threads -> SoundPlaces]
    BY <1>30, RestingPlace, Placed DEF StampAndAnswer
  <1>31. ASSUME NEW p \in Procs, Crash(p) PROVE at' \in [Threads -> SoundPlaces]
    BY <1>31, RestingPlace DEF Crash, TypeInv
  <1>32. CASE UNCHANGED vars
    BY <1>32 DEF TypeInv, vars
  <1>33. ASSUME NEW t \in Threads, WriteFails(t) PROVE at' \in [Threads -> SoundPlaces]
    BY <1>33, AnswerPlace DEF WriteFails
  <1> QED
    BY <1>1, <1>2, <1>3, <1>4, <1>5, <1>6, <1>7, <1>8, <1>9, <1>10, <1>11, <1>12, <1>13,
       <1>14, <1>15, <1>16, <1>17, <1>18, <1>19, <1>20, <1>21, <1>22, <1>23, <1>24,
       <1>25, <1>26, <1>27, <1>28, <1>29, <1>30, <1>31, <1>32, <1>33 DEF Next, Step

\* The other variables.
LEMMA EndType ==
  ASSUME TypeInv, NEW t \in Threads, End(t) PROVE cache' \in [Procs -> Caches]
  BY DEF TypeInv, TypeOK, End, Blank, Caches

LEMMA AnswerType ==
  ASSUME TypeInv, NEW t \in Threads, Answer(t) PROVE cache' \in [Procs -> Caches]
  BY EndType DEF TypeInv, TypeOK, Answer

\* A process whose memory or whose time changes keeps the type of its cache.
LEMMA CacheType ==
  ASSUME TypeInv, NEW t \in Threads, NEW D \in SUBSET Devices
  PROVE  /\ [cache EXCEPT ![Proc(t)].devices = D] \in [Procs -> Caches]
         /\ Stamped(t) \in [Procs -> Caches]
  BY ProcOf, Here DEF TypeInv, TypeOK, Caches, Stamped

\* What is written to a file is of the type of a file.
LEMMA PutType ==
  ASSUME TypeInv, NEW t \in Threads, NEW s \in (SUBSET Devices) \cup Unreadable, Put(t, s)
  PROVE  disk' \in File \cup {None} /\ tmp' \in File \cup {None}
  <1> PICK x \in NewTimes :
        LET f == [set |-> s, time |-> x] IN
        /\ tmp' = IF at[t].fd = "tmp" THEN f ELSE tmp
        /\ disk' = IF at[t].fd = "disk" THEN f ELSE disk
    BY DEF Put
  <1>1. x \in Times
    BY DEF NewTimes
  <1> QED
    BY <1>1 DEF TypeInv, TypeOK, File

\* Whether something was changed under another operation is yes or no.
LEMMA TouchType ==
  ASSUME TypeInv, NEW t \in Threads, Touch(t) PROVE overlapped' \in BOOLEAN
  BY DEF TypeInv, TypeOK, Touch

LEMMA TypeStep == TypeInv /\ [Next]_vars => TypeInv'
  <1> SUFFICES ASSUME TypeInv, [Next]_vars PROVE TypeInv'
    OBVIOUS
  <1>0. at' \in [Threads -> SoundPlaces] /\ at' \in [Threads -> Places]
    BY PlaceStep DEF SoundPlaces
  <1> SUFFICES TypeOK'
    BY <1>0 DEF TypeInv
  <1> USE <1>0 DEF files, history
  <1>1. ASSUME NEW t \in Threads, Request(t) PROVE TypeOK'
    BY <1>1 DEF TypeInv, TypeOK, Request
  <1>2. ASSUME NEW t \in Threads, Start(t) PROVE TypeOK'
    BY <1>2 DEF TypeInv, TypeOK, Start
  <1>3. ASSUME NEW t \in Threads, Stat(t) PROVE TypeOK'
    BY <1>3 DEF TypeInv, TypeOK, Stat, To
  <1>4. ASSUME NEW t \in Threads, Read(t) PROVE TypeOK'
    BY <1>4 DEF TypeInv, TypeOK, Read
  <1>5. ASSUME NEW t \in Threads, ReadNothing(t) PROVE TypeOK'
    BY <1>5, EndType DEF TypeInv, TypeOK, ReadNothing, To
  <1>6. ASSUME NEW t \in Threads, Install(t) PROVE TypeOK'
    <2>1. cache' \in [Procs -> Caches]
      BY <1>6, Here DEF TypeInv, TypeOK, Install, Caches
    <2> QED
      BY <1>6, <2>1 DEF TypeInv, TypeOK, Install
  <1>7. ASSUME NEW t \in Threads, Loaded(t) PROVE TypeOK'
    BY <1>7 DEF TypeInv, TypeOK, Loaded
  <1>8. ASSUME NEW t \in Threads, Lookup(t) PROVE TypeOK'
    BY <1>8, EndType DEF TypeInv, TypeOK, Lookup, To
  <1>9. ASSUME NEW t \in Threads, List(t) PROVE TypeOK'
    BY <1>9, EndType DEF TypeInv, TypeOK, List
  <1>10. ASSUME NEW t \in Threads, OfferFirstPairing(t) PROVE TypeOK'
    BY <1>10, EndType DEF TypeInv, TypeOK, OfferFirstPairing, To
  <1>11. ASSUME NEW t \in Threads, Delete(t) PROVE TypeOK'
    <2>1. cache' \in [Procs -> Caches]
      BY <1>11 DEF TypeInv, TypeOK, Delete, Caches
    <2> QED
      BY <1>11, <2>1, TouchType DEF TypeInv, TypeOK, Delete
  <1>12. ASSUME NEW t \in Threads, DeleteNothing(t) PROVE TypeOK'
    BY <1>12, EndType DEF TypeInv, TypeOK, DeleteNothing
  <1>13. ASSUME NEW t \in Threads, Add(t) PROVE TypeOK'
    <2> PICK d \in Devices :
          /\ cache' = [cache EXCEPT ![Proc(t)].devices = @ \cup {d}]
          /\ issued' = issued \cup {<<at[t].op.guess, d>>}
      BY <1>13 DEF Add
    <2>1. cache' \in [Procs -> Caches]
      BY DEF TypeInv, TypeOK, Caches
    <2>2. at[t].op.guess \in Codes
      BY <1>13, Here DEF Add, Serving, At, Sound
    <2> QED
      BY <1>13, <2>1, <2>2, TouchType DEF TypeInv, TypeOK, Add
  <1>14. ASSUME NEW t \in Threads, NewPairingCode(t) PROVE TypeOK'
    BY <1>14, EndType, TouchType, StoreAssumption DEF TypeInv, TypeOK, NewPairingCode, Pairing
  <1>15. ASSUME NEW t \in Threads, CancelPairing(t) PROVE TypeOK'
    BY <1>15, EndType, TouchType DEF TypeInv, TypeOK, CancelPairing
  <1>16. ASSUME NEW t \in Threads, ReadPairing(t) PROVE TypeOK'
    BY <1>16, EndType DEF TypeInv, TypeOK, ReadPairing
  <1>17. ASSUME NEW t \in Threads, Expired(t) PROVE TypeOK'
    BY <1>17, EndType, TouchType DEF TypeInv, TypeOK, Expired
  <1>18. ASSUME NEW t \in Threads, Refuse(t) PROVE TypeOK'
    <2> DEFINE s == at[t].seen
    <2>1. s \in Pairing
      BY <1>18, Here DEF Refuse, At, Sound
    <2>2. pairing' \in Pairing \cup {None}
      BY <1>18, <2>1, StoreAssumption DEF Refuse, Pairing
    <2> QED
      BY <1>18, <2>2, EndType, TouchType DEF TypeInv, TypeOK, Refuse
  <1>19. ASSUME NEW t \in Threads, Accept(t) PROVE TypeOK'
    BY <1>19 DEF TypeInv, TypeOK, Accept
  <1>20. ASSUME NEW t \in Threads, ClearPairing(t) PROVE TypeOK'
    BY <1>20, TouchType DEF TypeInv, TypeOK, ClearPairing, To
  <1>21. ASSUME NEW t \in Threads, Marshal(t) PROVE TypeOK'
    BY <1>21 DEF TypeInv, TypeOK, Marshal
  <1>22. ASSUME NEW t \in Threads, Open(t) PROVE TypeOK'
    BY <1>22, TouchType DEF TypeInv, TypeOK, Open, NewTimes, File, Unreadable
  <1>23. ASSUME NEW t \in Threads, Write(t) PROVE TypeOK'
    <2> PICK s \in {at[t].buf} \cup (IF Empty(t) THEN {} ELSE {Garbled}) : Put(t, s)
      BY <1>23 DEF Write
    <2>1. disk' \in File \cup {None} /\ tmp' \in File \cup {None}
      BY PutType, Here DEF Unreadable
    <2> QED
      BY <1>23, <2>1, TouchType DEF TypeInv, TypeOK, Write
  <1>24. ASSUME NEW t \in Threads, Rename(t) PROVE TypeOK'
    BY <1>24, TouchType DEF TypeInv, TypeOK, Rename
  <1>25. ASSUME NEW t \in Threads, RenameFails(t) PROVE TypeOK'
    BY <1>25 DEF TypeInv, TypeOK, RenameFails, To
  <1>26. ASSUME NEW t \in Threads, RemoveTmp(t) PROVE TypeOK'
    BY <1>26, AnswerType DEF TypeInv, TypeOK, RemoveTmp
  <1>27. ASSUME NEW t \in Threads, RemoveOther(t) PROVE TypeOK'
    BY <1>27, TouchType DEF TypeInv, TypeOK, RemoveOther
  <1>28. ASSUME NEW t \in Threads, SaveFails(t) PROVE TypeOK'
    BY <1>28, AnswerType, StoreAssumption DEF TypeInv, TypeOK, SaveFails
  <1>29. ASSUME NEW t \in Threads, Stamp(t) PROVE TypeOK'
    BY <1>29, CacheType DEF TypeInv, TypeOK, Stamp
  <1>30. ASSUME NEW t \in Threads, StampAndAnswer(t) PROVE TypeOK'
    <2>1. Stamped(t) \in [Procs -> Caches] /\ Blank \in Caches
      BY CacheType DEF Blank, Caches
    <2>2. cache' \in [Procs -> Caches]
      BY <1>30, <2>1 DEF StampAndAnswer
    <2>3. /\ at[t].op.kind = "pair" => at[t].op.dev \in Devices
          /\ at[t].op.kind = "revoke" => at[t].op.dev \in Devices
      BY <1>30, Here DEF StampAndAnswer, At, Sound, Saving
    <2> QED
      BY <1>30, <2>2, <2>3 DEF TypeInv, TypeOK, StampAndAnswer
  <1>31. ASSUME NEW p \in Procs, Crash(p) PROVE TypeOK'
    BY <1>31, StoreAssumption DEF TypeInv, TypeOK, Crash, Caches, Blank
  <1>32. CASE UNCHANGED vars
    BY <1>32 DEF TypeInv, TypeOK, vars
  <1>33. ASSUME NEW t \in Threads, WriteFails(t) PROVE TypeOK'
    <2>1. disk' \in File \cup {None} /\ tmp' \in File \cup {None}
      BY <1>33, PutType DEF WriteFails, Unreadable
    <2> QED
      BY <1>33, <2>1, AnswerType, TouchType, StoreAssumption DEF TypeInv, TypeOK, WriteFails
  <1> QED
    BY <1>1, <1>2, <1>3, <1>4, <1>5, <1>6, <1>7, <1>8, <1>9, <1>10, <1>11, <1>12, <1>13,
       <1>14, <1>15, <1>16, <1>17, <1>18, <1>19, <1>20, <1>21, <1>22, <1>23, <1>24,
       <1>25, <1>26, <1>27, <1>28, <1>29, <1>30, <1>31, <1>32, <1>33 DEF Next, Step

\* TYPES.  Every variable keeps its type in every run.
THEOREM StoreTypeCorrect == Spec => []TypeOK
  <1>1. TypeInv => TypeOK
    BY DEF TypeInv
  <1>2. TypeInv /\ [Next]_vars => TypeInv'
    BY TypeStep
  <1> QED
    BY TypeInit, <1>1, <1>2, PTL DEF Spec

-----------------------------------------------------------------------------
\* Whoever saves has the temporary file for itself, and finds it as it made it,
\* unless another save came in between.
Cut(f) == f # None /\ f.set \in Unreadable

WholeInv ==
    /\ \A t \in Threads : at[t].fd # "gone" => at[t].pc = "write"
    /\ \A t \in Threads : at[t].fd = "tmp" => tmp # None
    /\ Cut(disk) => overlapped
    /\ \A t \in Threads : at[t].pc = "write" =>
         overlapped \/ (at[t].fd = "tmp" /\ tmp.set = Torn)
    /\ \A t \in Threads : at[t].pc = "rename" /\ Cut(tmp) => overlapped

\* A step of t that has nothing to do with the files.
Aside(t) ==
    /\ files' = files /\ faults' = faults
    /\ overlapped => overlapped'
    /\ \A u \in Threads \ {t} : at'[u] = at[u]
    /\ at[t].pc # "write" /\ at'[t].pc \notin {"write", "rename"}
    /\ at'[t].fd \in {at[t].fd, "gone"}

LEMMA AsideKeeps ==
  ASSUME TypeInv, WholeInv, NEW t \in Threads, Aside(t) PROVE WholeInv'
  <1>1. at[t].fd = "gone" /\ at'[t].fd = "gone"
    BY DEF WholeInv, Aside
  <1>2. \A u \in Threads : at'[u].fd = at[u].fd
    BY <1>1 DEF Aside
  <1>4. Cut(tmp)' = Cut(tmp) /\ Cut(disk)' = Cut(disk) /\ tmp' = tmp
    BY DEF Aside, Cut, files
  <1> QED
    BY <1>1, <1>2, <1>4 DEF WholeInv, Aside

\* Moving to another place, and answering, are steps aside.
LEMMA ToAside ==
  ASSUME TypeInv, NEW t \in Threads, NEW l \in {"act", "read", "code", "marshal", "remove"},
         To(t, l)
  PROVE  /\ \A u \in Threads \ {t} : at'[u] = at[u]
         /\ at'[t].pc = l /\ at'[t].fd = at[t].fd
  BY Here DEF To, TypeInv, TypeOK, Places

LEMMA EndAside ==
  ASSUME TypeInv, NEW t \in Threads, End(t)
  PROVE  /\ \A u \in Threads \ {t} : at'[u] = at[u]
         /\ at'[t] = Resting
  BY DEF End, TypeInv, TypeOK

\* Whoever answers has closed its file.
LEMMA AnswerAside ==
  ASSUME TypeInv, NEW t \in Threads, Answer(t)
  PROVE  /\ \A u \in Threads \ {t} : at'[u] = at[u]
         /\ at'[t].fd = "gone" /\ at'[t].pc \in {"idle", "code", "stat"}
  <1>1. CASE at[t].phase = "auth"
    <2>1. at' = [at EXCEPT ![t] = Serve(t)]
      BY <1>1 DEF Answer
    <2>2. at'[t] = Serve(t) /\ \A u \in Threads \ {t} : at'[u] = at[u]
      BY <2>1 DEF TypeInv, TypeOK
    <2>3. Serve(t).fd = "gone" /\ Serve(t).pc = Entry(at[t].op.kind)
      BY Here DEF Serve, Places
    <2> QED
      BY <2>2, <2>3 DEF Entry
  <1>2. CASE at[t].phase # "auth"
    <2>1. End(t)
      BY <1>2 DEF Answer
    <2> QED
      BY <2>1, EndAside DEF Resting
  <1> QED
    BY <1>1, <1>2

\* What is written does not take the file away.
LEMMA PutSome ==
  ASSUME NEW t \in Threads, NEW s \in (SUBSET Devices) \cup Unreadable, Put(t, s)
  PROVE  tmp # None => tmp' # None
  <1> PICK x \in NewTimes :
        LET f == [set |-> s, time |-> x] IN
        /\ tmp' = IF at[t].fd = "tmp" THEN f ELSE tmp
        /\ disk' = IF at[t].fd = "disk" THEN f ELSE disk
    BY DEF Put
  <1> QED
    BY StoreAssumption DEF NewTimes, Unreadable

LEMMA TouchGrows ==
  ASSUME NEW t \in Threads, Touch(t) PROVE overlapped => overlapped'
  BY DEF Touch

\* One step for each step of the program.
LEMMA WholeStep == TypeInv /\ WholeInv /\ [Next]_vars => WholeInv'
  <1> SUFFICES ASSUME TypeInv, WholeInv, [Next]_vars PROVE WholeInv'
    OBVIOUS
  <1>1. ASSUME NEW t \in Threads, Request(t) PROVE WholeInv'
    <2>1. Aside(t)
      BY <1>1, Here DEF Request, Aside, At, files, history, Entry, TypeInv, TypeOK, Places
    <2> QED
      BY <2>1, AsideKeeps
  <1>2. ASSUME NEW t \in Threads, Start(t) PROVE WholeInv'
    <2>1. Aside(t)
      BY <1>2, Here DEF Start, Aside, At, files, history, TypeInv, TypeOK, Places
    <2> QED
      BY <2>1, AsideKeeps
  <1>3. ASSUME NEW t \in Threads, Stat(t) PROVE WholeInv'
    <2>1. Aside(t)
      BY <1>3, Here, ToAside DEF Stat, Aside, At, files, history, TypeInv, TypeOK, Places
    <2> QED
      BY <2>1, AsideKeeps
  <1>4. ASSUME NEW t \in Threads, Read(t) PROVE WholeInv'
    <2>1. Aside(t)
      BY <1>4, Here DEF Read, Aside, At, files, history, TypeInv, TypeOK, Places
    <2> QED
      BY <2>1, AsideKeeps
  <1>5. ASSUME NEW t \in Threads, ReadNothing(t) PROVE WholeInv'
    <2>1. Aside(t)
      BY <1>5, Here, ToAside, EndAside DEF ReadNothing, Aside, At, files, history, Resting, TypeInv, TypeOK, Places
    <2> QED
      BY <2>1, AsideKeeps
  <1>6. ASSUME NEW t \in Threads, Install(t) PROVE WholeInv'
    <2>1. Aside(t)
      BY <1>6, Here DEF Install, Aside, At, files, history, TypeInv, TypeOK, Places
    <2> QED
      BY <2>1, AsideKeeps
  <1>7. ASSUME NEW t \in Threads, Loaded(t) PROVE WholeInv'
    <2>1. Aside(t)
      BY <1>7, Here DEF Loaded, Aside, At, files, history, Serve, Entry, TypeInv, TypeOK, Places
    <2> QED
      BY <2>1, AsideKeeps
  <1>8. ASSUME NEW t \in Threads, Lookup(t) PROVE WholeInv'
    <2>1. Aside(t)
      BY <1>8, Here, ToAside, EndAside DEF Lookup, Aside, At, files, history, Resting, TypeInv, TypeOK, Places
    <2> QED
      BY <2>1, AsideKeeps
  <1>9. ASSUME NEW t \in Threads, List(t) PROVE WholeInv'
    <2>1. Aside(t)
      BY <1>9, Here, EndAside DEF List, Aside, At, files, history, Resting, Serving, TypeInv, TypeOK, Places
    <2> QED
      BY <2>1, AsideKeeps
  <1>10. ASSUME NEW t \in Threads, OfferFirstPairing(t) PROVE WholeInv'
    <2>1. Aside(t)
      BY <1>10, Here, ToAside, EndAside DEF OfferFirstPairing, Aside, At, files, history, Resting, Serving, TypeInv, TypeOK, Places
    <2> QED
      BY <2>1, AsideKeeps
  <1>11. ASSUME NEW t \in Threads, Delete(t) PROVE WholeInv'
    <2>1. Aside(t)
      BY <1>11, Here, TouchGrows DEF Delete, Aside, At, files, history, Serving, TypeInv, TypeOK, Places
    <2> QED
      BY <2>1, AsideKeeps
  <1>12. ASSUME NEW t \in Threads, DeleteNothing(t) PROVE WholeInv'
    <2>1. Aside(t)
      BY <1>12, Here, EndAside DEF DeleteNothing, Aside, At, files, history, Resting, Serving, TypeInv, TypeOK, Places
    <2> QED
      BY <2>1, AsideKeeps
  <1>13. ASSUME NEW t \in Threads, Add(t) PROVE WholeInv'
    <2>1. Aside(t)
      BY <1>13, Here, TouchGrows DEF Add, Aside, At, files, history, Serving, TypeInv, TypeOK, Places
    <2> QED
      BY <2>1, AsideKeeps
  <1>14. ASSUME NEW t \in Threads, NewPairingCode(t) PROVE WholeInv'
    <2>1. Aside(t)
      BY <1>14, Here, EndAside, TouchGrows DEF NewPairingCode, Aside, At, files, history, Resting, TypeInv, TypeOK, Places
    <2> QED
      BY <2>1, AsideKeeps
  <1>15. ASSUME NEW t \in Threads, CancelPairing(t) PROVE WholeInv'
    <2>1. Aside(t)
      BY <1>15, Here, EndAside, TouchGrows DEF CancelPairing, Aside, At, files, history, Resting, TypeInv, TypeOK, Places
    <2> QED
      BY <2>1, AsideKeeps
  <1>16. ASSUME NEW t \in Threads, ReadPairing(t) PROVE WholeInv'
    <2>1. Aside(t)
      BY <1>16, Here, EndAside DEF ReadPairing, Aside, At, files, history, Resting, TypeInv, TypeOK, Places
    <2> QED
      BY <2>1, AsideKeeps
  <1>17. ASSUME NEW t \in Threads, Expired(t) PROVE WholeInv'
    <2>1. Aside(t)
      BY <1>17, Here, EndAside, TouchGrows DEF Expired, Aside, At, files, history, Resting, TypeInv, TypeOK, Places
    <2> QED
      BY <2>1, AsideKeeps
  <1>18. ASSUME NEW t \in Threads, Refuse(t) PROVE WholeInv'
    <2>1. Aside(t)
      BY <1>18, Here, EndAside, TouchGrows DEF Refuse, Aside, At, files, history, Resting, TypeInv, TypeOK, Places
    <2> QED
      BY <2>1, AsideKeeps
  <1>19. ASSUME NEW t \in Threads, Accept(t) PROVE WholeInv'
    <2>1. Aside(t)
      BY <1>19, Here DEF Accept, Aside, At, files, history, TypeInv, TypeOK, Places
    <2> QED
      BY <2>1, AsideKeeps
  <1>20. ASSUME NEW t \in Threads, ClearPairing(t) PROVE WholeInv'
    <2>1. Aside(t)
      BY <1>20, Here, ToAside, TouchGrows DEF ClearPairing, Aside, At, files, history, TypeInv, TypeOK, Places
    <2> QED
      BY <2>1, AsideKeeps
  <1>21. ASSUME NEW t \in Threads, Marshal(t) PROVE WholeInv'
    <2>1. Aside(t)
      BY <1>21, Here DEF Marshal, Aside, At, files, history, TypeInv, TypeOK, Places
    <2> QED
      BY <2>1, AsideKeeps
  <1>22. ASSUME NEW t \in Threads, RenameFails(t) PROVE WholeInv'
    <2>1. Aside(t)
      BY <1>22, Here, ToAside DEF RenameFails, Aside, At, files, history, TypeInv, TypeOK, Places
    <2> QED
      BY <2>1, AsideKeeps
  <1>23. ASSUME NEW t \in Threads, RemoveTmp(t) PROVE WholeInv'
    <2>1. Aside(t)
      BY <1>23, Here, AnswerAside DEF RemoveTmp, Aside, At, files, history, TypeInv, TypeOK, Places
    <2> QED
      BY <2>1, AsideKeeps
  <1>24. ASSUME NEW t \in Threads, Stamp(t) PROVE WholeInv'
    <2>1. Aside(t)
      BY <1>24, Here DEF Stamp, Aside, At, files, history, Serve, Entry, TypeInv, TypeOK, Places
    <2> QED
      BY <2>1, AsideKeeps
  <1>25. ASSUME NEW t \in Threads, StampAndAnswer(t) PROVE WholeInv'
    <2>1. Aside(t)
      BY <1>25, Here DEF StampAndAnswer, Aside, At, files, history, Resting, TypeInv, TypeOK, Places
    <2> QED
      BY <2>1, AsideKeeps
  <1>26. ASSUME NEW t \in Threads, Open(t) PROVE WholeInv'
    <2>1. /\ at'[t].fd = "tmp" /\ at'[t].pc = "write" /\ at[t].pc = "open"
          /\ \A u \in Threads \ {t} : at'[u] = at[u]
      BY <1>26, Here DEF Open, At, TypeInv, TypeOK, Places
    <2>2. tmp' # None /\ tmp'.set = Torn /\ disk' = disk
      BY <1>26, StoreAssumption DEF Open, NewTimes
    <2>3. \A u \in Threads \ {t} : at[u].pc \in {"rename", "write"} => overlapped'
      BY <1>26 DEF Open, Touch, At
    <2>4. overlapped => overlapped'
      BY <1>26, TouchGrows DEF Open
    <2>5. \A u \in Threads : at'[u].pc = "write" =>
            overlapped' \/ (at'[u].fd = "tmp" /\ tmp'.set = Torn)
      BY <2>1, <2>2, <2>3
    <2>6. \A u \in Threads : at'[u].pc = "rename" => overlapped'
      BY <2>1, <2>3
    <2> QED
      BY <2>1, <2>2, <2>4, <2>5, <2>6 DEF WholeInv, Cut
  <1>27. ASSUME NEW t \in Threads, Write(t) PROVE WholeInv'
    <2> PICK s \in {at[t].buf} \cup (IF Empty(t) THEN {} ELSE {Garbled}) : Put(t, s)
      BY <1>27 DEF Write
    <2>1. /\ at'[t].fd = "gone" /\ at'[t].pc = "rename" /\ at[t].pc = "write"
          /\ \A u \in Threads \ {t} : at'[u] = at[u]
      BY <1>27, Here DEF Write, At, TypeInv, TypeOK, Places
    <2>2. \A u \in Threads \ {t} : at[u].pc \in {"rename", "write"} => overlapped'
      BY <1>27 DEF Write, Touch, At
    <2>3. overlapped => overlapped'
      BY <1>27, TouchGrows DEF Write
    <2>4. tmp # None => tmp' # None
      BY PutSome, Here DEF Unreadable
    <2>5. CASE overlapped
      BY <2>1, <2>3, <2>4, <2>5 DEF WholeInv
    <2>6. CASE ~overlapped
      <3>1. at[t].fd = "tmp" /\ Empty(t) /\ ~Cut(disk)
        BY <2>1, <2>6 DEF WholeInv, Empty
      <3>2. s \in SUBSET Devices /\ disk' = disk /\ tmp'.set = s
        BY <3>1, Here DEF Put
      <3>3. ~Cut(tmp)' /\ ~Cut(disk)'
        BY <3>1, <3>2, StoreAssumption DEF Cut, Unreadable
      <3> QED
        BY <2>1, <2>2, <2>4, <3>3 DEF WholeInv
    <2> QED
      BY <2>5, <2>6
  <1>28. ASSUME NEW t \in Threads, Rename(t) PROVE WholeInv'
    <2>1. \A u \in Threads : at'[u].fd = Moved(at[u].fd)
                              /\ at'[u].pc = IF u = t THEN "stamp" ELSE at[u].pc
      BY <1>28, Here DEF Rename, TypeInv, TypeOK, Places
    <2>2. tmp' = None /\ disk' = tmp /\ at[t].pc = "rename"
      BY <1>28 DEF Rename, At
    <2>3. \A u \in Threads \ {t} : at[u].pc = "write" => overlapped'
      BY <1>28 DEF Rename, Touch, At
    <2>4. Cut(disk)' => overlapped'
      BY <1>28, <2>2, TouchGrows DEF Rename, WholeInv, Cut
    <2>5. \A u \in Threads : at'[u].fd # "gone" => at'[u].pc = "write" /\ at'[u].fd # "tmp"
      BY <2>1, <2>2 DEF Moved, WholeInv
    <2> QED
      BY <2>1, <2>2, <2>3, <2>4, <2>5 DEF WholeInv, Cut
  <1>29. ASSUME NEW t \in Threads, RemoveOther(t) PROVE WholeInv'
    <2>1. \A u \in Threads : at'[u].pc = at[u].pc
                              /\ at'[u].fd = IF at[u].fd = "tmp" THEN "gone" ELSE at[u].fd
      BY <1>29, Here DEF RemoveOther, TypeInv, TypeOK, Places
    <2>2. tmp' = None /\ disk' = disk /\ at[t].pc = "remove"
      BY <1>29 DEF RemoveOther, At
    <2>3. \A u \in Threads \ {t} : at[u].pc = "write" => overlapped'
      BY <1>29 DEF RemoveOther, Touch, At
    <2> QED
      BY <1>29, <2>1, <2>2, <2>3, TouchGrows DEF RemoveOther, WholeInv, Cut
  <1>30. ASSUME NEW t \in Threads, SaveFails(t) PROVE WholeInv'
    <2>1. /\ \A u \in Threads \ {t} : at'[u] = at[u]
          /\ at'[t].fd = "gone" /\ at'[t].pc \in {"idle", "code", "stat"}
      BY <1>30, AnswerAside DEF SaveFails
    <2>2. tmp' = tmp /\ disk' = disk /\ overlapped' = overlapped
      BY <1>30 DEF SaveFails, files
    <2> QED
      BY <2>1, <2>2 DEF WholeInv, Cut
  <1>31. ASSUME NEW t \in Threads, WriteFails(t) PROVE WholeInv'
    <2>1. /\ \A u \in Threads \ {t} : at'[u] = at[u]
          /\ at'[t].fd = "gone" /\ at'[t].pc \in {"idle", "code", "stat"}
          /\ at[t].pc = "write" /\ Put(t, Garbled)
      BY <1>31, AnswerAside DEF WriteFails, At
    <2>2. \A u \in Threads \ {t} : at[u].pc \in {"rename", "write"} => overlapped'
      BY <1>31 DEF WriteFails, Touch, At
    <2>3. overlapped => overlapped'
      BY <1>31, TouchGrows DEF WriteFails
    <2>4. tmp # None => tmp' # None
      BY <2>1, PutSome DEF Unreadable
    <2>5. CASE overlapped
      BY <2>1, <2>3, <2>4, <2>5 DEF WholeInv
    <2>6. CASE ~overlapped
      <3>1. disk' = disk /\ ~Cut(disk)
        BY <2>1, <2>6 DEF WholeInv, Put
      <3> QED
        BY <2>1, <2>2, <2>4, <3>1 DEF WholeInv, Cut
    <2> QED
      BY <2>5, <2>6
  <1>33. ASSUME NEW p \in Procs, Crash(p) PROVE WholeInv'
    <2>1. \A u \in Threads : at'[u] = Resting \/ at'[u] = at[u]
      BY <1>33 DEF Crash
    <2>2. tmp' = tmp /\ disk' = disk /\ overlapped' = overlapped
      BY <1>33 DEF Crash, files
    <2> QED
      BY <2>1, <2>2 DEF WholeInv, Cut, Resting
  <1>32. CASE UNCHANGED vars
    BY <1>32 DEF vars, files, WholeInv, Cut
  <1> QED
    BY <1>1, <1>2, <1>3, <1>4, <1>5, <1>6, <1>7, <1>8, <1>9, <1>10, <1>11, <1>12,
       <1>13, <1>14, <1>15, <1>16, <1>17, <1>18, <1>19, <1>20, <1>21, <1>22, <1>23,
       <1>24, <1>25, <1>26, <1>27, <1>28, <1>29, <1>30, <1>31, <1>32, <1>33 DEF Next, Step

LEMMA WholeInit == Init => WholeInv
  BY DEF Init, WholeInv, Cut, Resting

\* THE DEVICES SURVIVE.  The file of the devices cannot be parsed only after saves
\* that overlapped: no crash and no failed write by itself loses the devices.
THEOREM FileStaysWhole == Spec => []FileIsWhole
  <1>1. Init => WholeInv
    BY WholeInit
  <1>2. TypeInv /\ WholeInv /\ [Next]_vars => WholeInv'
    BY WholeStep
  <1>3. WholeInv => FileIsWhole
    BY DEF WholeInv, FileIsWhole, Cut
  <1> QED
    BY TypeInit, TypeStep, <1>1, <1>2, <1>3, PTL DEF Spec

-----------------------------------------------------------------------------
\* How the steps move their thread.  The process of one thread only.
LEMMA OwnProc ==
  /\ \A t, u \in Threads : t \in Procs /\ Proc(u) = t => u = t
  /\ \A t \in Threads : t \in Procs => t \in Commands /\ Proc(t) = t
  BY StoreAssumption DEF Threads, Procs, Proc

Keeps(t) == at'[t].phase = at[t].phase /\ at'[t].op = at[t].op
Others(t) == \A u \in Threads \ {t} : at'[u] = at[u]

\* A step of t that leaves files and devices alone; a command that ends forgets.
Passes(t) ==
    /\ UNCHANGED <<disk, tmp, paired, revoked, issued>>
    /\ overlapped => overlapped'
    /\ Others(t)
    /\ \A p \in Procs : cache'[p] = cache[p] \/ (p = t /\ cache'[p] = Blank)

\* The places where nothing is known of the store.
Calm == {"idle", "stat", "code", "check"}
Calms(t) ==
    /\ Passes(t) /\ at[t].pc # "clear"
    /\ at'[t].pc \in Calm /\ at'[t].buf \subseteq at[t].buf

LEMMA EndCalms ==
  ASSUME TypeInv, NEW t \in Threads, End(t), at[t].pc # "clear", UNCHANGED <<disk, tmp, paired, revoked, issued>>,
         overlapped => overlapped'
  PROVE  Calms(t)
  <1>1. Others(t) /\ at'[t].pc = "idle" /\ at'[t].buf = {}
    BY EndAside DEF Others, Resting
  <1>2. \A p \in Procs : cache'[p] = cache[p] \/ (p = t /\ cache'[p] = Blank)
    BY DEF End
  <1> QED
    BY <1>1, <1>2 DEF Calms, Passes, Calm

LEMMA ServeCalms ==
  ASSUME TypeInv, NEW t \in Threads, at' = [at EXCEPT ![t] = Serve(t)]
  PROVE  Others(t) /\ at'[t].pc \in {"stat", "code"} /\ at'[t].buf = {}
  <1>1. at'[t] = Serve(t) /\ Others(t)
    BY DEF TypeInv, TypeOK, Others
  <1>2. Serve(t).pc = Entry(at[t].op.kind) /\ Serve(t).buf = {}
    BY Here DEF Serve, Places
  <1> QED
    BY <1>1, <1>2 DEF Entry

LEMMA AnswerCalms ==
  ASSUME TypeInv, NEW t \in Threads, Answer(t), at[t].pc # "clear",
         UNCHANGED <<disk, tmp, paired, revoked, issued, overlapped>>
  PROVE  Calms(t)
  BY EndCalms, ServeCalms DEF Answer, Calms, Passes, Calm

\* All the steps that come to such a place and change no file and no history but
\* that of the codes.
LEMMA CalmSteps ==
  ASSUME TypeInv, NEW t \in Threads,
         \/ Request(t) \/ Loaded(t) \/ List(t) \/ OfferFirstPairing(t) \/ DeleteNothing(t)
         \/ NewPairingCode(t) \/ CancelPairing(t) \/ ReadPairing(t) \/ Expired(t) \/ Refuse(t)
         \/ Accept(t) \/ RemoveTmp(t) \/ SaveFails(t)
         \/ Lookup(t) /\ at[t].op.who \notin Mine(t)
  PROVE  Calms(t)
  <1>1. CASE Request(t)
    <2>1. PICK r \in Requests :
             at' = [at EXCEPT ![t].op = r,
                              ![t].phase = IF r.who = Local THEN "serve" ELSE "auth",
                              ![t].pc = IF r.who = Local THEN Entry(r.kind) ELSE "stat"]
      BY <1>1 DEF Request
    <2>2. Others(t) /\ at'[t].pc \in Calm /\ at'[t].buf = at[t].buf
      BY <2>1, Here DEF Others, Calm, Entry, TypeInv, TypeOK, Places
    <2> QED
      BY <1>1, <2>2 DEF Request, Calms, Passes, At, Serving, files, history
  <1>2. CASE Loaded(t)
    BY <1>2, ServeCalms DEF Loaded, Calms, Passes, Calm, At, Serving, files, history
  <1>3. CASE List(t) \/ DeleteNothing(t) \/ (Lookup(t) /\ at[t].op.who \notin Mine(t))
    BY <1>3, EndCalms DEF List, DeleteNothing, Lookup, At, Serving, files, history
  <1>4. CASE OfferFirstPairing(t)
    <2>1. CASE To(t, "code")
      BY <1>4, <2>1, Here DEF OfferFirstPairing, To, Calms, Passes, Others, Calm, At, Serving, files, history,
                              TypeInv, TypeOK, Places
    <2> QED
      BY <1>4, <2>1, EndCalms DEF OfferFirstPairing, At, Serving, files, history
  <1>5. CASE NewPairingCode(t) \/ CancelPairing(t) \/ Expired(t) \/ Refuse(t)
    BY <1>5, EndCalms, TouchGrows DEF NewPairingCode, CancelPairing, Expired, Refuse, At, Serving, files, history
  <1>6. CASE ReadPairing(t)
    <2>1. CASE pairing # None
      BY <1>6, <2>1, Here DEF ReadPairing, Calms, Passes, Others, Calm, At, Serving, files, history,
                              TypeInv, TypeOK, Places
    <2> QED
      BY <1>6, <2>1, EndCalms DEF ReadPairing, At, Serving, files, history
  <1>7. CASE Accept(t)
    BY <1>7, Here DEF Accept, Calms, Passes, Others, Calm, At, Serving, files, history, TypeInv, TypeOK, Places
  <1>8. CASE RemoveTmp(t) \/ SaveFails(t)
    BY <1>8, AnswerCalms DEF RemoveTmp, SaveFails, At, Serving, files, history
  <1> QED
    BY <1>1, <1>2, <1>3, <1>4, <1>5, <1>6, <1>7, <1>8

\* The others that change no file and no device.
Fresh(p) == disk = None \/ cache[p].modTime = disk.time

LEMMA ToPasses ==
  ASSUME TypeInv, NEW t \in Threads, NEW l, To(t, l), UNCHANGED <<disk, tmp, paired, revoked, issued>>,
         overlapped => overlapped'
  PROVE  Passes(t) /\ UNCHANGED cache /\ Keeps(t) /\ at'[t].pc = l /\ at'[t].buf = at[t].buf
  BY Here DEF To, Passes, Keeps, Others, TypeInv, TypeOK, Places

LEMMA StatMoves ==
  ASSUME TypeInv, NEW t \in Threads, Stat(t)
  PROVE  /\ Passes(t) /\ UNCHANGED cache /\ Keeps(t) /\ at'[t].buf = at[t].buf
         /\ at[t].pc = "stat" /\ at'[t].pc = IF Fresh(Proc(t)) THEN "act" ELSE "read"
  BY ToPasses DEF Stat, At, Fresh, files, history

LEMMA StartMoves ==
  ASSUME TypeInv, NEW t \in Threads, Start(t)
  PROVE  /\ Passes(t) /\ UNCHANGED cache /\ at'[t].buf = at[t].buf
         /\ at'[t].pc = "read" /\ at'[t].phase = "load" /\ at'[t].op.kind # "pair"
         /\ \A u \in Threads : Proc(u) = Proc(t) => at[u].pc = "idle"
  <1>1. /\ Passes(t) /\ UNCHANGED cache /\ at'[t].buf = at[t].buf
        /\ at'[t].pc = "read" /\ at'[t].phase = "load" /\ at'[t].op.kind # "pair"
    BY Here DEF Start, Passes, Others, files, history, TypeInv, TypeOK, Places
  <1>2. t \in Handlers => \A u \in Handlers : at[u].pc = "idle"
    BY DEF Start, At
  <1>3. \A u \in Threads : Proc(u) = Proc(t) => u = t \/ (u \in Handlers /\ t \in Handlers)
    BY StoreAssumption DEF Threads, Proc
  <1> QED
    BY <1>1, <1>2, <1>3 DEF Start, At

LEMMA ReadMoves ==
  ASSUME TypeInv, NEW t \in Threads, Read(t)
  PROVE  /\ Passes(t) /\ UNCHANGED cache /\ Keeps(t) /\ at[t].pc = "read" /\ at'[t].pc = "install"
         /\ disk # None /\ disk.set \in SUBSET Devices /\ at'[t].buf = disk.set
  BY Here DEF Read, At, Passes, Keeps, Others, files, history, TypeInv, TypeOK, Places, File

LEMMA ReadNothingMoves ==
  ASSUME TypeInv, WholeInv, NEW t \in Threads, ReadNothing(t)
  PROVE  \/ Calms(t)
         \/ /\ Passes(t) /\ UNCHANGED cache /\ Keeps(t) /\ at'[t].buf = at[t].buf
            /\ at[t].pc = "read" /\ at'[t].pc = "act" /\ (disk = None \/ overlapped)
  <1>1. CASE End(t)
    BY <1>1, EndCalms DEF ReadNothing, At, files, history
  <1>2. CASE To(t, "act")
    BY <1>2, ToPasses DEF ReadNothing, At, files, history, WholeInv, Cut
  <1> QED
    BY <1>1, <1>2 DEF ReadNothing

LEMMA LookupMoves ==
  ASSUME TypeInv, NEW t \in Threads, Lookup(t), at[t].op.who \in Mine(t)
  PROVE  /\ Passes(t) /\ UNCHANGED cache /\ Keeps(t) /\ at'[t].buf = at[t].buf
         /\ at[t].pc = "act" /\ at'[t].pc = "marshal" /\ at[t].phase = "auth"
  BY ToPasses DEF Lookup, At, files, history

LEMMA ClearMoves ==
  ASSUME TypeInv, NEW t \in Threads, ClearPairing(t)
  PROVE  /\ Passes(t) /\ UNCHANGED cache /\ Keeps(t) /\ at'[t].buf = at[t].buf
         /\ at[t].pc = "clear" /\ at'[t].pc = "marshal" /\ Touch(t) /\ pairing' = None
  BY ToPasses, TouchGrows DEF ClearPairing, At, files, history

LEMMA MarshalMoves ==
  ASSUME TypeInv, NEW t \in Threads, Marshal(t)
  PROVE  /\ Passes(t) /\ UNCHANGED cache /\ Keeps(t) /\ at'[t].buf = Mine(t)
         /\ at[t].pc = "marshal" /\ at'[t].pc = "open"
  BY Here DEF Marshal, At, Passes, Keeps, Others, files, history, TypeInv, TypeOK, Places

LEMMA RenameFailsMoves ==
  ASSUME TypeInv, NEW t \in Threads, RenameFails(t)
  PROVE  /\ Passes(t) /\ UNCHANGED cache /\ Keeps(t) /\ at'[t].buf = at[t].buf
         /\ at[t].pc = "rename" /\ at'[t].pc = "remove"
  BY ToPasses DEF RenameFails, At, files, history

\* The steps that change a device, the file or what is remembered of it.
LEMMA InstallMoves ==
  ASSUME TypeInv, NEW t \in Threads, Install(t)
  PROVE  /\ UNCHANGED <<disk, tmp, paired, revoked, issued, overlapped>>
         /\ Others(t) /\ Keeps(t) /\ at[t].pc = "install" /\ at'[t].pc = "act" /\ at'[t].buf = {}
         /\ cache'[Proc(t)].devices = at[t].buf
         /\ cache'[Proc(t)].modTime = TimeNow(Proc(t))
         /\ \A p \in Procs \ {Proc(t)} : cache'[p] = cache[p]
  BY Here, ProcOf DEF Install, At, Keeps, Others, files, history, TypeInv, TypeOK, Places

LEMMA DeleteMoves ==
  ASSUME TypeInv, NEW t \in Threads, Delete(t)
  PROVE  /\ UNCHANGED <<disk, tmp, revoked, issued>> /\ Touch(t)
         /\ Others(t) /\ Keeps(t) /\ at'[t].pc = "marshal" /\ at'[t].buf = at[t].buf
         /\ at[t].pc = "act" /\ at[t].op.kind = "revoke" /\ at[t].op.dev \in Mine(t)
         /\ cache'[Proc(t)].devices = Mine(t) \ {at[t].op.dev}
         /\ \A p \in Procs : cache'[p].modTime = cache[p].modTime
         /\ \A p \in Procs \ {Proc(t)} : cache'[p] = cache[p]
         /\ paired' = paired \ {at[t].op.dev}
  BY Here, ProcOf DEF Delete, Serving, At, Mine, Keeps, Others, files, TypeInv, TypeOK, Places, Caches

LEMMA AddMoves ==
  ASSUME TypeInv, NEW t \in Threads, Add(t)
  PROVE  \E d \in Devices \ {i[2] : i \in issued} :
           /\ UNCHANGED <<disk, tmp, revoked, paired, pairing, minted>> /\ Touch(t)
           /\ Others(t) /\ at'[t].pc = "clear" /\ at'[t].buf = at[t].buf
           /\ at[t].pc = "act" /\ at[t].phase = "serve" /\ at'[t].phase = "serve"
           /\ at[t].op.kind = "pair" /\ at'[t].op.kind = "pair"
           /\ at'[t].op.dev = d /\ at'[t].op.guess = at[t].op.guess
           /\ cache'[Proc(t)].devices = Mine(t) \cup {d}
           /\ \A p \in Procs : cache'[p].modTime = cache[p].modTime
           /\ \A p \in Procs \ {Proc(t)} : cache'[p] = cache[p]
           /\ issued' = issued \cup {<<at[t].op.guess, d>>}
  <1>1. PICK d \in Devices \ {i[2] : i \in issued} :
          /\ cache' = [cache EXCEPT ![Proc(t)].devices = @ \cup {d}]
          /\ issued' = issued \cup {<<at[t].op.guess, d>>}
          /\ at' = [at EXCEPT ![t].op.dev = d, ![t].pc = "clear"]
    BY DEF Add
  <1>2. /\ Others(t) /\ at'[t].pc = "clear" /\ at'[t].buf = at[t].buf
        /\ at'[t].phase = at[t].phase /\ at'[t].op = [at[t].op EXCEPT !.dev = d]
    BY <1>1, Here DEF Others, TypeInv, TypeOK, Places
  <1>3. at'[t].op.dev = d /\ at'[t].op.kind = at[t].op.kind /\ at'[t].op.guess = at[t].op.guess
    BY <1>2, Here DEF Requests
  <1>4. /\ cache'[Proc(t)].devices = Mine(t) \cup {d}
        /\ \A p \in Procs : cache'[p].modTime = cache[p].modTime
        /\ \A p \in Procs \ {Proc(t)} : cache'[p] = cache[p]
    BY <1>1, ProcOf DEF Mine, TypeInv, TypeOK, Caches
  <1> QED
    BY <1>1, <1>2, <1>3, <1>4 DEF Add, Serving, At, files

\* Steps of a save.  Others may have the file open; when they have not, they stay
\* where they are.
Rests(u) == at'[u].pc = at[u].pc /\ at'[u].phase = at[u].phase /\ at'[u].op = at[u].op
            /\ at'[u].buf = at[u].buf /\ at'[u].seen = at[u].seen

LEMMA OpenMoves ==
  ASSUME TypeInv, NEW t \in Threads, Open(t)
  PROVE  /\ UNCHANGED <<disk, cache, paired, revoked, issued>> /\ Touch(t)
         /\ Others(t) /\ Keeps(t) /\ at'[t].buf = at[t].buf
         /\ at[t].pc = "open" /\ at'[t].pc = "write"
         /\ \E x \in NewTimes : tmp' = [set |-> Torn, time |-> x]
  BY Here DEF Open, At, Keeps, Others, history, TypeInv, TypeOK, Places

LEMMA WriteMoves ==
  ASSUME TypeInv, NEW t \in Threads, Write(t)
  PROVE  /\ UNCHANGED <<cache, paired, revoked, issued>> /\ Touch(t)
         /\ Others(t) /\ Keeps(t) /\ at'[t].buf = {}
         /\ at[t].pc = "write" /\ at'[t].pc = "rename"
         /\ \E s \in {at[t].buf} \cup (IF Empty(t) THEN {} ELSE {Garbled}) : Put(t, s)
  BY Here DEF Write, At, Keeps, Others, history, TypeInv, TypeOK, Places

LEMMA RenameMoves ==
  ASSUME TypeInv, NEW t \in Threads, Rename(t)
  PROVE  /\ UNCHANGED <<cache, paired, revoked, issued>> /\ Touch(t)
         /\ tmp # None /\ disk' = tmp /\ tmp' = None
         /\ \A u \in Threads \ {t} : Rests(u)
         /\ Keeps(t) /\ at'[t].buf = at[t].buf /\ at[t].pc = "rename" /\ at'[t].pc = "stamp"
  BY Here DEF Rename, At, Keeps, Rests, history, TypeInv, TypeOK, Places

LEMMA RemoveOtherMoves ==
  ASSUME TypeInv, NEW t \in Threads, RemoveOther(t)
  PROVE  /\ UNCHANGED <<disk, cache, paired, revoked, issued>> /\ Touch(t)
         /\ tmp' = None /\ at[t].pc = "remove" /\ \A u \in Threads : Rests(u)
  BY Here DEF RemoveOther, At, Rests, history, TypeInv, TypeOK, Places

LEMMA WriteFailsMoves ==
  ASSUME TypeInv, NEW t \in Threads, WriteFails(t)
  PROVE  /\ UNCHANGED <<paired, revoked, issued>> /\ Touch(t) /\ at[t].pc = "write"
         /\ Others(t) /\ at'[t].pc \in Calm /\ at'[t].buf = {}
         /\ \A p \in Procs : cache'[p] = cache[p] \/ (p = t /\ cache'[p] = Blank)
         /\ Put(t, Garbled)
  <1>1. CASE at[t].phase = "auth"
    BY <1>1, ServeCalms DEF WriteFails, Answer, At, Calm, history
  <1>2. CASE at[t].phase # "auth"
    <2>1. End(t)
      BY <1>2 DEF WriteFails, Answer
    <2>3. \A p \in Procs : cache'[p] = cache[p] \/ (p = t /\ cache'[p] = Blank)
      BY <2>1 DEF End
    <2>2. /\ Others(t) /\ at'[t].pc = "idle" /\ at'[t].buf = {}
      BY <2>1, EndAside DEF Others, Resting
    <2> QED
      BY <2>2, <2>3 DEF WriteFails, At, Calm, history
  <1> QED
    BY <1>1, <1>2

LEMMA StampMoves ==
  ASSUME TypeInv, NEW t \in Threads, Stamp(t)
  PROVE  /\ UNCHANGED <<disk, tmp, paired, revoked, issued, overlapped>>
         /\ Others(t) /\ at[t].pc = "stamp" /\ at[t].phase = "auth"
         /\ at'[t].pc \in Calm /\ at'[t].buf = {}
         /\ cache'[Proc(t)].devices = Mine(t)
         /\ cache'[Proc(t)].modTime = TimeNow(Proc(t))
         /\ \A p \in Procs \ {Proc(t)} : cache'[p] = cache[p]
  <1>1. Others(t) /\ at'[t].pc \in Calm /\ at'[t].buf = {}
    BY ServeCalms DEF Stamp, Calm
  <1> QED
    BY <1>1, ProcOf DEF Stamp, Stamped, At, Mine, files, history, TypeInv, TypeOK, Caches

LEMMA StampAndAnswerMoves ==
  ASSUME TypeInv, NEW t \in Threads, StampAndAnswer(t)
  PROVE  /\ UNCHANGED <<disk, tmp, issued, overlapped>>
         /\ Others(t) /\ at[t].pc = "stamp" /\ at[t].phase = "serve"
         /\ at'[t].pc = "idle" /\ at'[t].buf = {}
         /\ \/ cache'[Proc(t)].devices = Mine(t) /\ cache'[Proc(t)].modTime = TimeNow(Proc(t))
            \/ Proc(t) = t /\ cache'[Proc(t)] = Blank
         /\ \A p \in Procs \ {Proc(t)} : cache'[p] = cache[p]
         /\ paired' = IF at[t].op.kind = "pair" THEN paired \cup {at[t].op.dev} ELSE paired
         /\ revoked' = IF at[t].op.kind = "revoke" THEN revoked \cup {at[t].op.dev} ELSE revoked
  <1>1. at'[t] = Resting /\ Others(t)
    BY DEF StampAndAnswer, Others, TypeInv, TypeOK
  <1>2. \A p \in Procs : cache'[p] = IF p = t THEN Blank ELSE Stamped(t)[p]
    BY DEF StampAndAnswer
  <1>3. /\ Stamped(t)[Proc(t)].devices = Mine(t)
        /\ Stamped(t)[Proc(t)].modTime = TimeNow(Proc(t))
        /\ \A p \in Procs \ {Proc(t)} : Stamped(t)[p] = cache[p]
    BY ProcOf DEF Stamped, Mine, TypeInv, TypeOK, Caches
  <1>4. t \in Procs => Proc(t) = t
    BY OwnProc
  <1> QED
    BY <1>1, <1>2, <1>3, <1>4, ProcOf DEF StampAndAnswer, At, Resting, files

LEMMA CrashMoves ==
  ASSUME TypeInv, NEW p \in Procs, Crash(p)
  PROVE  /\ UNCHANGED <<disk, tmp, paired, revoked, issued, overlapped, pairing, minted>>
         /\ \A u \in Threads : at'[u] = IF Proc(u) = p THEN Resting ELSE at[u]
         /\ cache'[p] = Blank /\ \A q \in Procs \ {p} : cache'[q] = cache[q]
  BY DEF Crash, files, history, TypeInv, TypeOK

\* Every step is one of these.
LEMMA StepKinds ==
  ASSUME TypeInv, WholeInv, [Next]_vars
  PROVE  \/ UNCHANGED vars
         \/ \E p \in Procs : Crash(p)
         \/ \E t \in Threads :
              \/ Calms(t)
              \/ Start(t) \/ Stat(t) \/ Read(t) \/ Install(t) \/ Delete(t) \/ Add(t)
              \/ ReadNothing(t) /\ ~Calms(t)
              \/ Lookup(t) /\ at[t].op.who \in Mine(t)
              \/ ClearPairing(t) \/ Marshal(t) \/ Open(t) \/ Write(t) \/ Rename(t)
              \/ RenameFails(t) \/ RemoveOther(t) \/ WriteFails(t) \/ Stamp(t) \/ StampAndAnswer(t)
  BY CalmSteps DEF Next, Step

-----------------------------------------------------------------------------
\* Whoever is in a memory, a file or a history was made by a code.
Made == {i[2] : i \in issued}

\* One who answers for a device: has made it, or was asked to take it away.
Answers(x) == x.phase = "serve" /\ x.op.kind \in {"pair", "revoke"} /\ x.pc \in Saving

MadeInv ==
    /\ \A p \in Procs : cache[p].devices \subseteq Made
    /\ \A t \in Threads : at[t].buf \subseteq Made
    /\ \A f \in {disk, tmp} : f # None /\ f.set \in SUBSET Devices => f.set \subseteq Made
    /\ paired \subseteq Made /\ revoked \subseteq Made
    /\ \A t \in Threads : Answers(at[t]) => at[t].op.dev \in Made

LEMMA PassesMade ==
  ASSUME MadeInv, NEW t \in Threads, Passes(t), at'[t].buf \subseteq Made,
         Answers(at'[t]) => at'[t].op.dev \in Made
  PROVE  MadeInv'
  BY DEF MadeInv, Passes, Others, Made, Blank

LEMMA MadeStep ==
  ASSUME TypeInv, WholeInv, MadeInv, [Next]_vars PROVE MadeInv'
  <1>1. CASE UNCHANGED vars
    BY <1>1 DEF vars, files, history, MadeInv, Made
  <1>2. ASSUME NEW p \in Procs, Crash(p) PROVE MadeInv'
    BY <1>2, CrashMoves DEF MadeInv, Made, Answers, Saving, Resting, Blank
  <1>3. ASSUME NEW t \in Threads, Calms(t) PROVE MadeInv'
    BY <1>3, PassesMade DEF Calms, Calm, Answers, Saving, MadeInv
  <1>4. ASSUME NEW t \in Threads, Start(t) \/ Stat(t) PROVE MadeInv'
    BY <1>4, PassesMade, StartMoves, StatMoves DEF Answers, Saving, MadeInv
  <1>5. ASSUME NEW t \in Threads, Read(t) PROVE MadeInv'
    BY <1>5, PassesMade, ReadMoves DEF Answers, Saving, MadeInv
  <1>6. ASSUME NEW t \in Threads, ReadNothing(t), ~Calms(t) PROVE MadeInv'
    BY <1>6, PassesMade, ReadNothingMoves DEF Answers, Saving, MadeInv
  <1>7. ASSUME NEW t \in Threads, Lookup(t), at[t].op.who \in Mine(t) PROVE MadeInv'
    BY <1>7, PassesMade, LookupMoves DEF Keeps, Answers, Saving, MadeInv
  <1>8. ASSUME NEW t \in Threads, ClearPairing(t) \/ RenameFails(t) PROVE MadeInv'
    BY <1>8, PassesMade, ClearMoves, RenameFailsMoves DEF Keeps, Answers, Saving, MadeInv
  <1>9. ASSUME NEW t \in Threads, Marshal(t) PROVE MadeInv'
    BY <1>9, PassesMade, MarshalMoves, ProcOf DEF Keeps, Answers, Saving, MadeInv, Mine
  <1>10. ASSUME NEW t \in Threads, Install(t) PROVE MadeInv'
    BY <1>10, InstallMoves DEF Others, Keeps, Answers, Saving, MadeInv, Made
  <1>11. ASSUME NEW t \in Threads, Delete(t) PROVE MadeInv'
    BY <1>11, DeleteMoves, ProcOf DEF Others, Keeps, Answers, Saving, MadeInv, Made, Mine
  <1>12. ASSUME NEW t \in Threads, Add(t) PROVE MadeInv'
    <2> PICK d \in Devices :
          /\ Others(t) /\ at'[t].op.dev = d /\ at'[t].buf = at[t].buf
          /\ cache'[Proc(t)].devices = Mine(t) \cup {d}
          /\ \A p \in Procs \ {Proc(t)} : cache'[p] = cache[p]
          /\ issued' = issued \cup {<<at[t].op.guess, d>>}
          /\ UNCHANGED <<disk, tmp, paired, revoked>>
      BY <1>12, AddMoves
    <2>1. Made' = Made \cup {d}
      <3>1. <<at[t].op.guess, d>>[2] = d
        OBVIOUS
      <3>2. \A e : e \in Made' <=> e \in Made \/ e = d
        BY <3>1 DEF Made
      <3> QED
        BY <3>2
    <2>2. ASSUME NEW p \in Procs PROVE cache'[p].devices \subseteq Made'
      <3>1. cache[p].devices \subseteq Made
        BY DEF MadeInv
      <3>2. cache'[p].devices \subseteq cache[p].devices \cup {d}
        BY DEF Mine
      <3> QED
        BY <2>1, <3>1, <3>2
    <2>3. \A u \in Threads : /\ at'[u].buf \subseteq Made'
                             /\ Answers(at'[u]) => at'[u].op.dev \in Made'
      BY <2>1 DEF Others, MadeInv
    <2> QED
      BY <2>1, <2>2, <2>3 DEF MadeInv
  <1>13. ASSUME NEW t \in Threads, Open(t) PROVE MadeInv'
    BY <1>13, OpenMoves, StoreAssumption DEF Others, Keeps, Answers, Saving, MadeInv, Made
  <1>14. ASSUME NEW t \in Threads, NEW s \in (SUBSET Devices) \cup Unreadable, Put(t, s),
                s \in SUBSET Devices => s \subseteq Made, issued' = issued
         PROVE  \A f \in {disk', tmp'} : f # None /\ f.set \in SUBSET Devices => f.set \subseteq Made'
    BY <1>14 DEF Put, MadeInv, Made
  <1>15. ASSUME NEW t \in Threads, Write(t) PROVE MadeInv'
    <2> PICK s \in {at[t].buf} \cup (IF Empty(t) THEN {} ELSE {Garbled}) : Put(t, s)
      BY <1>15, WriteMoves
    <2>1. s \in (SUBSET Devices) \cup Unreadable /\ (s \in SUBSET Devices => s \subseteq Made)
      BY Here, StoreAssumption DEF Unreadable, MadeInv
    <2> QED
      BY <1>14, <1>15, <2>1, WriteMoves DEF Others, Keeps, Answers, Saving, MadeInv, Made
  <1>16. ASSUME NEW t \in Threads, WriteFails(t) PROVE MadeInv'
    <2>1. Garbled \in (SUBSET Devices) \cup Unreadable /\ Garbled \notin SUBSET Devices
      BY StoreAssumption DEF Unreadable
    <2> QED
      BY <1>14, <1>16, <2>1, WriteFailsMoves DEF Others, Calm, Blank, Answers, Saving, MadeInv, Made
  <1>17. ASSUME NEW t \in Threads, Rename(t) PROVE MadeInv'
    BY <1>17, RenameMoves DEF Rests, Keeps, Answers, Saving, MadeInv, Made
  <1>18. ASSUME NEW t \in Threads, RemoveOther(t) PROVE MadeInv'
    BY <1>18, RemoveOtherMoves DEF Rests, Answers, Saving, MadeInv, Made
  <1>19. ASSUME NEW t \in Threads, Stamp(t) PROVE MadeInv'
    BY <1>19, StampMoves, ProcOf DEF Others, Calm, Answers, Saving, MadeInv, Made, Mine
  <1>20. ASSUME NEW t \in Threads, StampAndAnswer(t) PROVE MadeInv'
    BY <1>20, StampAndAnswerMoves, ProcOf DEF Others, Blank, Answers, Saving, MadeInv, Made, Mine
  <1> QED
    BY <1>1, <1>2, <1>3, <1>4, <1>5, <1>6, <1>7, <1>8, <1>9, <1>10, <1>11, <1>12, <1>13,
       <1>15, <1>16, <1>17, <1>18, <1>19, <1>20, StepKinds

-----------------------------------------------------------------------------
\* Why promises are kept as long as no change falls into another operation.  A
\* list of devices is good if it has all that were promised to stay and none that
\* was promised to be out; it suits one who saves if the device it will answer for
\* is in it, or out of it.
Good(D) == paired \subseteq D /\ revoked \cap D = {}
Meets(x, D) == x.phase = "serve" => /\ x.op.kind = "pair" => x.op.dev \in D
                                    /\ x.op.kind = "revoke" => x.op.dev \notin D
Suits(x, D) == Good(D) /\ Meets(x, D)

\* Whoever works on the memory has the one the file is remembered by; what is read
\* is what is in the file; what is to be saved is good at every step of the way.
Working == {"act", "clear", "marshal", "open", "write", "rename"}
ThreadOK(t) ==
    /\ at[t].pc \in Working => Fresh(Proc(t))
    /\ at[t].pc = "install" => disk # None /\ at[t].buf = disk.set
    /\ at[t].pc \in (Working \ {"act"}) \cup {"stamp"} => Suits(at[t], Mine(t))
    /\ at[t].pc \in {"open", "write"} => Suits(at[t], at[t].buf)
    /\ at[t].pc = "rename" /\ tmp # None => Suits(at[t], tmp.set)
    /\ at[t].pc = "stamp" => disk # None /\ Suits(at[t], disk.set)

\* Before the answer everybody who knows the new file has the device as answered.
StampOK(t) ==
    at[t].pc = "stamp" =>
        /\ \A p \in Procs : Fresh(p) => Meets(at[t], cache[p].devices)
        /\ \A u \in Threads : at[u].pc = "open" => Meets(at[t], at[u].buf)

\* The temporary file is nobody's memory yet.
TimesApart ==
    tmp # None => /\ disk # None => tmp.time # disk.time
                  /\ \A p \in Procs : cache[p].modTime # tmp.time

FileGood == IF disk = None THEN paired = {} /\ revoked = {} ELSE Good(disk.set)
CachesGood == \A p \in Procs : Fresh(p) => Good(cache[p].devices)

\* One at a time is past its first change, and nobody reads the old file over a
\* memory that has one to save.
Late == {"clear", "write", "rename", "remove", "stamp"}
OneLate == \A t, u \in Threads : at[t].pc \in Late /\ at[u].pc \in Late => t = u
Owes(x) == x.phase = "serve" /\ x.pc \in Working \ {"act"}
NotReplaced ==
    \A t, u \in Threads : t # u /\ Proc(t) = Proc(u) /\ Owes(at[t]) => at[u].pc \notin {"read", "install"}

OrderInv ==
    /\ TimesApart /\ FileGood /\ CachesGood
    /\ \A t \in Threads : ThreadOK(t) /\ StampOK(t)
    /\ OneLate /\ NotReplaced

LEMMA OrderInit == Init => OrderInv
  BY StoreAssumption
     DEF Init, OrderInv, TimesApart, FileGood, CachesGood, Good, ThreadOK, StampOK, OneLate, Late,
         NotReplaced, Owes, Working, Resting

\* A step that leaves files and devices alone.
LEMMA PassesOrder ==
  ASSUME TypeInv, TypeInv', OrderInv, NEW t \in Threads, Passes(t),
         ThreadOK(t)', at'[t].pc # "stamp",
         at'[t].pc \in Late => at[t].pc \in Late,
         Owes(at'[t]) => Owes(at[t]),
         at'[t].pc \in {"read", "install"} =>
           \/ at[t].pc \in {"read", "install"}
           \/ ~Fresh(Proc(t))
           \/ \A u \in Threads : Proc(u) = Proc(t) => at[u].pc = "idle",
         at'[t].pc = "open" => at'[t].buf = Mine(t) /\ Fresh(Proc(t))
  PROVE  OrderInv'
  <1>1. \A p \in Procs : cache'[p] = cache[p] \/ (p = t /\ cache'[p] = Blank)
    BY DEF Passes
  <1>2. FileGood'
    BY DEF Passes, FileGood, OrderInv, Good
  <1>3. TimesApart'
    <2>1. tmp # None => tmp.time \in Times
      BY DEF TypeInv, TypeOK, File
    <2> QED
      BY <1>1, <2>1, StoreAssumption DEF Passes, OrderInv, TimesApart, Blank
  <1>4. ASSUME NEW p \in Procs, cache'[p] = Blank, Fresh(p)' PROVE disk' = None /\ Good(cache[p].devices)'
    <2>1. disk' # None => disk'.time \in Times
      BY DEF TypeInv, TypeOK, File
    <2>2. disk' = None
      BY <1>4, <2>1, StoreAssumption DEF Fresh, Blank
    <2> QED
      BY <1>2, <1>4, <2>2 DEF FileGood, Good, Blank
  <1>5. CachesGood'
    <2>1. ASSUME NEW p \in Procs, Fresh(p)' PROVE Good(cache[p].devices)'
      BY <1>1, <1>4, <2>1 DEF Passes, OrderInv, CachesGood, Fresh, Good
    <2> QED
      BY <2>1 DEF CachesGood
  <1>6. ASSUME NEW u \in Threads \ {t} PROVE ThreadOK(u)'
    <2>1. cache'[Proc(u)] = cache[Proc(u)] /\ at'[u] = at[u]
      BY <1>1, ProcOf, OwnProc DEF Passes, Others
    <2> QED
      BY <2>1 DEF Passes, OrderInv, ThreadOK, Fresh, Mine, Suits, Good
  <1>7. ASSUME NEW u \in Threads \ {t} PROVE StampOK(u)'
    <2> SUFFICES ASSUME at[u].pc = "stamp"
                 PROVE  /\ \A p \in Procs : Fresh(p)' => Meets(at[u], cache'[p].devices)
                        /\ \A v \in Threads : at'[v].pc = "open" => Meets(at[u], at'[v].buf)
      BY DEF Passes, Others, StampOK
    <2>1. /\ disk # None
          /\ \A p \in Procs : Fresh(p) => Meets(at[u], cache[p].devices)
          /\ \A v \in Threads : at[v].pc = "open" => Meets(at[u], at[v].buf)
      BY DEF OrderInv, ThreadOK, StampOK
    <2>2. ASSUME NEW p \in Procs, Fresh(p)' PROVE Meets(at[u], cache'[p].devices)
      <3>1. cache'[p] = cache[p]
        BY <1>1, <1>4, <2>1, <2>2 DEF Passes
      <3> QED
        BY <2>1, <2>2, <3>1 DEF Passes, Fresh
    <2>3. ASSUME NEW v \in Threads, at'[v].pc = "open" PROVE Meets(at[u], at'[v].buf)
      BY <2>1, <2>3, ProcOf DEF Passes, Others, Mine
    <2> QED
      BY <2>2, <2>3
  <1>8. OneLate'
    BY DEF Passes, Others, OrderInv, OneLate
  <1>9. NotReplaced'
    <2>1. ASSUME NEW u \in Threads, u # t, Proc(u) = Proc(t), Owes(at[u]) PROVE Fresh(Proc(t)) /\ at[u].pc # "idle"
      BY <2>1 DEF OrderInv, ThreadOK, Owes, Working
    <2> QED
      BY <2>1 DEF Passes, Others, OrderInv, NotReplaced
  <1>10. StampOK(t)'
    BY DEF StampOK
  <1> QED
    BY <1>2, <1>3, <1>5, <1>6, <1>7, <1>8, <1>9, <1>10 DEF OrderInv

\* A change that nobody else is under way to see.
Alone(t) == \A u \in Threads \ {t} : at[u].pc = "idle"

LEMMA TouchAlone ==
  ASSUME TypeInv, NEW t \in Threads, Touch(t), ~overlapped' PROVE ~overlapped /\ Alone(t)
  BY DEF Touch, Alone, At

LEMMA AloneOrder ==
  ASSUME TypeInv, TypeInv', NEW t \in Threads, Alone(t)',
         TimesApart', FileGood', CachesGood', ThreadOK(t)', StampOK(t)'
  PROVE  OrderInv'
  BY DEF OrderInv, Alone, ThreadOK, StampOK, OneLate, Late, NotReplaced, Owes, Working

\* The steps that leave them alone, one by one.
LEMMA PassesSteps ==
  ASSUME TypeInv, TypeInv', WholeInv, OrderInv, NEW t \in Threads, ~overlapped',
         \/ Calms(t) \/ Start(t) \/ Stat(t) \/ Read(t) \/ (ReadNothing(t) /\ ~Calms(t))
         \/ Lookup(t) /\ at[t].op.who \in Mine(t)
         \/ ClearPairing(t) \/ Marshal(t) \/ RenameFails(t)
  PROVE  OrderInv'
  <1> USE DEF Working, Late, Owes
  <1>1. ASSUME Calms(t) PROVE OrderInv'
    BY <1>1, PassesOrder DEF Calms, Calm, ThreadOK
  <1>2. ASSUME Start(t) PROVE OrderInv'
    BY <1>2, StartMoves, PassesOrder DEF ThreadOK
  <1>3. ASSUME Stat(t) PROVE OrderInv'
    <2>1. ThreadOK(t)'
      BY <1>3, StatMoves DEF ThreadOK, Passes, Fresh
    <2> QED
      BY <1>3, <2>1, StatMoves, PassesOrder DEF Keeps
  <1>4. ASSUME Read(t) PROVE OrderInv'
    <2>1. ThreadOK(t)'
      BY <1>4, ReadMoves DEF ThreadOK, Passes
    <2> QED
      BY <1>4, <2>1, ReadMoves, PassesOrder DEF Keeps
  <1>5. ASSUME ReadNothing(t), ~Calms(t) PROVE OrderInv'
    <2>1. /\ Passes(t) /\ UNCHANGED cache /\ Keeps(t) /\ at'[t].pc = "act" /\ disk = None
      BY <1>5, ReadNothingMoves DEF Passes
    <2>2. ThreadOK(t)'
      BY <2>1 DEF ThreadOK, Passes, Fresh
    <2> QED
      BY <2>1, <2>2, PassesOrder
  <1>6. ASSUME Lookup(t), at[t].op.who \in Mine(t) PROVE OrderInv'
    <2>1. Passes(t) /\ UNCHANGED cache /\ at'[t].pc = "marshal" /\ at'[t].phase = "auth" /\ at[t].pc = "act"
      BY <1>6, LookupMoves DEF Keeps
    <2>2. Fresh(Proc(t)) /\ Good(Mine(t))
      BY <2>1, ProcOf DEF OrderInv, ThreadOK, CachesGood, Mine
    <2>3. Fresh(Proc(t))' /\ Suits(at[t], Mine(t))'
      BY <2>1, <2>2 DEF Passes, Fresh, Suits, Good, Meets, Mine
    <2>4. ThreadOK(t)'
      BY <2>1, <2>3 DEF ThreadOK
    <2> QED
      BY <2>1, <2>4, PassesOrder
  <1>7. ASSUME ClearPairing(t) PROVE OrderInv'
    <2>1. Passes(t) /\ UNCHANGED cache /\ Keeps(t) /\ at[t].pc = "clear" /\ at'[t].pc = "marshal"
      BY <1>7, ClearMoves
    <2>2. Fresh(Proc(t)) /\ Suits(at[t], Mine(t))
      BY <2>1 DEF OrderInv, ThreadOK
    <2>3. ThreadOK(t)'
      BY <2>1, <2>2 DEF ThreadOK, Passes, Keeps, Fresh, Suits, Good, Meets, Mine
    <2> QED
      BY <2>1, <2>3, PassesOrder DEF Keeps
  <1>8. ASSUME Marshal(t) PROVE OrderInv'
    <2>1. /\ Passes(t) /\ UNCHANGED cache /\ Keeps(t) /\ at[t].pc = "marshal" /\ at'[t].pc = "open"
          /\ at'[t].buf = Mine(t)
      BY <1>8, MarshalMoves
    <2>2. Fresh(Proc(t)) /\ Suits(at[t], Mine(t))
      BY <2>1 DEF OrderInv, ThreadOK
    <2>3. ThreadOK(t)'
      BY <2>1, <2>2 DEF ThreadOK, Passes, Keeps, Fresh, Suits, Good, Meets, Mine
    <2> QED
      BY <2>1, <2>2, <2>3, PassesOrder DEF Keeps
  <1>9. ASSUME RenameFails(t) PROVE OrderInv'
    BY <1>9, RenameFailsMoves, PassesOrder DEF ThreadOK, Keeps
  <1> QED
    BY <1>1, <1>2, <1>3, <1>4, <1>5, <1>6, <1>7, <1>8, <1>9

\* The changes, which come alone.
LEMMA DeleteOrder ==
  ASSUME TypeInv, TypeInv', OrderInv, NEW t \in Threads, Delete(t), ~overlapped'
  PROVE  OrderInv'
  <1> DEFINE d == at[t].op.dev
  <1>1. /\ UNCHANGED <<disk, tmp, revoked>> /\ Others(t) /\ Keeps(t)
        /\ at[t].pc = "act" /\ at'[t].pc = "marshal" /\ at[t].op.kind = "revoke"
        /\ cache'[Proc(t)].devices = Mine(t) \ {d}
        /\ \A p \in Procs : cache'[p].modTime = cache[p].modTime
        /\ \A p \in Procs \ {Proc(t)} : cache'[p] = cache[p]
        /\ paired' = paired \ {d} /\ Alone(t)
    BY DeleteMoves, TouchAlone
  <1>2. Alone(t)'
    BY <1>1 DEF Alone, Others
  <1>3. TimesApart'
    BY <1>1 DEF OrderInv, TimesApart
  <1>4. FileGood'
    BY <1>1 DEF OrderInv, FileGood, Good
  <1>5. ASSUME NEW p \in Procs, Fresh(p)' PROVE Good(cache[p].devices)'
    <2>1. Fresh(p) /\ Good(cache[p].devices)
      BY <1>1, <1>5 DEF Fresh, OrderInv, CachesGood
    <2>2. cache'[p].devices \in {cache[p].devices, cache[p].devices \ {d}}
      BY <1>1 DEF Mine
    <2> QED
      BY <1>1, <2>1, <2>2 DEF Good
  <1>6. ThreadOK(t)'
    <2>1. Fresh(Proc(t))'
      BY <1>1, ProcOf DEF OrderInv, ThreadOK, Working, Fresh
    <2>2. Good(Mine(t))'
      BY <1>5, <2>1, ProcOf DEF Mine
    <2>3. Meets(at'[t], Mine(t)')
      BY <1>1 DEF Keeps, Meets, Mine
    <2> QED
      BY <1>1, <2>1, <2>2, <2>3 DEF ThreadOK, Suits
  <1> QED
    BY <1>1, <1>2, <1>3, <1>4, <1>5, <1>6, AloneOrder DEF StampOK, CachesGood

LEMMA AddOrder ==
  ASSUME TypeInv, TypeInv', MadeInv, OrderInv, NEW t \in Threads, Add(t), ~overlapped'
  PROVE  OrderInv'
  <1>1. PICK d \in Devices \ Made :
          /\ UNCHANGED <<disk, tmp, paired, revoked>> /\ Others(t)
          /\ at[t].pc = "act" /\ at'[t].pc = "clear" /\ at'[t].op.kind = "pair" /\ at'[t].op.dev = d
          /\ cache'[Proc(t)].devices = Mine(t) \cup {d}
          /\ \A p \in Procs : cache'[p].modTime = cache[p].modTime
          /\ \A p \in Procs \ {Proc(t)} : cache'[p] = cache[p]
          /\ Alone(t)
    BY AddMoves, TouchAlone DEF Made
  <1>2. Alone(t)' /\ d \notin revoked
    BY <1>1 DEF Alone, Others, MadeInv
  <1>3. TimesApart'
    BY <1>1 DEF OrderInv, TimesApart
  <1>4. FileGood'
    BY <1>1 DEF OrderInv, FileGood, Good
  <1>5. ASSUME NEW p \in Procs, Fresh(p)' PROVE Good(cache[p].devices)'
    <2>1. Fresh(p) /\ Good(cache[p].devices)
      BY <1>1, <1>5 DEF Fresh, OrderInv, CachesGood
    <2>2. cache'[p].devices \in {cache[p].devices, cache[p].devices \cup {d}}
      BY <1>1 DEF Mine
    <2> QED
      BY <1>1, <1>2, <2>1, <2>2 DEF Good
  <1>6. ThreadOK(t)'
    <2>1. Fresh(Proc(t))'
      BY <1>1, ProcOf DEF OrderInv, ThreadOK, Working, Fresh
    <2>2. Good(Mine(t))'
      BY <1>5, <2>1, ProcOf DEF Mine
    <2>3. Meets(at'[t], Mine(t)')
      BY <1>1 DEF Meets, Mine
    <2> QED
      BY <1>1, <2>1, <2>2, <2>3 DEF ThreadOK, Suits
  <1> QED
    BY <1>1, <1>2, <1>3, <1>4, <1>5, <1>6, AloneOrder DEF StampOK, CachesGood

LEMMA NewTime ==
  ASSUME NEW x \in NewTimes
  PROVE  /\ x \in Times /\ (disk # None => disk.time # x)
         /\ \A p \in Procs : cache[p].modTime # x
  <1>1. x \in Times \ InUse
    BY DEF NewTimes
  <1> QED
    BY <1>1 DEF InUse

LEMMA OpenOrder ==
  ASSUME TypeInv, TypeInv', OrderInv, NEW t \in Threads, Open(t), ~overlapped'
  PROVE  OrderInv'
  <1>1. /\ UNCHANGED <<disk, cache, paired, revoked>> /\ Others(t) /\ Keeps(t)
        /\ at[t].pc = "open" /\ at'[t].pc = "write" /\ at'[t].buf = at[t].buf /\ Alone(t)
    BY OpenMoves, TouchAlone
  <1>2. PICK x \in NewTimes : tmp' = [set |-> Torn, time |-> x]
    BY OpenMoves
  <1>3. Alone(t)'
    BY <1>1 DEF Alone, Others
  <1>4. TimesApart' /\ FileGood' /\ CachesGood'
    BY <1>1, <1>2, NewTime DEF OrderInv, TimesApart, FileGood, CachesGood, Fresh, Good
  <1>5. ThreadOK(t)'
    BY <1>1 DEF OrderInv, ThreadOK, Working, Fresh, Keeps, Suits, Good, Meets, Mine
  <1> QED
    BY <1>1, <1>3, <1>4, <1>5, AloneOrder DEF StampOK

\* Who writes alone has the temporary file as it made it.
LEMMA PutAlone ==
  ASSUME WholeInv, NEW t \in Threads, at[t].pc = "write", ~overlapped,
         NEW s, Put(t, s)
  PROVE  /\ Empty(t) /\ disk' = disk
         /\ \E x \in NewTimes : tmp' = [set |-> s, time |-> x]
  BY DEF WholeInv, Empty, Put

LEMMA WriteOrder ==
  ASSUME TypeInv, TypeInv', WholeInv, OrderInv, NEW t \in Threads, Write(t), ~overlapped'
  PROVE  OrderInv'
  <1>1. /\ UNCHANGED <<cache, paired, revoked>> /\ Others(t) /\ Keeps(t)
        /\ at[t].pc = "write" /\ at'[t].pc = "rename" /\ Alone(t) /\ ~overlapped
    BY WriteMoves, TouchAlone
  <1>2. PICK s \in {at[t].buf} \cup (IF Empty(t) THEN {} ELSE {Garbled}) : Put(t, s)
    BY WriteMoves
  <1>3. PICK x \in NewTimes : tmp' = [set |-> s, time |-> x]
    BY <1>1, <1>2, PutAlone
  <1>4. s = at[t].buf /\ disk' = disk
    BY <1>1, <1>2, PutAlone
  <1>5. Alone(t)'
    BY <1>1 DEF Alone, Others
  <1>6. TimesApart' /\ FileGood' /\ CachesGood'
    BY <1>1, <1>3, <1>4, NewTime DEF OrderInv, TimesApart, FileGood, CachesGood, Fresh, Good
  <1>7. ThreadOK(t)'
    BY <1>1, <1>3, <1>4 DEF OrderInv, ThreadOK, Working, Fresh, Keeps, Suits, Good, Meets, Mine
  <1> QED
    BY <1>1, <1>5, <1>6, <1>7, AloneOrder DEF StampOK

LEMMA WriteFailsOrder ==
  ASSUME TypeInv, TypeInv', WholeInv, OrderInv, NEW t \in Threads, WriteFails(t), ~overlapped'
  PROVE  OrderInv'
  <1>1. /\ UNCHANGED <<paired, revoked>> /\ Others(t)
        /\ at[t].pc = "write" /\ at'[t].pc \in Calm /\ Alone(t) /\ ~overlapped
        /\ \A p \in Procs : cache'[p] = cache[p] \/ (p = t /\ cache'[p] = Blank)
    BY WriteFailsMoves, TouchAlone
  <1>2. disk' = disk /\ \E x \in NewTimes : tmp' = [set |-> Garbled, time |-> x]
    BY <1>1, WriteFailsMoves, PutAlone
  <1>3. PICK x \in NewTimes : tmp' = [set |-> Garbled, time |-> x]
    BY <1>2
  <1>4. Alone(t)'
    BY <1>1 DEF Alone, Others
  <1>5. TimesApart' /\ FileGood'
    BY <1>1, <1>2, <1>3, NewTime, StoreAssumption DEF OrderInv, TimesApart, FileGood, Good, Blank
  <1>6. ASSUME NEW p \in Procs, Fresh(p)' PROVE Good(cache[p].devices)'
    <2>1. disk' # None => disk'.time \in Times
      BY DEF TypeInv, TypeOK, File
    <2>2. CASE cache'[p] = Blank
      BY <1>5, <1>6, <2>1, <2>2, StoreAssumption DEF Fresh, Blank, FileGood, Good
    <2>3. CASE cache'[p] = cache[p]
      BY <1>1, <1>2, <1>6, <2>3 DEF OrderInv, CachesGood, Fresh, Good
    <2> QED
      BY <1>1, <2>2, <2>3
  <1> QED
    BY <1>1, <1>4, <1>5, <1>6, AloneOrder DEF StampOK, ThreadOK, CachesGood, Calm, Working

LEMMA RenameOrder ==
  ASSUME TypeInv, TypeInv', OrderInv, NEW t \in Threads, Rename(t), ~overlapped'
  PROVE  OrderInv'
  <1>1. /\ UNCHANGED <<cache, paired, revoked>> /\ \A u \in Threads \ {t} : Rests(u)
        /\ tmp # None /\ disk' = tmp /\ tmp' = None /\ Keeps(t)
        /\ at[t].pc = "rename" /\ at'[t].pc = "stamp" /\ Alone(t)
    BY RenameMoves, TouchAlone
  <1>2. Alone(t)'
    BY <1>1 DEF Alone, Rests
  <1>3. \A p \in Procs : ~Fresh(p)'
    BY <1>1 DEF OrderInv, TimesApart, Fresh
  <1>4. TimesApart' /\ FileGood' /\ CachesGood'
    BY <1>1, <1>3 DEF OrderInv, ThreadOK, Suits, TimesApart, FileGood, CachesGood, Good
  <1>5. ThreadOK(t)' /\ StampOK(t)'
    <2>1. Suits(at[t], tmp.set) /\ Suits(at[t], Mine(t))
      BY <1>1 DEF OrderInv, ThreadOK, Working
    <2>2. ThreadOK(t)'
      BY <1>1, <2>1 DEF ThreadOK, Working, Keeps, Suits, Good, Meets, Mine
    <2> QED
      BY <1>1, <1>2, <1>3, <2>2 DEF StampOK, Alone
  <1> QED
    BY <1>2, <1>4, <1>5, AloneOrder

LEMMA RemoveOtherOrder ==
  ASSUME TypeInv, TypeInv', OrderInv, NEW t \in Threads, RemoveOther(t), ~overlapped'
  PROVE  OrderInv'
  <1>1. /\ UNCHANGED <<disk, cache, paired, revoked>> /\ \A u \in Threads : Rests(u)
        /\ tmp' = None /\ at[t].pc = "remove" /\ Alone(t)
    BY RemoveOtherMoves, TouchAlone
  <1>2. Alone(t)' /\ at'[t].pc = "remove"
    BY <1>1 DEF Alone, Rests
  <1>3. TimesApart' /\ FileGood' /\ CachesGood'
    BY <1>1 DEF OrderInv, TimesApart, FileGood, CachesGood, Fresh, Good
  <1> QED
    BY <1>2, <1>3, AloneOrder DEF ThreadOK, StampOK, Working

\* The steps on a memory that others may be about to read or to save.
LEMMA InstallOrder ==
  ASSUME TypeInv, TypeInv', OrderInv, NEW t \in Threads, Install(t)
  PROVE  OrderInv'
  <1> DEFINE P == Proc(t)
  <1>1. /\ UNCHANGED <<disk, tmp, paired, revoked>> /\ Others(t) /\ Keeps(t)
        /\ at[t].pc = "install" /\ at'[t].pc = "act"
        /\ disk # None /\ cache'[P].devices = disk.set /\ cache'[P].modTime = disk.time
        /\ \A p \in Procs \ {P} : cache'[p] = cache[p]
    BY InstallMoves DEF OrderInv, ThreadOK, TimeNow
  <1>2. Good(disk.set)
    BY <1>1 DEF OrderInv, FileGood
  <1>3. TimesApart' /\ FileGood' /\ CachesGood'
    BY <1>1, <1>2 DEF OrderInv, TimesApart, FileGood, CachesGood, Fresh, Good
  <1>4. ASSUME NEW u \in Threads \ {t} PROVE ThreadOK(u)'
    <2>1. at'[u] = at[u] /\ ThreadOK(u)
      BY <1>1 DEF Others, OrderInv
    <2>2. CASE Proc(u) # P
      BY <1>1, <2>1, <2>2, ProcOf DEF ThreadOK, Fresh, Mine, Suits, Good
    <2>3. CASE Proc(u) = P
      <3>1. Fresh(Proc(u))'
        BY <1>1, <2>3 DEF Fresh
      <3>2. ASSUME at[u].pc \in (Working \ {"act"}) \cup {"stamp"} PROVE Suits(at[u], disk.set)
        <4>1. CASE at[u].pc = "stamp"
          BY <2>1, <4>1 DEF ThreadOK
        <4>2. CASE at[u].pc # "stamp"
          <5>1. ~Owes(at[u])
            BY <1>1, <2>3 DEF OrderInv, NotReplaced
          <5> QED
            BY <1>2, <3>2, <4>2, <5>1 DEF Owes, Suits, Meets
        <4> QED
          BY <4>1, <4>2
      <3>3. Mine(u)' = disk.set
        BY <1>1, <2>3 DEF Mine
      <3> QED
        BY <1>1, <2>1, <3>1, <3>2, <3>3 DEF ThreadOK, Suits, Good
    <2> QED
      BY <2>2, <2>3
  <1>5. ASSUME NEW u \in Threads \ {t} PROVE StampOK(u)'
    <2> SUFFICES ASSUME at[u].pc = "stamp"
                 PROVE  /\ \A p \in Procs : Fresh(p)' => Meets(at[u], cache'[p].devices)
                        /\ \A v \in Threads : at'[v].pc = "open" => Meets(at[u], at'[v].buf)
      BY <1>1 DEF Others, StampOK
    <2>1. /\ \A p \in Procs : Fresh(p) => Meets(at[u], cache[p].devices)
          /\ \A v \in Threads : at[v].pc = "open" => Meets(at[u], at[v].buf)
          /\ Meets(at[u], disk.set)
      BY DEF OrderInv, ThreadOK, StampOK, Suits
    <2>2. \A p \in Procs : Fresh(p)' => Meets(at[u], cache'[p].devices)
      BY <1>1, <2>1 DEF Fresh
    <2> QED
      BY <1>1, <2>1, <2>2 DEF Others
  <1>6. ThreadOK(t)' /\ StampOK(t)'
    BY <1>1 DEF ThreadOK, StampOK, Working, Fresh
  <1>7. OneLate' /\ NotReplaced'
    BY <1>1 DEF Others, OrderInv, OneLate, Late, NotReplaced, Owes, Working
  <1> QED
    BY <1>3, <1>4, <1>5, <1>6, <1>7 DEF OrderInv

LEMMA StampOrder ==
  ASSUME TypeInv, TypeInv', OrderInv, NEW t \in Threads, Stamp(t)
  PROVE  OrderInv'
  <1> DEFINE P == Proc(t)
  <1>1. /\ UNCHANGED <<disk, tmp, paired, revoked>> /\ Others(t)
        /\ at[t].pc = "stamp" /\ at'[t].pc \in Calm
        /\ disk # None /\ cache'[P].devices = Mine(t) /\ cache'[P].modTime = disk.time
        /\ \A p \in Procs \ {P} : cache'[p] = cache[p]
    BY StampMoves DEF OrderInv, ThreadOK, TimeNow
  <1>2. Good(Mine(t))
    BY <1>1 DEF OrderInv, ThreadOK, Suits
  <1>3. TimesApart' /\ FileGood' /\ CachesGood'
    BY <1>1, <1>2 DEF OrderInv, TimesApart, FileGood, CachesGood, Fresh, Good
  <1>4. ASSUME NEW u \in Threads \ {t} PROVE ThreadOK(u)'
    <2>1. at'[u] = at[u] /\ ThreadOK(u)
      BY <1>1 DEF Others, OrderInv
    <2>2. Mine(u)' = Mine(u) /\ (Fresh(Proc(u)) => Fresh(Proc(u))')
      BY <1>1, ProcOf DEF Mine, Fresh
    <2> QED
      BY <1>1, <2>1, <2>2 DEF ThreadOK, Suits, Good
  <1>5. \A u \in Threads : at'[u].pc # "stamp"
    BY <1>1 DEF Others, OrderInv, OneLate, Late, Calm
  <1>6. ThreadOK(t)'
    BY <1>1 DEF ThreadOK, Calm, Working
  <1>7. OneLate' /\ NotReplaced'
    BY <1>1 DEF Others, OrderInv, OneLate, Late, NotReplaced, Owes, Working, Calm
  <1> QED
    BY <1>3, <1>4, <1>5, <1>6, <1>7 DEF OrderInv, StampOK

\* The promise itself.
LEMMA StampAndAnswerOrder ==
  ASSUME TypeInv, TypeInv', OrderInv, NEW t \in Threads, StampAndAnswer(t)
  PROVE  OrderInv'
  <1> DEFINE P == Proc(t)
             d == at[t].op.dev
  <1>1. /\ UNCHANGED <<disk, tmp>> /\ Others(t)
        /\ at[t].pc = "stamp" /\ at[t].phase = "serve" /\ at'[t].pc = "idle"
        /\ disk # None
        /\ \/ cache'[P].devices = Mine(t) /\ cache'[P].modTime = disk.time
           \/ P = t /\ cache'[P] = Blank
        /\ \A p \in Procs \ {P} : cache'[p] = cache[p]
        /\ paired' = IF at[t].op.kind = "pair" THEN paired \cup {d} ELSE paired
        /\ revoked' = IF at[t].op.kind = "revoke" THEN revoked \cup {d} ELSE revoked
    BY StampAndAnswerMoves DEF OrderInv, ThreadOK, TimeNow
  <1>2. ASSUME NEW D, Good(D), Meets(at[t], D) PROVE paired' \subseteq D /\ revoked' \cap D = {}
    BY <1>1, <1>2 DEF Good, Meets
  <1>3. Suits(at[t], Mine(t)) /\ Suits(at[t], disk.set)
    BY <1>1 DEF OrderInv, ThreadOK
  <1>4. disk.time \in Times /\ (tmp # None => tmp.time \in Times)
    BY <1>1 DEF TypeInv, TypeOK, File
  <1>5. TimesApart'
    BY <1>1, <1>4, StoreAssumption DEF OrderInv, TimesApart, Blank
  <1>6. FileGood'
    BY <1>1, <1>2, <1>3 DEF FileGood, Suits, Good
  <1>7. ASSUME NEW p \in Procs, Fresh(p)' PROVE Good(cache[p].devices)'
    <2>1. CASE p # P
      <3>1. Fresh(p) /\ cache'[p] = cache[p]
        BY <1>1, <1>7, <2>1 DEF Fresh
      <3>2. Good(cache[p].devices) /\ Meets(at[t], cache[p].devices)
        BY <1>1, <3>1 DEF OrderInv, CachesGood, StampOK
      <3> QED
        BY <1>2, <3>1, <3>2 DEF Good
    <2>2. CASE p = P
      <3>1. cache'[P].devices = Mine(t)
        BY <1>1, <1>4, <1>7, <2>2, StoreAssumption DEF Fresh, Blank
      <3> QED
        BY <1>2, <1>3, <2>2, <3>1 DEF Suits, Good
    <2> QED
      BY <2>1, <2>2
  <1>8. \A u \in Threads : at'[u].pc \notin {"stamp", "write", "rename", "clear"}
    BY <1>1 DEF Others, OrderInv, OneLate, Late
  <1>9. ASSUME NEW u \in Threads \ {t} PROVE ThreadOK(u)'
    <2>1. at'[u] = at[u] /\ ThreadOK(u)
      BY <1>1 DEF Others, OrderInv
    <2>2. cache'[Proc(u)] = cache[Proc(u)]
             \/ (cache'[Proc(u)].modTime = disk.time /\ cache'[Proc(u)].devices = Mine(u))
      BY <1>1, ProcOf, OwnProc DEF Mine
    <2>3. Mine(u)' = Mine(u) /\ (Fresh(Proc(u)) => Fresh(Proc(u))')
      BY <1>1, <2>2 DEF Mine, Fresh
    <2>4. ASSUME at[u].pc \in {"marshal", "open"} PROVE Suits(at[u], Mine(u))'
      <3>1. Fresh(Proc(u))' /\ Meets(at[u], Mine(u))
        BY <2>1, <2>3, <2>4 DEF ThreadOK, Working, Suits
      <3>2. Good(Mine(u))'
        BY <1>7, <3>1, ProcOf DEF Mine
      <3> QED
        BY <2>1, <2>3, <3>1, <3>2 DEF Suits
    <2>5. ASSUME at[u].pc = "open" PROVE Suits(at[u], at[u].buf)'
      <3>1. Suits(at[u], at[u].buf) /\ Meets(at[t], at[u].buf)
        BY <1>1, <2>1, <2>5 DEF ThreadOK, OrderInv, StampOK
      <3> QED
        BY <1>2, <2>1, <3>1 DEF Suits, Good
    <2> QED
      BY <1>1, <1>8, <2>1, <2>3, <2>4, <2>5 DEF ThreadOK, Working
  <1>10. ThreadOK(t)'
    BY <1>1 DEF ThreadOK, Working
  <1>11. OneLate' /\ NotReplaced'
    BY <1>1 DEF Others, OrderInv, OneLate, Late, NotReplaced, Owes, Working
  <1> QED
    BY <1>5, <1>6, <1>7, <1>8, <1>9, <1>10, <1>11 DEF OrderInv, StampOK, CachesGood

LEMMA CrashOrder ==
  ASSUME TypeInv, TypeInv', OrderInv, NEW p \in Procs, Crash(p)
  PROVE  OrderInv'
  <1>1. /\ UNCHANGED <<disk, tmp, paired, revoked>>
        /\ \A u \in Threads : at'[u] = IF Proc(u) = p THEN Resting ELSE at[u]
        /\ cache'[p] = Blank /\ \A q \in Procs \ {p} : cache'[q] = cache[q]
    BY CrashMoves
  <1>2. /\ disk # None => disk.time \in Times
        /\ tmp # None => tmp.time \in Times
    BY DEF TypeInv, TypeOK, File
  <1>3. disk # None => ~Fresh(p)'
    BY <1>1, <1>2, StoreAssumption DEF Fresh, Blank
  <1>4. TimesApart' /\ FileGood'
    BY <1>1, <1>2, StoreAssumption DEF OrderInv, TimesApart, FileGood, Good, Blank
  <1>5. CachesGood'
    BY <1>1, <1>3 DEF OrderInv, FileGood, CachesGood, Fresh, Good
  <1>6. ASSUME NEW u \in Threads PROVE ThreadOK(u)'
    <2>1. CASE Proc(u) = p
      BY <1>1, <2>1 DEF ThreadOK, Working, Resting
    <2>2. CASE Proc(u) # p
      BY <1>1, <2>2, ProcOf DEF OrderInv, ThreadOK, Fresh, Mine, Suits, Good
    <2> QED
      BY <2>1, <2>2
  <1>7. ASSUME NEW u \in Threads PROVE StampOK(u)'
    <2> SUFFICES ASSUME at'[u].pc = "stamp"
                 PROVE  /\ \A q \in Procs : Fresh(q)' => Meets(at'[u], cache'[q].devices)
                        /\ \A v \in Threads : at'[v].pc = "open" => Meets(at'[u], at'[v].buf)
      BY DEF StampOK
    <2>1. at'[u] = at[u]
      BY <1>1 DEF Resting
    <2>2. /\ disk # None
          /\ \A q \in Procs : Fresh(q) => Meets(at[u], cache[q].devices)
          /\ \A v \in Threads : at[v].pc = "open" => Meets(at[u], at[v].buf)
      BY <2>1 DEF OrderInv, ThreadOK, StampOK
    <2>3. \A q \in Procs : Fresh(q)' => Meets(at[u], cache'[q].devices)
      BY <1>1, <1>3, <2>2 DEF Fresh
    <2>4. \A v \in Threads : at'[v].pc = "open" => Meets(at[u], at'[v].buf)
      BY <1>1, <2>2 DEF Resting
    <2> QED
      BY <2>1, <2>3, <2>4
  <1>8. OneLate' /\ NotReplaced'
    BY <1>1 DEF OrderInv, OneLate, Late, NotReplaced, Owes, Working, Resting
  <1> QED
    BY <1>4, <1>5, <1>6, <1>7, <1>8 DEF OrderInv

LEMMA OverlapStays ==
  ASSUME TypeInv, WholeInv, [Next]_vars, overlapped PROVE overlapped'
  <1>1. CASE UNCHANGED vars
    BY <1>1 DEF vars
  <1>2. ASSUME NEW p \in Procs, Crash(p) PROVE overlapped'
    BY <1>2, CrashMoves
  <1>3. ASSUME NEW t \in Threads,
               \/ Calms(t) \/ Start(t) \/ Stat(t) \/ Read(t) \/ (ReadNothing(t) /\ ~Calms(t))
               \/ Lookup(t) /\ at[t].op.who \in Mine(t)
               \/ ClearPairing(t) \/ Marshal(t) \/ RenameFails(t)
        PROVE  overlapped'
    BY <1>3, StartMoves, StatMoves, ReadMoves, ReadNothingMoves, LookupMoves, ClearMoves,
       MarshalMoves, RenameFailsMoves DEF Calms, Passes
  <1>4. ASSUME NEW t \in Threads, Touch(t) PROVE overlapped'
    BY <1>4, TouchGrows
  <1>5. ASSUME NEW t \in Threads, Install(t) \/ Stamp(t) \/ StampAndAnswer(t) PROVE overlapped'
    BY <1>5, InstallMoves, StampMoves, StampAndAnswerMoves
  <1> QED
    BY <1>1, <1>2, <1>3, <1>4, <1>5, StepKinds, DeleteMoves, AddMoves, OpenMoves, WriteMoves,
       RenameMoves, RemoveOtherMoves, WriteFailsMoves

LEMMA OrderStep ==
  ASSUME TypeInv, TypeInv', WholeInv, MadeInv, overlapped \/ OrderInv, [Next]_vars
  PROVE  overlapped' \/ OrderInv'
  <1> SUFFICES ASSUME ~overlapped' PROVE OrderInv'
    OBVIOUS
  <1>1. OrderInv
    BY OverlapStays
  <1>2. CASE UNCHANGED vars
    BY <1>1, <1>2 DEF vars, files, history, OrderInv, TimesApart, FileGood, CachesGood, Good, Fresh,
                      ThreadOK, StampOK, Suits, Meets, Mine, OneLate, NotReplaced, Owes
  <1> QED
    BY <1>1, <1>2, StepKinds, CrashOrder, PassesSteps, InstallOrder, DeleteOrder, AddOrder, OpenOrder,
       WriteOrder, RenameOrder, RemoveOtherOrder, WriteFailsOrder, StampOrder, StampAndAnswerOrder

LEMMA MadeInit == Init => MadeInv
  BY DEF Init, MadeInv, Made, Blank, Resting, Answers, Saving

PromiseInv == TypeInv /\ WholeInv /\ MadeInv /\ (overlapped \/ OrderInv)

LEMMA PromiseInit == Init => PromiseInv
  BY TypeInit, WholeInit, MadeInit, OrderInit DEF PromiseInv

LEMMA PromiseStep == PromiseInv /\ [Next]_vars => PromiseInv'
  BY TypeStep, WholeStep, MadeStep, OrderStep DEF PromiseInv

\* What the file says is good, and so is what the daemon goes by.
LEMMA PromiseKept ==
  ASSUME PromiseInv, InTurn PROVE Good(OnDisk) /\ Good(Known)
  <1>1. TypeInv /\ WholeInv /\ OrderInv /\ ~overlapped
    BY DEF PromiseInv, InTurn
  <1>2. disk # None => disk.set \notin Unreadable
    BY <1>1 DEF WholeInv, Cut
  <1>3. Good(OnDisk)
    BY <1>1, <1>2 DEF OrderInv, FileGood, OnDisk, Good
  <1>4. Fresh(Daemon) => Good(cache[Daemon].devices)
    BY <1>1 DEF OrderInv, CachesGood, Procs
  <1>5. (Known = cache[Daemon].devices /\ Fresh(Daemon)) \/ (Known = disk.set /\ Good(disk.set))
    BY <1>1, <1>2 DEF Known, Fresh, OrderInv, FileGood
  <1> QED
    BY <1>3, <1>4, <1>5

\* REVOKED.  A device whose revocation was confirmed is in no file and in no memory
\* the daemon goes by, whichever process took it out and whatever crashed or failed
\* since, as long as no change falls into another operation.
THEOREM RevocationHolds == Spec => []RevokedStaysOut
  <1>1. PromiseInv => RevokedStaysOut
    BY PromiseKept DEF RevokedStaysOut, Good
  <1> QED
    BY PromiseInit, PromiseStep, <1>1, PTL DEF Spec

\* PAIRED.  Under the same condition a device that has its token stays in until
\* somebody asks to revoke it.
THEOREM PairingHolds == Spec => []PairedStaysIn
  <1>1. PromiseInv => PairedStaysIn
    BY PromiseKept DEF PairedStaysIn, Good
  <1> QED
    BY PromiseInit, PromiseStep, <1>1, PTL DEF Spec

-----------------------------------------------------------------------------
\* Codes.  Who redeems one has it in hand until the device is made: nothing changes
\* the code on the way.
Redeeming == {"stat", "read", "install", "act", "clear"}
Current(c) == pairing # None /\ pairing.code = c

CodeOK(t) ==
    /\ at[t].op.kind = "pair" => t \in Handlers
    /\ at[t].pc = "check" => pairing # None /\ at[t].seen = pairing
    /\ at[t].op.kind = "pair" /\ at[t].pc \in Redeeming => Current(at[t].op.guess)

HandInv ==
    /\ \A i \in issued : i[1] \in minted
    /\ pairing # None => pairing.code \in minted
    /\ \A t \in Threads : CodeOK(t)

\* The steps that change the code, or make one.
LEMMA PairingMoves ==
  ASSUME [Next]_vars
  PROVE  \/ UNCHANGED <<pairing, minted>>
         \/ \E t \in Threads : \/ NewPairingCode(t) \/ CancelPairing(t) \/ Expired(t)
                               \/ Refuse(t) \/ ClearPairing(t)
  <1> USE DEF history
  <1>1. CASE UNCHANGED vars
    BY <1>1 DEF vars
  <1>2. ASSUME NEW p \in Procs, Crash(p) PROVE UNCHANGED <<pairing, minted>>
    BY <1>2 DEF Crash
  <1>3. ASSUME NEW t \in Threads,
               \/ Request(t) \/ Start(t) \/ Stat(t) \/ Read(t) \/ ReadNothing(t) \/ Install(t)
               \/ Loaded(t) \/ Lookup(t) \/ List(t) \/ OfferFirstPairing(t)
        PROVE  UNCHANGED <<pairing, minted>>
    BY <1>3 DEF Request, Start, Stat, Read, ReadNothing, Install, Loaded, Lookup, List, OfferFirstPairing
  <1>4. ASSUME NEW t \in Threads,
               \/ Delete(t) \/ DeleteNothing(t) \/ Add(t) \/ ReadPairing(t) \/ Accept(t)
               \/ Marshal(t) \/ Open(t) \/ Write(t) \/ Rename(t) \/ RenameFails(t)
        PROVE  UNCHANGED <<pairing, minted>>
    BY <1>4 DEF Delete, DeleteNothing, Add, ReadPairing, Accept, Marshal, Open, Write, Rename, RenameFails
  <1>5. ASSUME NEW t \in Threads,
               \/ RemoveTmp(t) \/ RemoveOther(t) \/ SaveFails(t) \/ WriteFails(t)
               \/ Stamp(t) \/ StampAndAnswer(t)
        PROVE  UNCHANGED <<pairing, minted>>
    BY <1>5 DEF RemoveTmp, RemoveOther, SaveFails, WriteFails, Stamp, StampAndAnswer
  <1> QED
    BY <1>1, <1>2, <1>3, <1>4, <1>5 DEF Next, Step

LEMMA CodeChange ==
  ASSUME TypeInv, HandInv, NEW t \in Threads, ~overlapped',
         \/ NewPairingCode(t) \/ CancelPairing(t) \/ Expired(t) \/ Refuse(t) \/ ClearPairing(t)
  PROVE  /\ Alone(t) /\ Others(t) /\ at'[t].pc \in {"idle", "marshal"}
         /\ at'[t].op.kind = "pair" => at[t].op.kind = "pair"
         /\ issued' = issued /\ minted \subseteq minted'
         /\ pairing' # None => \/ pairing # None /\ pairing'.code = pairing.code /\ minted' = minted
                               \/ pairing'.code \in minted' \ minted
  <1>1. CASE NewPairingCode(t)
    <2>1. PICK c \in Codes \ minted : pairing' = [code |-> c, tries |-> 0] /\ minted' = minted \cup {c}
      BY <1>1 DEF NewPairingCode
    <2> QED
      BY <1>1, <2>1, EndAside, TouchAlone DEF NewPairingCode, Others, Resting
  <1>2. CASE CancelPairing(t) \/ Expired(t)
    BY <1>2, EndAside, TouchAlone DEF CancelPairing, Expired, Others, Resting, history
  <1>3. CASE Refuse(t)
    <2>1. pairing # None /\ at[t].seen = pairing /\ at[t].seen \in Pairing
      BY <1>3, Here DEF Refuse, At, HandInv, CodeOK, Sound
    <2>2. pairing' # None => pairing'.code = pairing.code
      BY <1>3, <2>1 DEF Refuse, Pairing
    <2> QED
      BY <1>3, <2>1, <2>2, EndAside, TouchAlone DEF Refuse, Others, Resting, history
  <1>4. CASE ClearPairing(t)
    BY <1>4, ClearMoves, TouchAlone DEF ClearPairing, Passes, Keeps, history
  <1> QED
    BY <1>1, <1>2, <1>3, <1>4

\* Every other step leaves a thread with the code it had in hand, or takes it up.
LEMMA HandSteps ==
  ASSUME TypeInv, WholeInv, HandInv, [Next]_vars, ~overlapped', UNCHANGED pairing,
         NEW u \in Threads
  PROVE  CodeOK(u)'
  <1> USE DEF CodeOK, Current, Redeeming
  <1>0. CodeOK(u)
    BY DEF HandInv
  <1>1. ASSUME NEW t \in Threads, Others(t), CodeOK(t)' PROVE CodeOK(u)'
    BY <1>0, <1>1 DEF Others
  <1>2. CASE UNCHANGED vars
    BY <1>0, <1>2 DEF vars
  <1>3. ASSUME NEW p \in Procs, Crash(p) PROVE CodeOK(u)'
    BY <1>0, <1>3, CrashMoves DEF Resting
  <1>4. ASSUME NEW t \in Threads, End(t) PROVE CodeOK(u)'
    BY <1>1, <1>4, EndAside DEF Others, Resting
  <1>5. ASSUME NEW t \in Threads, at[t].op.kind # "pair", at' = [at EXCEPT ![t] = Serve(t)]
        PROVE  CodeOK(u)'
    <2>1. Serve(t).op = at[t].op /\ at'[t] = Serve(t)
      BY <1>5, Here DEF Serve, TypeInv, TypeOK, Places
    <2>2. CodeOK(t)'
      BY <1>5, <2>1, ServeCalms
    <2> QED
      BY <1>1, <2>2, ServeCalms, <1>5
  <1>6. ASSUME NEW t \in Threads, at[t].phase \in {"auth", "load"} PROVE at[t].op.kind # "pair"
    BY <1>6, Here DEF Sound
  <1>7. ASSUME NEW t \in Threads, Answer(t) PROVE CodeOK(u)'
    BY <1>4, <1>5, <1>6, <1>7 DEF Answer
  <1>8. ASSUME NEW t \in Threads, Request(t) PROVE CodeOK(u)'
    <2>1. PICK r \in Requests :
            /\ r.kind = "pair" => r.who = Local
            /\ at' = [at EXCEPT ![t].op = r,
                             ![t].phase = IF r.who = Local THEN "serve" ELSE "auth",
                             ![t].pc = IF r.who = Local THEN Entry(r.kind) ELSE "stat"]
      BY <1>8 DEF Request
    <2>2. Others(t) /\ at'[t].op = r /\ at'[t].pc = IF r.who = Local THEN Entry(r.kind) ELSE "stat"
      BY <2>1, Here DEF Others, TypeInv, TypeOK, Places
    <2>3. CodeOK(t)'
      BY <1>8, <2>1, <2>2 DEF Request, Entry
    <2> QED
      BY <1>1, <2>2, <2>3
  <1>9. ASSUME NEW t \in Threads, ReadPairing(t), pairing # None PROVE CodeOK(u)'
    <2>1. Others(t) /\ at'[t].op = at[t].op /\ at'[t].seen = pairing /\ at'[t].pc = "check"
      BY <1>9, Here DEF ReadPairing, Others, TypeInv, TypeOK, Places
    <2>2. CodeOK(t)
      BY DEF HandInv
    <2> QED
      BY <1>1, <1>9, <2>1, <2>2
  <1>10. ASSUME NEW t \in Threads, Accept(t) PROVE CodeOK(u)'
    <2>1. Others(t) /\ at'[t].op = at[t].op /\ at'[t].pc = "stat"
      BY <1>10, Here DEF Accept, Others, TypeInv, TypeOK, Places
    <2> QED
      BY <1>1, <1>10, <2>1 DEF Accept, At, HandInv
  <1>11. ASSUME NEW t \in Threads, To(t, "code") PROVE CodeOK(u)'
    <2>1. Others(t) /\ at'[t].op = at[t].op /\ at'[t].pc = "code"
      BY <1>11, Here DEF To, Others, TypeInv, TypeOK, Places
    <2>2. CodeOK(t)
      BY DEF HandInv
    <2> QED
      BY <1>1, <2>1, <2>2
  <1>12. ASSUME NEW t \in Threads,
                \/ Start(t) \/ Stat(t) \/ Read(t) \/ (Lookup(t) /\ at[t].op.who \in Mine(t))
                \/ Marshal(t) \/ RenameFails(t) \/ Install(t) \/ Delete(t) \/ Open(t) \/ Write(t)
         PROVE  CodeOK(u)'
    BY <1>1, <1>12, StartMoves, StatMoves, ReadMoves, LookupMoves, MarshalMoves, RenameFailsMoves,
       InstallMoves, DeleteMoves, OpenMoves, WriteMoves DEF Passes, Keeps, HandInv
  <1>13. ASSUME NEW t \in Threads, ReadNothing(t) PROVE CodeOK(u)'
    <2>1. CASE To(t, "act")
      <3>1. Others(t) /\ at'[t].op = at[t].op /\ at'[t].pc = "act" /\ at[t].pc = "read"
        BY <1>13, <2>1, Here DEF ReadNothing, At, To, Others, TypeInv, TypeOK, Places
      <3> QED
        BY <1>1, <3>1 DEF HandInv
    <2> QED
      BY <1>4, <1>13, <2>1 DEF ReadNothing
  <1>14. ASSUME NEW t \in Threads, Add(t) PROVE CodeOK(u)'
    BY <1>1, <1>14, AddMoves DEF HandInv
  <1>15. ASSUME NEW t \in Threads, Rename(t) PROVE CodeOK(u)'
    <2>1. CodeOK(t)'
      BY <1>15, RenameMoves DEF Keeps, HandInv
    <2>2. CASE u # t
      BY <1>0, <1>15, <2>2, RenameMoves DEF Rests
    <2> QED
      BY <2>1, <2>2
  <1>16. ASSUME NEW t \in Threads, RemoveOther(t) PROVE CodeOK(u)'
    BY <1>0, <1>16, RemoveOtherMoves DEF Rests
  <1>17. ASSUME NEW t \in Threads, StampAndAnswer(t) PROVE CodeOK(u)'
    BY <1>1, <1>17 DEF StampAndAnswer, Others, Resting, TypeInv, TypeOK
  <1>18. ASSUME NEW t \in Threads, Stamp(t) \/ Loaded(t) PROVE CodeOK(u)'
    BY <1>5, <1>6, <1>18 DEF Stamp, Loaded
  <1>19. ASSUME NEW t \in Threads, SaveFails(t) \/ WriteFails(t) \/ RemoveTmp(t) PROVE CodeOK(u)'
    BY <1>7, <1>19 DEF SaveFails, WriteFails, RemoveTmp
  <1>20. ASSUME NEW t \in Threads,
                \/ List(t) \/ DeleteNothing(t) \/ NewPairingCode(t) \/ CancelPairing(t) \/ Expired(t)
                \/ Refuse(t) \/ (Lookup(t) /\ at[t].op.who \notin Mine(t))
                \/ OfferFirstPairing(t) \/ (ReadPairing(t) /\ pairing = None)
         PROVE  CodeOK(u)'
    BY <1>4, <1>11, <1>20 DEF List, DeleteNothing, NewPairingCode, CancelPairing, Expired, Refuse, Lookup,
                              OfferFirstPairing, ReadPairing
  <1>21. ASSUME NEW t \in Threads, ClearPairing(t) PROVE CodeOK(u)'
    BY <1>1, <1>21, ClearMoves DEF Passes, Keeps, HandInv
  <1> QED
    BY <1>2, <1>3, <1>8, <1>9, <1>10, <1>12, <1>13, <1>14, <1>15, <1>16, <1>17, <1>18, <1>19,
       <1>20, <1>21 DEF Next, Step

-----------------------------------------------------------------------------
\* Where the devices of a code are.  What is in the file, or on the way into it,
\* or known to a command is there to stay; what only the daemon knows is not yet.
Saved(d) ==
    \/ d \in OnDisk
    \/ tmp # None /\ tmp.set \notin Unreadable /\ d \in tmp.set
    \/ \E p \in Procs \ {Daemon} : d \in cache[p].devices
    \/ \E t \in Commands : d \in at[t].buf
    \/ \E t \in Threads : at[t].pc = "write" /\ d \in at[t].buf
Held(d) == d \in cache[Daemon].devices \/ \E t \in Handlers : d \in at[t].buf
Present(d) == Saved(d) \/ Held(d)

\* While a code can be used no device of it is saved, and one that was made waits
\* for the code to go.  Of the devices of a code one at most is anywhere.
Waits(d) == \E t \in Handlers : at[t].pc = "clear" /\ at[t].op.dev = d
SingleInv ==
    /\ \A i \in issued : Current(i[1]) => ~Saved(i[2]) /\ (Held(i[2]) => Waits(i[2]))
    /\ \A i, j \in issued : i[1] = j[1] /\ Present(i[2]) /\ Present(j[2]) => i = j

LEMMA PresentMade ==
  ASSUME TypeInv, MadeInv, NEW d, Present(d) PROVE d \in Made
  <1>1. \A f \in {disk, tmp} : f # None /\ f.set \notin Unreadable => f.set \subseteq Made
    BY DEF TypeInv, TypeOK, File, MadeInv
  <1> QED
    BY <1>1 DEF Present, Saved, Held, OnDisk, MadeInv, Procs, Threads

\* A device comes no nearer to the file by a step that leaves the files alone.
LEMMA PassesWhere ==
  ASSUME TypeInv, NEW t \in Threads, Passes(t), at'[t].pc # "write", at'[t].buf \subseteq at[t].buf,
         NEW d
  PROVE  (Saved(d)' => Saved(d)) /\ (Held(d)' => Held(d))
  <1>1. \A u \in Threads : at'[u].buf \subseteq at[u].buf
    BY DEF Passes, Others
  <1>2. \A p \in Procs : cache'[p].devices \subseteq cache[p].devices
    BY DEF Passes, Blank
  <1>3. OnDisk' = OnDisk /\ tmp' = tmp
    BY DEF Passes, OnDisk
  <1>4. \A u \in Threads : at'[u].pc = "write" => at[u].pc = "write"
    BY DEF Passes, Others
  <1> QED
    BY <1>1, <1>2, <1>3, <1>4 DEF Saved, Held, Procs, Threads

\* The way of a device: from the memory of the daemon into the hands of a save,
\* and from there into the file; from the file to whoever reads it.
LEMMA WhereStep ==
  ASSUME TypeInv, WholeInv, HandInv, [Next]_vars, NEW d
  PROVE  /\ Saved(d)' => Saved(d) \/ \E t \in Handlers : Open(t) /\ d \in at[t].buf
         /\ Held(d)' => Held(d) \/ Saved(d) \/ \E t \in Threads : Add(t) /\ d \in Made' \ Made
  <1> DEFINE Goal == /\ Saved(d)' => Saved(d) \/ \E t \in Handlers : Open(t) /\ d \in at[t].buf
                     /\ Held(d)' => Held(d) \/ Saved(d) \/ \E t \in Threads : Add(t) /\ d \in Made' \ Made
  <1> SUFFICES Goal
    OBVIOUS
  <1>0. Handlers \cap Commands = {} /\ Daemon \notin Commands /\ Daemon \in Procs
    BY StoreAssumption DEF Procs
  <1>1. CASE UNCHANGED vars
    BY <1>1 DEF vars, files, Saved, Held, OnDisk
  <1>2. ASSUME NEW p \in Procs, Crash(p) PROVE Goal
    <2>1. \A u \in Threads : at'[u].buf \subseteq at[u].buf /\ (at'[u].pc = "write" => at'[u] = at[u])
      BY <1>2, CrashMoves DEF Resting
    <2>2. \A q \in Procs : cache'[q].devices \subseteq cache[q].devices
      BY <1>2, CrashMoves DEF Blank
    <2>3. OnDisk' = OnDisk /\ tmp' = tmp
      BY <1>2, CrashMoves DEF OnDisk
    <2> QED
      BY <2>1, <2>2, <2>3 DEF Saved, Held, Procs, Threads
  <1>3. ASSUME NEW t \in Threads,
               \/ Calms(t) \/ Start(t) \/ Stat(t) \/ (ReadNothing(t) /\ ~Calms(t))
               \/ Lookup(t) /\ at[t].op.who \in Mine(t)
               \/ ClearPairing(t) \/ RenameFails(t)
        PROVE  Goal
    <2>1. Passes(t) /\ at'[t].pc # "write" /\ at'[t].buf \subseteq at[t].buf
      BY <1>3, StartMoves, StatMoves, ReadNothingMoves, LookupMoves, ClearMoves, RenameFailsMoves
         DEF Calms, Calm
    <2> QED
      BY <2>1, PassesWhere
  <1>4. ASSUME NEW t \in Threads, Read(t) PROVE Goal
    <2>1. /\ UNCHANGED <<disk, tmp, cache>> /\ Others(t) /\ at'[t].pc = "install"
          /\ at'[t].buf = OnDisk
      BY <1>4, ReadMoves, StoreAssumption DEF Passes, OnDisk, Unreadable
    <2> QED
      BY <2>1 DEF Saved, Held, OnDisk, Others, Threads
  <1>5. ASSUME NEW t \in Threads, Marshal(t) PROVE Goal
    <2>1. /\ UNCHANGED <<disk, tmp, cache>> /\ Others(t) /\ at'[t].pc = "open"
          /\ at'[t].buf = cache[Proc(t)].devices
      BY <1>5, MarshalMoves DEF Passes, Mine
    <2> QED
      BY <1>0, <2>1 DEF Saved, Held, OnDisk, Others, Threads, Proc, Procs
  <1>6. ASSUME NEW t \in Threads, Install(t) PROVE Goal
    <2>1. /\ UNCHANGED <<disk, tmp>> /\ Others(t) /\ at'[t].pc = "act" /\ at'[t].buf = {}
          /\ cache'[Proc(t)].devices = at[t].buf
          /\ \A p \in Procs \ {Proc(t)} : cache'[p] = cache[p]
      BY <1>6, InstallMoves
    <2> QED
      BY <1>0, <2>1 DEF Saved, Held, OnDisk, Others, Threads, Proc, Procs
  <1>7. ASSUME NEW t \in Threads, Delete(t) \/ Stamp(t) \/ StampAndAnswer(t) PROVE Goal
    <2>1. /\ UNCHANGED <<disk, tmp>> /\ Others(t) /\ at'[t].pc # "write" /\ at'[t].buf \subseteq at[t].buf
          /\ cache'[Proc(t)].devices \subseteq cache[Proc(t)].devices
          /\ \A p \in Procs \ {Proc(t)} : cache'[p] = cache[p]
      BY <1>7, DeleteMoves, StampMoves, StampAndAnswerMoves DEF Mine, Calm, Blank
    <2> QED
      BY <1>0, <2>1 DEF Saved, Held, OnDisk, Others, Threads, Proc, Procs
  <1>8. ASSUME NEW t \in Threads, Add(t) PROVE Goal
    <2>1. PICK e \in Devices \ Made :
            /\ UNCHANGED <<disk, tmp>> /\ Others(t) /\ at'[t].pc = "clear" /\ at'[t].buf = at[t].buf
            /\ at[t].op.kind = "pair"
            /\ cache'[Proc(t)].devices = cache[Proc(t)].devices \cup {e}
            /\ \A p \in Procs \ {Proc(t)} : cache'[p] = cache[p]
            /\ issued' = issued \cup {<<at[t].op.guess, e>>}
      BY <1>8, AddMoves DEF Mine, Made
    <2>2. t \in Handlers /\ Proc(t) = Daemon
      BY <2>1 DEF HandInv, CodeOK, Proc
    <2>3. e \in Made'
      <3>1. <<at[t].op.guess, e>>[2] = e
        OBVIOUS
      <3> QED
        BY <2>1, <3>1 DEF Made
    <2>4. Saved(d)' => Saved(d)
      BY <1>0, <2>1, <2>2 DEF Saved, OnDisk, Others, Threads, Procs
    <2>5. Held(d)' => Held(d) \/ d = e
      BY <1>0, <2>1, <2>2 DEF Held, Others, Threads, Procs
    <2> QED
      BY <1>8, <2>1, <2>3, <2>4, <2>5
  <1>9. ASSUME NEW t \in Threads, Open(t) PROVE Goal
    <2>1. PICK x \in NewTimes : tmp' = [set |-> Torn, time |-> x]
      BY <1>9, OpenMoves
    <2>2. /\ UNCHANGED <<disk, cache>> /\ Others(t) /\ at'[t].buf = at[t].buf
          /\ tmp'.set \in Unreadable
      BY <1>9, <2>1, OpenMoves DEF Unreadable
    <2> QED
      BY <1>0, <1>9, <2>2 DEF Saved, Held, OnDisk, Others, Threads
  <1>10. ASSUME NEW t \in Threads, NEW s, Put(t, s), s \in Unreadable \/ s = at[t].buf, at[t].pc = "write"
         PROVE  /\ tmp' # None /\ tmp'.set \notin Unreadable /\ d \in tmp'.set => Saved(d)
                /\ d \in OnDisk' => Saved(d)
    BY <1>10 DEF Put, Saved, OnDisk
  <1>11. ASSUME NEW t \in Threads, Write(t) \/ WriteFails(t) PROVE Goal
    <2>1. PICK s : Put(t, s) /\ (s \in Unreadable \/ s = at[t].buf) /\ at[t].pc = "write"
      BY <1>11, WriteMoves, WriteFailsMoves DEF Unreadable
    <2>2. /\ Others(t) /\ at'[t].pc # "write" /\ at'[t].buf = {}
          /\ \A p \in Procs : cache'[p].devices \subseteq cache[p].devices
      BY <1>11, WriteMoves, WriteFailsMoves DEF Calm, Blank
    <2> QED
      BY <1>0, <1>10, <2>1, <2>2 DEF Saved, Held, Others, Threads
  <1>12. ASSUME NEW t \in Threads, Rename(t) \/ RemoveOther(t) PROVE Goal
    <2>1. \A u \in Threads : at'[u].buf = at[u].buf /\ (at'[u].pc = "write" => at[u].pc = "write")
      BY <1>12, RenameMoves, RemoveOtherMoves DEF Rests
    <2>2. cache' = cache /\ tmp' = None /\ (disk' = disk \/ (tmp # None /\ disk' = tmp))
      BY <1>12, RenameMoves, RemoveOtherMoves
    <2> QED
      BY <2>1, <2>2 DEF Saved, Held, OnDisk, Threads
  <1> HIDE DEF Goal
  <1> QED
    BY <1>1, <1>2, <1>3, <1>4, <1>5, <1>6, <1>7, <1>8, <1>9, <1>11, <1>12, StepKinds

\* Who waits for the code to go waits on, until it takes the code away or dies.
LEMMA WaitsOn ==
  ASSUME TypeInv, WholeInv, [Next]_vars, ~overlapped', NEW d, Waits(d)
  PROVE  \/ Waits(d)'
         \/ pairing' = None
         \/ ~Held(d)'
  <1> DEFINE Goal == Waits(d)' \/ pairing' = None \/ ~Held(d)'
  <1> SUFFICES Goal
    OBVIOUS
  <1>0. PICK v \in Handlers : at[v].pc = "clear" /\ at[v].op.dev = d
    BY DEF Waits
  <1> v \in Threads
    BY DEF Threads
  <1>1. CASE at'[v].pc = "clear" /\ at'[v].op = at[v].op
    BY <1>0, <1>1 DEF Waits
  <1>2. CASE UNCHANGED vars
    BY <1>1, <1>0, <1>2 DEF vars
  <1>3. ASSUME NEW p \in Procs, Crash(p) PROVE Goal
    <2>1. CASE p = Daemon
      <3>1. \A u \in Handlers : at'[u] = Resting
        BY <1>3, <2>1, CrashMoves DEF Threads, Proc
      <3>2. cache'[Daemon] = Blank
        BY <1>3, <2>1, CrashMoves
      <3> QED
        BY <3>1, <3>2 DEF Held, Resting, Blank
    <2>2. CASE p # Daemon
      BY <1>0, <1>1, <1>3, <2>2, CrashMoves DEF Proc
    <2> QED
      BY <2>1, <2>2
  <1>4. ASSUME NEW t \in Threads \ {v}, Others(t) PROVE Goal
    BY <1>0, <1>1, <1>4 DEF Others
  <1>5. ASSUME NEW t \in Threads,
               \/ Calms(t) \/ Start(t) \/ Stat(t) \/ Read(t) \/ (ReadNothing(t) /\ ~Calms(t))
               \/ Lookup(t) /\ at[t].op.who \in Mine(t)
               \/ Marshal(t) \/ RenameFails(t)
        PROVE  Goal
    <2>1. Others(t) /\ at[t].pc # "clear"
      BY <1>5, StartMoves, StatMoves, ReadMoves, ReadNothingMoves, LookupMoves, MarshalMoves,
         RenameFailsMoves DEF Calms, Passes
    <2> QED
      BY <1>0, <1>4, <2>1
  <1>6. ASSUME NEW t \in Threads,
               \/ Install(t) \/ Delete(t) \/ Add(t) \/ Open(t) \/ Write(t) \/ WriteFails(t)
               \/ Stamp(t) \/ StampAndAnswer(t)
        PROVE  Goal
    <2>1. Others(t) /\ at[t].pc # "clear"
      BY <1>6, InstallMoves, DeleteMoves, AddMoves, OpenMoves, WriteMoves, WriteFailsMoves, StampMoves,
         StampAndAnswerMoves
    <2> QED
      BY <1>0, <1>4, <2>1
  <1>7. ASSUME NEW t \in Threads, Rename(t) \/ RemoveOther(t) PROVE Goal
    BY <1>0, <1>1, <1>7, RenameMoves, RemoveOtherMoves DEF Rests
  <1>8. ASSUME NEW t \in Threads, ClearPairing(t) PROVE Goal
    BY <1>8, ClearMoves
  <1> HIDE DEF Goal
  <1> QED
    BY <1>2, <1>3, <1>5, <1>6, <1>7, <1>8, StepKinds

\* A code that can be used after a step could be used before it, or is a new one.
LEMMA CodeStep ==
  ASSUME TypeInv, HandInv, [Next]_vars, ~overlapped', NEW c, Current(c)'
  PROVE  Current(c) \/ c \notin minted
  BY PairingMoves, CodeChange DEF Current

\* Only Add makes a device.
LEMMA IssuedStep ==
  ASSUME TypeInv, WholeInv, [Next]_vars
  PROVE  issued' = issued \/ \E t \in Threads : Add(t)
  <1>1. ASSUME NEW t \in Threads,
               \/ Calms(t) \/ Start(t) \/ Stat(t) \/ Read(t) \/ (ReadNothing(t) /\ ~Calms(t))
               \/ Lookup(t) /\ at[t].op.who \in Mine(t)
               \/ ClearPairing(t) \/ Marshal(t) \/ RenameFails(t)
        PROVE  issued' = issued
    BY <1>1, StartMoves, StatMoves, ReadMoves, ReadNothingMoves, LookupMoves, ClearMoves,
       MarshalMoves, RenameFailsMoves DEF Calms, Passes
  <1>2. ASSUME NEW t \in Threads,
               \/ Install(t) \/ Delete(t) \/ Open(t) \/ Write(t) \/ Rename(t) \/ RemoveOther(t)
               \/ WriteFails(t) \/ Stamp(t) \/ StampAndAnswer(t)
        PROVE  issued' = issued
    BY <1>2, InstallMoves, DeleteMoves, OpenMoves, WriteMoves, RenameMoves, RemoveOtherMoves,
       WriteFailsMoves, StampMoves, StampAndAnswerMoves
  <1> QED
    BY <1>1, <1>2, StepKinds, CrashMoves DEF vars, history

LEMMA HandStep ==
  ASSUME TypeInv, WholeInv, HandInv, [Next]_vars, ~overlapped'
  PROVE  HandInv'
  <1>1. CASE UNCHANGED <<pairing, minted>>
    <2>1. \A u \in Threads : CodeOK(u)'
      BY <1>1, HandSteps
    <2>2. ASSUME NEW i \in issued' PROVE i[1] \in minted'
      <3>1. CASE i \in issued
        BY <1>1, <3>1 DEF HandInv
      <3>2. ASSUME NEW t \in Threads, Add(t) PROVE i[1] \in minted'
        <4>1. PICK d : issued' = issued \cup {<<at[t].op.guess, d>>} /\ at[t].pc = "act" /\ at[t].op.kind = "pair"
          BY <3>2, AddMoves
        <4>2. at[t].op.guess \in minted
          BY <4>1 DEF HandInv, CodeOK, Redeeming, Current
        <4> QED
          BY <1>1, <3>1, <4>1, <4>2
      <3> QED
        BY <3>1, <3>2, IssuedStep
    <2> QED
      BY <1>1, <2>1, <2>2 DEF HandInv
  <1>2. ASSUME NEW t \in Threads,
               \/ NewPairingCode(t) \/ CancelPairing(t) \/ Expired(t) \/ Refuse(t) \/ ClearPairing(t)
        PROVE  HandInv'
    <2>1. /\ Alone(t) /\ Others(t) /\ at'[t].pc \in {"idle", "marshal"}
          /\ at'[t].op.kind = "pair" => at[t].op.kind = "pair"
          /\ issued' = issued /\ minted \subseteq minted'
          /\ pairing' # None => \/ pairing # None /\ pairing'.code = pairing.code /\ minted' = minted
                                \/ pairing'.code \in minted' \ minted
      BY <1>2, CodeChange
    <2>2. \A u \in Threads : CodeOK(u)'
      BY <2>1 DEF HandInv, CodeOK, Redeeming, Alone, Others
    <2> QED
      BY <2>1, <2>2 DEF HandInv
  <1> QED
    BY <1>1, <1>2, PairingMoves

\* While a code can be used, its devices come no nearer to the file: who would
\* save one would change the file under the thread that made it.
LEMMA UnsavedStep ==
  ASSUME TypeInv, WholeInv, HandInv, SingleInv, [Next]_vars, ~overlapped',
         NEW i \in issued, Current(i[1])
  PROVE  ~Saved(i[2])'
  <1>1. ~Saved(i[2]) /\ (Held(i[2]) => Waits(i[2]))
    BY DEF SingleInv
  <1>2. ASSUME NEW t \in Handlers, Open(t), i[2] \in at[t].buf PROVE FALSE
    <2>1. PICK v \in Handlers : at[v].pc = "clear"
      BY <1>1, <1>2 DEF Held, Waits
    <2>2. at[t].pc = "open" /\ Alone(t) /\ t \in Threads /\ v \in Threads
      BY <1>2, OpenMoves, TouchAlone DEF Threads
    <2> QED
      BY <2>1, <2>2 DEF Alone
  <1> QED
    BY <1>1, <1>2, WhereStep

LEMMA SingleStep ==
  ASSUME TypeInv, WholeInv, MadeInv, HandInv, SingleInv, [Next]_vars, ~overlapped'
  PROVE  SingleInv'
  <1>1. ASSUME NEW d \in Made, Present(d)' PROVE Present(d)
    BY <1>1, WhereStep DEF Present, Held
  <1>2. ASSUME NEW i \in issued, Current(i[1])' PROVE ~Saved(i[2])' /\ (Held(i[2])' => Waits(i[2])')
    <2>1. i[1] \in minted /\ i[2] \in Made
      BY DEF HandInv, Made
    <2>2. Current(i[1]) /\ pairing' # None
      BY <1>2, <2>1, CodeStep DEF Current
    <2>3. ~Saved(i[2])'
      BY <2>2, UnsavedStep
    <2>4. ASSUME Held(i[2])' PROVE Waits(i[2])'
      <3>1. Held(i[2])
        BY <2>1, <2>2, <2>4, WhereStep DEF SingleInv
      <3>2. Waits(i[2])
        BY <2>2, <3>1 DEF SingleInv
      <3> QED
        BY <2>2, <2>4, <3>2, WaitsOn
    <2> QED
      BY <2>3, <2>4
  <1>3. CASE issued' = issued
    BY <1>1, <1>2, <1>3 DEF SingleInv, Made
  <1>4. ASSUME NEW t \in Threads, Add(t) PROVE SingleInv'
    <2>1. PICK d \in Devices \ Made :
            /\ Alone(t) /\ Others(t) /\ UNCHANGED pairing
            /\ at[t].pc = "act" /\ at'[t].pc = "clear" /\ at'[t].op.dev = d
            /\ at[t].op.kind = "pair"
            /\ issued' = issued \cup {<<at[t].op.guess, d>>}
      BY <1>4, AddMoves, TouchAlone DEF Made
    <2>2. t \in Handlers /\ Current(at[t].op.guess)
      BY <2>1 DEF HandInv, CodeOK, Redeeming
    <2>3. \A e : ~Waits(e)
      BY <2>1 DEF Waits, Alone, Threads
    <2>4. ~Saved(d)' /\ Waits(d)'
      <3>1. ~Present(d)
        BY <2>1, PresentMade
      <3>2. ~Saved(d)'
        BY <3>1, WhereStep DEF Present, Held
      <3> QED
        BY <2>1, <2>2, <3>2 DEF Waits
    <2>5. ASSUME NEW i \in issued, i[1] = at[t].op.guess PROVE ~Present(i[2])'
      <3>1. ~Present(i[2]) /\ i[2] \in Made
        BY <2>2, <2>3, <2>5 DEF SingleInv, Present, Made
      <3> QED
        BY <1>1, <3>1
    <2>6. ASSUME NEW i \in issued', Current(i[1])' PROVE ~Saved(i[2])' /\ (Held(i[2])' => Waits(i[2])')
      BY <1>2, <2>1, <2>4, <2>6
    <2>7. ASSUME NEW i \in issued', NEW j \in issued', i[1] = j[1], Present(i[2])', Present(j[2])'
          PROVE  i = j
      <3>1. CASE i \in issued /\ j \in issued
        BY <1>1, <2>7, <3>1 DEF SingleInv, Made
      <3>2. CASE i \notin issued \/ j \notin issued
        BY <2>1, <2>5, <2>7, <3>2
      <3> QED
        BY <3>1, <3>2
    <2> QED
      BY <2>6, <2>7 DEF SingleInv
  <1> QED
    BY <1>3, <1>4, IssuedStep

CodeInv == PromiseInv /\ (overlapped \/ (HandInv /\ SingleInv))

LEMMA CodeInit == Init => CodeInv
  <1> SUFFICES ASSUME Init PROVE HandInv /\ SingleInv
    BY PromiseInit DEF CodeInv
  <1> QED
    BY DEF Init, HandInv, CodeOK, Redeeming, Resting, SingleInv

LEMMA CodeInvStep == CodeInv /\ [Next]_vars => CodeInv'
  <1> SUFFICES ASSUME CodeInv, [Next]_vars, ~overlapped' PROVE HandInv' /\ SingleInv'
    BY PromiseStep DEF CodeInv
  <1>1. TypeInv /\ WholeInv /\ MadeInv
    BY DEF CodeInv, PromiseInv
  <1>2. HandInv /\ SingleInv
    BY <1>1, OverlapStays DEF CodeInv
  <1> QED
    BY <1>1, <1>2, HandStep, SingleStep

\* ONE CODE, ONE DEVICE.  A code never makes a second device that is saved or has
\* its token, also when the daemon dies in the middle of Redeem, as long as no
\* change falls into another operation.
THEOREM CodeMakesOneDevice == Spec => []CodeIsSingleUse
  <1>1. CodeInv => CodeIsSingleUse
    <2> SUFFICES ASSUME CodeInv, InTurn,
                        NEW i \in issued, NEW j \in issued, i[1] = j[1],
                        {i[2], j[2]} \subseteq OnDisk \cup paired
                 PROVE  i = j
      BY DEF CodeIsSingleUse
    <2>1. paired \subseteq OnDisk
      BY PromiseKept DEF CodeInv, Good
    <2>2. Present(i[2]) /\ Present(j[2])
      BY <2>1 DEF Present, Saved
    <2> QED
      BY <2>2 DEF CodeInv, SingleInv, InTurn
  <1> QED
    BY CodeInit, CodeInvStep, <1>1, PTL DEF Spec
=============================================================================

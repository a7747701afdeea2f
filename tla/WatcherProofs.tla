---------------------------- MODULE WatcherProofs ----------------------------
(***************************************************************************)
(* Proofs about Watcher, for any number of frames, previews and failures.  *)
(***************************************************************************)
EXTENDS Watcher, TLAPS

(* What the loop holds at each of its places. *)
Connected ==
  pc \notin {"connecting", "resting", "stopped"} => client # 0

OneJob == pc # "fetching" => job = {}

AnswerTaken == poller # "answered" => answer = {}

Pending == pc \in {"looping", "selecting"} => todo = {}

LoopInv ==
  TypeOK /\ Connected /\ PollExclusive /\ OneJob /\ AnswerTaken /\ Pending

LEMMA LoopInvStart == Init => LoopInv
<1>. SUFFICES ASSUME Init PROVE LoopInv
  OBVIOUS
<1>1. preview \in [Previewers -> [client : 0..clients, fetching : BOOLEAN]]
  BY DEF Init, Nobody
<1>2. errs \in 0..MaxErrors - 1 /\ faults \in 0..MaxFaults
  BY WatcherAssumption DEF Init
<1>3. clients \in Nat /\ client \in 0..clients
  BY DEF Init
<1>4. pc \in Places /\ on \in BOOLEAN /\ alive \in BOOLEAN
  BY DEF Init, Places
<1>5. TypeOK
  BY <1>1, <1>2, <1>3, <1>4 DEF Init, TypeOK
<1>. QED
  BY <1>5 DEF Init, LoopInv, Connected, PollExclusive, OneJob, AnswerTaken, Pending

LEMMA TypeStep == LoopInv /\ [Next]_vars => TypeOK'
<1>1. SUFFICES ASSUME LoopInv, [Next]_vars PROVE TypeOK'
  OBVIOUS
<1>. USE <1>1, WatcherAssumption DEF LoopInv, TypeOK, Places, camera, pull, poll, conn
<1>. QED
  <2>1. CASE PowerOn
    BY <2>1 DEF PowerOn
  <2>2. CASE PowerOff
    <3>1. on' \in BOOLEAN /\ alive' \in BOOLEAN
      BY <2>2 DEF PowerOff
    <3>2. faults' \in 0..MaxFaults
      BY <2>2 DEF PowerOff, Fault
    <3>3. /\ card' = card /\ news' \subseteq news
          /\ poller' \in {poller, "hung"} /\ answer' = answer
      BY <2>2 DEF PowerOff
    <3>4. UNCHANGED <<pc, todo, job, errs, imported, failed, token, ctx, conn, preview, request>>
      BY <2>2 DEF PowerOff
    <3>. QED
      BY <3>1, <3>2, <3>3, <3>4
  <2>3. ASSUME NEW k \in Shots, Shoot(k)
        PROVE  TypeOK'
    BY <2>3 DEF Shoot
  <2>4. CASE Connect
    BY <2>4 DEF Connect
  <2>5. CASE ConnectFails
    BY <2>5 DEF ConnectFails, Refused, Fault, RestOrStop
  <2>6. CASE Leave
    BY <2>6 DEF Leave, RestOrStop
  <2>7. CASE Rest
    BY <2>7 DEF Rest
  <2>8. CASE StartListing
    BY <2>8 DEF StartListing, Ask
  <2>9. CASE Listed
    BY <2>9 DEF Listed, Begin
  <2>10. CASE ListingFails
    BY <2>10 DEF ListingFails, Refused, Fault
  <2>11. CASE StartFetch
    BY <2>11 DEF StartFetch, Ask
  <2>12. CASE Fetched
    BY <2>12 DEF Fetched
  <2>13. CASE FetchFails
    BY <2>13 DEF FetchFails, Refused, Fault, GivesUp
  <2>14. CASE AbortPull
    BY <2>14 DEF AbortPull
  <2>15. CASE EndPull
    BY <2>15 DEF EndPull
  <2>16. CASE StartPoll
    BY <2>16 DEF StartPoll
  <2>17. CASE ChooseStop
    BY <2>17 DEF ChooseStop
  <2>18. CASE ChooseSync
    BY <2>18 DEF ChooseSync
  <2>19. CASE ChooseAnswer
    BY <2>19 DEF ChooseAnswer, Begin
  <2>20. CASE Drained
    BY <2>20 DEF Drained
  <2>21. CASE PollAnswered
    BY <2>21 DEF PollAnswered
  <2>22. CASE PollFails
    BY <2>22 DEF PollFails, Fault, Cancelled
  <2>23. CASE SyncNow
    BY <2>23 DEF SyncNow, Watch
  <2>24. CASE Stop
    BY <2>24 DEF Stop
  <2>25. ASSUME NEW p \in Previewers, TakeClient(p)
        PROVE  TypeOK'
    BY <2>25 DEF TakeClient, Nobody
  <2>26. ASSUME NEW p \in Previewers, FetchPreview(p)
        PROVE  TypeOK'
    BY <2>26 DEF FetchPreview
  <2>27. ASSUME NEW p \in Previewers, EndPreview(p)
        PROVE  TypeOK'
    BY <2>27 DEF EndPreview, Nobody
  <2>28. CASE UNCHANGED vars
    BY <2>28 DEF vars
  <2>. QED
    BY <2>1, <2>2, <2>3, <2>4, <2>5, <2>6, <2>7, <2>8, <2>9, <2>10, <2>11, <2>12, <2>13,
       <2>14, <2>15, <2>16, <2>17, <2>18, <2>19, <2>20, <2>21, <2>22, <2>23, <2>24,
       <2>25, <2>26, <2>27, <2>28 DEF Next, Loop

LEMMA LoopStep ==
  LoopInv /\ [Next]_vars
    => Connected' /\ PollExclusive' /\ OneJob' /\ AnswerTaken' /\ Pending'
<1>1. SUFFICES ASSUME LoopInv, [Next]_vars
               PROVE  Connected' /\ PollExclusive' /\ OneJob' /\ AnswerTaken' /\ Pending'
  OBVIOUS
<1>. USE <1>1 DEF LoopInv, Connected, PollExclusive, OneJob, AnswerTaken, Pending, TypeOK,
                  Places, camera, pull, poll, conn
<1>. QED
  <2>1. CASE PowerOn
    BY <2>1 DEF PowerOn
  <2>2. CASE PowerOff
    BY <2>2 DEF PowerOff, Fault
  <2>3. ASSUME NEW k \in Shots, Shoot(k)
        PROVE  Connected' /\ PollExclusive' /\ OneJob' /\ AnswerTaken' /\ Pending'
    BY <2>3 DEF Shoot
  <2>4. CASE Connect
    BY <2>4 DEF Connect
  <2>5. CASE ConnectFails
    BY <2>5 DEF ConnectFails, Refused, Fault, RestOrStop
  <2>6. CASE Leave
    BY <2>6 DEF Leave, RestOrStop
  <2>7. CASE Rest
    BY <2>7 DEF Rest
  <2>8. CASE StartListing
    BY <2>8 DEF StartListing, Ask
  <2>9. CASE Listed
    BY <2>9 DEF Listed, Begin
  <2>10. CASE ListingFails
    BY <2>10 DEF ListingFails, Refused, Fault
  <2>11. CASE StartFetch
    BY <2>11 DEF StartFetch, Ask
  <2>12. CASE Fetched
    BY <2>12 DEF Fetched
  <2>13. CASE FetchFails
    BY <2>13 DEF FetchFails, Refused, Fault, GivesUp
  <2>14. CASE AbortPull
    BY <2>14 DEF AbortPull
  <2>15. CASE EndPull
    BY <2>15 DEF EndPull
  <2>16. CASE StartPoll
    BY <2>16 DEF StartPoll
  <2>17. CASE ChooseStop
    BY <2>17 DEF ChooseStop
  <2>18. CASE ChooseSync
    BY <2>18 DEF ChooseSync
  <2>19. CASE ChooseAnswer
    BY <2>19 DEF ChooseAnswer, Begin
  <2>20. CASE Drained
    BY <2>20 DEF Drained
  <2>21. CASE PollAnswered
    BY <2>21 DEF PollAnswered
  <2>22. CASE PollFails
    BY <2>22 DEF PollFails, Fault, Cancelled
  <2>23. CASE SyncNow
    BY <2>23 DEF SyncNow, Watch
  <2>24. CASE Stop
    BY <2>24 DEF Stop
  <2>25. ASSUME NEW p \in Previewers, TakeClient(p)
        PROVE  Connected' /\ PollExclusive' /\ OneJob' /\ AnswerTaken' /\ Pending'
    BY <2>25 DEF TakeClient, Nobody
  <2>26. ASSUME NEW p \in Previewers, FetchPreview(p)
        PROVE  Connected' /\ PollExclusive' /\ OneJob' /\ AnswerTaken' /\ Pending'
    BY <2>26 DEF FetchPreview
  <2>27. ASSUME NEW p \in Previewers, EndPreview(p)
        PROVE  Connected' /\ PollExclusive' /\ OneJob' /\ AnswerTaken' /\ Pending'
    BY <2>27 DEF EndPreview, Nobody
  <2>28. CASE UNCHANGED vars
    BY <2>28 DEF vars
  <2>. QED
    BY <2>1, <2>2, <2>3, <2>4, <2>5, <2>6, <2>7, <2>8, <2>9, <2>10, <2>11, <2>12, <2>13,
       <2>14, <2>15, <2>16, <2>17, <2>18, <2>19, <2>20, <2>21, <2>22, <2>23, <2>24,
       <2>25, <2>26, <2>27, <2>28 DEF Next, Loop

LEMMA LoopInvariant == Spec => []LoopInv
<1>1. LoopInv /\ [Next]_vars => LoopInv'
  BY TypeStep, LoopStep DEF LoopInv
<1>. QED
  BY <1>1, LoopInvStart, PTL DEF Spec

(* The variables of the loop, of the camera and of the handlers keep their types;
   in particular a pull never counts more failures in a row than it may. *)
THEOREM TypeCorrect == Spec => []TypeOK
<1>1. LoopInv => TypeOK
  BY DEF LoopInv
<1>. QED
  BY <1>1, LoopInvariant, PTL

(* The loop neither lists nor downloads while its poll is open, and leaves no
   poll behind when it reconnects or stops. *)
THEOREM PollsExcludePulls == Spec => []PollExclusive
<1>1. LoopInv => PollExclusive
  BY DEF LoopInv
<1>. QED
  BY <1>1, LoopInvariant, PTL

(* A sync request waits in the channel, or a listing comes next, until a listing that
   began after it has succeeded. *)
THEOREM NoRequestLost == Spec => []RequestKept
<1>1. Init => RequestKept
  BY DEF Init, RequestKept
<1>2. LoopInv /\ RequestKept /\ [Next]_vars => RequestKept'
  <2>. SUFFICES ASSUME LoopInv, RequestKept, [Next]_vars
                PROVE  RequestKept'
    OBVIOUS
  <2>. USE DEF LoopInv, RequestKept, TypeOK, Places, camera, pull, poll, conn
  <2>1. CASE PowerOn
    BY <2>1 DEF PowerOn
  <2>2. CASE PowerOff
    BY <2>2 DEF PowerOff, Fault
  <2>3. ASSUME NEW k \in Shots, Shoot(k)
        PROVE  RequestKept'
    BY <2>3 DEF Shoot
  <2>4. CASE Connect
    BY <2>4 DEF Connect
  <2>5. CASE ConnectFails
    BY <2>5 DEF ConnectFails, Refused, Fault, RestOrStop
  <2>6. CASE Leave
    BY <2>6 DEF Leave, RestOrStop
  <2>7. CASE Rest
    BY <2>7 DEF Rest
  <2>8. CASE StartListing
    BY <2>8 DEF StartListing, Ask
  <2>9. CASE Listed
    BY <2>9 DEF Listed, Begin
  <2>10. CASE ListingFails
    BY <2>10 DEF ListingFails, Refused, Fault
  <2>11. CASE StartFetch
    BY <2>11 DEF StartFetch, Ask
  <2>12. CASE Fetched
    BY <2>12 DEF Fetched
  <2>13. CASE FetchFails
    BY <2>13 DEF FetchFails, Refused, Fault, GivesUp
  <2>14. CASE AbortPull
    BY <2>14 DEF AbortPull
  <2>15. CASE EndPull
    BY <2>15 DEF EndPull
  <2>16. CASE StartPoll
    BY <2>16 DEF StartPoll
  <2>17. CASE ChooseStop
    BY <2>17 DEF ChooseStop
  <2>18. CASE ChooseSync
    BY <2>18 DEF ChooseSync
  <2>19. CASE ChooseAnswer
    BY <2>19 DEF ChooseAnswer, Begin
  <2>20. CASE Drained
    BY <2>20 DEF Drained
  <2>21. CASE PollAnswered
    BY <2>21 DEF PollAnswered
  <2>22. CASE PollFails
    BY <2>22 DEF PollFails, Fault, Cancelled
  <2>23. CASE SyncNow
    BY <2>23 DEF SyncNow, Watch
  <2>24. CASE Stop
    BY <2>24 DEF Stop
  <2>25. ASSUME NEW p \in Previewers, TakeClient(p)
        PROVE  RequestKept'
    BY <2>25 DEF TakeClient, Nobody
  <2>26. ASSUME NEW p \in Previewers, FetchPreview(p)
        PROVE  RequestKept'
    BY <2>26 DEF FetchPreview
  <2>27. ASSUME NEW p \in Previewers, EndPreview(p)
        PROVE  RequestKept'
    BY <2>27 DEF EndPreview, Nobody
  <2>28. CASE UNCHANGED vars
    BY <2>28 DEF vars
  <2>. QED
    BY <2>1, <2>2, <2>3, <2>4, <2>5, <2>6, <2>7, <2>8, <2>9, <2>10, <2>11, <2>12, <2>13,
       <2>14, <2>15, <2>16, <2>17, <2>18, <2>19, <2>20, <2>21, <2>22, <2>23, <2>24,
       <2>25, <2>26, <2>27, <2>28 DEF Next, Loop
<1>. QED
  BY <1>1, <1>2, LoopInvariant, PTL DEF Spec

(* A listing under way has seen what was on the card, or the camera will
   report it. *)
WalkSees == pc = "walking" => card \subseteq todo \cup news

FrameInv == WalkSees /\ NothingForgotten

(* If the camera reports every frame taken since the last poll, even across an
   absence, then no frame is forgotten, whatever is cancelled, lost or refused. *)
THEOREM NoFrameForgotten ==
  ASSUME KeepsNews
  PROVE  Spec => []NothingForgotten
<1>1. Init => FrameInv
  BY DEF Init, FrameInv, WalkSees, NothingForgotten, FullPullAhead
<1>2. LoopInv /\ FrameInv /\ [Next]_vars => FrameInv'
  <2>. SUFFICES ASSUME LoopInv, FrameInv, [Next]_vars
                PROVE  FrameInv'
    OBVIOUS
  <2>. USE DEF FrameInv, WalkSees, NothingForgotten, FullPullAhead, InHand,
               LoopInv, PollExclusive, OneJob, AnswerTaken, Pending, TypeOK, Places,
               camera, pull, poll, conn
  <2>1. CASE PowerOn
    BY <2>1 DEF PowerOn
  <2>2. CASE PowerOff
    BY <2>2 DEF PowerOff, Fault
  <2>3. ASSUME NEW k \in Shots, Shoot(k)
        PROVE  FrameInv'
    BY <2>3 DEF Shoot
  <2>4. CASE Connect
    BY <2>4 DEF Connect
  <2>5. CASE ConnectFails
    BY <2>5 DEF ConnectFails, Refused, Fault, RestOrStop
  <2>6. CASE Leave
    BY <2>6 DEF Leave, RestOrStop
  <2>7. CASE Rest
    BY <2>7 DEF Rest
  <2>8. CASE StartListing
    BY <2>8 DEF StartListing, Ask
  <2>9. CASE Listed
    BY <2>9 DEF Listed, Begin
  <2>10. CASE ListingFails
    BY <2>10 DEF ListingFails, Refused, Fault
  <2>11. CASE StartFetch
    BY <2>11 DEF StartFetch, Ask
  <2>12. CASE Fetched
    BY <2>12 DEF Fetched
  <2>13. CASE FetchFails
    BY <2>13 DEF FetchFails, Refused, Fault, GivesUp
  <2>14. CASE AbortPull
    BY <2>14 DEF AbortPull
  <2>15. CASE EndPull
    BY <2>15 DEF EndPull
  <2>16. CASE StartPoll
    BY <2>16 DEF StartPoll
  <2>17. CASE ChooseStop
    BY <2>17 DEF ChooseStop
  <2>18. CASE ChooseSync
    BY <2>18 DEF ChooseSync
  <2>19. CASE ChooseAnswer
    BY <2>19 DEF ChooseAnswer, Begin
  <2>20. CASE Drained
    BY <2>20 DEF Drained
  <2>21. CASE PollAnswered
    BY <2>21 DEF PollAnswered
  <2>22. CASE PollFails
    BY <2>22 DEF PollFails, Fault, Cancelled
  <2>23. CASE SyncNow
    BY <2>23 DEF SyncNow, Watch
  <2>24. CASE Stop
    BY <2>24 DEF Stop
  <2>25. ASSUME NEW p \in Previewers, TakeClient(p)
        PROVE  FrameInv'
    BY <2>25 DEF TakeClient, Nobody
  <2>26. ASSUME NEW p \in Previewers, FetchPreview(p)
        PROVE  FrameInv'
    BY <2>26 DEF FetchPreview
  <2>27. ASSUME NEW p \in Previewers, EndPreview(p)
        PROVE  FrameInv'
    BY <2>27 DEF EndPreview, Nobody
  <2>28. CASE UNCHANGED vars
    BY <2>28 DEF vars
  <2>. QED
    BY <2>1, <2>2, <2>3, <2>4, <2>5, <2>6, <2>7, <2>8, <2>9, <2>10, <2>11, <2>12, <2>13,
       <2>14, <2>15, <2>16, <2>17, <2>18, <2>19, <2>20, <2>21, <2>22, <2>23, <2>24,
       <2>25, <2>26, <2>27, <2>28 DEF Next, Loop
<1>3. FrameInv => NothingForgotten
  BY DEF FrameInv
<1>. QED
  BY <1>1, <1>2, <1>3, LoopInvariant, PTL DEF Spec
=============================================================================

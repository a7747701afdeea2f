------------------------------ MODULE Previews ------------------------------
(***************************************************************************)
(* Small previews of the photos: internal/thumb/thumb.go and the handler   *)
(* handlePhotoThumb of internal/api/handlers.go.                           *)
(*                                                                         *)
(* A preview is kept beside the library and made anew when the photo is    *)
(* younger.  Requests are served at once, each by a goroutine, and those   *)
(* for one preview write through one temporary file.  Of a picture there   *)
(* is which edition of the photo each part of it was made of.              *)
(***************************************************************************)
EXTENDS Naturals

CONSTANTS
    Photos,    \* the entries of the library
    Jpegs,     \* those that can be decoded
    Stem,      \* per entry, its name without extension
    Taken,     \* per entry, its place in the list, the newest last
    Handlers,  \* goroutines of the daemon
    None,
    Chunks,    \* writes it takes to write a picture (a buffer at a time)
    MaxTime,   \* bound on modification times
    MaxEdits,  \* bound on changes of a photo
    MaxFaults  \* bound on failures and crashes

ASSUME PreviewsAssumption ==
    /\ Jpegs \subseteq Photos /\ None \notin Photos
    /\ Taken \in [Photos -> Nat]
    /\ \A e, f \in Photos : Taken[e] = Taken[f] => e = f
    \* the list is finite: of several photos one is the newest
    /\ \A S \in (SUBSET Jpegs) \ {{}} : \E j \in S : \A k \in S : Taken[k] <= Taken[j]
    /\ DOMAIN Stem = Photos
    /\ Chunks \in Nat \ {0}
    /\ MaxTime \in Nat /\ MaxEdits \in Nat /\ MaxFaults \in Nat
    /\ None \notin 0..MaxEdits

VARIABLES
    clock,      \* the time that files are stamped with
    src,        \* per decodable photo, the modification time of its file
    edition,    \* and how often it was changed
    dst,        \* per photo, its preview
    tmp,        \* per photo, the temporary file of its preview
    at,         \* per handler, where it is
    faults

vars == <<clock, src, edition, dst, tmp, at, faults>>

Times == 0..MaxTime
Editions == 0..MaxEdits
\* A preview: the edition of the photo that each chunk of it is of, when it was last
\* written to, and the edition of the photo by then.  Marked (history): mixed, if it
\* was open to handlers that write different editions; carried, if renamed when open.
Preview == [chunks : [1..Chunks -> Editions \cup {None}], time : Times, by : Editions,
            marks : SUBSET {"mixed", "carried"}]

ASSUME NoneAssumption == None \notin Preview

\* seen: the time of the photo; decoded: the edition that was decoded; wrote: the
\* chunks written so far; fd: the name of the file that is open for writing.
Places == [pc : {"idle", "stat", "compare", "decode", "create", "encode", "rename"},
           photo : Photos \cup {None}, seen : Times, decoded : Editions, wrote : 0..Chunks,
           fd : {"tmp", "dst", "gone"}]

Resting == [pc |-> "idle", photo |-> None, seen |-> 0, decoded |-> 0, wrote |-> 0,
            fd |-> "gone"]

TypeOK ==
    /\ clock \in Times /\ src \in [Jpegs -> Times] /\ edition \in [Jpegs -> Editions]
    /\ dst \in [Photos -> Preview \cup {None}] /\ tmp \in [Photos -> Preview \cup {None}]
    /\ at \in [Handlers -> Places] /\ faults \in 0..MaxFaults

Init ==
    /\ clock = 0 /\ src = [j \in Jpegs |-> 0] /\ edition = [j \in Jpegs |-> 0]
    /\ dst = [e \in Photos |-> None] /\ tmp = [e \in Photos |-> None]
    /\ at = [h \in Handlers |-> Resting] /\ faults = 0

-----------------------------------------------------------------------------
(* thumbSource: a photo that can be decoded itself, or else the newest with the *)
(* same name but for the extension, as a camera that shoots both makes them     *)

Siblings(e) == {j \in Jpegs \ {e} : Stem[j] = Stem[e]}
thumbSource(e) ==
    IF e \in Jpegs THEN e
    ELSE IF Siblings(e) = {} THEN None
    ELSE CHOOSE j \in Siblings(e) : \A k \in Siblings(e) : Taken[k] <= Taken[j]

At(h, l) == at[h].pc = l
To(h, l) == at' = [at EXCEPT ![h].pc = l]
Fault == faults < MaxFaults /\ faults' = faults + 1

-----------------------------------------------------------------------------
Tick ==
    /\ clock < MaxTime
    /\ clock' = clock + 1
    /\ UNCHANGED <<src, edition, dst, tmp, at, faults>>

\* The photo is changed, by another program.
Edit(j) ==
    /\ edition[j] < MaxEdits
    /\ edition' = [edition EXCEPT ![j] = @ + 1]
    /\ src' = [src EXCEPT ![j] = clock]
    /\ UNCHANGED <<clock, dst, tmp, at, faults>>

\* For a photo without anything to decode the camera is asked at once.
Request(h) ==
    /\ At(h, "idle")
    /\ \E e \in Photos : /\ thumbSource(e) # None
                         /\ at' = [at EXCEPT ![h].photo = e, ![h].pc = "stat"]
    /\ UNCHANGED <<clock, src, edition, dst, tmp, faults>>

-----------------------------------------------------------------------------
(* Cache *)

Stat(h) ==
    /\ At(h, "stat")
    /\ at' = [at EXCEPT ![h].seen = src[thumbSource(at[h].photo)], ![h].pc = "compare"]
    /\ UNCHANGED <<clock, src, edition, dst, tmp, faults>>

\* Mutant: a preview that is as old as the photo will do.
NotBefore(d, time) == d # None /\ d.time >= time

\* A preview is good if it is younger than the photo, and not just as old.
After(d, time) == d # None /\ d.time > time

Serve(h) ==
    /\ At(h, "compare") /\ After(dst[at[h].photo], at[h].seen)
    /\ at' = [at EXCEPT ![h] = Resting]
    /\ UNCHANGED <<clock, src, edition, dst, tmp, faults>>

MakeAnew(h) ==
    /\ At(h, "compare") /\ ~After(dst[at[h].photo], at[h].seen)
    /\ at' = [at EXCEPT ![h].seen = 0, ![h].pc = "decode"]
    /\ UNCHANGED <<clock, src, edition, dst, tmp, faults>>

-----------------------------------------------------------------------------
(* Generate *)

Source(h) == thumbSource(at[h].photo)

Decode(h) ==
    /\ At(h, "decode")
    /\ at' = [at EXCEPT ![h].decoded = edition[Source(h)], ![h].pc = "create"]
    /\ UNCHANGED <<clock, src, edition, dst, tmp, faults>>

\* The others that have the file open that h opens or renames.
Others(h, name) == {g \in Handlers \ {h} : at[g].photo = at[h].photo /\ at[g].fd = name}

Emptied(h, name) ==
    [chunks |-> [i \in 1..Chunks |-> None], time |-> clock, by |-> edition[Source(h)],
     marks |-> IF \E g \in Others(h, name) : at[g].decoded # at[h].decoded
               THEN {"mixed"} ELSE {}]

\* Mutant: the preview is written in place.
CreateInPlace(h) ==
    /\ At(h, "create")
    /\ dst' = [dst EXCEPT ![at[h].photo] = Emptied(h, "dst")]
    /\ at' = [at EXCEPT ![h].fd = "dst", ![h].pc = "encode"]
    /\ UNCHANGED <<clock, src, edition, tmp, faults>>

\* The temporary file is made, or emptied if there is one: another handler that has
\* it open writes on where it was.
Create(h) ==
    /\ At(h, "create")
    /\ tmp' = [tmp EXCEPT ![at[h].photo] = Emptied(h, "tmp")]
    /\ at' = [at EXCEPT ![h].fd = "tmp", ![h].pc = "encode"]
    /\ UNCHANGED <<clock, src, edition, dst, faults>>

\* The next chunk goes where this handler is in the file, whatever else is there.
Written(h, f) ==
    [chunks |-> [f.chunks EXCEPT ![at[h].wrote + 1] = at[h].decoded], time |-> clock,
     by |-> edition[Source(h)], marks |-> f.marks]

Write(h) ==
    LET e == at[h].photo IN
    /\ At(h, "encode")
    /\ tmp' = IF at[h].fd = "tmp" THEN [tmp EXCEPT ![e] = Written(h, tmp[e])] ELSE tmp
    /\ dst' = IF at[h].fd = "dst" THEN [dst EXCEPT ![e] = Written(h, dst[e])] ELSE dst
    /\ UNCHANGED <<clock, src, edition, faults>>

Encode(h) ==
    /\ Write(h) /\ at[h].wrote + 1 < Chunks
    /\ at' = [at EXCEPT ![h].wrote = @ + 1]

Close(h) ==
    /\ Write(h) /\ at[h].wrote + 1 = Chunks
    /\ at' = [at EXCEPT ![h] = [Resting EXCEPT !.pc = "rename", !.photo = at[h].photo]]

\* What handlers have open for photo e under one name is now open under the other.
Moved(e, from, to) ==
    [g \in Handlers |-> IF at[g].photo = e /\ at[g].fd = from THEN [at[g] EXCEPT !.fd = to]
                        ELSE IF at[g].photo = e /\ at[g].fd = to THEN [at[g] EXCEPT !.fd = "gone"]
                        ELSE at[g]]

\* Then Cache returns the preview, and it is served.
Rename(h) ==
    LET e == at[h].photo IN
    /\ At(h, "rename") /\ tmp[e] # None
    /\ dst' = [dst EXCEPT ![e] = [tmp[e] EXCEPT !.marks =
                  IF Others(h, "tmp") # {} THEN @ \cup {"carried"} ELSE @]]
    /\ tmp' = [tmp EXCEPT ![e] = None]
    /\ at' = [Moved(e, "tmp", "dst") EXCEPT ![h] = Resting]
    /\ UNCHANGED <<clock, src, edition, faults>>

\* Without a preview the camera is asked for the one it has (serveCameraThumbnail),
\* and whatever it says the request is over.
AskCamera(h) == at' = [at EXCEPT ![h] = Resting]

RenameFails(h) ==
    /\ At(h, "rename") /\ tmp[at[h].photo] = None
    /\ AskCamera(h)
    /\ UNCHANGED <<clock, src, edition, dst, tmp, faults>>

\* The photo is gone or cannot be decoded, or no file can be made.
GenerateFails(h) ==
    /\ at[h].pc \in {"stat", "decode", "create"} /\ Fault
    /\ AskCamera(h)
    /\ UNCHANGED <<clock, src, edition, dst, tmp>>

\* The file that could not be written is removed, whoever has it open.
EncodeFails(h) ==
    LET e == at[h].photo IN
    /\ At(h, "encode") /\ Fault
    /\ tmp' = [tmp EXCEPT ![e] = None]
    /\ at' = [Moved(e, "tmp", "gone") EXCEPT ![h] = Resting]
    /\ UNCHANGED <<clock, src, edition, dst>>

Crash ==
    /\ Fault
    /\ \E h \in Handlers : ~At(h, "idle")
    /\ at' = [h \in Handlers |-> Resting]
    /\ UNCHANGED <<clock, src, edition, dst, tmp>>

-----------------------------------------------------------------------------
Step(h) ==
    \/ Request(h) \/ Stat(h) \/ Serve(h) \/ MakeAnew(h) \/ Decode(h) \/ Create(h)
    \/ Encode(h) \/ Close(h) \/ Rename(h) \/ RenameFails(h) \/ GenerateFails(h) \/ EncodeFails(h)

Next == Tick \/ Crash \/ (\E j \in Jpegs : Edit(j)) \/ (\E h \in Handlers : Step(h))

Spec == Init /\ [][Next]_vars

-----------------------------------------------------------------------------
Whole(f) == \E n \in Editions : \A i \in 1..Chunks : f.chunks[i] = n

\* A preview that is not one picture from beginning to end is still being written,
\* or two requests made it at once and either the photo was changed between their
\* decodings or one of them, after the other had renamed the file it was writing,
\* failed or died.  Nothing else leaves a torn picture to be served from then on: no
\* failure or death of a request by itself, and no two requests that decoded the same
\* photo and both come through, whoever creates, writes and renames first.
CachedIsWhole ==
    \A e \in Photos : dst[e] # None /\ ~Whole(dst[e]) =>
        \/ \E h \in Handlers : at[h].photo = e /\ at[h].fd = "dst"
        \/ "mixed" \in dst[e].marks
        \/ "carried" \in dst[e].marks /\ faults > 0

\* A preview that is served was last written to after the photo was last changed, also
\* when both have the same time: it shows the photo as it is now, unless the photo was
\* changed while the preview was being made.
PreviewIsCurrent ==
    \A e \in Photos : LET j == thumbSource(e) IN
        j # None /\ After(dst[e], src[j]) => dst[e].by = edition[j]
=============================================================================

-------------------------------- MODULE Exif --------------------------------
(***************************************************************************)
(* When a shot was taken, read from its file: internal/exif/exif.go.       *)
(*                                                                         *)
(* Read walks the segments of a JPEG to the first with Exif, or the nested *)
(* boxes of a CR3 or MP4 through all that may hold a time.  The file is    *)
(* decided as it is read, each part when the walk comes to it, and may be  *)
(* anything: cut short, nested without end, with sizes that lie.  Lengths  *)
(* count 2 bytes in a JPEG, and 8 in boxes, where a header takes one, one  *)
(* with a 64-bit size two, and the ID of a uuid box two.                   *)
(*                                                                         *)
(* A TIFF block is known by its directories.  Make and model, offsets and  *)
(* fractions of seconds are left out; a date is known by where it stands.  *)
(***************************************************************************)
EXTENDS Integers, SequencesExt

CONSTANTS
    Sizes,     \* the lengths of files
    Claims,    \* the lengths that 32-bit sizes claim; 0 is less than a header
    MaxScan,   \* how much of a file is looked at
    Half,      \* half as many integers as there are: 2^63 in the code
    MaxBoxes,  \* how deep boxes are followed, 6 in the code
    MaxIFDs,   \* how deep directories are followed, 4 in the code
    Tiffs,     \* the TIFF blocks a JPEG may hold
    Cmts,      \* those the Canon box of a CR3 may hold
    None

Tags == <<"original", "digitized", "modified">>
TagSet == {Tags[i] : i \in DOMAIN Tags}
Dates == {"app1", "CMT1", "CMT2"} \X TagSet \cup {<<"mvhd", "movie">>, <<"mvhd", "wrapped">>}
Words == -Half .. Half - 1
Wrapped(n) == ((n + Half) % (2 * Half)) - Half

\* A TIFF block: directories, and the one to begin with.  The value of an entry is
\* good or bad for a date, and for "exif" another directory.
Entries == [tag : TagSet, value : {"good", "bad"}] \cup [tag : {"exif"}, value : Nat]
Blocks == [ifds : Seq(Seq(Entries)), root : Nat]

ASSUME ExifAssumption ==
    /\ \A n \in Sizes \cup Claims \cup {MaxScan, MaxBoxes, MaxIFDs, Half} : n \in Nat
    /\ \A n \in Sizes \cup Claims \cup {MaxScan} : n < Half
    /\ None \notin {"date", "none", "error"} \cup Dates
    /\ Tiffs \cup Cmts \subseteq Blocks

VARIABLES
    file,     \* its length, and whether a few bytes more follow that
    pc,       \* "start", "segments", "boxes", "canon" or "done"
    pos,      \* where the next segment of a JPEG is
    frames,   \* the boxes entered: where the next box is, and where they end
    canon,    \* the Canon box: the same, and the TIFF blocks found in it
    md,       \* the date found
    outcome,  \* what Read returns: a date, none, or an error
    due       \* history: the dates that the file read so far permits

vars == <<file, pc, pos, frames, canon, md, outcome, due>>

NoBlocks == [name \in {"CMT1", "CMT2"} |-> None]
Outside == [pos |-> 0, end |-> 0, blocks |-> NoBlocks]

TypeOK ==
    /\ file \in [length : Sizes, ragged : BOOLEAN]
    /\ pc \in {"start", "segments", "boxes", "canon", "done"}
    /\ pos \in Nat
    /\ frames \in Seq([pos : Words, end : Words]) /\ Len(frames) <= MaxBoxes + 2
    /\ canon \in [pos : Words, end : Words, blocks : [{"CMT1", "CMT2"} -> Cmts \cup {None}]]
    /\ md \in Dates \cup {None} /\ due \subseteq Dates \cup {None}
    /\ outcome \in {"date", "none", "error", None}

Init ==
    /\ file \in [length : Sizes, ragged : BOOLEAN]
    /\ pc = "start" /\ pos = 0 /\ frames = <<>> /\ canon = Outside
    /\ md = None /\ outcome = None /\ due = {None}

-----------------------------------------------------------------------------
(* parseTIFF *)

States == [TagSet -> {"good", "bad"}]
Unset == [tag \in TagSet |-> "bad"]

\* The last entry of a tag counts.
ReadEntry(e, follow, state) ==
    IF e.tag = "exif" THEN follow[e.value][state] ELSE [state EXCEPT ![e.tag] = e.value]
ReadEntries(ifd, follow, state) ==
    LET after[n \in 0..Len(ifd)] ==
            IF n = 0 THEN state ELSE ReadEntry(ifd[n], follow, after[n - 1])
    IN after[Len(ifd)]

\* Directories may lead back to where one was, and are followed as long as there
\* are levels left.
walkIFD(block) ==
    LET walk[left \in 0..MaxIFDs + 1] ==
            [ifd \in Nat |-> [state \in States |->
                IF left = 0 \/ ifd \notin DOMAIN block.ifds THEN state
                ELSE ReadEntries(block.ifds[ifd], walk[left - 1], state)]]
    IN walk[MaxIFDs + 1][block.root][Unset]

\* Mutant: the time of the last change is preferred.
applyLatest(date, from, state) ==
    LET best == {i \in DOMAIN Tags : state[Tags[i]] = "good" /\
                   \A j \in DOMAIN Tags : j > i => state[Tags[j]] = "bad"}
    IN IF date # None \/ best = {} THEN date ELSE <<from, Tags[CHOOSE i \in best : TRUE]>>

\* A date that was found before stays; or else the first of the tags that is good.
applyState(date, from, state) ==
    LET best == {i \in DOMAIN Tags : state[Tags[i]] = "good" /\
                   \A j \in DOMAIN Tags : j < i => state[Tags[j]] = "bad"}
    IN IF date # None \/ best = {} THEN date ELSE <<from, Tags[CHOOSE i \in best : TRUE]>>

parseTIFF(block, from, date) == applyState(date, from, walkIFD(block))

-----------------------------------------------------------------------------
(* The same, said without an order of reading.  A tag is stated if it has a good  *)
(* entry in a directory that can be reached, and plain if it has no bad one.      *)

Linked(block, from) ==
    {e.value : e \in {x \in UNION {Range(block.ifds[i]) : i \in from} : x.tag = "exif"}}
        \cap DOMAIN block.ifds
Within(block, ifd) ==
    LET upto[n \in 0..MaxIFDs] ==
            IF n = 0 THEN {ifd} \cap DOMAIN block.ifds
            ELSE upto[n - 1] \cup Linked(block, upto[n - 1])
    IN upto
Stated(block, from, tag) ==
    {e.value : e \in {x \in UNION {Range(block.ifds[i]) : i \in from} : x.tag = tag}}
Says(block, tag) == Stated(block, Within(block, block.root)[MaxIFDs], tag)

\* The dates a block permits: not one that is worse than one plainly stated.
Permitted(block, from) ==
    LET plain(i) == Says(block, Tags[i]) = {"good"}
        beaten(i) == \E j \in 1..(i - 1) : plain(j)
    IN {<<from, Tags[i]>> : i \in {k \in DOMAIN Tags : "good" \in Says(block, Tags[k]) /\ ~beaten(k)}}
         \cup (IF \E i \in DOMAIN Tags : plain(i) THEN {} ELSE {None})

\* More that is read matters only where there was no date before.
AndThen(dates, more) == IF None \in dates THEN (dates \ {None}) \cup more ELSE dates

-----------------------------------------------------------------------------
Finish(date) == pc' = "done" /\ outcome' = IF date = None THEN "none" ELSE "date"
GiveUp == Finish(None) /\ UNCHANGED <<file, pos, frames, canon, md, due>>

\* Read tells the kind of a file from its first 12 bytes.
Header ==
    /\ pc = "start"
    /\ \/ /\ pc' = "segments" /\ file.length >= 6
          /\ pos' = 1 /\ UNCHANGED <<frames, outcome>>
       \/ /\ pc' = "boxes" /\ file.length >= IF file.ragged THEN 1 ELSE 2
          /\ frames' = <<[pos |-> 0, end |-> IF file.length > MaxScan THEN MaxScan ELSE file.length]>>
          /\ UNCHANGED <<pos, outcome>>
    /\ UNCHANGED <<file, canon, md, due>>

Unknown == pc = "start" /\ GiveUp

-----------------------------------------------------------------------------
(* readJPEG *)

\* A marker alone
BareMarker ==
    /\ pc = "segments" /\ pos + 1 <= file.length
    /\ pos' = pos + 1
    /\ UNCHANGED <<file, pc, frames, canon, md, outcome, due>>

\* A segment without Exif; it may claim to end behind the file.
SkipSegment ==
    /\ pc = "segments" /\ pos + 2 <= file.length
    /\ \E n \in Claims : pos' = pos + 2 + n
    /\ UNCHANGED <<file, pc, frames, canon, md, outcome, due>>

\* The first with Exif decides.
ExifSegment ==
    /\ pc = "segments"
    /\ \E n \in Claims : n > 3 /\ pos + 2 + n <= file.length
    /\ \E block \in Tiffs :
         /\ md' = parseTIFF(block, "app1", None)
         /\ due' = Permitted(block, "app1")
    /\ Finish(md')
    /\ UNCHANGED <<file, pos, frames, canon>>

\* Start of scan, end of image, no marker, no size, or the end of the file
NoMoreSegments == pc = "segments" /\ GiveUp

-----------------------------------------------------------------------------
(* walkBoxes *)

Top == Last(frames)
ToBox(n) == Front(frames) \o <<[Top EXCEPT !.pos = n]>>

\* Mutant: boxes are followed to any depth.
InAnyFrame == pc = "boxes" /\ Top.pos + 1 <= Top.end

InFrame == pc = "boxes" /\ Len(frames) <= MaxBoxes + 1 /\ Top.pos + 1 <= Top.end
AtBox == InFrame /\ Top.pos >= 0

\* One recursion returns; after the outermost Read does.
Return ==
    /\ frames' = Front(frames)
    /\ IF Len(frames) > 1 THEN UNCHANGED <<pc, outcome>> ELSE Finish(md)
    /\ UNCHANGED <<file, pos, canon, md, due>>

FrameEnds == pc = "boxes" /\ ~InFrame /\ Return

\* The sizes that headers at the next box may claim, and how long the header is
Headers == {[n |-> n, len |-> 1] : n \in Claims}
             \cup (IF Top.pos + 2 <= file.length THEN {[n |-> n, len |-> 2] : n \in Words} ELSE {})
EndOf(h) == Wrapped(Top.pos + h.n)

\* Mutant: only what is longer than the box around it is bogus.
TooLong(h) == EndOf(h) > Top.end

Bogus(h) == h.n < h.len \/ EndOf(h) > Top.end

\* Cut short or bogus: stop rather than guess.
BogusBox ==
    /\ AtBox /\ \E h \in Headers : Bogus(h)
    /\ Return

Fail == pc' = "done" /\ outcome' = "error" /\ UNCHANGED <<file, pos, frames, canon, md, due>>

\* Mutant: the end of the file is an error like others.
FailAtEnd ==
    /\ AtBox /\ Top.pos + 2 > file.length
    /\ Fail

\* The file ends before a 64-bit size, which is fine, or in the middle of it.
FileEnds ==
    /\ AtBox /\ Top.pos + 2 > file.length
    /\ IF file.ragged THEN Fail
       ELSE Finish(md) /\ UNCHANGED <<file, pos, frames, canon, md, due>>

\* There is no place before the start of a file.
SeekFails == InFrame /\ Top.pos < 0 /\ Fail

OtherBox ==
    /\ AtBox
    /\ \E h \in Headers : ~Bogus(h) /\ frames' = ToBox(EndOf(h))
    /\ UNCHANGED <<file, pc, pos, canon, md, outcome, due>>

\* moov, trak and mdia
Container ==
    /\ AtBox
    /\ \E h \in Headers :
         ~Bogus(h) /\ frames' = ToBox(EndOf(h)) \o <<[pos |-> Top.pos + h.len, end |-> EndOf(h)]>>
    /\ UNCHANGED <<file, pc, pos, canon, md, outcome, due>>

\* parseMVHD: 24 bytes at least, 32 with 64-bit seconds.  Zero and what is before
\* 1970 is no date, and too many seconds wrap to any.
MovieHeader ==
    /\ AtBox
    /\ \E h \in Headers :
         LET body == EndOf(h) - (Top.pos + h.len)
             times == {None} \cup (IF body >= 3 THEN {<<"mvhd", "movie">>} ELSE {})
                             \cup (IF body >= 4 THEN {<<"mvhd", "wrapped">>} ELSE {})
         IN /\ ~Bogus(h) /\ frames' = ToBox(EndOf(h))
            /\ \E t \in times : /\ md' = IF md = None THEN t ELSE md
                                /\ due' = AndThen(due, {t})
    /\ UNCHANGED <<file, pc, pos, canon, outcome>>

CanonBox ==
    /\ AtBox
    /\ \E h \in Headers :
         /\ ~Bogus(h) /\ Top.pos + h.len + 2 <= file.length
         /\ frames' = ToBox(EndOf(h))
         /\ canon' = [pos |-> Top.pos + h.len + 2, end |-> EndOf(h), blocks |-> NoBlocks]
    /\ pc' = "canon"
    /\ UNCHANGED <<file, pos, md, outcome, due>>

-----------------------------------------------------------------------------
(* readCanonCMT *)

CanonFits(n) == n >= 1 /\ canon.pos + n <= canon.end

\* An empty CMT box counts for nothing; of two with one name the last one counts.
CanonPart ==
    /\ pc = "canon" /\ canon.pos + 1 <= canon.end
    /\ \E n \in Claims :
         /\ CanonFits(n)
         /\ \/ canon' = [canon EXCEPT !.pos = @ + n]
            \/ n > 1 /\ \E name \in {"CMT1", "CMT2"}, block \in Cmts :
                 canon' = [canon EXCEPT !.pos = @ + n, !.blocks[name] = block]
    /\ UNCHANGED <<file, pc, pos, frames, md, outcome, due>>

\* What block name says, after what is known already
FromBlock(name, date) ==
    IF canon.blocks[name] = None THEN date ELSE parseTIFF(canon.blocks[name], name, date)
PermittedBy(name) ==
    IF canon.blocks[name] = None THEN {None} ELSE Permitted(canon.blocks[name], name)

\* Mutant: the blocks are read in the order of their names.
InOrder(date) == FromBlock("CMT2", FromBlock("CMT1", date))

\* CMT2 is read first, so that the time of the shot wins.
CaptureFirst(date) == FromBlock("CMT1", FromBlock("CMT2", date))

CanonEnds ==
    /\ pc = "canon"
    /\ canon.pos + 1 <= canon.end => \E n \in Claims : ~CanonFits(n)
    /\ md' = CaptureFirst(md)
    /\ due' = AndThen(AndThen(due, PermittedBy("CMT2")), PermittedBy("CMT1"))
    /\ canon' = Outside /\ pc' = "boxes"
    /\ UNCHANGED <<file, pos, frames, outcome>>

-----------------------------------------------------------------------------
Next ==
    \/ Header \/ Unknown
    \/ BareMarker \/ SkipSegment \/ ExifSegment \/ NoMoreSegments
    \/ FrameEnds \/ BogusBox \/ FileEnds \/ SeekFails
    \/ OtherBox \/ Container \/ MovieHeader \/ CanonBox
    \/ CanonPart \/ CanonEnds

\* One goroutine reads, and reading from a file returns.
Spec == Init /\ [][Next]_vars /\ WF_vars(Next)

-----------------------------------------------------------------------------
\* No date is taken where the file plainly states a better one: the shutter before
\* the scan before the last change, CMT2 before CMT1, and the first box before the
\* next, in whatever order and depth the directories hold them and wherever they
\* point back.
DateIsBest == md \in due

\* The date that was found is returned, however the file ends or lies about sizes:
\* only a file cut within a 64-bit size, or a 64-bit size that exceeds the integers
\* and leads to before the start, makes Read fail.
FoundIsKept == outcome = "error" => file.ragged \/ Top.pos < 0

\* Reading ends for every file, also where sizes are negative and directories and
\* boxes are nested without end.
ReadEnds == <>(pc = "done")
=============================================================================

----------------------------- MODULE ExifProofs -----------------------------
(***************************************************************************)
(* Proofs about Exif, for any sizes, claims, width of integers, depths and *)
(* blocks.                                                                 *)
(***************************************************************************)
EXTENDS Exif, SequenceTheorems, WellFoundedInduction, TLAPS

Frame == [pos : Words, end : Words]

LEMMA WrappedIsWord == ASSUME NEW n \in Int, Half > 0 PROVE Wrapped(n) \in Words
  <1>1. Half \in Nat
    BY ExifAssumption
  <1>2. (n + Half) % (2 * Half) \in 0..2 * Half - 1
    BY <1>1
  <1> DEFINE r == (n + Half) % (2 * Half)
  <1>3. r \in 0..2 * Half - 1
    BY <1>2
  <1> HIDE DEF r
  <1>4. r - Half \in Words
    BY <1>1, <1>3 DEF Words
  <1> QED
    BY <1>4 DEF r, Wrapped

LEMMA Lengths ==
  /\ Half \in Nat /\ Half > 0 /\ MaxScan \in Nat /\ MaxScan < Half /\ MaxBoxes \in Nat
  /\ Words \subseteq Int /\ \A n \in Nat : n < Half => n \in Words
  /\ \A n \in Sizes \cup Claims : n \in Nat /\ n < Half
  BY ExifAssumption DEF Words

\* Entering a box, passing one, and leaving one.
LEMMA FramesFacts ==
  ASSUME frames \in Seq(Frame), frames # <<>>
  PROVE  /\ Top \in Frame /\ Len(frames) \in Nat \ {0}
         /\ Front(frames) \in Seq(Frame) /\ Len(Front(frames)) = Len(frames) - 1
  <1> DEFINE m == Len(frames)
             n == m - 1
  <1>1. m \in Nat \ {0} /\ frames[m] \in Frame
    BY EmptySeq, LenProperties, ElementOfSeq
  <1>2. Top \in Frame
    BY <1>1 DEF Top, Last
  <1>3. m \in Nat \ {0}
    BY <1>1
  <1>4. \A i \in 1..m : frames[i] \in Frame
    BY ElementOfSeq
  <1> HIDE DEF m
  <1>5. n \in 0..m /\ n - 1 + 1 = n /\ (1 <= n \/ n = 0) /\ 1..n \subseteq 1..m
    BY <1>3
  <1>6. \A i \in 1..n : frames[i] \in Frame
    BY <1>4, <1>5
  <1> HIDE DEF n
  <1>7. n \in Int
    BY <1>5, <1>3
  <1>8. /\ SubSeq(frames, 1, n) \in Seq(Frame)
        /\ Len(SubSeq(frames, 1, n)) = IF 1 <= n THEN n - 1 + 1 ELSE 0
    <2>1. 1 \in Int /\ \A i \in 1..n : frames[i] \in Frame
      BY <1>6
    <2> QED
      BY <2>1, <1>7, SubSeqProperties
  <1>9. Len(SubSeq(frames, 1, n)) = n
    <2>1. CASE 1 <= n
      BY <2>1, <1>5, <1>8
    <2>2. CASE ~(1 <= n)
      BY <2>2, <1>5, <1>8
    <2> QED
      BY <2>1, <2>2
  <1> QED
    BY <1>1, <1>2, <1>3, <1>8, <1>9 DEF Front, n, m

LEMMA ToBoxFacts ==
  ASSUME frames \in Seq(Frame), frames # <<>>, NEW n \in Words
  PROVE  ToBox(n) \in Seq(Frame) /\ Len(ToBox(n)) = Len(frames)
  <1>1. [Top EXCEPT !.pos = n] \in Frame
    BY FramesFacts DEF Frame
  <1>2. <<[Top EXCEPT !.pos = n]>> \in Seq(Frame) /\ Len(<<[Top EXCEPT !.pos = n]>>) = 1
    BY <1>1
  <1>3. Len(Front(frames)) + 1 = Len(frames)
    BY FramesFacts
  <1> QED
    BY <1>2, <1>3, FramesFacts, ConcatProperties DEF ToBox

\* The dates a block gives.
LEMMA DateType ==
  ASSUME NEW block, NEW from \in {"app1", "CMT1", "CMT2"}, NEW date \in Dates \cup {None}
  PROVE  parseTIFF(block, from, date) \in Dates \cup {None}
  <1> DEFINE state == walkIFD(block)
             best == {i \in DOMAIN Tags : state[Tags[i]] = "good" /\
                        \A j \in DOMAIN Tags : j < i => state[Tags[j]] = "bad"}
  <1>1. \A i \in DOMAIN Tags : <<from, Tags[i]>> \in Dates
    BY DEF Dates, TagSet
  <1>2. best # {} => <<from, Tags[CHOOSE i \in best : TRUE]>> \in Dates
    BY <1>1
  <1>3. parseTIFF(block, from, date)
          = IF date # None \/ best = {} THEN date ELSE <<from, Tags[CHOOSE i \in best : TRUE]>>
    BY DEF parseTIFF, applyState
  <1> HIDE DEF best
  <1> QED
    BY <1>2, <1>3

LEMMA PermittedType ==
  ASSUME NEW block, NEW from \in {"app1", "CMT1", "CMT2"}
  PROVE  Permitted(block, from) \subseteq Dates \cup {None}
  BY DEF Permitted, Dates, TagSet

LEMMA AndThenType ==
  ASSUME NEW S, NEW dates \in SUBSET S, NEW more \in SUBSET S
  PROVE  AndThen(dates, more) \subseteq S
  BY DEF AndThen

-----------------------------------------------------------------------------
\* Reading boxes takes place in one; an error is the end.
ReadInv ==
    /\ TypeOK
    /\ pc \in {"boxes", "canon"} => frames # <<>>
    /\ pc # "done" => outcome = None
    /\ FoundIsKept

LEMMA ReadInit == Init => ReadInv
  <1> SUFFICES ASSUME Init PROVE ReadInv
    OBVIOUS
  <1>1. 0 \in Words
    BY Lengths
  <1>2. canon \in [pos : Words, end : Words, blocks : [{"CMT1", "CMT2"} -> Cmts \cup {None}]]
    BY <1>1 DEF Init, Outside, NoBlocks
  <1>3. frames \in Seq([pos : Words, end : Words]) /\ Len(frames) <= MaxBoxes + 2
    BY EmptySeq, Lengths DEF Init
  <1>4. TypeOK
    BY <1>2, <1>3 DEF Init, TypeOK
  <1> QED
    BY <1>4, ExifAssumption DEF Init, ReadInv, FoundIsKept

LEMMA HeaderFacts ==
  ASSUME TypeOK, frames # <<>>, AtBox, NEW h \in Headers
  PROVE  /\ Top \in Frame /\ h.n \in Int /\ h.len \in {1, 2} /\ EndOf(h) \in Words
         /\ Top.pos + h.len \in Words /\ Top.pos + h.len \in Nat
         /\ Top.pos >= 0 /\ Len(frames) <= MaxBoxes + 1
  <1>1. Top \in Frame
    BY FramesFacts DEF TypeOK, Frame
  <1>2. /\ Top.pos \in Words /\ Top.end \in Words /\ Top.pos >= 0 /\ Top.pos + 1 <= Top.end
        /\ Len(frames) <= MaxBoxes + 1
    BY <1>1 DEF AtBox, InFrame, Frame
  <1>9. /\ Top.pos \in Int /\ Top.end \in Int /\ Top.end <= Half - 1
        /\ \A n \in Claims : n \in Int
    BY <1>2, Lengths DEF Words
  <1>3. h.n \in Int /\ h.len \in {1, 2} /\ (h.len = 2 => Top.pos + 2 <= file.length \/ h.n \in Claims)
    BY Lengths DEF Headers
  <1>4. h.len = 2 => Top.pos + 2 <= file.length
    BY DEF Headers
  <1>5. file.length \in Nat /\ file.length < Half
    BY Lengths DEF TypeOK
  <1>6. Top.pos + h.len \in Words /\ Top.pos + h.len \in Nat
    <2> DEFINE p == Top.pos
               e == Top.end
               f == file.length
    <2>1. p \in Int /\ p >= 0 /\ e \in Int /\ p + 1 <= e /\ e <= Half - 1 /\ f \in Nat /\ f < Half
      BY <1>2, <1>5, <1>9
    <2>2. Half \in Nat
      BY Lengths
    <2>3. CASE h.len = 1
      <3>1. p + 1 \in Nat /\ p + 1 \in Words
        <4> HIDE DEF p, e, f
        <4> QED
          BY <2>1, <2>2 DEF Words
      <3> QED
        BY <2>3, <3>1
    <2>4. CASE h.len = 2
      <3>1. p + 2 <= f
        BY <1>4, <2>4
      <3>2. p + 2 \in Nat /\ p + 2 \in Words
        <4> HIDE DEF p, e, f
        <4> QED
          BY <2>1, <2>2, <3>1 DEF Words
      <3> QED
        BY <2>4, <3>2
    <2> QED
      BY <1>3, <2>3, <2>4
  <1>7. EndOf(h) \in Words
    <2>1. Top.pos + h.n \in Int
      BY <1>3, <1>9
    <2> QED
      BY <2>1, Lengths, WrappedIsWord DEF EndOf
  <1> QED
    BY <1>1, <1>2, <1>3, <1>6, <1>7

-----------------------------------------------------------------------------
\* What reading that goes on keeps.
LEMMA TypeFacts ==
  ASSUME TypeOK
  PROVE  /\ frames \in Seq(Frame) /\ Len(frames) <= MaxBoxes + 2
         /\ md \in Dates \cup {None} /\ due \in SUBSET (Dates \cup {None})
         /\ file.length \in Nat /\ file.length < Half
  BY Lengths DEF TypeOK, Frame

LEMMA FinishType ==
  ASSUME NEW date, Finish(date)
  PROVE  pc' = "done" /\ outcome' \in {"date", "none"} /\ outcome' # "error"
  BY DEF Finish

\* The end of a file, of a JPEG's segments, or of what is known.
LEMMA StopKeeps ==
  ASSUME ReadInv, NEW date, Finish(date), UNCHANGED <<file, pos, frames, canon, md, due>>
  PROVE  ReadInv'
  <1>1. TypeOK'
    BY FinishType DEF ReadInv, TypeOK
  <1> QED
    BY <1>1, FinishType DEF ReadInv, FoundIsKept

LEMMA FailKeeps ==
  ASSUME ReadInv, Fail, file.ragged \/ Top.pos < 0
  PROVE  ReadInv'
  <1>1. TypeOK'
    BY DEF ReadInv, TypeOK, Fail
  <1>2. FoundIsKept'
    BY DEF FoundIsKept, Fail, Top
  <1> QED
    BY <1>1, <1>2 DEF ReadInv, Fail

LEMMA ReturnKeeps ==
  ASSUME ReadInv, pc = "boxes", Return
  PROVE  ReadInv'
  <1>1. frames # <<>> /\ frames \in Seq(Frame) /\ Len(frames) <= MaxBoxes + 2 /\ outcome = None
    BY TypeFacts DEF ReadInv
  <1>2. /\ frames' \in Seq(Frame) /\ Len(frames') = Len(frames) - 1 /\ Len(frames) \in Nat \ {0}
    BY <1>1, FramesFacts DEF Return
  <1>3. frames' \in Seq(Frame) /\ Len(frames') <= MaxBoxes + 2
    <2> DEFINE m == Len(frames)
               k == Len(frames')
    <2>1. m \in Nat \ {0} /\ k = m - 1 /\ m <= MaxBoxes + 2 /\ MaxBoxes \in Nat
      BY <1>1, <1>2, Lengths
    <2>2. k <= MaxBoxes + 2
      <3> HIDE DEF m, k
      <3> QED
        BY <2>1
    <2> QED
      BY <1>2, <2>2
  <1>4. CASE Len(frames) > 1
    <2>1. frames' # <<>>
      <3>1. Len(frames') > 0
        <4> DEFINE m == Len(frames)
                   k == Len(frames')
        <4>1. m \in Nat \ {0} /\ k = m - 1 /\ m > 1
          BY <1>2, <1>4
        <4>2. k > 0
          <5> HIDE DEF m, k
          <5> QED
            BY <4>1
        <4> QED
          BY <4>2
      <3> QED
        BY <3>1, EmptySeq
    <2>2. UNCHANGED <<file, pc, pos, canon, md, outcome, due>>
      BY <1>4 DEF Return
    <2>3. TypeOK'
      BY <1>3, <2>2 DEF ReadInv, TypeOK, Frame
    <2> QED
      BY <1>1, <2>1, <2>2, <2>3, ExifAssumption DEF ReadInv, FoundIsKept
  <1>5. CASE ~(Len(frames) > 1)
    <2>1. Finish(md) /\ UNCHANGED <<file, pos, canon, md, due>>
      BY <1>5 DEF Return
    <2>2. TypeOK'
      BY <1>3, <2>1, FinishType DEF ReadInv, TypeOK, Frame
    <2> QED
      BY <2>1, <2>2, FinishType DEF ReadInv, FoundIsKept
  <1> QED
    BY <1>4, <1>5

\* A box is passed, or passed and entered.
LEMMA PassBox ==
  ASSUME ReadInv, AtBox, NEW h \in Headers
  PROVE  /\ ToBox(EndOf(h)) \in Seq(Frame) /\ Len(ToBox(EndOf(h))) <= MaxBoxes + 1
         /\ ToBox(EndOf(h)) # <<>>
  <1>1. frames \in Seq(Frame) /\ frames # <<>> /\ TypeOK
    BY TypeFacts DEF ReadInv, AtBox, InFrame
  <1>2. EndOf(h) \in Words /\ Len(frames) <= MaxBoxes + 1
    BY <1>1, HeaderFacts
  <1>3. ToBox(EndOf(h)) \in Seq(Frame) /\ Len(ToBox(EndOf(h))) = Len(frames)
    BY <1>1, <1>2, ToBoxFacts
  <1>4. Len(frames) # 0
    BY <1>1, FramesFacts
  <1>5. Len(<<>>) = 0
    OBVIOUS
  <1> QED
    BY <1>2, <1>3, <1>4, <1>5

\* A step that goes on with frames that are right keeps the invariant.
LEMMA GoOn ==
  ASSUME ReadInv, pc = "boxes", UNCHANGED <<file, pos, outcome>>, pc' \in {"boxes", "canon"},
         frames' \in Seq(Frame), Len(frames') <= MaxBoxes + 2, frames' # <<>>,
         canon' \in [pos : Words, end : Words, blocks : [{"CMT1", "CMT2"} -> Cmts \cup {None}]],
         md' \in Dates \cup {None}, due' \in SUBSET (Dates \cup {None})
  PROVE  ReadInv'
  <1>1. TypeOK'
    BY DEF ReadInv, TypeOK, Frame
  <1>2. outcome' = None
    BY DEF ReadInv
  <1> QED
    BY <1>1, <1>2, ExifAssumption DEF ReadInv, FoundIsKept

LEMMA CanonIsTyped ==
  ASSUME TypeOK
  PROVE  canon \in [pos : Words, end : Words, blocks : [{"CMT1", "CMT2"} -> Cmts \cup {None}]]
  BY DEF TypeOK

LEMMA HeaderStep == ReadInv /\ Header => ReadInv'
  <1> SUFFICES ASSUME ReadInv, Header PROVE ReadInv'
    OBVIOUS
  <1>1. TypeOK /\ outcome = None /\ pc = "start"
    BY DEF ReadInv, Header
  <1>2. UNCHANGED <<file, canon, md, due>>
    BY DEF Header
  <1>3. CASE pc' = "segments" /\ pos' = 1 /\ UNCHANGED <<frames, outcome>>
    <2>1. TypeOK'
      BY <1>1, <1>2, <1>3 DEF TypeOK
    <2> QED
      BY <1>1, <1>3, <2>1, ExifAssumption DEF ReadInv, FoundIsKept
  <1>4. CASE /\ pc' = "boxes" /\ UNCHANGED <<pos, outcome>>
             /\ frames' = <<[pos |-> 0, end |-> IF file.length > MaxScan THEN MaxScan ELSE file.length]>>
    <2>1. 0 \in Words /\ (IF file.length > MaxScan THEN MaxScan ELSE file.length) \in Words
      BY <1>1, TypeFacts, Lengths
    <2>2. frames' \in Seq([pos : Words, end : Words]) /\ Len(frames') = 1 /\ frames' # <<>>
      BY <1>4, <2>1
    <2>3. 1 <= MaxBoxes + 2
      BY Lengths
    <2>4. TypeOK'
      BY <1>1, <1>2, <1>4, <2>2, <2>3 DEF TypeOK
    <2> QED
      BY <1>1, <1>4, <2>2, <2>4, ExifAssumption DEF ReadInv, FoundIsKept
  <1> QED
    BY <1>3, <1>4 DEF Header

LEMMA SegmentSteps ==
  ReadInv /\ (Unknown \/ BareMarker \/ SkipSegment \/ ExifSegment \/ NoMoreSegments) => ReadInv'
  <1> SUFFICES ASSUME ReadInv, Unknown \/ BareMarker \/ SkipSegment \/ ExifSegment \/ NoMoreSegments
               PROVE  ReadInv'
    OBVIOUS
  <1>1. CASE Unknown \/ NoMoreSegments
    BY <1>1, StopKeeps DEF Unknown, NoMoreSegments, GiveUp
  <1>2. CASE BareMarker \/ SkipSegment
    <2>1. pos \in Nat /\ pc = "segments" /\ outcome = None
      BY <1>2 DEF BareMarker, SkipSegment, ReadInv, TypeOK
    <2>2. pos' \in Nat
      <3>1. \A n \in Claims : n \in Nat
        BY Lengths
      <3>2. pos' = pos + 1 \/ \E n \in Claims : pos' = pos + 2 + n
        BY <1>2 DEF BareMarker, SkipSegment
      <3> QED
        BY <2>1, <3>1, <3>2
    <2>3. UNCHANGED <<file, pc, frames, canon, md, outcome, due>>
      BY <1>2 DEF BareMarker, SkipSegment
    <2>4. TypeOK'
      BY <2>2, <2>3 DEF ReadInv, TypeOK
    <2> QED
      BY <2>1, <2>3, <2>4, ExifAssumption DEF ReadInv, FoundIsKept
  <1>3. CASE ExifSegment
    <2>1. PICK block \in Tiffs : md' = parseTIFF(block, "app1", None) /\ due' = Permitted(block, "app1")
      BY <1>3 DEF ExifSegment
    <2>2. md' \in Dates \cup {None} /\ due' \subseteq Dates \cup {None}
      BY <2>1, DateType, PermittedType
    <2>3. Finish(md') /\ UNCHANGED <<file, pos, frames, canon>>
      BY <1>3 DEF ExifSegment
    <2>4. pc' = "done" /\ outcome' \in {"date", "none"}
      BY <2>3 DEF Finish
    <2>5. TypeOK'
      BY <2>2, <2>3, <2>4 DEF ReadInv, TypeOK
    <2> QED
      BY <2>4, <2>5 DEF ReadInv, FoundIsKept
  <1> QED
    BY <1>1, <1>2, <1>3

LEMMA BoxSteps == ReadInv /\ (OtherBox \/ Container \/ MovieHeader) => ReadInv'
  <1> SUFFICES ASSUME ReadInv, OtherBox \/ Container \/ MovieHeader PROVE ReadInv'
    OBVIOUS
  <1>1. TypeOK /\ frames # <<>> /\ AtBox /\ pc = "boxes" /\ MaxBoxes \in Nat
    BY Lengths DEF ReadInv, OtherBox, Container, MovieHeader, AtBox, InFrame
  <1>2. UNCHANGED <<file, pos, outcome, pc, canon>>
    BY DEF OtherBox, Container, MovieHeader
  <1>3. CASE OtherBox
    <2>1. PICK h \in Headers : frames' = ToBox(EndOf(h))
      BY <1>3 DEF OtherBox
    <2>2. frames' \in Seq(Frame) /\ Len(frames') <= MaxBoxes + 1 /\ frames' # <<>>
      BY <1>1, <2>1, PassBox
    <2>3. Len(frames') <= MaxBoxes + 2
      BY <1>1, <2>2, LenProperties
    <2> QED
      BY <1>1, <1>2, <1>3, <2>2, <2>3, GoOn, TypeFacts, CanonIsTyped DEF OtherBox
  <1>4. CASE Container
    <2>1. PICK h \in Headers :
            ~Bogus(h) /\ frames' = ToBox(EndOf(h)) \o <<[pos |-> Top.pos + h.len, end |-> EndOf(h)]>>
      BY <1>4 DEF Container
    <2> DEFINE inner == <<[pos |-> Top.pos + h.len, end |-> EndOf(h)]>>
               outer == ToBox(EndOf(h))
    <2>2. outer \in Seq(Frame) /\ Len(outer) <= MaxBoxes + 1
      BY <1>1, <2>1, PassBox
    <2>3. inner \in Seq(Frame) /\ Len(inner) = 1
      <3>1. Top.pos + h.len \in Words /\ EndOf(h) \in Words
        BY <1>1, <2>1, HeaderFacts
      <3> QED
        BY <3>1 DEF Frame
    <2> HIDE DEF inner, outer
    <2>4. frames' \in Seq(Frame) /\ Len(frames') = Len(outer) + 1
      BY <2>1, <2>2, <2>3, ConcatProperties DEF inner, outer
    <2>5. Len(frames') <= MaxBoxes + 2 /\ Len(frames') # 0
      <3>1. Len(outer) \in Nat
        BY <2>2, LenProperties
      <3> QED
        BY <1>1, <2>2, <2>4, <3>1
    <2>6. frames' # <<>>
      BY <2>5
    <2> QED
      BY <1>1, <1>2, <1>4, <2>4, <2>5, <2>6, GoOn, TypeFacts, CanonIsTyped DEF Container
  <1>5. CASE MovieHeader
    <2> DEFINE Moments == {None, <<"mvhd", "movie">>, <<"mvhd", "wrapped">>}
    <2>1. PICK h \in Headers :
            /\ frames' = ToBox(EndOf(h))
            /\ \E t \in Moments : md' = (IF md = None THEN t ELSE md) /\ due' = AndThen(due, {t})
      BY <1>5 DEF MovieHeader
    <2>2. frames' \in Seq(Frame) /\ Len(frames') <= MaxBoxes + 1 /\ frames' # <<>>
      BY <1>1, <2>1, PassBox
    <2>3. Len(frames') <= MaxBoxes + 2
      BY <1>1, <2>2, LenProperties
    <2>4. PICK t \in Moments : md' = (IF md = None THEN t ELSE md) /\ due' = AndThen(due, {t})
      BY <2>1
    <2>5. t \in Dates \cup {None}
      BY DEF Dates
    <2>6. md' \in Dates \cup {None} /\ due' \in SUBSET (Dates \cup {None})
      <3> HIDE DEF Moments
      <3>1. md \in Dates \cup {None} /\ due \in SUBSET (Dates \cup {None})
        BY <1>1, TypeFacts
      <3>2. {t} \in SUBSET (Dates \cup {None})
        BY <2>5
      <3>3. AndThen(due, {t}) \in SUBSET (Dates \cup {None})
        BY <3>1, <3>2, AndThenType
      <3> QED
        BY <2>4, <2>5, <3>1, <3>3
    <2> QED
      BY <1>1, <1>2, <2>2, <2>3, <2>6, GoOn, CanonIsTyped
  <1> QED
    BY <1>3, <1>4, <1>5

LEMMA CanonBoxStep == ReadInv /\ CanonBox => ReadInv'
  <1> SUFFICES ASSUME ReadInv, CanonBox PROVE ReadInv'
    OBVIOUS
  <1>1. TypeOK /\ frames # <<>> /\ AtBox /\ pc = "boxes" /\ MaxBoxes \in Nat
    BY Lengths DEF ReadInv, CanonBox, AtBox, InFrame
  <1>2. PICK h \in Headers :
          /\ Top.pos + h.len + 2 <= file.length /\ frames' = ToBox(EndOf(h))
          /\ canon' = [pos |-> Top.pos + h.len + 2, end |-> EndOf(h), blocks |-> NoBlocks]
    BY DEF CanonBox
  <1>3. frames' \in Seq(Frame) /\ Len(frames') <= MaxBoxes + 1 /\ frames' # <<>>
    BY <1>1, <1>2, PassBox
  <1>4. Len(frames') <= MaxBoxes + 2
    BY <1>1, <1>3, LenProperties
  <1>5. Top.pos + h.len + 2 \in Words /\ EndOf(h) \in Words
    <2> DEFINE p == Top.pos + h.len
               f == file.length
    <2>1. p \in Nat /\ f \in Nat /\ f < Half /\ Half \in Nat /\ p + 2 <= f /\ EndOf(h) \in Words
      BY <1>1, <1>2, HeaderFacts, TypeFacts, Lengths
    <2> HIDE DEF p, f
    <2>2. p + 2 \in Words
      BY <2>1 DEF Words
    <2> QED
      BY <2>1, <2>2 DEF p
  <1>6. canon' \in [pos : Words, end : Words, blocks : [{"CMT1", "CMT2"} -> Cmts \cup {None}]]
    BY <1>2, <1>5 DEF NoBlocks
  <1>7. UNCHANGED <<file, pos, md, outcome, due>> /\ pc' = "canon"
    BY DEF CanonBox
  <1> QED
    BY <1>1, <1>3, <1>4, <1>6, <1>7, GoOn, TypeFacts

LEMMA CanonSteps == ReadInv /\ (CanonPart \/ CanonEnds) => ReadInv'
  <1> SUFFICES ASSUME ReadInv, CanonPart \/ CanonEnds PROVE ReadInv'
    OBVIOUS
  <1> DEFINE Canons == [pos : Words, end : Words, blocks : [{"CMT1", "CMT2"} -> Cmts \cup {None}]]
  <1>1. TypeOK /\ frames # <<>> /\ pc = "canon" /\ outcome = None /\ canon \in Canons
    BY DEF ReadInv, CanonPart, CanonEnds, TypeOK
  <1>2. UNCHANGED <<file, pos, frames, outcome>> /\ pc' \in {"boxes", "canon"}
    BY <1>1 DEF CanonPart, CanonEnds
  <1>3. /\ canon' \in Canons
        /\ md' \in Dates \cup {None} /\ due' \in SUBSET (Dates \cup {None})
    <2>1. CASE CanonPart
      <3>1. PICK n \in Claims :
              /\ n >= 1 /\ canon.pos + n <= canon.end
              /\ \/ canon' = [canon EXCEPT !.pos = @ + n]
                 \/ \E name \in {"CMT1", "CMT2"}, block \in Cmts :
                      canon' = [canon EXCEPT !.pos = @ + n, !.blocks[name] = block]
        BY <2>1 DEF CanonPart, CanonFits
      <3>2. canon.pos + n \in Words
        <4> DEFINE p == canon.pos
                   e == canon.end
        <4>1. p \in Words /\ e \in Words /\ n \in Nat /\ p + n <= e /\ Half \in Nat
          BY <1>1, <3>1, Lengths
        <4> HIDE DEF p, e
        <4>2. p + n \in Words
          BY <4>1 DEF Words
        <4> QED
          BY <4>2 DEF p
      <3>3. canon' \in Canons
        <4>1. CASE canon' = [canon EXCEPT !.pos = @ + n]
          BY <1>1, <3>2, <4>1
        <4>2. ASSUME NEW name \in {"CMT1", "CMT2"}, NEW block \in Cmts,
                     canon' = [canon EXCEPT !.pos = @ + n, !.blocks[name] = block]
              PROVE  canon' \in Canons
          <5>1. [canon.blocks EXCEPT ![name] = block] \in [{"CMT1", "CMT2"} -> Cmts \cup {None}]
            BY <1>1
          <5>2. canon' = [pos |-> canon.pos + n, end |-> canon.end,
                          blocks |-> [canon.blocks EXCEPT ![name] = block]]
            BY <1>1, <4>2
          <5>3. canon.end \in Words
            BY <1>1
          <5> QED
            BY <3>2, <5>1, <5>2, <5>3
        <4> QED
          BY <3>1, <4>1, <4>2
      <3> QED
        BY <1>1, <2>1, <3>3, TypeFacts DEF CanonPart
    <2>2. CASE CanonEnds
      <3>1. 0 \in Words
        BY Lengths
      <3>2. canon' \in Canons
        BY <2>2, <3>1 DEF CanonEnds, Outside, NoBlocks
      <3>3. \A name \in {"CMT1", "CMT2"} : \A date \in Dates \cup {None} :
              FromBlock(name, date) \in Dates \cup {None}
        BY DateType DEF FromBlock
      <3>4. \A name \in {"CMT1", "CMT2"} : PermittedBy(name) \in SUBSET (Dates \cup {None})
        BY PermittedType DEF PermittedBy
      <3>5. md' \in Dates \cup {None}
        <4>1. md \in Dates \cup {None}
          BY <1>1, TypeFacts
        <4>2. FromBlock("CMT2", md) \in Dates \cup {None}
          BY <3>3, <4>1
        <4> QED
          BY <2>2, <3>3, <4>2 DEF CanonEnds, CaptureFirst
      <3>6. due' \in SUBSET (Dates \cup {None})
        <4>1. due \in SUBSET (Dates \cup {None})
          BY <1>1, TypeFacts
        <4>2. AndThen(due, PermittedBy("CMT2")) \in SUBSET (Dates \cup {None})
          BY <3>4, <4>1, AndThenType
        <4>3. AndThen(AndThen(due, PermittedBy("CMT2")), PermittedBy("CMT1")) \in SUBSET (Dates \cup {None})
          BY <3>4, <4>2, AndThenType
        <4> QED
          BY <2>2, <4>3 DEF CanonEnds
      <3> QED
        BY <3>2, <3>5, <3>6
    <2> QED
      BY <2>1, <2>2
  <1>4. TypeOK'
    BY <1>1, <1>2, <1>3 DEF TypeOK
  <1> QED
    BY <1>1, <1>2, <1>4, ExifAssumption DEF ReadInv, FoundIsKept

LEMMA ReadStep == ReadInv /\ [Next]_vars => ReadInv'
  <1> SUFFICES ASSUME ReadInv, [Next]_vars PROVE ReadInv'
    OBVIOUS
  <1>1. CASE Header \/ Unknown \/ BareMarker \/ SkipSegment \/ ExifSegment \/ NoMoreSegments
    BY <1>1, HeaderStep, SegmentSteps
  <1>2. CASE FrameEnds \/ BogusBox
    BY <1>2, ReturnKeeps DEF FrameEnds, BogusBox, AtBox, InFrame
  <1>3. CASE FileEnds
    BY <1>3, FailKeeps, StopKeeps DEF FileEnds
  <1>4. CASE SeekFails
    BY <1>4, FailKeeps DEF SeekFails
  <1>5. CASE OtherBox \/ Container \/ MovieHeader \/ CanonBox \/ CanonPart \/ CanonEnds
    BY <1>5, BoxSteps, CanonBoxStep, CanonSteps
  <1>6. CASE UNCHANGED vars
    <2>1. UNCHANGED <<file, pc, pos, frames, canon, md, outcome, due>>
      BY <1>6 DEF vars
    <2>2. TypeOK'
      BY <2>1 DEF ReadInv, TypeOK
    <2>3. FoundIsKept'
      BY <2>1 DEF ReadInv, FoundIsKept, Top
    <2> QED
      BY <2>1, <2>2, <2>3 DEF ReadInv
  <1> QED
    BY <1>1, <1>2, <1>3, <1>4, <1>5, <1>6 DEF Next

-----------------------------------------------------------------------------
(* Induction over numbers, and with it what recursive functions compute.  The  *)
(* lemmas quantify over sets in place of predicates.                           *)

\* Induction: a set with 0 and the successor of each of its members has all numbers.
LEMMA Induction ==
  ASSUME NEW S, 0 \in S, \A n \in Nat : n \in S => n + 1 \in S
  PROVE  Nat \subseteq S
  <1> DEFINE T == {n \in Nat : n \notin S}
  <1> SUFFICES ASSUME T # {} PROVE FALSE
    OBVIOUS
  <1>1. PICK x \in T : \A y \in T : ~(<<y, x>> \in OpToRel(<, Nat))
    BY NatLessThanWellFounded, WFMin
  <1>2. x \in Nat /\ x # 0 /\ x \notin S
    OBVIOUS
  <1>3. x - 1 \in Nat /\ x - 1 + 1 = x /\ x - 1 < x
    BY <1>2
  <1>4. x - 1 \in T
    BY <1>2, <1>3
  <1>5. <<x - 1, x>> \in Nat \X Nat /\ <<x - 1, x>>[1] = x - 1 /\ <<x - 1, x>>[2] = x
    BY <1>2, <1>3
  <1>6. <<x - 1, x>> \in OpToRel(<, Nat)
    BY <1>3, <1>5 DEF OpToRel
  <1> QED
    BY <1>1, <1>4, <1>6

\* A function on the first numbers may be defined by steps from each to the next.
Steppers(N, A) == [1..N -> [A -> A]]
Goes(f, N, A, base, step) ==
    f \in [0..N -> A] /\ f[0] = base /\ \A n \in 1..N : f[n] = step[n][f[n - 1]]

LEMMA Recursion ==
  ASSUME NEW N \in Nat, NEW A, NEW base \in A, NEW step \in Steppers(N, A)
  PROVE  \E f : Goes(f, N, A, base, step)
  <1> USE DEF Steppers
  <1> DEFINE Good(n, f) == f[0] = base /\ \A k \in 1..n : f[k] = step[k][f[k - 1]]
             S == {n \in Nat : n <= N => \E f \in [0..n -> A] : Good(n, f)}
  <1>1. 0 \in S
    <2>1. [k \in 0..0 |-> base] \in [0..0 -> A] /\ Good(0, [k \in 0..0 |-> base])
      OBVIOUS
    <2> QED
      BY <2>1
  <1>2. ASSUME NEW n \in Nat, n \in S PROVE n + 1 \in S
    <2> SUFFICES ASSUME n + 1 <= N PROVE \E f \in [0..n + 1 -> A] : Good(n + 1, f)
      OBVIOUS
    <2>1. PICK f \in [0..n -> A] : Good(n, f)
      BY <1>2
    <2> DEFINE g == [k \in 0..n + 1 |-> IF k = n + 1 THEN step[n + 1][f[n]] ELSE f[k]]
    <2>2. n \in 0..n /\ n + 1 \in 1..N /\ 0 \in 0..n + 1 /\ 0 # n + 1
      OBVIOUS
    <2>3. \A k \in 0..n + 1 : k # n + 1 => k \in 0..n
      OBVIOUS
    <2>4. step[n + 1][f[n]] \in A
      BY <2>2
    <2>5. g \in [0..n + 1 -> A]
      BY <2>3, <2>4
    <2>6. \A k \in 1..n + 1 : g[k] = step[k][g[k - 1]]
      <3> TAKE k \in 1..n + 1
      <3>1. k \in 0..n + 1 /\ k - 1 \in 0..n + 1 /\ k - 1 # n + 1 /\ k - 1 \in 0..n
        OBVIOUS
      <3>2. g[k - 1] = f[k - 1]
        BY <3>1
      <3>3. CASE k = n + 1
        <4>1. k - 1 = n /\ g[k] = step[n + 1][f[n]]
          BY <3>3, <3>1
        <4> QED
          BY <3>2, <3>3, <4>1
      <3>4. CASE k # n + 1
        <4>1. k \in 1..n /\ g[k] = f[k]
          BY <3>4, <3>1
        <4> QED
          BY <2>1, <3>2, <4>1
      <3> QED
        BY <3>3, <3>4
    <2>7. g[0] = base
      BY <2>1, <2>2
    <2> QED
      BY <2>5, <2>6, <2>7
  <1>3. N \in S
    <2> HIDE DEF S
    <2> QED
      BY <1>1, <1>2, Induction
  <1> QED
    BY <1>3 DEF Goes

\* What holds of the first value and is kept from each to the next holds of all.
LEMMA Kept ==
  ASSUME NEW N \in Nat, NEW A, NEW f, f[0] \in A, \A n \in 1..N : f[n - 1] \in A => f[n] \in A
  PROVE  \A n \in 0..N : f[n] \in A
  <1> DEFINE S == {n \in Nat : n <= N => f[n] \in A}
  <1>1. 0 \in S
    OBVIOUS
  <1>2. ASSUME NEW n \in Nat, n \in S PROVE n + 1 \in S
    <2>1. n + 1 <= N => n <= N /\ n + 1 \in 1..N /\ n + 1 - 1 = n
      OBVIOUS
    <2>2. n + 1 <= N => f[n] \in A
      BY <1>2, <2>1
    <2>3. n + 1 <= N => f[n + 1] \in A
      BY <2>1, <2>2
    <2> QED
      BY <2>3
  <1> HIDE DEF S
  <1>3. Nat \subseteq S
    BY <1>1, <1>2, Induction
  <1> QED
    BY <1>3 DEF S

Followers == [Nat -> [States -> States]]

Reading(ifd, follow, state, after) ==
    /\ after \in [0..Len(ifd) -> States] /\ after[0] = state
    /\ \A n \in 1..Len(ifd) : after[n] = ReadEntry(ifd[n], follow, after[n - 1])
    /\ ReadEntries(ifd, follow, state) = after[Len(ifd)]

LEMMA EntryType ==
  ASSUME NEW e \in Entries, NEW follow \in Followers, NEW state \in States
  PROVE  ReadEntry(e, follow, state) \in States
  <1>1. CASE e.tag = "exif"
    <2>1. e.value \in Nat
      BY <1>1 DEF Entries, TagSet, Tags
    <2> QED
      BY <1>1, <2>1 DEF ReadEntry, Followers
  <1>2. CASE e.tag # "exif"
    <2>1. e.value \in {"good", "bad"}
      BY <1>2 DEF Entries
    <2> QED
      BY <1>2, <2>1 DEF ReadEntry, States
  <1> QED
    BY <1>1, <1>2

\* The entries of a directory are read one after the other.
LEMMA EntriesAreRead ==
  ASSUME NEW ifd \in Seq(Entries), NEW follow \in Followers, NEW state \in States
  PROVE  \E after : Reading(ifd, follow, state, after)
  <1> DEFINE N == Len(ifd)
             step == [n \in 1..N |-> [st \in States |-> ReadEntry(ifd[n], follow, st)]]
             Body(f, n) == IF n = 0 THEN state ELSE ReadEntry(ifd[n], follow, f[n - 1])
             Eq(f) == f = [n \in 0..N |-> Body(f, n)]
             after == CHOOSE f : Eq(f)
  <1>1. N \in Nat /\ \A n \in 1..N : ifd[n] \in Entries
    BY LenProperties, ElementOfSeq
  <1>2. ReadEntries(ifd, follow, state) = after[N]
    BY DEF ReadEntries
  <1> HIDE DEF N
  <1>3. ASSUME NEW n \in 1..N, NEW st \in States
        PROVE  step[n][st] = ReadEntry(ifd[n], follow, st) /\ step[n][st] \in States
    BY <1>1, EntryType
  <1>4. step \in Steppers(N, States)
    BY <1>3 DEF Steppers
  <1>5. ASSUME NEW f PROVE /\ Body(f, 0) = state
                           /\ \A n \in 1..N : Body(f, n) = ReadEntry(ifd[n], follow, f[n - 1])
    BY <1>1
  <1> HIDE DEF step, Body
  <1>6. PICK f : Goes(f, N, States, state, step)
    BY <1>1, <1>4, Recursion
  <1>7. f \in [0..N -> States] /\ f[0] = state /\ \A n \in 1..N : f[n] = step[n][f[n - 1]]
    BY <1>6 DEF Goes
  <1>8. ASSUME NEW n \in 0..N PROVE f[n] = Body(f, n)
    <2>1. CASE n = 0
      BY <1>5, <1>7, <2>1
    <2>2. CASE n # 0
      <3>1. n \in 1..N /\ n - 1 \in 0..N
        BY <1>1, <2>2
      <3>2. f[n - 1] \in States
        BY <1>7, <3>1
      <3>3. Body(f, n) = ReadEntry(ifd[n], follow, f[n - 1])
        BY <1>5, <3>1
      <3>4. step[n][f[n - 1]] = ReadEntry(ifd[n], follow, f[n - 1])
        BY <1>3, <3>1, <3>2
      <3>5. f[n] = step[n][f[n - 1]]
        BY <1>7, <3>1
      <3> QED
        BY <3>3, <3>4, <3>5
    <2> QED
      BY <2>1, <2>2
  <1>9. Eq(f)
    <2>1. f = [n \in 0..N |-> f[n]]
      BY <1>7
    <2> QED
      BY <1>8, <2>1
  <1>10. Eq(after)
    <2> HIDE DEF Eq
    <2> QED
      BY <1>9
  <1> HIDE DEF after
  <1>11. 0 \in 0..N /\ \A n \in 1..N : n \in 0..N
    BY <1>1
  <1>12. after[0] = state /\ \A n \in 1..N : after[n] = ReadEntry(ifd[n], follow, after[n - 1])
    BY <1>5, <1>10, <1>11
  <1>13. \A n \in 1..N : after[n - 1] \in States => after[n] \in States
    BY <1>1, <1>12, EntryType
  <1>14. \A n \in 0..N : after[n] \in States
    BY <1>1, <1>12, <1>13, Kept
  <1>15. after \in [0..N -> States]
    <2>1. after = [n \in 0..N |-> after[n]]
      BY <1>10
    <2> QED
      BY <1>14, <2>1
  <1> QED
    BY <1>2, <1>12, <1>15 DEF Reading, N

LEMMA EntriesType ==
  ASSUME NEW ifd \in Seq(Entries), NEW follow \in Followers, NEW state \in States
  PROVE  ReadEntries(ifd, follow, state) \in States
  <1>1. PICK after \in [0..Len(ifd) -> States] : ReadEntries(ifd, follow, state) = after[Len(ifd)]
    BY EntriesAreRead DEF Reading
  <1>2. Len(ifd) \in Nat
    BY LenProperties
  <1>3. Len(ifd) \in 0..Len(ifd)
    BY <1>2
  <1> QED
    BY <1>1, <1>3

\* The walk, level by level.
LEMMA WalkGoes ==
  ASSUME NEW block \in Blocks
  PROVE  \E walk \in [0..MaxIFDs + 1 -> Followers] :
           /\ \A ifd \in Nat, state \in States : walk[0][ifd][state] = state
           /\ \A n \in 1..MaxIFDs + 1, ifd \in Nat, state \in States :
                walk[n][ifd][state] = IF ifd \notin DOMAIN block.ifds THEN state
                                      ELSE ReadEntries(block.ifds[ifd], walk[n - 1], state)
           /\ walkIFD(block) = walk[MaxIFDs + 1][block.root][Unset]
  <1> DEFINE N == MaxIFDs + 1
             Level(n, g) == [ifd \in Nat |-> [state \in States |->
                               IF n = 0 \/ ifd \notin DOMAIN block.ifds THEN state
                               ELSE ReadEntries(block.ifds[ifd], g, state)]]
             step == [n \in 1..N |-> [g \in Followers |-> Level(n, g)]]
             base == [ifd \in Nat |-> [state \in States |-> state]]
             Eq(f) == f = [n \in 0..N |-> Level(n, f[n - 1])]
             walk == CHOOSE f : Eq(f)
  <1>1. N \in Nat
    BY ExifAssumption
  <1>2. \A ifd \in DOMAIN block.ifds : block.ifds[ifd] \in Seq(Entries)
    BY ElementOfSeq, LenProperties DEF Blocks
  <1>3. ASSUME NEW n \in 0..N, NEW g \in Followers
        PROVE  Level(n, g) \in Followers
    <2>1. ASSUME NEW ifd \in DOMAIN block.ifds, NEW state \in States
          PROVE  ReadEntries(block.ifds[ifd], g, state) \in States
      BY <1>2, EntriesType
    <2> QED
      BY <2>1 DEF Followers
  <1>4. base \in Followers
    BY DEF Followers
  <1>5. walkIFD(block) = walk[N][block.root][Unset]
    BY DEF walkIFD
  <1>6. ASSUME NEW n \in 1..N, NEW g \in Followers PROVE step[n][g] = Level(n, g) /\ step[n][g] \in Followers
    BY <1>1, <1>3
  <1>7. step \in Steppers(N, Followers)
    BY <1>1, <1>6 DEF Steppers
  <1>8. ASSUME NEW g PROVE Level(0, g) = base
    OBVIOUS
  <1>9. ASSUME NEW n \in 1..N, NEW g, NEW ifd \in Nat, NEW state \in States
        PROVE  Level(n, g)[ifd][state] = IF ifd \notin DOMAIN block.ifds THEN state
                                         ELSE ReadEntries(block.ifds[ifd], g, state)
    BY <1>1
  <1>10. \A ifd \in Nat, state \in States : base[ifd][state] = state
    OBVIOUS
  <1> HIDE DEF step, base, Level, N
  <1>11. PICK f : Goes(f, N, Followers, base, step)
    BY <1>1, <1>4, <1>7, Recursion
  <1>12. f \in [0..N -> Followers] /\ f[0] = base /\ \A n \in 1..N : f[n] = step[n][f[n - 1]]
    BY <1>11 DEF Goes
  <1>13. ASSUME NEW n \in 0..N PROVE f[n] = Level(n, f[n - 1])
    <2>1. CASE n = 0
      BY <1>8, <1>12, <2>1
    <2>2. CASE n # 0
      <3>1. n \in 1..N /\ n - 1 \in 0..N
        BY <1>1, <2>2
      <3>2. f[n - 1] \in Followers
        BY <1>12, <3>1
      <3> QED
        BY <1>6, <1>12, <3>1, <3>2
    <2> QED
      BY <2>1, <2>2
  <1>14. Eq(f)
    <2>1. f = [n \in 0..N |-> f[n]]
      BY <1>12
    <2> QED
      BY <1>13, <2>1
  <1>15. Eq(walk)
    <2> HIDE DEF Eq
    <2> QED
      BY <1>14
  <1> HIDE DEF walk
  <1>16. \A n \in 0..N : walk[n] = Level(n, walk[n - 1])
    BY <1>15
  <1>17. 0 \in 0..N /\ \A n \in 1..N : n \in 0..N /\ n - 1 \in 0..N
    BY <1>1
  <1>18. walk[0] = base
    BY <1>8, <1>16, <1>17
  <1>19. \A n \in 1..N : walk[n - 1] \in Followers => walk[n] \in Followers
    BY <1>3, <1>16, <1>17
  <1>20. \A n \in 0..N : walk[n] \in Followers
    BY <1>1, <1>4, <1>18, <1>19, Kept
  <1>21. walk \in [0..N -> Followers]
    <2>1. walk = [n \in 0..N |-> walk[n]]
      BY <1>15
    <2> QED
      BY <1>20, <2>1
  <1>22. /\ \A ifd \in Nat, state \in States : walk[0][ifd][state] = state
         /\ \A n \in 1..N, ifd \in Nat, state \in States :
              walk[n][ifd][state] = IF ifd \notin DOMAIN block.ifds THEN state
                                    ELSE ReadEntries(block.ifds[ifd], walk[n - 1], state)
    BY <1>9, <1>10, <1>16, <1>17, <1>18
  <1> QED
    BY <1>5, <1>21, <1>22 DEF N

\* What can be reached by so many links.
Reaches(block, ifd, upto) ==
    /\ upto \in [0..MaxIFDs -> SUBSET DOMAIN block.ifds]
    /\ upto[0] = {ifd} \cap DOMAIN block.ifds
    /\ \A n \in 1..MaxIFDs : upto[n] = upto[n - 1] \cup Linked(block, upto[n - 1])

LEMMA WithinGoes ==
  ASSUME NEW block \in Blocks, NEW ifd
  PROVE  Reaches(block, ifd, Within(block, ifd))
  <1> DEFINE D == DOMAIN block.ifds
             A == SUBSET D
             More(g) == g \cup Linked(block, g)
             Body(n, g) == IF n = 0 THEN {ifd} \cap D ELSE g \cup Linked(block, g)
             step == [n \in 1..MaxIFDs |-> [g \in A |-> Body(n, g)]]
             base == {ifd} \cap D
             Eq(f) == f = [n \in 0..MaxIFDs |-> Body(n, f[n - 1])]
             upto == CHOOSE f : Eq(f)
  <1>1. MaxIFDs \in Nat
    BY ExifAssumption
  <1>2. ASSUME NEW g \in A PROVE Linked(block, g) \in A
    BY DEF Linked
  <1>3. Within(block, ifd) = upto
    BY DEF Within
  <1>4. ASSUME NEW n \in 1..MaxIFDs, NEW g PROVE Body(n, g) = g \cup Linked(block, g)
    BY <1>1
  <1>5. ASSUME NEW g PROVE Body(0, g) = base
    OBVIOUS
  <1>6. base \in A
    OBVIOUS
  <1>7. ASSUME NEW n \in 1..MaxIFDs, NEW g \in A PROVE step[n][g] = Body(n, g) /\ Body(n, g) \in A
    <2>1. step[n][g] = Body(n, g)
      OBVIOUS
    <2> HIDE DEF Body, step
    <2> QED
      BY <1>2, <1>4, <2>1
  <1>8. step \in Steppers(MaxIFDs, A)
    <2>1. step = [n \in 1..MaxIFDs |-> [g \in A |-> Body(n, g)]]
      OBVIOUS
    <2> HIDE DEF Body, A, step
    <2> QED
      BY <1>7, <2>1 DEF Steppers
  <1> HIDE DEF step, base, Body, A
  <1>11. PICK f : Goes(f, MaxIFDs, A, base, step)
    BY <1>1, <1>6, <1>8, Recursion
  <1>12. f \in [0..MaxIFDs -> A] /\ f[0] = base /\ \A n \in 1..MaxIFDs : f[n] = step[n][f[n - 1]]
    BY <1>11 DEF Goes
  <1>13. ASSUME NEW n \in 0..MaxIFDs PROVE f[n] = Body(n, f[n - 1])
    <2>1. CASE n = 0
      BY <1>5, <1>12, <2>1
    <2>2. CASE n # 0
      <3>1. n \in 1..MaxIFDs /\ n - 1 \in 0..MaxIFDs
        BY <1>1, <2>2
      <3>2. f[n - 1] \in A
        BY <1>12, <3>1
      <3> QED
        BY <1>7, <1>12, <3>1, <3>2
    <2> QED
      BY <2>1, <2>2
  <1>14. Eq(f)
    <2>1. f = [n \in 0..MaxIFDs |-> f[n]]
      BY <1>12
    <2> QED
      BY <1>13, <2>1
  <1>15. Eq(upto)
    <2> HIDE DEF Eq
    <2> QED
      BY <1>14
  <1> HIDE DEF upto
  <1>16. \A n \in 0..MaxIFDs : upto[n] = Body(n, upto[n - 1])
    BY <1>15
  <1>17. 0 \in 0..MaxIFDs /\ \A n \in 1..MaxIFDs : n \in 0..MaxIFDs /\ n - 1 \in 0..MaxIFDs
    BY <1>1
  <1>18. upto[0] = base
    BY <1>5, <1>16, <1>17
  <1>19. \A n \in 1..MaxIFDs : upto[n - 1] \in A => upto[n] \in A
    BY <1>7, <1>16, <1>17
  <1>20. \A n \in 0..MaxIFDs : upto[n] \in A
    BY <1>1, <1>6, <1>18, <1>19, Kept
  <1>21. upto \in [0..MaxIFDs -> A]
    <2>1. upto = [n \in 0..MaxIFDs |-> upto[n]]
      BY <1>15
    <2> QED
      BY <1>20, <2>1
  <1>22. \A n \in 1..MaxIFDs : upto[n] = upto[n - 1] \cup Linked(block, upto[n - 1])
    BY <1>4, <1>16, <1>17
  <1> QED
    BY <1>3, <1>18, <1>21, <1>22 DEF Reaches, base, A

-----------------------------------------------------------------------------
(* What a walk leaves of what the directories state                            *)

\* A walk leaves behind a value that it found, if it found any for the tag.
Overwrites(old, new, found) ==
    \A tag \in TagSet : /\ new[tag] \in {old[tag]} \cup found[tag]
                        /\ found[tag] # {} => new[tag] \in found[tag]

\* What the first n entries say, if directory j says found[j].
FoundIn(ifd, n, found) ==
    [tag \in TagSet |->
        {v \in {"good", "bad"} : \E k \in 1..n :
            \/ ifd[k].tag = tag /\ v = ifd[k].value
            \/ ifd[k].tag = "exif" /\ v \in found[ifd[k].value][tag]}]

Finds == [TagSet -> SUBSET {"good", "bad"}]

LEMMA EntriesOverwrite ==
  ASSUME NEW ifd \in Seq(Entries), NEW follow \in Followers, NEW state \in States,
         NEW found \in [Nat -> Finds],
         \A j \in Nat, st \in States : Overwrites(st, follow[j][st], found[j])
  PROVE  Overwrites(state, ReadEntries(ifd, follow, state), FoundIn(ifd, Len(ifd), found))
  <1>0. PICK after : Reading(ifd, follow, state, after)
    BY EntriesAreRead
  <1>1. /\ after \in [0..Len(ifd) -> States] /\ after[0] = state
        /\ \A n \in 1..Len(ifd) : after[n] = ReadEntry(ifd[n], follow, after[n - 1])
        /\ ReadEntries(ifd, follow, state) = after[Len(ifd)]
    BY <1>0 DEF Reading
  <1> DEFINE N == Len(ifd)
             V(n) == FoundIn(ifd, n, found)
             S == {n \in Nat : n <= N => Overwrites(state, after[n], V(n))}
  <1>2. N \in Nat /\ \A n \in 1..N : ifd[n] \in Entries
    BY LenProperties, ElementOfSeq
  <1>3. ASSUME NEW n \in Nat PROVE \A tag \in TagSet : V(n)[tag] = {v \in {"good", "bad"} : \E k \in 1..n :
            \/ ifd[k].tag = tag /\ v = ifd[k].value
            \/ ifd[k].tag = "exif" /\ v \in found[ifd[k].value][tag]}
    BY DEF FoundIn
  <1> HIDE DEF N, V
  <1>4. 0 \in S
    <2>1. after[0] = state
      BY <1>1
    <2>2. \A tag \in TagSet : V(0)[tag] = {}
      BY <1>3
    <2> QED
      BY <2>1, <2>2 DEF Overwrites
  <1>5. ASSUME NEW n \in Nat, n \in S PROVE n + 1 \in S
    <2> SUFFICES ASSUME n + 1 <= N PROVE Overwrites(state, after[n + 1], V(n + 1))
      OBVIOUS
    <2> DEFINE e == ifd[n + 1]
               m == n + 1
    <2>1. /\ Overwrites(state, after[n], V(n)) /\ m \in 1..N /\ n \in 0..N /\ m - 1 = n
          /\ \A k \in 1..m : k \in 1..n \/ k = m
          /\ \A k \in 1..n : k \in 1..m
          /\ m \in 1..m
      BY <1>2, <1>5
    <2>2. after[n] \in States /\ e \in Entries
      BY <1>1, <1>2, <2>1 DEF N
    <2>3. after[m] = ReadEntry(e, follow, after[n])
      BY <1>1, <2>1 DEF N
    <2>4. ASSUME NEW tag \in TagSet
          PROVE  V(m)[tag] = V(n)[tag] \cup {v \in {"good", "bad"} :
                   \/ e.tag = tag /\ v = e.value
                   \/ e.tag = "exif" /\ v \in found[e.value][tag]}
      <3>1. n + 1 \in Nat
        OBVIOUS
      <3>2. /\ V(n)[tag] = {v \in {"good", "bad"} : \E k \in 1..n :
                  \/ ifd[k].tag = tag /\ v = ifd[k].value
                  \/ ifd[k].tag = "exif" /\ v \in found[ifd[k].value][tag]}
            /\ V(m)[tag] = {v \in {"good", "bad"} : \E k \in 1..m :
                  \/ ifd[k].tag = tag /\ v = ifd[k].value
                  \/ ifd[k].tag = "exif" /\ v \in found[ifd[k].value][tag]}
        BY <1>3, <3>1
      <3> HIDE DEF m
      <3> QED
        BY <2>1, <3>2 DEF m
    <2> HIDE DEF m
    <2>5. CASE e.tag = "exif"
      <3>1. e.value \in Nat /\ "exif" \notin TagSet
        BY <2>2, <2>5 DEF Entries, TagSet, Tags
      <3>2. Overwrites(after[n], after[m], found[e.value])
        BY <2>2, <2>3, <2>5, <3>1 DEF ReadEntry
      <3>3. found[e.value] \in Finds
        BY <3>1
      <3>4. \A tag \in TagSet : found[e.value][tag] \subseteq {"good", "bad"}
        BY <3>3 DEF Finds
      <3>5. \A tag \in TagSet : V(m)[tag] = V(n)[tag] \cup found[e.value][tag]
        BY <2>4, <2>5, <3>1, <3>4
      <3> QED
        BY <2>1, <3>2, <3>5 DEF Overwrites, m
    <2>6. CASE e.tag # "exif"
      <3>1. e.tag \in TagSet /\ e.value \in {"good", "bad"}
        BY <2>2, <2>6 DEF Entries
      <3>2. \A tag \in TagSet : after[m][tag] = IF tag = e.tag THEN e.value ELSE after[n][tag]
        BY <2>2, <2>3, <2>6, <3>1 DEF States, ReadEntry
      <3>3. \A tag \in TagSet : V(m)[tag] = V(n)[tag] \cup (IF tag = e.tag THEN {e.value} ELSE {})
        BY <2>4, <2>6, <3>1
      <3> QED
        BY <2>1, <3>2, <3>3 DEF Overwrites, m
    <2> QED
      BY <2>5, <2>6
  <1>6. N \in S
    <2> HIDE DEF S
    <2> QED
      BY <1>2, <1>4, <1>5, Induction
  <1>7. Overwrites(state, after[N], V(N))
    <2>1. N <= N
      BY <1>2
    <2> QED
      BY <1>6, <2>1
  <1>8. ReadEntries(ifd, follow, state) = after[N]
    BY <1>0 DEF Reading, N
  <1> QED
    BY <1>7, <1>8, Zenon DEF N, V

-----------------------------------------------------------------------------
\* Directories and what they say, over unions of sets of directories.
LEMMA LinkedUnion ==
  ASSUME NEW block, NEW F
  PROVE  /\ Linked(block, UNION F) = UNION {Linked(block, S) : S \in F}
         /\ \A tag : Stated(block, UNION F, tag) = UNION {Stated(block, S, tag) : S \in F}
  BY DEF Linked, Stated

LEMMA LinkedCup ==
  ASSUME NEW block, NEW S, NEW T
  PROVE  /\ Linked(block, S \cup T) = Linked(block, S) \cup Linked(block, T)
         /\ \A tag : Stated(block, S \cup T, tag) = Stated(block, S, tag) \cup Stated(block, T, tag)
  BY DEF Linked, Stated

\* What can be reached by n links is the directory, and what can be reached from
\* those it links to by one less.
LEMMA WithinStep ==
  ASSUME NEW block \in Blocks, NEW ifd \in DOMAIN block.ifds
  PROVE  \A n \in 1..MaxIFDs :
           Within(block, ifd)[n] = {ifd} \cup UNION {Within(block, j)[n - 1] : j \in Linked(block, {ifd})}
  <1> DEFINE L == Linked(block, {ifd})
             U(i, n) == Within(block, i)[n]
             Rest(n) == UNION {U(j, n) : j \in L}
             S == {n \in Nat : n + 1 <= MaxIFDs => U(ifd, n + 1) = {ifd} \cup Rest(n)}
  <1>1. MaxIFDs \in Nat
    BY ExifAssumption
  <1>2. L \subseteq DOMAIN block.ifds
    BY DEF Linked
  <1>3. ASSUME NEW i \in DOMAIN block.ifds
        PROVE  /\ U(i, 0) = {i}
               /\ \A n \in 1..MaxIFDs : U(i, n) = U(i, n - 1) \cup Linked(block, U(i, n - 1))
    BY WithinGoes DEF Reaches
  <1> HIDE DEF L, U
  <1>4. 0 \in S
    <2>1. Rest(0) = L
      BY <1>2, <1>3
    <2>2. 1 <= MaxIFDs => U(ifd, 1) = U(ifd, 0) \cup Linked(block, U(ifd, 0))
      <3>1. 1 <= MaxIFDs => 1 \in 1..MaxIFDs /\ 1 - 1 = 0
        BY <1>1
      <3> QED
        BY <1>3, <3>1
    <2>3. U(ifd, 0) = {ifd}
      BY <1>3
    <2>4. 1 <= MaxIFDs => U(ifd, 1) = {ifd} \cup Rest(0)
      BY <2>1, <2>2, <2>3 DEF L
    <2>5. 0 + 1 = 1 /\ 0 \in Nat
      OBVIOUS
    <2> HIDE DEF Rest
    <2> QED
      BY <2>4, <2>5
  <1>5. ASSUME NEW n \in Nat, n \in S PROVE n + 1 \in S
    <2> SUFFICES ASSUME n + 1 + 1 <= MaxIFDs PROVE U(ifd, n + 1 + 1) = {ifd} \cup Rest(n + 1)
      OBVIOUS
    <2> DEFINE m == n + 1
               k == n + 1 + 1
    <2>1. /\ m \in Nat /\ m \in 1..MaxIFDs /\ m - 1 = n /\ m <= MaxIFDs
          /\ k \in 1..MaxIFDs /\ k - 1 = m
      BY <1>1
    <2>2. U(ifd, m) = {ifd} \cup Rest(n)
      BY <1>5, <2>1
    <2> HIDE DEF m, k
    <2>3. U(ifd, k) = U(ifd, m) \cup Linked(block, U(ifd, m))
      BY <1>3, <2>1
    <2>4. \A j \in L : U(j, m) = U(j, n) \cup Linked(block, U(j, n))
      BY <1>2, <1>3, <2>1
    <2>5. Linked(block, U(ifd, m)) = L \cup Linked(block, Rest(n))
      <3>1. Linked(block, {ifd} \cup Rest(n)) = Linked(block, {ifd}) \cup Linked(block, Rest(n))
        <4> DEFINE X == {ifd}
                   Y == Rest(n)
        <4> HIDE DEF X, Y
        <4>1. Linked(block, X \cup Y) = Linked(block, X) \cup Linked(block, Y)
          BY DEF Linked
        <4> QED
          BY <4>1 DEF X, Y
      <3> HIDE DEF Rest
      <3> QED
        BY <2>2, <3>1 DEF L
    <2>6. Linked(block, Rest(n)) = UNION {Linked(block, U(j, n)) : j \in L}
      <3> DEFINE F == {U(j, n) : j \in L}
      <3>1. Linked(block, UNION F) = UNION {Linked(block, T) : T \in F}
        <4> HIDE DEF F
        <4> QED
          BY LinkedUnion
      <3> QED
        BY <3>1
    <2>7. Rest(m) = Rest(n) \cup Linked(block, Rest(n))
      BY <2>4, <2>6
    <2>8. L \subseteq Rest(n)
      <3>1. ASSUME NEW j \in L PROVE j \in U(j, n)
        <4> DEFINE T == {x \in Nat : x <= MaxIFDs => j \in U(j, x)}
        <4>1. 0 \in T
          BY <1>2, <1>3
        <4>2. ASSUME NEW x \in Nat, x \in T PROVE x + 1 \in T
          <5>1. x + 1 <= MaxIFDs => x <= MaxIFDs /\ x + 1 \in 1..MaxIFDs /\ x + 1 - 1 = x
            BY <1>1
          <5>2. x + 1 <= MaxIFDs => U(j, x + 1) = U(j, x) \cup Linked(block, U(j, x))
            BY <1>2, <1>3, <5>1
          <5> QED
            BY <4>2, <5>1, <5>2
        <4>3. n \in T
          <5> HIDE DEF T
          <5> QED
            BY <4>1, <4>2, Induction
        <4>4. n <= MaxIFDs
          BY <1>1
        <4> QED
          BY <4>3, <4>4
      <3> QED
        BY <3>1
    <2> HIDE DEF Rest
    <2>9. U(ifd, k) = {ifd} \cup Rest(m)
      BY <2>2, <2>3, <2>5, <2>7, <2>8
    <2> QED
      BY <2>9 DEF m, k
  <1>6. \A n \in Nat : n \in S
    <2> HIDE DEF S
    <2> QED
      BY <1>4, <1>5, Induction
  <1>7. ASSUME NEW n \in 1..MaxIFDs PROVE U(ifd, n) = {ifd} \cup Rest(n - 1)
    <2>1. n - 1 \in Nat /\ n - 1 + 1 = n /\ n <= MaxIFDs
      BY <1>1
    <2>2. n - 1 \in S
      BY <1>6, <2>1
    <2> HIDE DEF Rest
    <2> QED
      BY <2>1, <2>2
  <1> QED
    BY <1>7 DEF U, L

LEMMA BlockFacts ==
  ASSUME NEW block \in Blocks
  PROVE  /\ \A i \in DOMAIN block.ifds :
              /\ block.ifds[i] \in Seq(Entries) /\ i \in Nat
              /\ Len(block.ifds[i]) \in Nat /\ DOMAIN block.ifds[i] = 1..Len(block.ifds[i])
              /\ \A k \in 1..Len(block.ifds[i]) : block.ifds[i][k] \in Entries
         /\ block.root \in Nat
  <1>1. block.ifds \in Seq(Seq(Entries)) /\ block.root \in Nat
    BY DEF Blocks
  <1>2. DOMAIN block.ifds = 1..Len(block.ifds) /\ Len(block.ifds) \in Nat
    BY <1>1, LenProperties
  <1>3. \A i \in DOMAIN block.ifds : i \in Nat /\ block.ifds[i] \in Seq(Entries)
    BY <1>1, <1>2, ElementOfSeq
  <1> QED
    BY <1>1, <1>3, LenProperties, ElementOfSeq

\* What one directory states itself, and where it links to.
Own(dir, tag) == {v \in {"good", "bad"} : \E k \in 1..Len(dir) : dir[k].tag = tag /\ v = dir[k].value}
LinkedTo(dir, D) == {j \in D : \E k \in 1..Len(dir) : dir[k].tag = "exif" /\ j = dir[k].value}

LEMMA DirectoryFacts ==
  ASSUME NEW block \in Blocks, NEW ifd \in DOMAIN block.ifds
  PROVE  /\ \A tag \in TagSet : Stated(block, {ifd}, tag) = Own(block.ifds[ifd], tag)
         /\ Linked(block, {ifd}) = LinkedTo(block.ifds[ifd], DOMAIN block.ifds)
  <1> DEFINE dir == block.ifds[ifd]
             X == UNION {Range(block.ifds[i]) : i \in {ifd}}
  <1>1. DOMAIN dir = 1..Len(dir) /\ \A k \in 1..Len(dir) : dir[k] \in Entries
    BY BlockFacts
  <1>2. \A x : x \in X <=> \E k \in 1..Len(dir) : x = dir[k]
    BY <1>1 DEF Range
  <1>3. \A k \in 1..Len(dir) : dir[k].tag \in TagSet => dir[k].value \in {"good", "bad"}
    BY <1>1 DEF Entries, TagSet, Tags
  <1>4. ASSUME NEW tag PROVE Stated(block, {ifd}, tag) = {e.value : e \in {x \in X : x.tag = tag}}
    BY DEF Stated
  <1>5. Linked(block, {ifd}) = {e.value : e \in {x \in X : x.tag = "exif"}} \cap DOMAIN block.ifds
    BY DEF Linked
  <1> HIDE DEF X, dir
  <1>6. ASSUME NEW tag \in TagSet PROVE Stated(block, {ifd}, tag) = Own(dir, tag)
    <2>1. \A v : v \in {e.value : e \in {x \in X : x.tag = tag}} <=> \E x \in X : x.tag = tag /\ v = x.value
      OBVIOUS
    <2>2. \A v : (\E x \in X : x.tag = tag /\ v = x.value)
                   <=> \E k \in 1..Len(dir) : dir[k].tag = tag /\ v = dir[k].value
      BY <1>2
    <2>3. \A v : v \in Own(dir, tag)
                   <=> v \in {"good", "bad"} /\ \E k \in 1..Len(dir) : dir[k].tag = tag /\ v = dir[k].value
      BY DEF Own
    <2>4. \A v : v \in Stated(block, {ifd}, tag)
                   <=> \E k \in 1..Len(dir) : dir[k].tag = tag /\ v = dir[k].value
      <3>1. Stated(block, {ifd}, tag) = {e.value : e \in {x \in X : x.tag = tag}}
        BY <1>4
      <3> QED
        BY <3>1, <2>1, <2>2, Zenon
    <2>5. \A v : v \in Stated(block, {ifd}, tag) <=> v \in Own(dir, tag)
      <3>1. \A k \in 1..Len(dir) : dir[k].tag = tag => dir[k].value \in {"good", "bad"}
        BY <1>3
      <3> QED
        BY <3>1, <2>3, <2>4, Zenon
    <2> QED
      BY <2>5
  <1>7. Linked(block, {ifd}) = LinkedTo(dir, DOMAIN block.ifds)
    <2>1. \A v : v \in {e.value : e \in {x \in X : x.tag = "exif"}} <=> \E x \in X : x.tag = "exif" /\ v = x.value
      OBVIOUS
    <2>2. \A v : (\E x \in X : x.tag = "exif" /\ v = x.value)
                   <=> \E k \in 1..Len(dir) : dir[k].tag = "exif" /\ v = dir[k].value
      BY <1>2
    <2> QED
      BY <1>5, <2>1, <2>2 DEF LinkedTo
  <1> QED
    BY <1>6, <1>7 DEF dir

\* What is stated within n links of a directory, if it is one.
Sayings(block, n) ==
    [j \in Nat |-> [tag \in TagSet |->
        IF j \in DOMAIN block.ifds THEN Stated(block, Within(block, j)[n], tag) ELSE {}]]
Silence == [j \in Nat |-> [tag \in TagSet |-> {}]]

LEMMA StatedUnion ==
  ASSUME NEW block, NEW F, NEW tag
  PROVE  \A v : v \in Stated(block, UNION F, tag) <=> \E S \in F : v \in Stated(block, S, tag)
  BY DEF Stated

LEMMA StatedType ==
  ASSUME NEW block \in Blocks, NEW S \in SUBSET DOMAIN block.ifds, NEW tag \in TagSet
  PROVE  Stated(block, S, tag) \subseteq {"good", "bad"}
  <1>1. S = UNION {{i} : i \in S}
    OBVIOUS
  <1>2. Stated(block, S, tag) = UNION {Stated(block, {i}, tag) : i \in S}
    BY DEF Stated
  <1>3. ASSUME NEW i \in S PROVE Stated(block, {i}, tag) \subseteq {"good", "bad"}
    <2>1. i \in DOMAIN block.ifds
      OBVIOUS
    <2>2. Stated(block, {i}, tag) = Own(block.ifds[i], tag)
      BY <2>1, DirectoryFacts
    <2> QED
      BY <2>2 DEF Own
  <1> QED
    BY <1>2, <1>3

LEMMA SayingsType ==
  ASSUME NEW block \in Blocks, NEW n \in 0..MaxIFDs
  PROVE  Sayings(block, n) \in [Nat -> Finds] /\ Silence \in [Nat -> Finds]
  <1>1. ASSUME NEW j \in DOMAIN block.ifds, NEW tag \in TagSet
        PROVE  Stated(block, Within(block, j)[n], tag) \subseteq {"good", "bad"}
    <2>0. Reaches(block, j, Within(block, j))
      BY WithinGoes
    <2>1. Within(block, j)[n] \in SUBSET DOMAIN block.ifds
      BY <2>0 DEF Reaches
    <2> QED
      BY <2>1, StatedType
  <1>2. ASSUME NEW j \in Nat PROVE Sayings(block, n)[j] \in Finds
    BY <1>1 DEF Sayings, Finds
  <1>3. DOMAIN Sayings(block, n) = Nat /\ Sayings(block, n) = [j \in Nat |-> Sayings(block, n)[j]]
    BY DEF Sayings
  <1> QED
    BY <1>2, <1>3 DEF Silence, Finds

\* What the entries of a directory say is what is stated within one link more.
LEMMA SayingsStep ==
  ASSUME NEW block \in Blocks, NEW ifd \in DOMAIN block.ifds, NEW n \in 1..MaxIFDs, NEW tag \in TagSet,
         NEW dir, dir = block.ifds[ifd]
  PROVE  FoundIn(dir, Len(dir), Sayings(block, n - 1))[tag] = Stated(block, Within(block, ifd)[n], tag)
  <1> DEFINE L == Linked(block, {ifd})
             found == Sayings(block, n - 1)
             W(j) == Within(block, j)[n - 1]
             F == {W(j) : j \in L}
             Rest == UNION F
  <1>1. DOMAIN dir = 1..Len(dir) /\ Len(dir) \in Nat /\ \A k \in 1..Len(dir) : dir[k] \in Entries
    BY BlockFacts
  <1>2. n - 1 \in 0..MaxIFDs /\ MaxIFDs \in Nat
    BY ExifAssumption
  <1>3. \A j \in Nat : found[j][tag] = IF j \in DOMAIN block.ifds THEN Stated(block, W(j), tag) ELSE {}
    BY DEF Sayings
  <1>4. \A k \in 1..Len(dir) : dir[k].tag = "exif" => dir[k].value \in Nat
    BY <1>1 DEF Entries, TagSet, Tags
  <1>5. \A j \in Nat : found[j][tag] \subseteq {"good", "bad"}
    <2>1. found \in [Nat -> Finds]
      BY <1>2, SayingsType
    <2> HIDE DEF found
    <2> QED
      BY <2>1 DEF Finds
  <1>6. \A v : v \in FoundIn(dir, Len(dir), found)[tag]
          <=> v \in {"good", "bad"} /\ \E k \in 1..Len(dir) :
               \/ dir[k].tag = tag /\ v = dir[k].value
               \/ dir[k].tag = "exif" /\ v \in found[dir[k].value][tag]
    <2> HIDE DEF found
    <2> QED
      BY DEF FoundIn
  <1>7. \A j : j \in L
          <=> j \in DOMAIN block.ifds /\ \E k \in 1..Len(dir) : dir[k].tag = "exif" /\ j = dir[k].value
    <2>1. L = LinkedTo(dir, DOMAIN block.ifds)
      BY DirectoryFacts
    <2> HIDE DEF L
    <2> QED
      BY <2>1 DEF LinkedTo
  <1>8. \A v : v \in Stated(block, {ifd}, tag)
          <=> v \in {"good", "bad"} /\ \E k \in 1..Len(dir) : dir[k].tag = tag /\ v = dir[k].value
    <2>1. Stated(block, {ifd}, tag) = Own(dir, tag)
      BY DirectoryFacts
    <2> QED
      BY <2>1 DEF Own
  <1>9. Within(block, ifd)[n] = {ifd} \cup Rest
    BY WithinStep
  <1>10. \A v : v \in Stated(block, Rest, tag) <=> \E S \in F : v \in Stated(block, S, tag)
    <2> HIDE DEF F
    <2> QED
      BY StatedUnion
  <1>11. \A v : v \in Stated(block, Rest, tag) <=> \E j \in L : v \in Stated(block, W(j), tag)
    <2> HIDE DEF L, W, Rest
    <2> QED
      BY <1>10
  <1> HIDE DEF found, L, F, W
  <1>12. Stated(block, Within(block, ifd)[n], tag) = Stated(block, {ifd}, tag) \cup Stated(block, Rest, tag)
    <2> DEFINE X == {ifd}
    <2> HIDE DEF Rest, X
    <2>1. Stated(block, X \cup Rest, tag) = Stated(block, X, tag) \cup Stated(block, Rest, tag)
      BY LinkedCup
    <2> QED
      BY <1>9, <2>1 DEF X
  <1> HIDE DEF Rest
  <1>13. ASSUME NEW v
         PROVE  v \in Stated(block, Rest, tag)
           <=> v \in {"good", "bad"} /\ \E k \in 1..Len(dir) :
                dir[k].tag = "exif" /\ v \in found[dir[k].value][tag]
    <2>1. ASSUME v \in Stated(block, Rest, tag)
          PROVE  v \in {"good", "bad"} /\ \E k \in 1..Len(dir) :
                   dir[k].tag = "exif" /\ v \in found[dir[k].value][tag]
      <3>1. PICK j \in L : v \in Stated(block, W(j), tag)
        BY <1>11, <2>1
      <3>2. j \in DOMAIN block.ifds /\ j \in Nat
        BY <1>7, BlockFacts
      <3>3. v \in found[j][tag]
        BY <1>3, <3>1, <3>2
      <3> QED
        BY <1>5, <1>7, <3>2, <3>3
    <2>2. ASSUME NEW k \in 1..Len(dir), dir[k].tag = "exif", v \in found[dir[k].value][tag]
          PROVE  v \in Stated(block, Rest, tag)
      <3> DEFINE j == dir[k].value
      <3>1. j \in Nat
        BY <1>4, <2>2
      <3>2. j \in DOMAIN block.ifds /\ v \in Stated(block, W(j), tag)
        BY <1>3, <2>2, <3>1
      <3>3. j \in L
        BY <1>7, <2>2, <3>2
      <3> QED
        BY <1>11, <3>2, <3>3
    <2> QED
      BY <2>1, <2>2
  <1>14. \A v : v \in FoundIn(dir, Len(dir), found)[tag] <=> v \in Stated(block, Within(block, ifd)[n], tag)
    <2> TAKE v
    <2>1. v \in Stated(block, Within(block, ifd)[n], tag)
            <=> v \in Stated(block, {ifd}, tag) \/ v \in Stated(block, Rest, tag)
      BY <1>12
    <2> QED
      BY <1>6, <1>8, <1>13, <2>1
  <1>15. FoundIn(dir, Len(dir), found)[tag] = Stated(block, Within(block, ifd)[n], tag)
    BY <1>14
  <1> QED
    BY <1>15 DEF found

LEMMA NoSayings ==
  ASSUME NEW block \in Blocks, NEW ifd \in DOMAIN block.ifds, NEW tag \in TagSet,
         NEW dir, dir = block.ifds[ifd]
  PROVE  FoundIn(dir, Len(dir), Silence)[tag] = Stated(block, Within(block, ifd)[0], tag)
  <1>0. Reaches(block, ifd, Within(block, ifd))
    BY WithinGoes
  <1>1. Within(block, ifd)[0] = {ifd}
    BY <1>0 DEF Reaches
  <1>2. DOMAIN dir = 1..Len(dir) /\ \A k \in 1..Len(dir) : dir[k] \in Entries
    BY BlockFacts
  <1>3. \A k \in 1..Len(dir) : dir[k].tag = "exif" => dir[k].value \in Nat
    BY <1>2 DEF Entries, TagSet, Tags
  <1>4. \A v : v \in Stated(block, {ifd}, tag)
          <=> v \in {"good", "bad"} /\ \E k \in 1..Len(dir) : dir[k].tag = tag /\ v = dir[k].value
    <2>1. Stated(block, {ifd}, tag) = Own(dir, tag)
      BY DirectoryFacts
    <2> QED
      BY <2>1 DEF Own
  <1>5. \A v : v \in FoundIn(dir, Len(dir), Silence)[tag]
          <=> v \in {"good", "bad"} /\ \E k \in 1..Len(dir) :
               \/ dir[k].tag = tag /\ v = dir[k].value
               \/ dir[k].tag = "exif" /\ v \in Silence[dir[k].value][tag]
    BY DEF FoundIn
  <1>6. \A j \in Nat : Silence[j][tag] = {}
    BY DEF Silence
  <1>7. \A v : v \in FoundIn(dir, Len(dir), Silence)[tag] <=> v \in Stated(block, {ifd}, tag)
    <2> TAKE v
    <2>1. \A k \in 1..Len(dir) : dir[k].tag = "exif" => v \notin Silence[dir[k].value][tag]
      BY <1>3, <1>6
    <2>2. (\E k \in 1..Len(dir) :
               \/ dir[k].tag = tag /\ v = dir[k].value
               \/ dir[k].tag = "exif" /\ v \in Silence[dir[k].value][tag])
            <=> \E k \in 1..Len(dir) : dir[k].tag = tag /\ v = dir[k].value
      BY <2>1
    <2> QED
      BY <1>4, <1>5, <2>2, Zenon
  <1> QED
    BY <1>1, <1>7

LEMMA LevelOverwrites ==
  ASSUME NEW block \in Blocks, NEW ifd \in DOMAIN block.ifds, NEW n \in 0..MaxIFDs,
         NEW follow \in Followers, NEW found \in [Nat -> Finds], NEW state \in States,
         \A j \in Nat, st \in States : Overwrites(st, follow[j][st], found[j]),
         \A tag \in TagSet : FoundIn(block.ifds[ifd], Len(block.ifds[ifd]), found)[tag]
                               = Stated(block, Within(block, ifd)[n], tag)
  PROVE  Overwrites(state, ReadEntries(block.ifds[ifd], follow, state), Sayings(block, n)[ifd])
  <1> DEFINE dir == block.ifds[ifd]
             V == FoundIn(dir, Len(dir), found)
  <1>1. dir \in Seq(Entries) /\ ifd \in Nat
    BY BlockFacts
  <1>2. \A tag \in TagSet : V[tag] = Sayings(block, n)[ifd][tag]
    BY <1>1 DEF Sayings
  <1> HIDE DEF dir
  <1>3. Overwrites(state, ReadEntries(dir, follow, state), V)
    BY <1>1, EntriesOverwrite
  <1> HIDE DEF V
  <1>4. Overwrites(state, ReadEntries(dir, follow, state), Sayings(block, n)[ifd])
    BY <1>2, <1>3 DEF Overwrites
  <1> QED
    BY <1>4 DEF dir

\* Where there is no directory, nothing is said.
LEMMA OutsideSays ==
  ASSUME NEW block \in Blocks, NEW ifd \in Nat, ifd \notin DOMAIN block.ifds, NEW n, NEW state \in States
  PROVE  Overwrites(state, state, Sayings(block, n)[ifd])
  BY DEF Overwrites, Sayings

\* The walk with n + 1 levels says what is stated within n links.
LEMMA WalkOverwrites ==
  ASSUME NEW block \in Blocks, NEW walk \in [0..MaxIFDs + 1 -> Followers],
         \A ifd \in Nat, state \in States : walk[0][ifd][state] = state,
         \A n \in 1..MaxIFDs + 1, ifd \in Nat, state \in States :
            walk[n][ifd][state] = IF ifd \notin DOMAIN block.ifds THEN state
                                  ELSE ReadEntries(block.ifds[ifd], walk[n - 1], state),
         NEW ifd \in Nat, NEW state \in States
  PROVE  Overwrites(state, walk[MaxIFDs + 1][ifd][state], Sayings(block, MaxIFDs)[ifd])
  <1> DEFINE Holds(n) == \A j \in Nat, st \in States : Overwrites(st, walk[n + 1][j][st], Sayings(block, n)[j])
             S == {n \in Nat : n <= MaxIFDs => Holds(n)}
  <1>1. MaxIFDs \in Nat
    BY ExifAssumption
  <1>2. 0 \in S
    <2>1. 0 + 1 = 1 /\ 1 \in 1..MaxIFDs + 1 /\ 1 - 1 = 0 /\ 0 \in 0..MaxIFDs /\ 0 \in 0..MaxIFDs + 1
      BY <1>1
    <2>2. walk[0] \in Followers
      BY <2>1
    <2>3. \A j \in Nat, st \in States : Overwrites(st, walk[0][j][st], Silence[j])
      BY DEF Overwrites, Silence
    <2>4. Silence \in [Nat -> Finds]
      BY <2>1, SayingsType
    <2>5. ASSUME NEW j \in Nat, NEW st \in States PROVE Overwrites(st, walk[1][j][st], Sayings(block, 0)[j])
      <3>1. CASE j \in DOMAIN block.ifds
        <4>1. walk[1][j][st] = ReadEntries(block.ifds[j], walk[0], st)
          BY <2>1, <3>1
        <4>2. \A tag \in TagSet : FoundIn(block.ifds[j], Len(block.ifds[j]), Silence)[tag]
                                    = Stated(block, Within(block, j)[0], tag)
          BY <3>1, NoSayings
        <4>3. Overwrites(st, ReadEntries(block.ifds[j], walk[0], st), Sayings(block, 0)[j])
          BY <2>1, <2>2, <2>3, <2>4, <3>1, <4>2, LevelOverwrites
        <4> QED
          BY <4>1, <4>3
      <3>2. CASE j \notin DOMAIN block.ifds
        <4>1. walk[1][j][st] = st
          BY <2>1, <3>2
        <4> QED
          BY <3>2, <4>1, OutsideSays
      <3> QED
        BY <3>1, <3>2
    <2>6. Holds(0)
      BY <2>1, <2>5
    <2> HIDE DEF Holds
    <2> QED
      BY <2>6
  <1>3. ASSUME NEW n \in Nat, n \in S PROVE n + 1 \in S
    <2> DEFINE m == n + 1
               k == n + 1 + 1
    <2> SUFFICES ASSUME m <= MaxIFDs PROVE Holds(m)
      OBVIOUS
    <2>1. /\ n <= MaxIFDs /\ m \in 1..MaxIFDs /\ m \in 0..MaxIFDs /\ m - 1 = n /\ n \in 0..MaxIFDs
          /\ m \in 0..MaxIFDs + 1 /\ k \in 1..MaxIFDs + 1 /\ k - 1 = m
      BY <1>1
    <2>2. \A j \in Nat, st \in States : Overwrites(st, walk[m][j][st], Sayings(block, n)[j])
      BY <1>3, <2>1
    <2>3. Holds(m) = \A j \in Nat, st \in States : Overwrites(st, walk[k][j][st], Sayings(block, m)[j])
      OBVIOUS
    <2> HIDE DEF m, k, Holds, S
    <2>4. walk[m] \in Followers
      BY <2>1
    <2>5. Sayings(block, n) \in [Nat -> Finds]
      BY <2>1, SayingsType
    <2>6. ASSUME NEW j \in Nat, NEW st \in States PROVE Overwrites(st, walk[k][j][st], Sayings(block, m)[j])
      <3>1. CASE j \in DOMAIN block.ifds
        <4>1. walk[k][j][st] = ReadEntries(block.ifds[j], walk[m], st)
          BY <2>1, <3>1
        <4>2. \A tag \in TagSet : FoundIn(block.ifds[j], Len(block.ifds[j]), Sayings(block, n))[tag]
                                    = Stated(block, Within(block, j)[m], tag)
          BY <2>1, <3>1, SayingsStep
        <4> DEFINE follow == walk[m]
                   found == Sayings(block, n)
        <4>3. /\ follow \in Followers /\ found \in [Nat -> Finds] /\ m \in 0..MaxIFDs
              /\ \A i \in Nat, s \in States : Overwrites(s, follow[i][s], found[i])
              /\ \A tag \in TagSet : FoundIn(block.ifds[j], Len(block.ifds[j]), found)[tag]
                                     = Stated(block, Within(block, j)[m], tag)
          BY <2>1, <2>2, <2>4, <2>5, <4>2
        <4>4. Overwrites(st, ReadEntries(block.ifds[j], follow, st), Sayings(block, m)[j])
          <5> HIDE DEF follow, found
          <5> QED
            BY <3>1, <4>3, LevelOverwrites
        <4> QED
          BY <4>1, <4>4
      <3>2. CASE j \notin DOMAIN block.ifds
        <4>1. walk[k][j][st] = st
          BY <2>1, <3>2
        <4> QED
          BY <3>2, <4>1, OutsideSays
      <3> QED
        BY <3>1, <3>2
    <2> QED
      BY <2>3, <2>6
  <1>4. MaxIFDs \in S
    <2> HIDE DEF S
    <2> QED
      BY <1>1, <1>2, <1>3, Induction
  <1>5. Holds(MaxIFDs)
    <2> HIDE DEF Holds
    <2>1. MaxIFDs <= MaxIFDs
      BY <1>1
    <2> QED
      BY <1>4, <2>1
  <1> QED
    BY <1>5

\* A walk leaves for each tag a value that is stated, if one is.
LEMMA WalkSays ==
  ASSUME NEW block \in Blocks, NEW tag \in TagSet
  PROVE  /\ walkIFD(block) \in States
         /\ walkIFD(block)[tag] \in {"bad"} \cup Says(block, tag)
         /\ Says(block, tag) # {} => walkIFD(block)[tag] \in Says(block, tag)
         /\ Says(block, tag) \subseteq {"good", "bad"}
  <1> DEFINE root == block.root
  <1>1. PICK walk \in [0..MaxIFDs + 1 -> Followers] :
           /\ \A ifd \in Nat, state \in States : walk[0][ifd][state] = state
           /\ \A n \in 1..MaxIFDs + 1, ifd \in Nat, state \in States :
                walk[n][ifd][state] = IF ifd \notin DOMAIN block.ifds THEN state
                                      ELSE ReadEntries(block.ifds[ifd], walk[n - 1], state)
           /\ walkIFD(block) = walk[MaxIFDs + 1][root][Unset]
    BY WalkGoes
  <1>0. MaxIFDs \in Nat
    BY ExifAssumption
  <1>2. MaxIFDs \in Nat /\ MaxIFDs + 1 \in 0..MaxIFDs + 1 /\ MaxIFDs \in 0..MaxIFDs
    BY <1>0
  <1>3. root \in Nat /\ Unset \in States
    BY BlockFacts DEF Unset, States
  <1>4. walkIFD(block) \in States
    <2>1. walk[MaxIFDs + 1] \in Followers
      BY <1>2
    <2> QED
      BY <1>1, <1>3, <2>1 DEF Followers
  <1>5. Overwrites(Unset, walkIFD(block), Sayings(block, MaxIFDs)[root])
    <2>1. Overwrites(Unset, walk[MaxIFDs + 1][root][Unset], Sayings(block, MaxIFDs)[root])
      BY <1>1, <1>3, WalkOverwrites
    <2> QED
      BY <1>1, <2>1
  <1>6. Reaches(block, root, Within(block, root))
    BY WithinGoes
  <1>7. Sayings(block, MaxIFDs)[root][tag] = Says(block, tag)
    <2>1. CASE root \in DOMAIN block.ifds
      BY <1>3, <2>1 DEF Sayings, Says
    <2>2. CASE root \notin DOMAIN block.ifds
      <3> DEFINE upto == Within(block, root)
      <3>1. upto[0] \in {{}} /\ \A n \in 1..MaxIFDs : upto[n] = upto[n - 1] \cup Linked(block, upto[n - 1])
        BY <1>6, <2>2 DEF Reaches
      <3>2. Linked(block, {}) = {}
        BY DEF Linked
      <3> HIDE DEF upto
      <3>3. \A n \in 1..MaxIFDs : upto[n - 1] \in {{}} => upto[n] \in {{}}
        BY <3>1, <3>2
      <3>4. upto[MaxIFDs] = {}
        <4> DEFINE A == {{}}
        <4>2. upto[0] \in A /\ \A n \in 1..MaxIFDs : upto[n - 1] \in A => upto[n] \in A
          BY <3>1, <3>3
        <4> HIDE DEF A
        <4>1. \A n \in 0..MaxIFDs : upto[n] \in A
          BY <1>2, <4>2, Kept
        <4> USE DEF A
        <4> QED
          BY <1>2, <4>1
      <3>5. Stated(block, {}, tag) = {}
        BY DEF Stated
      <3>6. Says(block, tag) = {}
        BY <3>4, <3>5 DEF Says, upto
      <3>7. Sayings(block, MaxIFDs)[root][tag] = {}
        BY <1>3, <2>2 DEF Sayings
      <3> QED
        BY <3>6, <3>7
    <2> QED
      BY <2>1, <2>2
  <1>8. Unset[tag] = "bad"
    BY DEF Unset
  <1>9. Says(block, tag) \subseteq {"good", "bad"}
    <2>1. Within(block, root)[MaxIFDs] \in SUBSET DOMAIN block.ifds
      BY <1>2, <1>6 DEF Reaches
    <2>2. Stated(block, Within(block, root)[MaxIFDs], tag) \subseteq {"good", "bad"}
      BY <2>1, StatedType
    <2> QED
      BY <2>2 DEF Says
  <1> QED
    BY <1>4, <1>5, <1>7, <1>8, <1>9 DEF Overwrites

-----------------------------------------------------------------------------
(* What is taken from a block is permitted                                     *)

\* What a block gives is permitted: the first good tag has a good entry, and no
\* better one is plain, since a plain tag is good after any walk.
LEMMA BestIsPermitted ==
  ASSUME NEW block \in Blocks, NEW from
  PROVE  parseTIFF(block, from, None) \in Permitted(block, from)
  <1> DEFINE st == walkIFD(block)
             best == {i \in DOMAIN Tags : st[Tags[i]] = "good" /\ \A j \in DOMAIN Tags : j < i => st[Tags[j]] = "bad"}
             plain(i) == Says(block, Tags[i]) = {"good"}
             beaten(i) == \E j \in 1..(i - 1) : plain(j)
             i0 == CHOOSE i \in best : TRUE
  <1>1. DOMAIN Tags = 1..3 /\ \A i \in 1..3 : Tags[i] \in TagSet
    BY DEF Tags, TagSet
  <1>2. \A tag \in TagSet : /\ st \in States /\ st[tag] \in {"bad"} \cup Says(block, tag)
                            /\ Says(block, tag) # {} => st[tag] \in Says(block, tag)
    BY WalkSays
  <1>3. parseTIFF(block, from, None) = IF best = {} THEN None ELSE <<from, Tags[i0]>>
    BY DEF parseTIFF, applyState
  <1>4. Permitted(block, from) =
          {<<from, Tags[i]>> : i \in {k \in DOMAIN Tags : "good" \in Says(block, Tags[k]) /\ ~beaten(k)}}
             \cup (IF \E i \in DOMAIN Tags : plain(i) THEN {} ELSE {None})
    BY DEF Permitted
  <1> HIDE DEF st
  <1>5. \A i \in 1..3 : st[Tags[i]] \in {"good", "bad"}
    BY <1>1, <1>2 DEF States
  <1>6. \A i \in 1..3 : plain(i) => st[Tags[i]] = "good"
    BY <1>1, <1>2
  <1>7. CASE best = {}
    <2>1. ~(\E i \in DOMAIN Tags : st[Tags[i]] = "good")
      <3>1. st[Tags[1]] # "good"
        BY <1>1, <1>7
      <3>2. st[Tags[2]] # "good"
        BY <1>1, <1>5, <1>7, <3>1
      <3>3. st[Tags[3]] # "good"
        BY <1>1, <1>5, <1>7, <3>1, <3>2
      <3> QED
        BY <1>1, <3>1, <3>2, <3>3
    <2>2. ~(\E i \in DOMAIN Tags : plain(i))
      BY <1>1, <1>6, <2>1
    <2> QED
      BY <1>3, <1>4, <1>7, <2>2
  <1>8. CASE best # {}
    <2>1. i0 \in best
      BY <1>8
    <2> HIDE DEF i0
    <2>2. i0 \in 1..3 /\ st[Tags[i0]] = "good" /\ \A j \in 1..3 : j < i0 => st[Tags[j]] = "bad"
      BY <1>1, <2>1
    <2>3. "good" \in Says(block, Tags[i0])
      BY <1>1, <1>2, <2>2
    <2>4. ~beaten(i0)
      <3>1. \A j \in 1..(i0 - 1) : j \in 1..3 /\ j < i0
        BY <2>2
      <3> QED
        BY <1>6, <2>2, <3>1
    <2> HIDE DEF beaten, plain, best
    <2> QED
      BY <1>1, <1>3, <1>4, <1>8, <2>2, <2>3, <2>4
  <1> QED
    BY <1>7, <1>8

\* More that is read takes the place of no date that was found.
LEMMA AndThenKeeps ==
  ASSUME NEW dates, NEW date \in dates, NEW more, NEW new,
         date = None => new \in more, date # None => new = date
  PROVE  new \in AndThen(dates, more)
  BY DEF AndThen

LEMMA DateIsKept ==
  ASSUME NEW block, NEW from, NEW date, date # None
  PROVE  parseTIFF(block, from, date) = date
  BY DEF parseTIFF, applyState

LEMMA FromBlockPermitted ==
  ASSUME TypeOK, NEW name \in {"CMT1", "CMT2"}, NEW date
  PROVE  /\ date = None => FromBlock(name, date) \in PermittedBy(name)
         /\ date # None => FromBlock(name, date) = date
  <1>1. canon.blocks[name] \in Cmts \cup {None}
    BY DEF TypeOK
  <1>2. CASE canon.blocks[name] = None
    BY <1>2 DEF FromBlock, PermittedBy
  <1>3. CASE canon.blocks[name] # None
    <2>1. canon.blocks[name] \in Blocks
      BY <1>1, <1>3, ExifAssumption
    <2>2. parseTIFF(canon.blocks[name], name, None) \in Permitted(canon.blocks[name], name)
      BY <2>1, BestIsPermitted
    <2> QED
      BY <1>3, <2>2, DateIsKept DEF FromBlock, PermittedBy
  <1> QED
    BY <1>2, <1>3

\* Every action finds what the file permits.
LEMMA BestStep == TypeOK /\ DateIsBest /\ [Next]_vars => DateIsBest'
  <1> SUFFICES ASSUME TypeOK, DateIsBest, [Next]_vars PROVE DateIsBest'
    OBVIOUS
  <1>1. CASE UNCHANGED <<md, due>>
    BY <1>1 DEF DateIsBest
  <1>2. CASE ExifSegment
    <2>1. PICK block \in Tiffs : md' = parseTIFF(block, "app1", None) /\ due' = Permitted(block, "app1")
      BY <1>2 DEF ExifSegment
    <2>2. block \in Blocks
      BY ExifAssumption
    <2> QED
      BY <2>1, <2>2, BestIsPermitted DEF DateIsBest
  <1>3. CASE MovieHeader
    <2>1. PICK t : md' = (IF md = None THEN t ELSE md) /\ due' = AndThen(due, {t})
      BY <1>3, Zenon DEF MovieHeader
    <2>2. md' \in AndThen(due, {t})
      BY <2>1, AndThenKeeps DEF DateIsBest
    <2> QED
      BY <2>1, <2>2 DEF DateIsBest
  <1>4. CASE CanonEnds
    <2> DEFINE mid == FromBlock("CMT2", md)
               last == FromBlock("CMT1", mid)
               between == AndThen(due, PermittedBy("CMT2"))
    <2>1. md' = last /\ due' = AndThen(between, PermittedBy("CMT1"))
      BY <1>4 DEF CanonEnds, CaptureFirst
    <2>2. /\ md = None => mid \in PermittedBy("CMT2")
          /\ md # None => mid = md
      BY FromBlockPermitted
    <2>3. /\ mid = None => last \in PermittedBy("CMT1")
          /\ mid # None => last = mid
      BY FromBlockPermitted
    <2> HIDE DEF mid, last
    <2>4. mid \in between
      BY <2>2, AndThenKeeps DEF DateIsBest
    <2> HIDE DEF between
    <2>5. last \in AndThen(between, PermittedBy("CMT1"))
      BY <2>3, <2>4, AndThenKeeps
    <2> QED
      BY <2>1, <2>5 DEF DateIsBest
  <1>5. CASE Header \/ Unknown \/ BareMarker \/ SkipSegment \/ NoMoreSegments \/ FrameEnds \/ BogusBox
    BY <1>1, <1>5 DEF Header, Unknown, BareMarker, SkipSegment, NoMoreSegments, FrameEnds, BogusBox, Return, GiveUp
  <1>6. CASE FileEnds \/ SeekFails \/ OtherBox \/ Container \/ CanonBox \/ CanonPart
    BY <1>1, <1>6 DEF FileEnds, SeekFails, OtherBox, Container, CanonBox, CanonPart, Fail
  <1>7. CASE UNCHANGED vars
    BY <1>1, <1>7 DEF vars
  <1> QED
    BY <1>2, <1>3, <1>4, <1>5, <1>6, <1>7 DEF Next

-----------------------------------------------------------------------------
(* How much is left to read                                                    *)

\* The sum of a position and a size is their sum, or wraps to before the start.
LEMMA WrapsBelow ==
  ASSUME NEW p \in Nat, NEW n \in Nat, p < Half, n < Half
  PROVE  Wrapped(p + n) = p + n \/ Wrapped(p + n) < 0
  <1> DEFINE a == p + n + Half
             b == 2 * Half
  <1>1. Half \in Nat /\ Half > 0
    BY Lengths
  <1>2. a \in Nat /\ b \in Nat /\ b > 0 /\ a < b + b
    BY <1>1
  <1>3. Wrapped(p + n) = (a % b) - Half
    BY DEF Wrapped
  <1>4. CASE a < b
    <2>1. a % b = a
      <3> HIDE DEF a, b
      <3> QED
        BY <1>2, <1>4
    <2> QED
      BY <1>1, <1>3, <2>1
  <1>5. CASE ~(a < b)
    <2>1. a % b = a - b
      <3> HIDE DEF a, b
      <3> QED
        BY <1>2, <1>5
    <2>2. a - b - Half < 0
      BY <1>1
    <2> QED
      BY <1>3, <2>1, <2>2
  <1> QED
    BY <1>4, <1>5

\* What a header says of the next position.
LEMMA NextBox ==
  ASSUME TypeOK, frames # <<>>, AtBox, NEW h \in Headers, ~Bogus(h)
  PROVE  /\ Top.pos \in Nat /\ Top.end \in Int /\ Top.pos + 1 <= Top.end
         /\ h.n \in Nat /\ h.len \in {1, 2} /\ h.len <= h.n
         /\ EndOf(h) \in Int /\ EndOf(h) <= Top.end
         /\ EndOf(h) = Top.pos + h.n \/ EndOf(h) < 0
  <1>1. Top \in Frame /\ h.n \in Int /\ h.len \in {1, 2} /\ EndOf(h) \in Words /\ Top.pos >= 0
    BY HeaderFacts
  <1>2. Top.pos \in Words /\ Top.end \in Words /\ Top.pos + 1 <= Top.end
    BY <1>1 DEF Frame, AtBox, InFrame
  <1>3. h.len <= h.n /\ EndOf(h) <= Top.end
    <2>1. ~(h.n < h.len) /\ ~(EndOf(h) > Top.end)
      BY DEF Bogus
    <2>2. EndOf(h) \in Int /\ Top.end \in Int
      BY <1>1, <1>2, Lengths
    <2> QED
      BY <1>1, <2>1, <2>2
  <1>4. h.n < Half
    <2>1. \A n \in Claims \cup Words : n < Half
      BY Lengths DEF Words
    <2> QED
      BY <2>1 DEF Headers
  <1>5. Top.pos \in Nat /\ Top.pos < Half /\ h.n \in Nat
    <2>1. \A n \in Words : n \in Int /\ n < Half
      BY Lengths DEF Words
    <2> QED
      BY <1>1, <1>2, <1>3, <2>1
  <1> QED
    BY <1>1, <1>2, <1>3, <1>4, <1>5, WrapsBelow, Lengths DEF EndOf

\* Frames by their places: all but the last, and the last with another position.
LEMMA FrontAt ==
  ASSUME frames \in Seq(Frame), frames # <<>>, NEW m, m = Len(frames)
  PROVE  /\ m \in Nat \ {0} /\ Top = frames[m] /\ \A i \in 1..m : frames[i] \in Frame
         /\ Front(frames) \in Seq(Frame) /\ Len(Front(frames)) = m - 1
         /\ \A i \in 1..m - 1 : Front(frames)[i] = frames[i]
  <1> DEFINE n == m - 1
  <1>1. m \in Nat \ {0} /\ Front(frames) \in Seq(Frame) /\ Len(Front(frames)) = m - 1
    BY FramesFacts
  <1>2. Top = frames[m] /\ \A i \in 1..m : frames[i] \in Frame
    BY ElementOfSeq DEF Top, Last
  <1>3. \A i \in 1..n : frames[i] \in Frame
    BY <1>1, <1>2
  <1>4. n \in Int /\ 1 \in Int /\ n - 1 + 1 = n /\ \A i \in Int : 1 + i - 1 = i
    BY <1>1
  <1>5. \A i \in 1..n - 1 + 1 : SubSeq(frames, 1, n)[i] = frames[1 + i - 1]
    <2> HIDE DEF n
    <2> QED
      BY <1>3, <1>4, SubSeqProperties
  <1>6. \A i \in 1..n : SubSeq(frames, 1, n)[i] = frames[i]
    <2> HIDE DEF n
    <2> QED
      BY <1>4, <1>5
  <1> QED
    BY <1>1, <1>2, <1>6 DEF Front

LEMMA ToBoxAt ==
  ASSUME frames \in Seq(Frame), frames # <<>>, NEW m, m = Len(frames), NEW n \in Words
  PROVE  /\ ToBox(n) \in Seq(Frame) /\ Len(ToBox(n)) = m
         /\ \A i \in 1..m - 1 : ToBox(n)[i] = frames[i]
         /\ ToBox(n)[m] = [pos |-> n, end |-> Top.end]
  <1> DEFINE front == Front(frames)
             last == <<[Top EXCEPT !.pos = n]>>
  <1>1. /\ m \in Nat \ {0} /\ front \in Seq(Frame) /\ Len(front) = m - 1
        /\ \A i \in 1..m - 1 : front[i] = frames[i]
    BY FrontAt
  <1>2. Top \in Frame
    BY FramesFacts
  <1>3. [Top EXCEPT !.pos = n] = [pos |-> n, end |-> Top.end] /\ [Top EXCEPT !.pos = n] \in Frame
    BY <1>2 DEF Frame
  <1>4. last \in Seq(Frame) /\ Len(last) = 1 /\ last[1] = [pos |-> n, end |-> Top.end]
    BY <1>3
  <1> HIDE DEF front, last
  <1>5. \A i \in 1..Len(front) + Len(last) :
          (front \o last)[i] = IF i <= Len(front) THEN front[i] ELSE last[i - Len(front)]
    BY <1>1, <1>4, ConcatProperties
  <1>6. /\ \A i \in 1..m - 1 : (front \o last)[i] = front[i]
        /\ (front \o last)[m] = last[1]
    <2>1. Len(front) + Len(last) = m /\ m - Len(front) = 1 /\ m \in 1..m /\ ~(m <= Len(front))
      BY <1>1, <1>4
    <2>2. \A i \in 1..m - 1 : i \in 1..m /\ i <= Len(front)
      BY <1>1
    <2> QED
      BY <1>5, <2>1, <2>2
  <1>7. ToBox(n) = front \o last
    BY DEF ToBox, front, last
  <1> QED
    BY <1>1, <1>4, <1>6, <1>7, ToBoxFacts

-----------------------------------------------------------------------------
\* A box ends where the next in the box around it begins, and none behind the outermost.
\* A position is before the start only where a size wrapped, in a box that was entered.
NestedIn(fs) ==
    /\ fs # <<>> => fs[1].end >= 0
    /\ \A i \in 1..Len(fs) :
         /\ fs[i].end <= fs[1].end
         /\ fs[i].end >= 0 => fs[i].pos <= fs[i].end
         /\ fs[i].pos < 0 => fs[i].end >= 1 /\ i <= MaxBoxes + 1
    /\ \A i \in 2..Len(fs) : fs[i].end = fs[i - 1].pos

Upto(a, b) == IF a < b THEN b - a ELSE 0
AheadIn(fs) == IF fs[Len(fs)].pos < 0 THEN 0 ELSE Upto(fs[Len(fs)].pos, fs[1].end)

\* Passing a box.
LEMMA PassNested ==
  ASSUME ReadInv, NestedIn(frames), AtBox, NEW h \in Headers, ~Bogus(h)
  PROVE  /\ NestedIn(ToBox(EndOf(h)))
         /\ AheadIn(frames) \in Nat /\ AheadIn(ToBox(EndOf(h))) \in Nat
         /\ \/ EndOf(h) >= 0 /\ AheadIn(ToBox(EndOf(h))) + h.n = AheadIn(frames)
            \/ EndOf(h) < 0 /\ AheadIn(ToBox(EndOf(h))) = 0 /\ AheadIn(frames) >= 1
  <1> DEFINE m == Len(frames)
             e == EndOf(h)
             fs == ToBox(e)
             E == frames[1].end
             p == Top.pos
             q == Top.end
             n == h.n
  <1>1. frames \in Seq(Frame) /\ frames # <<>> /\ TypeOK
    BY TypeFacts DEF ReadInv, AtBox, InFrame
  <1>2. /\ p \in Nat /\ q \in Int /\ p + 1 <= q /\ n \in Nat /\ h.len \in {1, 2} /\ h.len <= n
        /\ e \in Int /\ e <= q /\ (e = p + n \/ e < 0)
    BY <1>1, NextBox
  <1>3. e \in Words /\ m <= MaxBoxes + 1
    BY <1>1, HeaderFacts
  <1> HIDE DEF e, m
  <1>4. /\ m \in Nat \ {0} /\ Top = frames[m] /\ \A i \in 1..m : frames[i] \in Frame
    BY <1>1, FrontAt DEF m
  <1>5. /\ fs \in Seq(Frame) /\ Len(fs) = m /\ \A i \in 1..m - 1 : fs[i] = frames[i]
        /\ fs[m] = [pos |-> e, end |-> q]
    BY <1>1, <1>3, ToBoxAt DEF m
  <1> HIDE DEF fs, p, q, n
  <1>6. frames[m].pos = p /\ frames[m].end = q
    BY <1>4 DEF p, q
  <1>7. \A i \in 1..m : fs[i].end = frames[i].end
    <2> TAKE i \in 1..m
    <2>1. CASE i = m
      BY <1>5, <1>6, <2>1
    <2>2. CASE i # m
      <3>1. i \in 1..m - 1
        BY <1>4, <2>2
      <3> QED
        BY <1>5, <3>1
    <2> QED
      BY <2>1, <2>2
  <1>8. 1 \in 1..m /\ m \in 1..m /\ fs[1].end = E /\ E \in Int /\ E >= 0 /\ q <= E
    <2>1. 1 \in 1..m /\ m \in 1..m
      BY <1>4
    <2>2. E \in Words
      BY <1>4, <2>1 DEF Frame
    <2>3. E >= 0 /\ q <= E
      BY <1>1, <1>6, <2>1 DEF NestedIn, m
    <2> QED
      BY <1>7, <2>1, <2>2, <2>3, Lengths
  <1> HIDE DEF E
  <1>9. \A i \in 1..m : /\ fs[i].end <= E
                        /\ fs[i].end >= 0 => fs[i].pos <= fs[i].end
                        /\ fs[i].pos < 0 => fs[i].end >= 1 /\ i <= MaxBoxes + 1
    <2> TAKE i \in 1..m
    <2>1. CASE i = m
      <3>1. fs[i].pos = e /\ fs[i].end = q
        BY <1>5, <2>1
      <3>2. q >= 1
        BY <1>2
      <3> QED
        BY <1>2, <1>3, <1>8, <2>1, <3>1, <3>2
    <2>2. CASE i # m
      <3>1. i \in 1..m - 1
        BY <1>4, <2>2
      <3> QED
        BY <1>5, <3>1 DEF NestedIn, m, E
    <2> QED
      BY <2>1, <2>2
  <1>10. \A i \in 2..m : fs[i].end = fs[i - 1].pos
    <2> TAKE i \in 2..m
    <2>1. i \in 1..m /\ i - 1 \in 1..m - 1
      BY <1>4
    <2>2. frames[i].end = frames[i - 1].pos
      BY DEF NestedIn, m
    <2> QED
      BY <1>5, <1>7, <2>1, <2>2
  <1>11. NestedIn(fs)
    BY <1>5, <1>8, <1>9, <1>10 DEF NestedIn
  <1>12. AheadIn(frames) = (IF p < 0 THEN 0 ELSE Upto(p, E)) /\ AheadIn(fs) = (IF e < 0 THEN 0 ELSE Upto(e, E))
    BY <1>5, <1>6, <1>8 DEF AheadIn, m, E
  <1>13. AheadIn(frames) = E - p /\ E - p \in Nat /\ E - p >= 1
    BY <1>2, <1>8, <1>12 DEF Upto
  <1>14. CASE e < 0
    BY <1>11, <1>12, <1>13, <1>14 DEF fs, e
  <1>15. CASE ~(e < 0)
    <2>1. e = p + n /\ e <= E
      BY <1>2, <1>8, <1>15
    <2>2. AheadIn(fs) = E - e /\ E - e \in Nat /\ E - e + n = E - p /\ e >= 0
      BY <1>2, <1>8, <1>12, <1>15, <2>1 DEF Upto
    <2> QED
      BY <1>11, <1>13, <2>2 DEF fs, e, n
  <1> QED
    BY <1>14, <1>15

\* Entering a box that was passed.
LEMMA EnterNested ==
  ASSUME ReadInv, NestedIn(frames), AtBox, NEW h \in Headers, ~Bogus(h),
         NEW fs, fs = ToBox(EndOf(h)) \o <<[pos |-> Top.pos + h.len, end |-> EndOf(h)]>>
  PROVE  /\ NestedIn(fs) /\ Len(fs) = Len(frames) + 1
         /\ AheadIn(fs) \in Nat /\ AheadIn(fs) + 1 <= AheadIn(frames)
  <1> DEFINE m == Len(frames)
             k == m + 1
             e == EndOf(h)
             outer == ToBox(e)
             p == Top.pos
             x == [pos |-> p + h.len, end |-> e]
             inner == <<x>>
             E == frames[1].end
  <1>1. frames \in Seq(Frame) /\ frames # <<>> /\ TypeOK
    BY TypeFacts DEF ReadInv, AtBox, InFrame
  <1>2. /\ p \in Nat /\ Top.end \in Int /\ p + 1 <= Top.end /\ h.n \in Nat /\ h.len \in {1, 2} /\ h.len <= h.n
        /\ e \in Int /\ e <= Top.end /\ (e = p + h.n \/ e < 0)
    BY <1>1, NextBox
  <1>3. e \in Words /\ p + h.len \in Words
    BY <1>1, HeaderFacts
  <1>4. NestedIn(outer)
    BY PassNested
  <1>5. /\ m \in Nat \ {0} /\ Top = frames[m] /\ \A i \in 1..m : frames[i] \in Frame
    BY <1>1, FrontAt
  <1>6. /\ outer \in Seq(Frame) /\ Len(outer) = m /\ \A i \in 1..m - 1 : outer[i] = frames[i]
        /\ outer[m] = [pos |-> e, end |-> Top.end]
    BY <1>1, <1>3, ToBoxAt
  <1>7. inner \in Seq(Frame) /\ Len(inner) = 1 /\ inner[1] = x
    BY <1>3 DEF Frame
  <1>8. x.pos = p + h.len /\ x.end = e
    OBVIOUS
  <1>0. outer[m].pos = e /\ outer[m].end = Top.end
    <2> HIDE DEF outer, m, e
    <2> QED
      BY <1>6
  <1> HIDE DEF outer, inner, x, e, p, m
  <1>9. /\ fs \in Seq(Frame) /\ Len(fs) = m + 1
        /\ \A i \in 1..m + 1 : fs[i] = IF i <= m THEN outer[i] ELSE inner[i - m]
    <2>1. fs = outer \o inner
      BY DEF outer, inner, x, e, p
    <2>0. /\ outer \o inner \in Seq(Frame) /\ Len(outer \o inner) = Len(outer) + Len(inner)
          /\ \A i \in 1..Len(outer) + Len(inner) :
               (outer \o inner)[i] = IF i <= Len(outer) THEN outer[i] ELSE inner[i - Len(outer)]
      BY <1>6, <1>7, ConcatProperties
    <2>2. \A i \in 1..Len(outer) + Len(inner) :
            fs[i] = IF i <= Len(outer) THEN outer[i] ELSE inner[i - Len(outer)]
      BY <2>0, <2>1, Zenon
    <2>3. fs \in Seq(Frame) /\ Len(fs) = Len(outer) + Len(inner)
      BY <2>0, <2>1, Zenon
    <2> QED
      BY <1>6, <1>7, <2>2, <2>3
  <1>10. /\ \A i \in 1..m : i \in 1..k /\ i <= m
         /\ k \in 1..k /\ ~(k <= m) /\ k - m = 1 /\ k - 1 = m /\ m \in 1..m /\ 1 \in 1..m
         /\ k \in Nat /\ k = m + 1
         /\ \A i \in 1..k : i \in 1..m \/ i = k
         /\ \A i \in 2..k : i \in 2..m \/ i = k
         /\ \A i \in 2..m : i \in 1..m /\ i - 1 \in 1..m
    BY <1>5
  <1> HIDE DEF k
  <1>11. /\ \A i \in 1..m : fs[i] = outer[i]
         /\ fs[k] = x
    BY <1>7, <1>9, <1>10
  <1>12. /\ outer[1].end >= 0 /\ outer[1] = fs[1] /\ outer[m].pos = e
         /\ \A i \in 1..m : /\ outer[i].end <= outer[1].end
                            /\ outer[i].end >= 0 => outer[i].pos <= outer[i].end
                            /\ outer[i].pos < 0 => outer[i].end >= 1 /\ i <= MaxBoxes + 1
         /\ \A i \in 2..m : outer[i].end = outer[i - 1].pos
    <2>1. outer # <<>>
      <3>1. Len(<<>>) = 0
        OBVIOUS
      <3> QED
        BY <1>5, <1>6, <3>1
    <2>2. /\ outer[1].end >= 0
          /\ \A i \in 1..m : /\ outer[i].end <= outer[1].end
                             /\ outer[i].end >= 0 => outer[i].pos <= outer[i].end
                             /\ outer[i].pos < 0 => outer[i].end >= 1 /\ i <= MaxBoxes + 1
          /\ \A i \in 2..m : outer[i].end = outer[i - 1].pos
      BY <1>4, <1>6, <2>1, Zenon DEF NestedIn
    <2>3. outer[1] = fs[1]
      BY <1>10, <1>11
    <2> QED
      BY <1>0, <2>2, <2>3
  <1>13. outer[1].end = E /\ E \in Int /\ e <= E
    <2>1. CASE m = 1
      <3>1. outer[1].end = Top.end /\ E = Top.end
        BY <1>0, <1>5, <2>1 DEF E
      <3> QED
        BY <1>2, <3>1
    <2>2. CASE m # 1
      <3>1. 1 \in 1..m - 1
        BY <1>5, <2>2
      <3>2. outer[1].end = E
        BY <1>6, <3>1 DEF E
      <3>3. E \in Int
        BY <1>5, <1>10, Lengths DEF E, Frame
      <3>4. outer[m].end <= E /\ outer[m].end = Top.end
        BY <1>0, <1>10, <1>12, <3>2
      <3> QED
        BY <1>2, <3>2, <3>3, <3>4
    <2> QED
      BY <2>1, <2>2
  <1> HIDE DEF E
  <1>14. ASSUME NEW i \in 1..k
         PROVE  /\ fs[i].end <= fs[1].end
                /\ fs[i].end >= 0 => fs[i].pos <= fs[i].end
                /\ fs[i].pos < 0 => fs[i].end >= 1 /\ i <= MaxBoxes + 1
    <2>1. CASE i \in 1..m
      <3>1. fs[i] = outer[i] /\ fs[1] = outer[1]
        BY <1>11, <1>12, <2>1
      <3> QED
        BY <1>12, <2>1, <3>1
    <2>2. CASE i = k
      <3>1. fs[i].pos = p + h.len /\ fs[i].end = e /\ fs[1].end = E
        BY <1>8, <1>11, <1>12, <1>13, <2>2
      <3>2. ~(p + h.len < 0) /\ (e >= 0 => p + h.len <= e)
        BY <1>2
      <3> QED
        BY <1>13, <3>1, <3>2
    <2> QED
      BY <1>10, <2>1, <2>2
  <1>15. ASSUME NEW i \in 2..k PROVE fs[i].end = fs[i - 1].pos
    <2>1. CASE i \in 2..m
      BY <1>10, <1>11, <1>12, <2>1
    <2>2. CASE i = k
      BY <1>8, <1>10, <1>11, <1>12, <2>2
    <2> QED
      BY <1>10, <2>1, <2>2
  <1>16. NestedIn(fs)
    BY <1>9, <1>10, <1>12, <1>14, <1>15 DEF NestedIn
  <1>17. AheadIn(fs) = Upto(p + h.len, E) /\ AheadIn(frames) = Upto(p, E)
    <2>1. fs[Len(fs)].pos = p + h.len /\ fs[1].end = E
      BY <1>8, <1>9, <1>10, <1>11, <1>12, <1>13
    <2>2. frames[Len(frames)].pos = p
      BY <1>5 DEF m, p
    <2>3. ~(p + h.len < 0) /\ ~(p < 0)
      BY <1>2
    <2> QED
      BY <2>1, <2>2, <2>3 DEF AheadIn, E
  <1>18. p + 1 <= E
    <2>1. Top.end <= E
      <3>1. outer[m].end <= outer[1].end /\ outer[m].end = Top.end
        BY <1>0, <1>10, <1>12
      <3> QED
        BY <1>13, <3>1
    <2> QED
      BY <1>2, <1>13, <2>1
  <1>19. AheadIn(fs) \in Nat /\ AheadIn(fs) + 1 <= AheadIn(frames)
    BY <1>2, <1>13, <1>17, <1>18 DEF Upto
  <1> QED
    BY <1>9, <1>16, <1>19 DEF m

\* Leaving a box, of which the rest is left out.
LEMMA LeaveNested ==
  ASSUME ReadInv, NestedIn(frames), pc = "boxes", ~InFrame \/ AtBox, Len(frames) > 1,
         NEW fs, fs = Front(frames)
  PROVE  /\ NestedIn(fs) /\ Len(fs) = Len(frames) - 1
         /\ AheadIn(fs) \in Nat /\ AheadIn(frames) \in Nat /\ AheadIn(fs) <= AheadIn(frames)
  <1> DEFINE m == Len(frames)
             k == m - 1
             E == frames[1].end
             p == Top.pos
             q == Top.end
             r == frames[k].pos
  <1>1. frames \in Seq(Frame) /\ frames # <<>> /\ TypeOK
    BY TypeFacts DEF ReadInv
  <1>2. /\ m \in Nat \ {0} /\ Top = frames[m] /\ \A i \in 1..m : frames[i] \in Frame
        /\ fs \in Seq(Frame) /\ Len(fs) = k /\ \A i \in 1..k : fs[i] = frames[i]
    BY <1>1, FrontAt
  <1>3. /\ k \in Nat /\ k >= 1 /\ k \in 1..m /\ 1 \in 1..m /\ 1 \in 1..k /\ k \in 1..k /\ m \in 2..m /\ m \in 1..m
        /\ \A i \in 1..k : i \in 1..m
        /\ \A i \in 2..k : i \in 2..m /\ i \in 1..k /\ i - 1 \in 1..k
    BY <1>2
  <1>4. p \in Int /\ q \in Int /\ E \in Int /\ r \in Int /\ frames[m].pos = p /\ frames[m].end = q
    BY <1>2, <1>3, Lengths DEF Frame
  <1>5. /\ E >= 0
        /\ \A i \in 1..m : /\ frames[i].end <= E
                           /\ frames[i].end >= 0 => frames[i].pos <= frames[i].end
                           /\ frames[i].pos < 0 => frames[i].end >= 1 /\ i <= MaxBoxes + 1
        /\ \A i \in 2..m : frames[i].end = frames[i - 1].pos
    BY <1>1 DEF NestedIn
  <1>6. q = r
    BY <1>3, <1>4, <1>5
  <1>7. p >= 0
    <2>1. CASE AtBox
      BY <2>1 DEF AtBox
    <2>2. CASE ~InFrame
      <3>1. ~(m <= MaxBoxes + 1 /\ p + 1 <= q)
        BY <2>2 DEF InFrame
      <3>2. p < 0 => q >= 1 /\ m <= MaxBoxes + 1
        BY <1>3, <1>4, <1>5
      <3> HIDE DEF m, p, q
      <3> QED
        BY <1>4, <3>1, <3>2
    <2> QED
      BY <2>1, <2>2
  <1>8. q >= 0 => p <= q
    BY <1>3, <1>4, <1>5
  <1>9. q <= E
    BY <1>3, <1>4, <1>5
  <1> HIDE DEF k, m, E, p, q, r
  <1>10. NestedIn(fs)
    <2>1. fs[1].end = E
      BY <1>2, <1>3 DEF E
    <2>2. ASSUME NEW i \in 1..k
          PROVE  /\ fs[i].end <= fs[1].end
                 /\ fs[i].end >= 0 => fs[i].pos <= fs[i].end
                 /\ fs[i].pos < 0 => fs[i].end >= 1 /\ i <= MaxBoxes + 1
      BY <1>2, <1>3, <1>5, <2>1
    <2>3. ASSUME NEW i \in 2..k PROVE fs[i].end = fs[i - 1].pos
      BY <1>2, <1>3, <1>5
    <2> QED
      BY <1>2, <1>5, <2>1, <2>2, <2>3 DEF NestedIn
  <1>11. AheadIn(fs) = (IF r < 0 THEN 0 ELSE Upto(r, E)) /\ AheadIn(frames) = Upto(p, E)
    <2>1. fs[Len(fs)].pos = r /\ fs[1].end = E
      BY <1>2, <1>3 DEF E, r
    <2>2. frames[Len(frames)].pos = p /\ ~(p < 0)
      BY <1>4, <1>7 DEF m
    <2> QED
      BY <2>1, <2>2 DEF AheadIn, E
  <1>12. AheadIn(fs) \in Nat /\ AheadIn(frames) \in Nat /\ AheadIn(fs) <= AheadIn(frames)
    BY <1>4, <1>6, <1>7, <1>8, <1>9, <1>11 DEF Upto
  <1> QED
    BY <1>2, <1>10, <1>12 DEF m, k

\* What is left to read.  A box that is passed counts three times what the Canon box may
\* take, and leaving one counts too.
Left ==
    CASE pc = "start" -> 3 * file.length + 3
      [] pc = "segments" -> Upto(pos, file.length + 1) + 1
      [] pc = "boxes" -> 3 * AheadIn(frames) + Len(frames) + 1
      [] pc = "canon" -> 3 * AheadIn(frames) + Len(frames) + 2 + Upto(canon.pos, canon.end)
      [] pc = "done" -> 0

LEMMA UptoType == ASSUME NEW a \in Int, NEW b \in Int PROVE Upto(a, b) \in Nat
  BY DEF Upto

LEMMA LengthTypes ==
  ASSUME ReadInv
  PROVE  /\ file.length \in Nat /\ pos \in Nat /\ canon.pos \in Int /\ canon.end \in Int
         /\ pc \in {"start", "segments", "boxes", "canon", "done"}
         /\ Upto(pos, file.length + 1) \in Nat /\ Upto(canon.pos, canon.end) \in Nat
  <1>1. file.length \in Nat /\ pos \in Nat /\ pc \in {"start", "segments", "boxes", "canon", "done"}
    BY TypeFacts DEF ReadInv, TypeOK
  <1>2. canon.pos \in Int /\ canon.end \in Int
    <2>1. canon.pos \in Words /\ canon.end \in Words
      BY CanonIsTyped DEF ReadInv
    <2> QED
      BY <2>1, Lengths
  <1> DEFINE n == file.length + 1
  <1>3. n \in Int /\ pos \in Int
    BY <1>1
  <1> HIDE DEF n
  <1>4. Upto(pos, n) \in Nat
    BY <1>3, UptoType
  <1> QED
    BY <1>1, <1>2, <1>4, UptoType DEF n

LEMMA AheadType == ASSUME ReadInv, frames # <<>> PROVE AheadIn(frames) \in Nat /\ Len(frames) \in Nat \ {0}
  <1>1. frames \in Seq(Frame)
    BY TypeFacts DEF ReadInv
  <1> DEFINE m == Len(frames)
  <1>2. m \in Nat \ {0} /\ \A i \in 1..m : frames[i] \in Frame
    BY <1>1, FrontAt
  <1>3. 1 \in 1..m /\ m \in 1..m
    BY <1>2
  <1>4. frames[m].pos \in Int /\ frames[1].end \in Int
    BY <1>2, <1>3, Lengths DEF Frame
  <1> HIDE DEF m
  <1>5. Upto(frames[m].pos, frames[1].end) \in Nat
    BY <1>4, UptoType
  <1> QED
    BY <1>2, <1>5 DEF AheadIn, m

LEMMA LeftType == ReadInv => Left \in Nat
  <1> SUFFICES ASSUME ReadInv PROVE Left \in Nat
    OBVIOUS
  <1>1. CASE pc \in {"boxes", "canon"}
    <2>1. AheadIn(frames) \in Nat /\ Len(frames) \in Nat
      BY <1>1, AheadType DEF ReadInv
    <2> QED
      BY <1>1, <2>1, LengthTypes DEF Left
  <1> QED
    BY <1>1, LengthTypes DEF Left

\* What a step has to do that leads to boxes, to the Canon box, or to the end.
LEMMA LeftThere ==
  /\ pc' = "boxes" => Left' = 3 * AheadIn(frames') + Len(frames') + 1
  /\ pc' = "canon" => Left' = 3 * AheadIn(frames') + Len(frames') + 2 + Upto(canon'.pos, canon'.end)
  /\ pc' = "done" => Left' = 0
  /\ pc' = "segments" => Left' = Upto(pos', file'.length + 1) + 1
  BY DEF Left

LEMMA LeftHere ==
  /\ pc = "boxes" => Left = 3 * AheadIn(frames) + Len(frames) + 1
  /\ pc = "canon" => Left = 3 * AheadIn(frames) + Len(frames) + 2 + Upto(canon.pos, canon.end)
  /\ pc = "start" => Left = 3 * file.length + 3
  /\ pc = "segments" => Left = Upto(pos, file.length + 1) + 1
  BY DEF Left

LEMMA EndShrinks ==
  ASSUME ReadInv, pc # "done", pc' = "done"
  PROVE  Left' < Left
  <1>1. Left' = 0
    BY LeftThere
  <1>2. CASE pc \in {"boxes", "canon"}
    <2>1. AheadIn(frames) \in Nat /\ Len(frames) \in Nat
      BY <1>2, AheadType DEF ReadInv
    <2> QED
      BY <1>1, <1>2, <2>1, LeftHere, LengthTypes
  <1> QED
    BY <1>1, <1>2, LeftHere, LengthTypes

Progress == NestedIn(frames') /\ Left' < Left

LEMMA StopShrinks ==
  ASSUME ReadInv, NestedIn(frames), pc # "done", pc' = "done", frames' = frames
  PROVE  Progress
  BY EndShrinks DEF Progress

LEMMA HeaderShrinks == ReadInv /\ NestedIn(frames) /\ Header => Progress
  <1> SUFFICES ASSUME ReadInv, NestedIn(frames), Header PROVE Progress
    OBVIOUS
  <1>1. pc = "start" /\ file' = file /\ file.length \in Nat /\ MaxScan \in Nat
    BY TypeFacts, Lengths DEF Header, ReadInv
  <1>2. CASE pc' = "segments" /\ pos' = 1 /\ UNCHANGED frames
    <2>1. Left' = Upto(1, file.length + 1) + 1 /\ Left = 3 * file.length + 3
      BY <1>1, <1>2, LeftThere, LeftHere
    <2>2. Left' < Left
      BY <1>1, <2>1 DEF Upto
    <2> QED
      BY <1>2, <2>2 DEF Progress
  <1>3. CASE pc' = "boxes" /\ frames' = <<[pos |-> 0, end |-> IF file.length > MaxScan THEN MaxScan ELSE file.length]>>
    <2> DEFINE e == IF file.length > MaxScan THEN MaxScan ELSE file.length
               f == [pos |-> 0, end |-> e]
    <2>1. e \in Nat /\ e <= file.length
      BY <1>1
    <2>2. f.pos = 0 /\ f.end = e
      OBVIOUS
    <2> HIDE DEF e, f
    <2>3. Len(frames') = 1 /\ frames'[1] = f
      BY <1>3 DEF f, e
    <2>4. AheadIn(frames') = Upto(0, e)
      BY <2>1, <2>2, <2>3 DEF AheadIn
    <2>5. Left' = 3 * AheadIn(frames') + Len(frames') + 1 /\ Left = 3 * file.length + 3
      BY <1>1, <1>3, LeftThere, LeftHere
    <2>6. Left' < Left
      <3>1. AheadIn(frames') \in Nat /\ AheadIn(frames') <= file.length
        BY <1>1, <2>1, <2>4 DEF Upto
      <3> QED
        BY <1>1, <2>3, <2>5, <3>1
    <2>7. NestedIn(frames')
      BY <2>1, <2>2, <2>3 DEF NestedIn
    <2> QED
      BY <2>6, <2>7 DEF Progress
  <1> QED
    BY <1>2, <1>3 DEF Header

LEMMA SegmentsShrink == ReadInv /\ NestedIn(frames) /\ (BareMarker \/ SkipSegment) => Progress
  <1> SUFFICES ASSUME ReadInv, NestedIn(frames), BareMarker \/ SkipSegment PROVE Progress
    OBVIOUS
  <1>1. /\ pc = "segments" /\ pc' = "segments" /\ file' = file /\ frames' = frames
        /\ file.length \in Nat /\ pos \in Nat
    BY TypeFacts DEF BareMarker, SkipSegment, ReadInv, TypeOK
  <1>2. Left' = Upto(pos', file.length + 1) + 1 /\ Left = Upto(pos, file.length + 1) + 1
    BY <1>1, LeftThere, LeftHere
  <1>3. pos' \in Nat /\ pos < pos' /\ pos < file.length + 1
    <2>1. CASE BareMarker
      BY <1>1, <2>1 DEF BareMarker
    <2>2. CASE SkipSegment
      <3>1. PICK n \in Claims : pos' = pos + 2 + n
        BY <2>2 DEF SkipSegment
      <3>2. n \in Nat /\ pos + 2 <= file.length
        BY <2>2, Lengths DEF SkipSegment
      <3> QED
        BY <1>1, <3>1, <3>2
    <2> QED
      BY <2>1, <2>2
  <1>4. Left' < Left
    BY <1>1, <1>2, <1>3 DEF Upto
  <1> QED
    BY <1>1, <1>4 DEF Progress

\* One recursion of walkBoxes returns.
LEMMA ReturnShrinks ==
  ASSUME ReadInv, NestedIn(frames), pc = "boxes", ~InFrame \/ AtBox, Return
  PROVE  Progress
  <1> DEFINE m == Len(frames)
  <1>1. frames # <<>> /\ frames \in Seq(Frame)
    BY TypeFacts DEF ReadInv
  <1>2. m \in Nat \ {0} /\ Len(Front(frames)) = m - 1 /\ Front(frames) \in Seq(Frame)
    BY <1>1, FramesFacts
  <1>3. frames' = Front(frames)
    BY DEF Return
  <1>4. CASE m > 1
    <2>1. /\ NestedIn(frames') /\ Len(frames') = m - 1
          /\ AheadIn(frames') \in Nat /\ AheadIn(frames) \in Nat /\ AheadIn(frames') <= AheadIn(frames)
      BY <1>3, <1>4, LeaveNested
    <2>2. pc' = "boxes"
      BY <1>4 DEF Return
    <2>3. Left' = 3 * AheadIn(frames') + m - 1 + 1 /\ Left = 3 * AheadIn(frames) + m + 1
      BY <1>2, <2>1, <2>2, LeftThere, LeftHere
    <2> HIDE DEF m
    <2>4. Left' < Left
      BY <1>2, <2>1, <2>3
    <2> QED
      BY <2>1, <2>4 DEF Progress
  <1>5. CASE ~(m > 1)
    <2>1. pc' = "done"
      BY <1>5 DEF Return, Finish
    <2>2. Len(frames') = 0
      BY <1>2, <1>3, <1>5
    <2>3. NestedIn(frames')
      <3>1. frames' = <<>>
        BY <1>2, <1>3, <2>2, EmptySeq
      <3> QED
        BY <2>2, <3>1 DEF NestedIn
    <2> QED
      BY <2>1, <2>3, EndShrinks DEF Progress
  <1> QED
    BY <1>4, <1>5

\* A box is passed, entered, or read.
LEMMA BoxesShrink ==
  ReadInv /\ NestedIn(frames) /\ (OtherBox \/ Container \/ MovieHeader \/ CanonBox) => Progress
  <1> SUFFICES ASSUME ReadInv, NestedIn(frames), OtherBox \/ Container \/ MovieHeader \/ CanonBox
               PROVE  Progress
    OBVIOUS
  <1>1. AtBox /\ pc = "boxes" /\ frames # <<>> /\ frames \in Seq(Frame) /\ TypeOK
    BY TypeFacts DEF OtherBox, Container, MovieHeader, CanonBox, AtBox, InFrame, ReadInv
  <1>2. Len(frames) \in Nat \ {0} /\ Left = 3 * AheadIn(frames) + Len(frames) + 1
    BY <1>1, FramesFacts, LeftHere
  <1>3. CASE OtherBox \/ MovieHeader
    <2>1. PICK h \in Headers : ~Bogus(h) /\ frames' = ToBox(EndOf(h))
      BY <1>3 DEF OtherBox, MovieHeader
    <2>2. pc' = "boxes"
      BY <1>1, <1>3 DEF OtherBox, MovieHeader
    <2>3. /\ NestedIn(frames') /\ AheadIn(frames) \in Nat /\ AheadIn(frames') \in Nat
          /\ (AheadIn(frames') + h.n = AheadIn(frames) \/ (AheadIn(frames') = 0 /\ AheadIn(frames) >= 1))
      BY <1>1, <2>1, PassNested
    <2>4. h.n \in Nat /\ h.n >= 1
      <3>1. h.n \in Nat /\ h.len \in {1, 2} /\ h.len <= h.n
        BY <1>1, <2>1, NextBox
      <3> QED
        BY <3>1
    <2>5. Len(frames') = Len(frames)
      BY <1>1, <2>1, HeaderFacts, ToBoxFacts
    <2>6. Left' = 3 * AheadIn(frames') + Len(frames) + 1
      BY <2>2, <2>5, LeftThere
    <2>7. Left' < Left
      BY <1>2, <2>3, <2>4, <2>6
    <2> QED
      BY <2>3, <2>7 DEF Progress
  <1>4. CASE Container
    <2>1. PICK h \in Headers :
            ~Bogus(h) /\ frames' = ToBox(EndOf(h)) \o <<[pos |-> Top.pos + h.len, end |-> EndOf(h)]>>
      BY <1>4 DEF Container
    <2>2. pc' = "boxes"
      BY <1>1, <1>4 DEF Container
    <2>3. /\ NestedIn(frames') /\ Len(frames') = Len(frames) + 1
          /\ AheadIn(frames') \in Nat /\ AheadIn(frames') + 1 <= AheadIn(frames)
      BY <1>1, <2>1, EnterNested
    <2>4. AheadIn(frames) \in Nat
      BY <1>1, AheadType
    <2>5. Left' = 3 * AheadIn(frames') + Len(frames) + 1 + 1
      BY <2>2, <2>3, LeftThere
    <2>6. Left' < Left
      BY <1>2, <2>3, <2>4, <2>5
    <2> QED
      BY <2>3, <2>6 DEF Progress
  <1>5. CASE CanonBox
    <2>1. PICK h \in Headers :
            /\ ~Bogus(h) /\ frames' = ToBox(EndOf(h))
            /\ canon' = [pos |-> Top.pos + h.len + 2, end |-> EndOf(h), blocks |-> NoBlocks]
      BY <1>5 DEF CanonBox
    <2>2. pc' = "canon" /\ canon'.pos = Top.pos + h.len + 2 /\ canon'.end = EndOf(h)
      BY <1>5, <2>1 DEF CanonBox
    <2>3. /\ NestedIn(frames') /\ AheadIn(frames) \in Nat /\ AheadIn(frames') \in Nat
          /\ \/ EndOf(h) >= 0 /\ AheadIn(frames') + h.n = AheadIn(frames)
             \/ EndOf(h) < 0 /\ AheadIn(frames') = 0 /\ AheadIn(frames) >= 1
      BY <1>1, <2>1, PassNested
    <2>4. /\ Top.pos \in Nat /\ h.n \in Nat /\ h.len \in {1, 2} /\ h.len <= h.n
          /\ EndOf(h) \in Int /\ (EndOf(h) = Top.pos + h.n \/ EndOf(h) < 0)
      BY <1>1, <2>1, NextBox
    <2>5. Len(frames') = Len(frames)
      BY <1>1, <2>1, HeaderFacts, ToBoxFacts
    <2> DEFINE u == Upto(canon'.pos, canon'.end)
    <2>6. u \in Nat /\ (EndOf(h) < 0 => u = 0) /\ (EndOf(h) >= 0 => u <= h.n)
      BY <2>2, <2>4 DEF Upto
    <2>7. Left' = 3 * AheadIn(frames') + Len(frames) + 2 + u
      BY <2>2, <2>5, LeftThere
    <2> HIDE DEF u
    <2>8. Left' < Left
      <3>1. CASE EndOf(h) >= 0
        <4>1. AheadIn(frames') + h.n = AheadIn(frames) /\ u <= h.n /\ h.n >= 1
          BY <2>3, <2>4, <2>6, <3>1
        <4> DEFINE A == AheadIn(frames)
                   B == AheadIn(frames')
                   n == h.n
                   l == Len(frames)
        <4>2. A \in Nat /\ B \in Nat /\ n \in Nat /\ l \in Nat /\ u \in Nat /\ B + n = A /\ u <= n /\ n >= 1
          BY <1>2, <2>3, <2>4, <2>6, <4>1
        <4> HIDE DEF A, B, n, l
        <4>3. 3 * B + l + 2 + u < 3 * A + l + 1
          BY <4>2
        <4> QED
          BY <1>2, <2>7, <4>3 DEF A, B, l
      <3>2. CASE EndOf(h) < 0
        BY <1>2, <2>3, <2>4, <2>6, <2>7, <3>2
      <3> QED
        BY <2>4, <3>1, <3>2
    <2> QED
      BY <2>3, <2>8 DEF Progress
  <1> QED
    BY <1>3, <1>4, <1>5

LEMMA CanonShrinks == ReadInv /\ NestedIn(frames) /\ (CanonPart \/ CanonEnds) => Progress
  <1> SUFFICES ASSUME ReadInv, NestedIn(frames), CanonPart \/ CanonEnds PROVE Progress
    OBVIOUS
  <1>1. pc = "canon" /\ frames' = frames /\ frames # <<>>
    BY DEF CanonPart, CanonEnds, ReadInv
  <1>2. AheadIn(frames) \in Nat /\ Len(frames) \in Nat
    BY <1>1, AheadType
  <1>3. canon.pos \in Int /\ canon.end \in Int
    BY Lengths DEF ReadInv, TypeOK
  <1> DEFINE u == Upto(canon.pos, canon.end)
             w == Upto(canon'.pos, canon'.end)
  <1>4. u \in Nat /\ Left = 3 * AheadIn(frames) + Len(frames) + 2 + u
    BY <1>1, <1>3, UptoType, LeftHere
  <1>5. CASE CanonPart
    <2>1. PICK n \in Claims :
            /\ n >= 1 /\ canon.pos + n <= canon.end
            /\ canon'.pos = canon.pos + n /\ canon'.end = canon.end
      <3>1. canon \in [pos : Words, end : Words, blocks : [{"CMT1", "CMT2"} -> Cmts \cup {None}]]
        BY CanonIsTyped DEF ReadInv
      <3> QED
        BY <1>5, <3>1 DEF CanonPart, CanonFits
    <2>2. n \in Nat
      BY Lengths
    <2>3. w \in Nat /\ w < u
      BY <1>3, <2>1, <2>2 DEF Upto
    <2>4. pc' = "canon"
      BY <1>1, <1>5 DEF CanonPart
    <2>5. Left' = 3 * AheadIn(frames) + Len(frames) + 2 + w
      BY <1>1, <2>4, LeftThere
    <2> HIDE DEF u, w
    <2>6. Left' < Left
      BY <1>2, <1>4, <2>3, <2>5
    <2> QED
      BY <1>1, <2>6 DEF Progress
  <1>6. CASE CanonEnds
    <2>1. pc' = "boxes"
      BY <1>6 DEF CanonEnds
    <2>2. Left' = 3 * AheadIn(frames) + Len(frames) + 1
      BY <1>1, <2>1, LeftThere
    <2> HIDE DEF u
    <2>3. Left' < Left
      BY <1>2, <1>4, <2>2
    <2> QED
      BY <1>1, <2>3 DEF Progress
  <1> QED
    BY <1>5, <1>6

LEMMA NextShrinks == ReadInv /\ NestedIn(frames) /\ Next => Progress
  <1> SUFFICES ASSUME ReadInv, NestedIn(frames), Next PROVE Progress
    OBVIOUS
  <1>1. CASE Unknown \/ ExifSegment \/ NoMoreSegments \/ FileEnds \/ SeekFails
    <2>1. pc # "done" /\ pc' = "done" /\ frames' = frames
      BY <1>1 DEF Unknown, ExifSegment, NoMoreSegments, FileEnds, SeekFails, GiveUp, Fail, Finish, AtBox, InFrame
    <2> QED
      BY <2>1, StopShrinks
  <1>2. CASE FrameEnds \/ BogusBox
    <2>1. pc = "boxes" /\ (~InFrame \/ AtBox) /\ Return
      BY <1>2 DEF FrameEnds, BogusBox, AtBox, InFrame
    <2> QED
      BY <2>1, ReturnShrinks
  <1> QED
    BY <1>1, <1>2, HeaderShrinks, SegmentsShrink, BoxesShrink, CanonShrinks DEF Next

-----------------------------------------------------------------------------
\* Whatever sizes a file claims, Read stays within its integers, and enters boxes
\* no deeper than it may: MaxBoxes levels below the outermost, with one more that
\* is left at once.
THEOREM ExifTypeCorrect == Spec => []TypeOK
  <1>1. ReadInv => TypeOK
    BY DEF ReadInv
  <1> QED
    BY ReadInit, ReadStep, <1>1, PTL DEF Spec

\* Read fails only on a file cut within a 64-bit size, and on a size that exceeds
\* the integers and leads to before the start; in all other files the date found so
\* far is what it returns.
THEOREM DatesAreKept == Spec => []FoundIsKept
  <1>1. ReadInv => FoundIsKept
    BY DEF ReadInv
  <1> QED
    BY ReadInit, ReadStep, <1>1, PTL DEF Spec

\* Read takes no date where a file plainly states a better one, for directories of any
\* number, length and depth, that link in any way: walkIFD leaves for a tag a value that
\* is stated within reach, whatever it was before, if one is.
THEOREM DatesAreBest == Spec => []DateIsBest
  <1>1. Init => DateIsBest
    BY DEF Init, DateIsBest
  <1>2. ReadInv => TypeOK
    BY DEF ReadInv
  <1> QED
    BY ReadInit, ReadStep, BestStep, <1>1, <1>2, PTL DEF Spec

\* Every step of Read leaves less to read, whatever sizes the file claims, negative
\* ones and boxes without end included: so no file keeps it for more than Left steps.
THEOREM ReadingShrinks == Spec => [][Left' < Left /\ Left \in Nat]_vars
  <1>1. Init => NestedIn(frames)
    BY DEF Init, NestedIn
  <1>2. ReadInv /\ NestedIn(frames) /\ [Next]_vars => NestedIn(frames)'
    <2>1. ReadInv /\ NestedIn(frames) /\ Next => NestedIn(frames)'
      BY NextShrinks DEF Progress
    <2>2. NestedIn(frames) /\ UNCHANGED vars => NestedIn(frames)'
      BY DEF vars
    <2> QED
      BY <2>1, <2>2
  <1>3. ReadInv /\ NestedIn(frames) /\ [Next]_vars => [Left' < Left /\ Left \in Nat]_vars
    BY NextShrinks, LeftType DEF Progress
  <1> QED
    BY ReadInit, ReadStep, <1>1, <1>2, <1>3, PTL DEF Spec
=============================================================================

--------------------------- MODULE PreviewsProofs ---------------------------
(***************************************************************************)
(* Theorems about Previews, for any library, any number of requests and    *)
(* pictures of any length: types, what must have happened for a torn       *)
(* preview to stay, and that no preview is served that is older than its   *)
(* photo.                                                                  *)
(***************************************************************************)
EXTENDS Previews, TLAPS

USE DEF Times

\* A preview that has a source is made of a photo that can be decoded.
LEMMA SourceIsJpeg ==
    ASSUME NEW e \in Photos, thumbSource(e) # None
    PROVE  thumbSource(e) \in Jpegs
  <1>1. CASE e \in Jpegs
    BY <1>1 DEF thumbSource
  <1>2. CASE e \notin Jpegs
    <2>1. Siblings(e) # {} /\ Siblings(e) \in SUBSET Jpegs
      BY <1>2 DEF thumbSource, Siblings
    <2>2. \E j \in Siblings(e) : \A k \in Siblings(e) : Taken[k] <= Taken[j]
      BY <2>1, PreviewsAssumption
    <2>3. thumbSource(e) \in Siblings(e)
      BY <1>2, <2>1, <2>2 DEF thumbSource
    <2> QED
      BY <2>1, <2>3
  <1> QED
    BY <1>1, <1>2

\* Who is at work has a photo, and one with a source.
Sourced == \A h \in Handlers : at[h].pc # "idle" =>
              at[h].photo \in Photos /\ thumbSource(at[h].photo) \in Jpegs
\* Only who encodes has a file open, and the file it has open is there; one that is a
\* preview already was renamed by somebody else.
Linked == \A h \in Handlers :
    /\ at[h].pc = "encode" => at[h].wrote < Chunks
    /\ at[h].pc # "encode" => at[h].wrote = 0 /\ at[h].fd = "gone"
    /\ at[h].fd = "tmp" => tmp[at[h].photo] \in Preview
    /\ at[h].fd = "dst" => dst[at[h].photo] \in Preview /\ "carried" \in dst[at[h].photo].marks
TypeInv == TypeOK /\ Sourced /\ Linked

LEMMA Numbers == /\ Chunks \in Nat \ {0} /\ MaxTime \in Nat /\ MaxEdits \in Nat
                 /\ MaxFaults \in Nat /\ Jpegs \subseteq Photos
                 /\ None \notin Photos /\ None \notin Editions /\ None \notin Preview
  BY PreviewsAssumption, NoneAssumption DEF Editions

LEMMA RestingType == Resting \in Places /\ Resting.pc = "idle" /\ Resting.wrote = 0
                     /\ Resting.fd = "gone"
  BY Numbers DEF Resting, Places, Editions

LEMMA TypeInit == Init => TypeInv
  BY Numbers, RestingType DEF Init, TypeInv, TypeOK, Sourced, Linked, Editions

\* What a handler writes is a preview.
LEMMA EmptiedType ==
    ASSUME TypeInv, NEW h \in Handlers, at[h].pc # "idle", NEW name \in {"tmp", "dst"}
    PROVE  /\ Emptied(h, name) \in Preview
           /\ Emptied(h, name).time = clock /\ Emptied(h, name).by = edition[Source(h)]
           /\ (\E g \in Others(h, name) : at[g].decoded # at[h].decoded)
                => "mixed" \in Emptied(h, name).marks
           /\ \A i \in 1..Chunks : Emptied(h, name).chunks[i] = None
  BY DEF TypeInv, TypeOK, Sourced, Emptied, Source, Preview

LEMMA WrittenType ==
    ASSUME TypeInv, NEW h \in Handlers, at[h].pc = "encode", NEW f \in Preview
    PROVE  /\ Written(h, f) \in Preview /\ Written(h, f).marks = f.marks
           /\ Written(h, f).time = clock /\ Written(h, f).by = edition[Source(h)]
           /\ \A i \in 1..Chunks : Written(h, f).chunks[i] =
                IF i = at[h].wrote + 1 THEN at[h].decoded ELSE f.chunks[i]
  <1> DEFINE c == [f.chunks EXCEPT ![at[h].wrote + 1] = at[h].decoded]
  <1>1. at[h] \in Places /\ at[h].wrote \in Nat /\ at[h].wrote + 1 \in 1..Chunks
    BY Numbers DEF TypeInv, TypeOK, Linked, Places
  <1>2. at[h].decoded \in Editions /\ edition[Source(h)] \in Editions /\ clock \in Times
    BY <1>1 DEF TypeInv, TypeOK, Sourced, Source, Places
  <1>3. Written(h, f) = [chunks |-> c, time |-> clock, by |-> edition[Source(h)],
                         marks |-> f.marks]
    BY DEF Written
  <1>4. c \in [1..Chunks -> Editions \cup {None}]
    BY <1>1, <1>2 DEF Preview
  <1>5. \A i \in 1..Chunks : c[i] = IF i = at[h].wrote + 1 THEN at[h].decoded ELSE f.chunks[i]
    BY <1>1 DEF Preview
  <1> HIDE DEF c
  <1> QED
    BY <1>2, <1>3, <1>4, <1>5 DEF Preview

\* Renaming and removing change where the files are that handlers have open, and nothing else.
LEMMA MovedType ==
    ASSUME TypeInv, NEW e \in Photos, NEW to \in {"dst", "gone"}, NEW g \in Handlers
    PROVE  LET x == Moved(e, "tmp", to)[g] IN
           /\ x \in Places /\ x.pc = at[g].pc /\ x.photo = at[g].photo
           /\ x.wrote = at[g].wrote /\ x.decoded = at[g].decoded
           /\ x.fd = IF at[g].photo = e /\ at[g].fd = "tmp" THEN to
                     ELSE IF at[g].photo = e /\ at[g].fd = to THEN "gone" ELSE at[g].fd
  <1>1. at[g] \in Places /\ at[g].fd \in {"tmp", "dst", "gone"}
    BY DEF TypeInv, TypeOK, Places
  <1>2. CASE at[g].photo = e /\ at[g].fd = "tmp"
    <2>1. Moved(e, "tmp", to)[g] = [at[g] EXCEPT !.fd = to]
      BY <1>2 DEF Moved
    <2> QED
      BY <1>1, <1>2, <2>1 DEF Places
  <1>3. CASE ~(at[g].photo = e /\ at[g].fd = "tmp") /\ at[g].photo = e /\ at[g].fd = to
    <2>1. Moved(e, "tmp", to)[g] = [at[g] EXCEPT !.fd = "gone"]
      BY <1>3 DEF Moved
    <2> QED
      BY <1>1, <1>3, <2>1 DEF Places
  <1>4. CASE ~(at[g].photo = e /\ at[g].fd = "tmp") /\ ~(at[g].photo = e /\ at[g].fd = to)
    <2>1. Moved(e, "tmp", to)[g] = at[g]
      BY <1>4 DEF Moved
    <2> QED
      BY <1>1, <1>4, <2>1
  <1> QED
    BY <1>2, <1>3, <1>4

\* A handler that has no file open, before a step of its own and after it.
LEMMA QuietType ==
    ASSUME TypeInv, NEW h \in Handlers, NEW x \in Places, at' = [at EXCEPT ![h] = x],
           x.pc # "encode", x.wrote = 0, x.fd = "gone",
           x.pc # "idle" => x.photo \in Photos /\ thumbSource(x.photo) \in Jpegs,
           dst' = dst, tmp' = tmp
    PROVE  at' \in [Handlers -> Places] /\ Sourced' /\ Linked'
  BY DEF TypeInv, TypeOK, Sourced, Linked

\* A handler at work on its file: it goes to x, and the files of its photo are previews
\* still, with the mark that they have.
LEMMA WriterType ==
    ASSUME TypeInv, NEW h \in Handlers, at[h].pc \in {"create", "encode"}, NEW x \in Places,
           at' = [at EXCEPT ![h] = x],
           x.photo = at[h].photo, x.pc = "encode" => x.wrote < Chunks,
           x.pc # "encode" => x.wrote = 0 /\ x.fd = "gone",
           NEW f \in Preview, tmp' = [tmp EXCEPT ![x.photo] = f] \/ (tmp' = tmp /\ x.fd # "tmp")
                              \/ (tmp' = tmp /\ at[h].fd = "tmp"),
           dst' = dst \/ (/\ dst' = [dst EXCEPT ![x.photo] = f]
                          /\ "carried" \in dst[x.photo].marks => "carried" \in f.marks),
           x.fd = "dst" => at[h].fd = "dst"
    PROVE  /\ at' \in [Handlers -> Places] /\ Sourced' /\ Linked'
           /\ dst' \in [Photos -> Preview \cup {None}] /\ tmp' \in [Photos -> Preview \cup {None}]
  <1>1. at[h].photo \in Photos /\ x.photo \in Photos /\ thumbSource(x.photo) \in Jpegs
    BY DEF TypeInv, Sourced
  <1>2. at' \in [Handlers -> Places] /\ at'[h] = x /\ \A g \in Handlers \ {h} : at'[g] = at[g]
    BY DEF TypeInv, TypeOK
  <1>3. /\ dst' \in [Photos -> Preview \cup {None}] /\ tmp' \in [Photos -> Preview \cup {None}]
        /\ \A d \in Photos : (tmp[d] \in Preview => tmp'[d] \in Preview)
                             /\ (dst[d] \in Preview => dst'[d] \in Preview)
        /\ \A d \in Photos : dst[d] \in Preview /\ "carried" \in dst[d].marks
                               => "carried" \in dst'[d].marks
        /\ x.fd = "tmp" => tmp'[x.photo] \in Preview
    BY <1>1 DEF TypeInv, TypeOK, Linked
  <1>4. Sourced'
    BY <1>1, <1>2 DEF TypeInv, Sourced
  <1>5. ASSUME NEW g \in Handlers
        PROVE  /\ at'[g].fd = "tmp" => tmp'[at'[g].photo] \in Preview
               /\ at'[g].fd = "dst" => dst'[at'[g].photo] \in Preview
                                       /\ "carried" \in dst'[at'[g].photo].marks
    <2>1. CASE g = h
      BY <1>1, <1>2, <1>3, <2>1 DEF TypeInv, Linked
    <2>2. CASE g # h
      <3>1. at[g].fd \in {"tmp", "dst"} => at[g].photo \in Photos
        BY DEF TypeInv, Sourced, Linked
      <3> QED
        BY <1>2, <1>3, <2>2, <3>1 DEF TypeInv, Linked
    <2> QED
      BY <2>1, <2>2
  <1>6. Linked'
    BY <1>2, <1>5 DEF TypeInv, Linked
  <1> QED
    BY <1>2, <1>3, <1>4, <1>6

LEMMA CreateType ==
    ASSUME TypeInv, NEW h \in Handlers, Create(h)
    PROVE  /\ at' \in [Handlers -> Places] /\ Sourced' /\ Linked'
           /\ dst' \in [Photos -> Preview \cup {None}] /\ tmp' \in [Photos -> Preview \cup {None}]
  <1> DEFINE x == [at[h] EXCEPT !.fd = "tmp", !.pc = "encode"]
  <1>1. at[h] \in Places /\ at[h].pc = "create" /\ at[h].wrote = 0
    BY DEF TypeInv, TypeOK, Linked, Create, At
  <1>2. x \in Places /\ x.pc = "encode" /\ x.fd = "tmp" /\ x.wrote = 0 /\ x.photo = at[h].photo
    BY <1>1 DEF Places
  <1>3. at' = [at EXCEPT ![h] = x]
    BY DEF Create
  <1>4. Emptied(h, "tmp") \in Preview /\ tmp' = [tmp EXCEPT ![at[h].photo] = Emptied(h, "tmp")]
    BY <1>1, EmptiedType DEF Create
  <1>5. dst' = dst /\ 0 < Chunks
    BY Numbers DEF Create
  <1> HIDE DEF x
  <1> QED
    BY <1>1, <1>2, <1>3, <1>4, <1>5, WriterType

\* Where the handler is after it has written a chunk.
LEMMA WriteType ==
    ASSUME TypeInv, NEW h \in Handlers, Encode(h) \/ Close(h)
    PROVE  /\ at[h].pc = "encode" /\ at'[h] \in Places /\ at' = [at EXCEPT ![h] = at'[h]]
           /\ at'[h].photo = at[h].photo /\ at[h].photo \in Photos
           /\ \/ /\ at'[h].pc = "encode" /\ at'[h].fd = at[h].fd
                 /\ at'[h].wrote = at[h].wrote + 1 /\ at'[h].wrote < Chunks
                 /\ at'[h].decoded = at[h].decoded
              \/ /\ at'[h].pc = "rename" /\ at'[h].wrote = 0 /\ at'[h].fd = "gone"
                 /\ at[h].wrote + 1 = Chunks
  <1>1. at[h] \in Places /\ at[h].pc = "encode" /\ at[h].photo \in Photos /\ h \in DOMAIN at
    BY DEF TypeInv, TypeOK, Sourced, Encode, Close, Write, At
  <1>2. CASE Encode(h)
    <2>1. at' = [at EXCEPT ![h].wrote = at[h].wrote + 1] /\ at[h].wrote + 1 < Chunks
      BY <1>2 DEF Encode
    <2>2. at[h].wrote + 1 \in 0..Chunks
      BY <1>1, <2>1, Numbers DEF Places
    <2>3. at'[h] = [at[h] EXCEPT !.wrote = at[h].wrote + 1] /\ at' = [at EXCEPT ![h] = at'[h]]
      BY <1>1, <2>1
    <2>4. at'[h] \in Places /\ at'[h].pc = "encode" /\ at'[h].fd = at[h].fd
          /\ at'[h].wrote = at[h].wrote + 1 /\ at'[h].decoded = at[h].decoded
          /\ at'[h].photo = at[h].photo
      BY <1>1, <2>2, <2>3 DEF Places
    <2> QED
      BY <1>1, <2>1, <2>3, <2>4
  <1>3. CASE Close(h)
    <2>1. at' = [at EXCEPT ![h] = [Resting EXCEPT !.pc = "rename", !.photo = at[h].photo]]
          /\ at[h].wrote + 1 = Chunks
      BY <1>3 DEF Close
    <2>2. at'[h] = [Resting EXCEPT !.pc = "rename", !.photo = at[h].photo]
          /\ at' = [at EXCEPT ![h] = at'[h]]
      BY <1>1, <2>1
    <2>3. at'[h] \in Places /\ at'[h].pc = "rename" /\ at'[h].photo = at[h].photo
          /\ at'[h].wrote = 0 /\ at'[h].fd = "gone"
      BY <1>1, <2>2, RestingType DEF Places
    <2> QED
      BY <1>1, <2>1, <2>2, <2>3
  <1> QED
    BY <1>2, <1>3

\* What it has written, and where.
LEMMA WriteFiles ==
    ASSUME TypeInv, NEW h \in Handlers, Encode(h) \/ Close(h)
    PROVE  /\ UNCHANGED <<clock, src, edition, faults>>
           /\ at[h].fd = "tmp" => /\ tmp[at[h].photo] \in Preview
                                  /\ tmp' = [tmp EXCEPT ![at[h].photo] = Written(h, tmp[at[h].photo])]
           /\ at[h].fd # "tmp" => tmp' = tmp
           /\ at[h].fd = "dst" => /\ dst[at[h].photo] \in Preview
                                  /\ dst' = [dst EXCEPT ![at[h].photo] = Written(h, dst[at[h].photo])]
           /\ at[h].fd # "dst" => dst' = dst
  BY DEF Encode, Close, Write, TypeInv, Linked

LEMMA EncodeType ==
    ASSUME TypeInv, NEW h \in Handlers, Encode(h) \/ Close(h)
    PROVE  /\ at' \in [Handlers -> Places] /\ Sourced' /\ Linked'
           /\ dst' \in [Photos -> Preview \cup {None}] /\ tmp' \in [Photos -> Preview \cup {None}]
  <1> DEFINE e == at[h].photo
  <1>1. /\ at[h].pc = "encode" /\ at'[h] \in Places /\ at' = [at EXCEPT ![h] = at'[h]]
        /\ at'[h].photo = e /\ e \in Photos
        /\ at'[h].pc = "encode" => at'[h].wrote < Chunks
        /\ at'[h].pc # "encode" => at'[h].wrote = 0 /\ at'[h].fd = "gone"
        /\ at'[h].fd \in {"gone", at[h].fd}
    BY WriteType
  <1>2. CASE at[h].fd = "tmp"
    <2>1. /\ Written(h, tmp[e]) \in Preview
          /\ tmp' = [tmp EXCEPT ![e] = Written(h, tmp[e])] /\ dst' = dst
      BY <1>1, <1>2, WriteFiles, WrittenType
    <2> QED
      BY <1>1, <1>2, <2>1, WriterType
  <1>3. CASE at[h].fd = "dst"
    <2>1. /\ Written(h, dst[e]) \in Preview /\ Written(h, dst[e]).marks = dst[e].marks
          /\ dst' = [dst EXCEPT ![e] = Written(h, dst[e])] /\ tmp' = tmp
      BY <1>1, <1>3, WriteFiles, WrittenType
    <2>2. at'[h].fd # "tmp" /\ ("carried" \in dst[e].marks => "carried" \in Written(h, dst[e]).marks)
      BY <1>1, <1>3, <2>1
    <2> HIDE DEF e
    <2> QED
      BY <1>1, <1>3, <2>1, <2>2, WriterType DEF e
  <1>4. CASE at[h].fd \notin {"tmp", "dst"}
    <2>1. tmp' = tmp /\ dst' = dst /\ at'[h].fd \notin {"tmp", "dst"}
      BY <1>1, <1>4, WriteFiles
    <2>2. at' \in [Handlers -> Places] /\ \A g \in Handlers \ {h} : at'[g] = at[g]
      BY <1>1 DEF TypeInv, TypeOK
    <2>3. Sourced'
      BY <1>1, <2>2 DEF TypeInv, Sourced
    <2>4. Linked'
      BY <1>1, <2>1, <2>2 DEF TypeInv, Linked
    <2> QED
      BY <2>1, <2>2, <2>3, <2>4 DEF TypeInv, TypeOK
  <1> QED
    BY <1>2, <1>3, <1>4

\* What a rename does: who has the file open has the preview open from then on.
LEMMA RenameFacts ==
    ASSUME TypeInv, NEW h \in Handlers, NEW e, e = at[h].photo, Rename(h)
    PROVE  /\ e \in Photos /\ at[h].pc = "rename" /\ at[h].fd = "gone" /\ tmp[e] \in Preview
           /\ dst' = [dst EXCEPT ![e] = dst'[e]] /\ dst'[e] \in Preview
           /\ dst'[e].chunks = tmp[e].chunks /\ dst'[e].time = tmp[e].time
           /\ dst'[e].by = tmp[e].by
           /\ "mixed" \in tmp[e].marks => "mixed" \in dst'[e].marks
           /\ Others(h, "tmp") # {} => "carried" \in dst'[e].marks
           /\ tmp' = [tmp EXCEPT ![e] = None]
           /\ at'[h] = Resting /\ DOMAIN at' = Handlers
           /\ \A g \in Handlers \ {h} : at'[g] = Moved(e, "tmp", "dst")[g]
           /\ UNCHANGED <<clock, src, edition, faults>>
  <1> DEFINE m == IF Others(h, "tmp") # {} THEN tmp[e].marks \cup {"carried"} ELSE tmp[e].marks
             f == [tmp[e] EXCEPT !.marks = m]
  <1>1. at[h].pc = "rename" /\ e \in Photos /\ tmp[e] \in Preview /\ at[h].fd = "gone"
    BY DEF Rename, At, TypeInv, TypeOK, Sourced, Linked
  <1>2. dst' = [dst EXCEPT ![e] = f] /\ tmp' = [tmp EXCEPT ![e] = None]
    BY <1>1 DEF Rename
  <1>3. m \in SUBSET {"mixed", "carried"} /\ ("mixed" \in tmp[e].marks => "mixed" \in m)
        /\ (Others(h, "tmp") # {} => "carried" \in m)
    BY <1>1 DEF Preview
  <1> HIDE DEF m
  <1>4. /\ f \in Preview /\ f.chunks = tmp[e].chunks /\ f.time = tmp[e].time
        /\ f.by = tmp[e].by /\ f.marks = m
    BY <1>1, <1>3 DEF Preview
  <1> HIDE DEF f
  <1>5. dst'[e] = f
    BY <1>1, <1>2 DEF TypeInv, TypeOK
  <1>6. at' = [Moved(e, "tmp", "dst") EXCEPT ![h] = Resting]
    BY DEF Rename
  <1>7. at'[h] = Resting /\ DOMAIN at' = Handlers
        /\ \A g \in Handlers \ {h} : at'[g] = Moved(e, "tmp", "dst")[g]
    BY <1>6 DEF Moved
  <1>8. UNCHANGED <<clock, src, edition, faults>>
    BY DEF Rename
  <1> QED
    BY <1>1, <1>2, <1>3, <1>4, <1>5, <1>7, <1>8

LEMMA RenameType ==
    ASSUME TypeInv, NEW h \in Handlers, Rename(h)
    PROVE  /\ at' \in [Handlers -> Places] /\ Sourced' /\ Linked'
           /\ dst' \in [Photos -> Preview \cup {None}] /\ tmp' \in [Photos -> Preview \cup {None}]
  <1> DEFINE e == at[h].photo
  <1>1. /\ e \in Photos /\ tmp[e] \in Preview
        /\ dst' = [dst EXCEPT ![e] = dst'[e]] /\ dst'[e] \in Preview
        /\ Others(h, "tmp") # {} => "carried" \in dst'[e].marks
        /\ tmp' = [tmp EXCEPT ![e] = None]
        /\ at'[h] = Resting /\ DOMAIN at' = Handlers
        /\ \A g \in Handlers \ {h} : at'[g] = Moved(e, "tmp", "dst")[g]
    BY RenameFacts
  <1>2. /\ dst' \in [Photos -> Preview \cup {None}] /\ tmp' \in [Photos -> Preview \cup {None}]
        /\ \A d \in Photos \ {e} : dst'[d] = dst[d] /\ tmp'[d] = tmp[d]
    BY <1>1 DEF TypeInv, TypeOK
  <1>3. \A g \in Handlers \ {h} :
           /\ at'[g] \in Places /\ at'[g].pc = at[g].pc /\ at'[g].photo = at[g].photo
           /\ at'[g].wrote = at[g].wrote
           /\ at'[g].fd = IF at[g].photo = e /\ at[g].fd = "tmp" THEN "dst"
                          ELSE IF at[g].photo = e /\ at[g].fd = "dst" THEN "gone" ELSE at[g].fd
    BY <1>1, MovedType
  <1>4. at' = [g \in Handlers |-> at'[g]]
    <2>1. at' = [Moved(e, "tmp", "dst") EXCEPT ![h] = Resting]
      BY DEF Rename
    <2> QED
      BY <2>1 DEF Moved
  <1>5. at' \in [Handlers -> Places]
    BY <1>1, <1>3, <1>4, RestingType
  <1>6. Sourced'
    BY <1>1, <1>3, RestingType DEF TypeInv, Sourced
  <1>7. ASSUME NEW g \in Handlers
        PROVE  /\ at'[g].pc = "encode" => at'[g].wrote < Chunks
               /\ at'[g].pc # "encode" => at'[g].wrote = 0 /\ at'[g].fd = "gone"
               /\ at'[g].fd = "tmp" => tmp'[at'[g].photo] \in Preview
               /\ at'[g].fd = "dst" => dst'[at'[g].photo] \in Preview
                                       /\ "carried" \in dst'[at'[g].photo].marks
    <2>1. CASE g = h
      BY <1>1, <2>1, RestingType
    <2>2. CASE g # h
      <3>1. at[g].fd \in {"tmp", "dst"} => at[g].photo \in Photos
        BY DEF TypeInv, Sourced, Linked
      <3>2. at[g].photo = e /\ at[g].fd = "tmp" => g \in Others(h, "tmp")
        BY <2>2 DEF Others
      <3> QED
        BY <1>1, <1>2, <1>3, <2>2, <3>1, <3>2 DEF TypeInv, Linked
    <2> QED
      BY <2>1, <2>2
  <1>8. Linked'
    BY <1>7 DEF Linked
  <1> QED
    BY <1>2, <1>5, <1>6, <1>8

LEMMA EncodeFailsFacts ==
    ASSUME TypeInv, NEW h \in Handlers, NEW e, e = at[h].photo, EncodeFails(h)
    PROVE  /\ e \in Photos /\ at[h].pc = "encode" /\ dst' = dst
           /\ tmp' = [tmp EXCEPT ![e] = None] /\ tmp' \in [Photos -> Preview \cup {None}]
           /\ at' \in [Handlers -> Places] /\ at'[h] = Resting
           /\ \A g \in Handlers \ {h} :
                /\ at'[g].pc = at[g].pc /\ at'[g].photo = at[g].photo
                /\ at'[g].wrote = at[g].wrote /\ at'[g].decoded = at[g].decoded
                /\ at'[g].fd = IF at[g].photo = e /\ at[g].fd = "tmp" THEN "gone" ELSE at[g].fd
           /\ faults' = faults + 1 /\ faults' \in 0..MaxFaults
           /\ UNCHANGED <<clock, src, edition>>
  <1>1. e \in Photos /\ at[h].pc = "encode"
    BY DEF EncodeFails, At, TypeInv, Sourced
  <1>2. at' = [Moved(e, "tmp", "gone") EXCEPT ![h] = Resting]
    BY DEF EncodeFails
  <1>3. at'[h] = Resting /\ at' = [g \in Handlers |-> at'[g]]
        /\ \A g \in Handlers \ {h} : at'[g] = Moved(e, "tmp", "gone")[g]
    BY <1>2 DEF Moved
  <1>4. \A g \in Handlers \ {h} :
           /\ at'[g] \in Places /\ at'[g].pc = at[g].pc /\ at'[g].photo = at[g].photo
           /\ at'[g].wrote = at[g].wrote /\ at'[g].decoded = at[g].decoded
           /\ at'[g].fd = IF at[g].photo = e /\ at[g].fd = "tmp" THEN "gone"
                          ELSE IF at[g].photo = e /\ at[g].fd = "gone" THEN "gone" ELSE at[g].fd
    BY <1>1, <1>3, MovedType
  <1>5. at' \in [Handlers -> Places]
    BY <1>3, <1>4, RestingType
  <1>6. tmp' = [tmp EXCEPT ![e] = None] /\ tmp' \in [Photos -> Preview \cup {None}]
        /\ dst' = dst /\ UNCHANGED <<clock, src, edition>>
    BY <1>1 DEF EncodeFails, TypeInv, TypeOK
  <1>7. faults' = faults + 1 /\ faults' \in 0..MaxFaults
    BY Numbers DEF EncodeFails, Fault, TypeInv, TypeOK
  <1>8. \A g \in Handlers \ {h} :
          at'[g].fd = IF at[g].photo = e /\ at[g].fd = "tmp" THEN "gone" ELSE at[g].fd
    BY <1>4
  <1> QED
    BY <1>1, <1>3, <1>4, <1>5, <1>6, <1>7, <1>8

LEMMA EncodeFailsType ==
    ASSUME TypeInv, NEW h \in Handlers, EncodeFails(h) PROVE Sourced' /\ Linked'
  <1> DEFINE e == at[h].photo
  <1>1. /\ e \in Photos /\ tmp' = [tmp EXCEPT ![e] = None] /\ dst' = dst /\ at'[h] = Resting
        /\ \A g \in Handlers \ {h} :
             /\ at'[g].pc = at[g].pc /\ at'[g].photo = at[g].photo
             /\ at'[g].wrote = at[g].wrote
             /\ at'[g].fd = IF at[g].photo = e /\ at[g].fd = "tmp" THEN "gone" ELSE at[g].fd
    BY EncodeFailsFacts
  <1>2. \A d \in Photos \ {e} : tmp'[d] = tmp[d]
    BY <1>1 DEF TypeInv, TypeOK
  <1>3. Sourced'
    BY <1>1, RestingType DEF TypeInv, Sourced
  <1>4. \A g \in Handlers : at[g].fd \in {"tmp", "dst"} => at[g].photo \in Photos
    BY DEF TypeInv, Sourced, Linked
  <1> QED
    BY <1>1, <1>2, <1>3, <1>4, RestingType DEF TypeInv, Linked

\* The places of a handler that neither writes nor renames.
LEMMA PlainStep ==
    ASSUME TypeInv, NEW h \in Handlers,
           \/ Request(h) \/ Stat(h) \/ Serve(h) \/ MakeAnew(h) \/ Decode(h)
           \/ RenameFails(h) \/ GenerateFails(h)
    PROVE  /\ at[h].pc # "encode" /\ at'[h] \in Places /\ at' = [at EXCEPT ![h] = at'[h]]
           /\ at'[h].pc \notin {"encode", "rename"} /\ at'[h].wrote = 0 /\ at'[h].fd = "gone"
           /\ at'[h].pc # "idle" => /\ at'[h].photo \in Photos
                                    /\ thumbSource(at'[h].photo) \in Jpegs
           /\ dst' = dst /\ tmp' = tmp /\ UNCHANGED <<clock, src, edition>>
           /\ faults' \in {faults, faults + 1} /\ faults' \in 0..MaxFaults
  <1>1. /\ at \in [Handlers -> Places] /\ at[h] \in Places
        /\ at[h].pc # "idle" => /\ at[h].photo \in Photos /\ thumbSource(at[h].photo) \in Jpegs
        /\ at[h].pc # "encode" => at[h].wrote = 0 /\ at[h].fd = "gone"
    BY DEF TypeInv, TypeOK, Sourced, Linked
  <1>2. CASE Request(h)
    <2>1. PICK e \in Photos : /\ thumbSource(e) # None
                              /\ at' = [at EXCEPT ![h].photo = e, ![h].pc = "stat"]
      BY <1>2 DEF Request
    <2>2. at'[h] = [at[h] EXCEPT !.photo = e, !.pc = "stat"] /\ at' = [at EXCEPT ![h] = at'[h]]
      BY <1>1, <2>1
    <2>3. at[h].pc = "idle" /\ thumbSource(e) \in Jpegs
      BY <1>2, <2>1, SourceIsJpeg DEF Request, At
    <2>4. at'[h] \in Places /\ at'[h].pc = "stat" /\ at'[h].photo = e
          /\ at'[h].wrote = 0 /\ at'[h].fd = "gone"
      BY <1>1, <2>2, <2>3 DEF Places
    <2> QED
      BY <1>2, <2>2, <2>3, <2>4 DEF Request, TypeInv, TypeOK
  <1>3. CASE Stat(h)
    <2>1. at[h].pc = "stat" /\ src[thumbSource(at[h].photo)] \in Times
      BY <1>1, <1>3 DEF Stat, At, TypeInv, TypeOK
    <2>2. at'[h] = [at[h] EXCEPT !.seen = src[thumbSource(at[h].photo)], !.pc = "compare"]
          /\ at' = [at EXCEPT ![h] = at'[h]]
      BY <1>1, <1>3 DEF Stat
    <2>3. at'[h] \in Places /\ at'[h].pc = "compare" /\ at'[h].photo = at[h].photo
          /\ at'[h].wrote = 0 /\ at'[h].fd = "gone"
      BY <1>1, <2>1, <2>2 DEF Places
    <2> QED
      BY <1>1, <1>3, <2>1, <2>2, <2>3 DEF Stat, TypeInv, TypeOK
  <1>4. CASE MakeAnew(h)
    <2>1. at[h].pc = "compare" /\ 0 \in Times
      BY <1>4, Numbers DEF MakeAnew, At
    <2>2. at'[h] = [at[h] EXCEPT !.seen = 0, !.pc = "decode"] /\ at' = [at EXCEPT ![h] = at'[h]]
      BY <1>1, <1>4 DEF MakeAnew
    <2>3. at'[h] \in Places /\ at'[h].pc = "decode" /\ at'[h].photo = at[h].photo
          /\ at'[h].wrote = 0 /\ at'[h].fd = "gone"
      BY <1>1, <2>1, <2>2 DEF Places
    <2> QED
      BY <1>1, <1>4, <2>1, <2>2, <2>3 DEF MakeAnew, TypeInv, TypeOK
  <1>5. CASE Decode(h)
    <2>1. at[h].pc = "decode" /\ edition[Source(h)] \in Editions
      BY <1>1, <1>5 DEF Decode, At, Source, TypeInv, TypeOK
    <2>2. at'[h] = [at[h] EXCEPT !.decoded = edition[Source(h)], !.pc = "create"]
          /\ at' = [at EXCEPT ![h] = at'[h]]
      BY <1>1, <1>5 DEF Decode
    <2>3. at'[h] \in Places /\ at'[h].pc = "create" /\ at'[h].photo = at[h].photo
          /\ at'[h].wrote = 0 /\ at'[h].fd = "gone"
      BY <1>1, <2>1, <2>2 DEF Places
    <2> QED
      BY <1>1, <1>5, <2>1, <2>2, <2>3 DEF Decode, TypeInv, TypeOK
  <1>6. CASE Serve(h) \/ RenameFails(h) \/ GenerateFails(h)
    <2>1. /\ at[h].pc # "encode" /\ at' = [at EXCEPT ![h] = Resting]
          /\ UNCHANGED <<clock, src, edition, dst, tmp>>
          /\ faults' \in {faults, faults + 1} /\ faults' \in 0..MaxFaults
      BY <1>6, Numbers DEF Serve, RenameFails, GenerateFails, AskCamera, Fault, At, TypeInv, TypeOK
    <2>2. at'[h] = Resting
      BY <1>1, <2>1
    <2> QED
      BY <2>1, <2>2, RestingType
  <1> QED
    BY <1>2, <1>3, <1>4, <1>5, <1>6

\* No step of a request, of the clock or of the user disturbs the types.
LEMMA TypeStep == TypeInv /\ [Next]_vars => TypeInv'
  <1> SUFFICES ASSUME TypeInv, [Next]_vars PROVE TypeInv'
    OBVIOUS
  <1>1. CASE UNCHANGED vars
    BY <1>1 DEF vars, TypeInv, TypeOK, Sourced, Linked
  <1>2. CASE Tick
    <2>1. clock' \in Times
      BY <1>2, Numbers DEF Tick, TypeInv, TypeOK
    <2> QED
      BY <1>2, <2>1 DEF Tick, TypeInv, TypeOK, Sourced, Linked
  <1>3. CASE Crash
    <2>1. faults' \in 0..MaxFaults
      BY <1>3, Numbers DEF Crash, Fault, TypeInv, TypeOK
    <2>2. at' \in [Handlers -> Places] /\ \A g \in Handlers : at'[g] = Resting
      BY <1>3, RestingType DEF Crash
    <2>3. Sourced' /\ Linked'
      BY <2>2, RestingType DEF Sourced, Linked
    <2> QED
      BY <1>3, <2>1, <2>2, <2>3 DEF Crash, TypeInv, TypeOK
  <1>4. ASSUME NEW j \in Jpegs, Edit(j) PROVE TypeInv'
    <2>1. edition' \in [Jpegs -> Editions] /\ src' \in [Jpegs -> Times]
      BY <1>4, Numbers DEF Edit, TypeInv, TypeOK, Editions
    <2> QED
      BY <1>4, <2>1 DEF Edit, TypeInv, TypeOK, Sourced, Linked
  <1>5. ASSUME NEW h \in Handlers, Step(h) PROVE TypeInv'
    <2>1. CASE \/ Request(h) \/ Stat(h) \/ Serve(h) \/ MakeAnew(h) \/ Decode(h)
               \/ RenameFails(h) \/ GenerateFails(h)
      <3>1. /\ at'[h] \in Places /\ at' = [at EXCEPT ![h] = at'[h]]
            /\ at'[h].pc # "encode" /\ at'[h].wrote = 0 /\ at'[h].fd = "gone"
            /\ at'[h].pc # "idle" => /\ at'[h].photo \in Photos
                                     /\ thumbSource(at'[h].photo) \in Jpegs
            /\ dst' = dst /\ tmp' = tmp /\ UNCHANGED <<clock, src, edition>>
            /\ faults' \in 0..MaxFaults
        BY <2>1, PlainStep
      <3>2. at' \in [Handlers -> Places] /\ Sourced' /\ Linked'
        BY <3>1, QuietType
      <3> QED
        BY <3>1, <3>2 DEF TypeInv, TypeOK
    <2>2. CASE Create(h)
      BY <2>2, CreateType DEF Create, TypeInv, TypeOK
    <2>3. CASE Encode(h) \/ Close(h)
      BY <2>3, EncodeType, WriteFiles DEF TypeInv, TypeOK
    <2>4. CASE Rename(h)
      BY <2>4, RenameType DEF Rename, TypeInv, TypeOK
    <2>5. CASE EncodeFails(h)
      BY <2>5, EncodeFailsType, EncodeFailsFacts DEF TypeInv, TypeOK
    <2> QED
      BY <1>5, <2>1, <2>2, <2>3, <2>4, <2>5 DEF Step
  <1> QED
    BY <1>1, <1>2, <1>3, <1>4, <1>5 DEF Next

\* TYPES.  Previews, times and requests keep their types in every run.
THEOREM PreviewsTypeCorrect == Spec => []TypeOK
  <1>1. TypeInv => TypeOK
    BY DEF TypeInv
  <1> QED
    BY <1>1, TypeInit, TypeStep, PTL DEF Spec
-----------------------------------------------------------------------------
(* Torn previews.  A file that is not marked as mixed holds chunks of one edition, *)
(* that which all who have it open write.  A chunk that a temporary file misses is *)
(* still to come from somebody who has it open, unless nobody is at work on it, as *)
(* after a crash: then the next request empties it.  A chunk that a preview misses *)
(* is to come, or somebody went on with it after its renaming and did not finish.  *)
(* p: where the handlers are.                                                      *)
Openers(e, name, p) == {h \in Handlers : p[h].photo = e /\ p[h].fd = name}
OneEdition(f, S, p) ==
    "mixed" \in f.marks \/ \E n \in Editions :
        /\ \A i \in 1..Chunks : f.chunks[i] \in {n, None}
        /\ \A g \in S : p[g].decoded = n
ToCome(i, S, p) == \E g \in S : p[g].wrote < i
Busy(e) == \E h \in Handlers : at[h].photo = e /\ at[h].pc \in {"encode", "rename"}

TmpWhole(e) == tmp[e] # None =>
    /\ OneEdition(tmp[e], Openers(e, "tmp", at), at)
    /\ Busy(e) => \A i \in 1..Chunks :
         tmp[e].chunks[i] = None => ToCome(i, Openers(e, "tmp", at), at)
DstWhole(e) == dst[e] # None =>
    /\ OneEdition(dst[e], Openers(e, "dst", at), at)
    /\ \A i \in 1..Chunks : dst[e].chunks[i] = None =>
         ToCome(i, Openers(e, "dst", at), at) \/ ("carried" \in dst[e].marks /\ faults > 0)
WholeInv == \A e \in Photos : TmpWhole(e) /\ DstWhole(e)

LEMMA WholeInit == Init => WholeInv
  BY DEF Init, WholeInv, TmpWhole, DstWhole

\* Fewer who have a file open, or others who are where they were, write no other edition.
LEMMA StillOne ==
    ASSUME NEW f, NEW f2, NEW S, NEW S2, NEW p, NEW p2, OneEdition(f, S, p),
           f2.chunks = f.chunks, "mixed" \in f.marks => "mixed" \in f2.marks,
           \A g \in S2 : g \in S /\ p2[g].decoded = p[g].decoded
    PROVE  OneEdition(f2, S2, p2)
  BY DEF OneEdition

LEMMA StillToCome ==
    ASSUME NEW i, NEW S, NEW S2, NEW p, NEW p2, ToCome(i, S, p),
           \A g \in S : g \in S2 /\ p2[g].wrote = p[g].wrote
    PROVE  ToCome(i, S2, p2)
  BY DEF ToCome

\* A photo that a step leaves alone.
LEMMA OtherTmp ==
    ASSUME TypeInv, NEW e \in Photos, TmpWhole(e), tmp'[e] = tmp[e], Busy(e)' => Busy(e),
           \A g \in Handlers : (at[g].photo = e /\ at[g].fd = "tmp")
              <=> (at'[g].photo = e /\ at'[g].fd = "tmp"),
           \A g \in Handlers : at[g].photo = e /\ at[g].fd = "tmp" =>
              at'[g].decoded = at[g].decoded /\ at'[g].wrote = at[g].wrote
    PROVE  TmpWhole(e)'
  <1>1. Openers(e, "tmp", at') = Openers(e, "tmp", at)
        /\ \A g \in Openers(e, "tmp", at) :
             at'[g].decoded = at[g].decoded /\ at'[g].wrote = at[g].wrote
    BY DEF Openers
  <1>2. ASSUME tmp[e] # None PROVE OneEdition(tmp[e], Openers(e, "tmp", at'), at')
    BY <1>1, <1>2, StillOne DEF TmpWhole
  <1>3. ASSUME tmp[e] # None, Busy(e), NEW i \in 1..Chunks, tmp[e].chunks[i] = None
        PROVE  ToCome(i, Openers(e, "tmp", at'), at')
    <2>1. ToCome(i, Openers(e, "tmp", at), at)
      BY <1>3 DEF TmpWhole
    <2> QED
      BY <1>1, <2>1, StillToCome
  <1> QED
    BY <1>2, <1>3 DEF TmpWhole

LEMMA OtherDst ==
    ASSUME TypeInv, NEW e \in Photos, DstWhole(e), dst'[e] = dst[e], faults > 0 => faults' > 0,
           \A g \in Handlers : (at[g].photo = e /\ at[g].fd = "dst")
              <=> (at'[g].photo = e /\ at'[g].fd = "dst"),
           \A g \in Handlers : at[g].photo = e /\ at[g].fd = "dst" =>
              at'[g].decoded = at[g].decoded /\ at'[g].wrote = at[g].wrote
    PROVE  DstWhole(e)'
  <1>1. Openers(e, "dst", at') = Openers(e, "dst", at)
        /\ \A g \in Openers(e, "dst", at) :
             at'[g].decoded = at[g].decoded /\ at'[g].wrote = at[g].wrote
    BY DEF Openers
  <1>2. ASSUME dst[e] # None PROVE OneEdition(dst[e], Openers(e, "dst", at'), at')
    BY <1>1, <1>2, StillOne DEF DstWhole
  <1>3. ASSUME dst[e] # None, NEW i \in 1..Chunks, dst[e].chunks[i] = None
        PROVE  ToCome(i, Openers(e, "dst", at'), at') \/ ("carried" \in dst[e].marks /\ faults' > 0)
    <2>1. CASE ToCome(i, Openers(e, "dst", at), at)
      BY <1>1, <2>1, StillToCome
    <2>2. CASE ~ToCome(i, Openers(e, "dst", at), at)
      BY <1>3, <2>2 DEF DstWhole
    <2> QED
      BY <2>1, <2>2
  <1> QED
    BY <1>2, <1>3 DEF DstWhole

\* A step in which nobody opens, writes, moves or closes a file.
LEMMA QuietStep ==
    ASSUME TypeInv, WholeInv, dst' = dst, tmp' = tmp, faults > 0 => faults' > 0,
           \A g \in Handlers : at'[g] = at[g] \/
              /\ at[g].pc # "encode" /\ at[g].fd = "gone"
              /\ at'[g].pc \notin {"encode", "rename"} /\ at'[g].fd = "gone"
    PROVE  WholeInv'
  <1>1. ASSUME NEW e \in Photos PROVE TmpWhole(e)'
    <2>1. Busy(e)' => Busy(e)
      BY DEF Busy
    <2> QED
      BY <2>1, OtherTmp DEF WholeInv
  <1>2. ASSUME NEW e \in Photos PROVE DstWhole(e)'
    BY OtherDst DEF WholeInv
  <1> QED
    BY <1>1, <1>2 DEF WholeInv

LEMMA CreateStep ==
    ASSUME TypeInv, WholeInv, NEW h \in Handlers, NEW e, e = at[h].photo, Create(h)
    PROVE  WholeInv'
  <1> DEFINE f == Emptied(h, "tmp")
  <1>1. /\ at[h].pc = "create" /\ e \in Photos /\ at[h].fd = "gone" /\ at[h].wrote = 0
        /\ at[h] \in Places /\ at[h].decoded \in Editions
    BY DEF Create, At, TypeInv, TypeOK, Sourced, Linked, Places
  <1>2. at'[h] = [at[h] EXCEPT !.fd = "tmp", !.pc = "encode"]
        /\ \A g \in Handlers \ {h} : at'[g] = at[g]
    BY DEF Create, TypeInv, TypeOK
  <1>3. at'[h].pc = "encode" /\ at'[h].photo = e /\ at'[h].fd = "tmp" /\ at'[h].wrote = 0
        /\ at'[h].decoded = at[h].decoded
    BY <1>1, <1>2 DEF Places
  <1>4. /\ (\A d \in Photos \ {e} : tmp'[d] = tmp[d]) /\ dst' = dst /\ faults' = faults
        /\ tmp'[e] = f
    BY <1>1 DEF Create, TypeInv, TypeOK
  <1>5. /\ (\E g \in Others(h, "tmp") : at[g].decoded # at[h].decoded) => "mixed" \in f.marks
        /\ \A i \in 1..Chunks : f.chunks[i] = None
    BY <1>1, EmptiedType
  <1> HIDE DEF f
  <1>6. ASSUME NEW d \in Photos PROVE DstWhole(d)'
    <2>1. \A g \in Handlers : (at[g].photo = d /\ at[g].fd = "dst")
              <=> (at'[g].photo = d /\ at'[g].fd = "dst")
      BY <1>1, <1>2, <1>3
    <2>2. \A g \in Handlers : at[g].photo = d /\ at[g].fd = "dst" => at'[g] = at[g]
      BY <1>1, <1>2
    <2> QED
      BY <1>4, <2>1, <2>2, OtherDst DEF WholeInv
  <1>7. ASSUME NEW d \in Photos, d # e PROVE TmpWhole(d)'
    <2>1. Busy(d)' => Busy(d)
      BY <1>2, <1>3, <1>7 DEF Busy
    <2>2. \A g \in Handlers : at[g].photo = d => g = h \/ at'[g] = at[g]
      BY <1>2
    <2>3. \A g \in Handlers : (at[g].photo = d /\ at[g].fd = "tmp")
              <=> (at'[g].photo = d /\ at'[g].fd = "tmp")
      BY <1>1, <1>2, <1>3, <1>7
    <2>4. \A g \in Handlers : at[g].photo = d /\ at[g].fd = "tmp" => at'[g] = at[g]
      BY <1>1, <1>2
    <2>5. tmp'[d] = tmp[d] /\ TmpWhole(d)
      BY <1>4, <1>7 DEF WholeInv
    <2> QED
      BY <2>1, <2>3, <2>4, <2>5, OtherTmp
  <1>8. TmpWhole(e)'
    <2>1. h \in Openers(e, "tmp", at')
          /\ \A g \in Openers(e, "tmp", at') : g # h => g \in Others(h, "tmp") /\ at'[g] = at[g]
      BY <1>2, <1>3 DEF Openers, Others
    <2>2. OneEdition(f, Openers(e, "tmp", at'), at')
      BY <1>1, <1>3, <1>5, <2>1 DEF OneEdition
    <2>3. \A i \in 1..Chunks : ToCome(i, Openers(e, "tmp", at'), at')
      BY <1>3, <2>1, Numbers DEF ToCome
    <2> QED
      BY <1>4, <2>2, <2>3 DEF TmpWhole
  <1> QED
    BY <1>6, <1>7, <1>8 DEF WholeInv

\* The file that a chunk is written to, and the handlers that have it open: it stays of
\* one edition, and what it misses is still to come from those it was to come from.
LEMMA ChunkWritten ==
    ASSUME TypeInv, NEW h \in Handlers, Encode(h) \/ Close(h),
           NEW name \in {"tmp", "dst"}, at[h].fd = name,
           NEW f \in Preview, NEW e, e = at[h].photo,
           OneEdition(f, Openers(e, name, at), at)
    PROVE  /\ OneEdition(Written(h, f), Openers(e, name, at'), at')
           /\ \A i \in 1..Chunks : Written(h, f).chunks[i] = None =>
                /\ f.chunks[i] = None
                /\ ToCome(i, Openers(e, name, at), at) => ToCome(i, Openers(e, name, at'), at')
  <1>1. /\ at[h].pc = "encode" /\ at[h] \in Places /\ at[h].wrote \in Nat
        /\ at[h].wrote < Chunks /\ at[h].decoded \in Editions
    BY WriteType DEF TypeInv, TypeOK, Linked, Places
  <1>2. /\ Written(h, f).marks = f.marks
        /\ \A i \in 1..Chunks : Written(h, f).chunks[i] =
             IF i = at[h].wrote + 1 THEN at[h].decoded ELSE f.chunks[i]
    BY <1>1, WrittenType
  <1>3. \A g \in Handlers \ {h} : at'[g] = at[g]
    BY WriteType DEF TypeInv, TypeOK
  <1>4. \/ /\ at'[h].fd = name /\ at'[h].wrote = at[h].wrote + 1 /\ at'[h].photo = e
           /\ at'[h].decoded = at[h].decoded
        \/ at'[h].fd = "gone" /\ at[h].wrote + 1 = Chunks
    BY WriteType
  <1>5. h \in Openers(e, name, at)
    BY DEF Openers
  <1>6. \A g \in Openers(e, name, at') : g \in Openers(e, name, at)
                                         /\ at'[g].decoded = at[g].decoded
    BY <1>3, <1>4, <1>5 DEF Openers
  <1>7. OneEdition(Written(h, f), Openers(e, name, at'), at')
    BY <1>2, <1>5, <1>6 DEF OneEdition
  <1>8. ASSUME NEW i \in 1..Chunks, Written(h, f).chunks[i] = None
        PROVE  f.chunks[i] = None /\ i # at[h].wrote + 1
    BY <1>1, <1>2, <1>8, Numbers
  <1>9. ASSUME NEW i \in 1..Chunks, Written(h, f).chunks[i] = None,
               ToCome(i, Openers(e, name, at), at)
        PROVE  ToCome(i, Openers(e, name, at'), at')
    <2>1. PICK g \in Openers(e, name, at) : at[g].wrote < i
      BY <1>9 DEF ToCome
    <2>2. CASE g = h
      <3>1. at[h].wrote + 1 < i
        BY <1>1, <1>8, <1>9, <2>1, <2>2
      <3>2. at'[h].fd = name /\ at'[h].wrote < i /\ at'[h].photo = e
        BY <1>1, <1>4, <3>1, Numbers
      <3> QED
        BY <3>2 DEF ToCome, Openers
    <2>3. CASE g # h
      <3>1. at'[g] = at[g]
        BY <1>3, <2>1, <2>3 DEF Openers
      <3> QED
        BY <2>1, <3>1 DEF ToCome, Openers
    <2> QED
      BY <2>2, <2>3
  <1> QED
    BY <1>7, <1>8, <1>9

LEMMA EncodeStep ==
    ASSUME TypeInv, WholeInv, NEW h \in Handlers, NEW e, e = at[h].photo, Encode(h) \/ Close(h)
    PROVE  WholeInv'
  <1>1. /\ at[h].pc = "encode" /\ e \in Photos /\ at'[h].photo = e
        /\ at'[h].pc \in {"encode", "rename"} /\ at'[h].fd \in {"gone", at[h].fd}
        /\ at[h].fd \in {"tmp", "dst", "gone"}
    BY WriteType DEF TypeInv, TypeOK, Places
  <1>2. \A g \in Handlers \ {h} : at'[g] = at[g]
    BY WriteType DEF TypeInv, TypeOK
  <1>3. /\ (\A d \in Photos \ {e} : tmp'[d] = tmp[d] /\ dst'[d] = dst[d]) /\ faults' = faults
        /\ at[h].fd # "tmp" => tmp' = tmp
        /\ at[h].fd # "dst" => dst' = dst
        /\ at[h].fd = "tmp" => tmp[e] \in Preview /\ tmp'[e] = Written(h, tmp[e])
        /\ at[h].fd = "dst" => dst[e] \in Preview /\ dst'[e] = Written(h, dst[e])
    BY <1>1, WriteFiles DEF TypeInv, TypeOK
  <1>4. \A d \in Photos : Busy(d)' => Busy(d)
    BY <1>1, <1>2 DEF Busy
  <1>5. Busy(e)
    BY <1>1 DEF Busy
  <1>6. ASSUME NEW d \in Photos, d # e \/ at[h].fd # "tmp" PROVE TmpWhole(d)'
    <2>1. tmp'[d] = tmp[d]
      BY <1>3, <1>6
    <2>2. \A g \in Handlers : (at[g].photo = d /\ at[g].fd = "tmp")
              <=> (at'[g].photo = d /\ at'[g].fd = "tmp")
      BY <1>1, <1>2, <1>6
    <2>3. \A g \in Handlers : at[g].photo = d /\ at[g].fd = "tmp" => at'[g] = at[g]
      BY <1>2, <1>6
    <2> QED
      BY <1>4, <2>1, <2>2, <2>3, OtherTmp DEF WholeInv
  <1>7. ASSUME NEW d \in Photos, d # e \/ at[h].fd # "dst" PROVE DstWhole(d)'
    <2>1. dst'[d] = dst[d]
      BY <1>3, <1>7
    <2>2. \A g \in Handlers : (at[g].photo = d /\ at[g].fd = "dst")
              <=> (at'[g].photo = d /\ at'[g].fd = "dst")
      BY <1>1, <1>2, <1>7
    <2>3. \A g \in Handlers : at[g].photo = d /\ at[g].fd = "dst" => at'[g] = at[g]
      BY <1>2, <1>7
    <2> QED
      BY <1>3, <2>1, <2>2, <2>3, OtherDst DEF WholeInv
  <1>8. ASSUME at[h].fd = "tmp", tmp[e] # None PROVE TmpWhole(e)'
    <2>1. /\ OneEdition(tmp[e], Openers(e, "tmp", at), at)
          /\ \A i \in 1..Chunks : tmp[e].chunks[i] = None => ToCome(i, Openers(e, "tmp", at), at)
      BY <1>1, <1>5, <1>8 DEF WholeInv, TmpWhole
    <2>2. /\ OneEdition(Written(h, tmp[e]), Openers(e, "tmp", at'), at')
          /\ \A i \in 1..Chunks : Written(h, tmp[e]).chunks[i] = None =>
               /\ tmp[e].chunks[i] = None
               /\ ToCome(i, Openers(e, "tmp", at), at) => ToCome(i, Openers(e, "tmp", at'), at')
      BY <1>3, <1>8, <2>1, ChunkWritten
    <2> QED
      BY <1>3, <1>8, <2>1, <2>2 DEF TmpWhole
  <1>9. ASSUME at[h].fd = "dst", dst[e] # None PROVE DstWhole(e)'
    <2>1. /\ OneEdition(dst[e], Openers(e, "dst", at), at)
          /\ \A i \in 1..Chunks : dst[e].chunks[i] = None =>
               ToCome(i, Openers(e, "dst", at), at) \/ ("carried" \in dst[e].marks /\ faults > 0)
      BY <1>1, <1>9 DEF WholeInv, DstWhole
    <2>2. /\ OneEdition(Written(h, dst[e]), Openers(e, "dst", at'), at')
          /\ \A i \in 1..Chunks : Written(h, dst[e]).chunks[i] = None =>
               /\ dst[e].chunks[i] = None
               /\ ToCome(i, Openers(e, "dst", at), at) => ToCome(i, Openers(e, "dst", at'), at')
      BY <1>3, <1>9, <2>1, ChunkWritten
    <2>3. Written(h, dst[e]).marks = dst[e].marks
      BY <1>1, <1>3, <1>9, WrittenType
    <2> QED
      BY <1>3, <1>9, <2>1, <2>2, <2>3 DEF DstWhole
  <1>10. (at[h].fd = "tmp" => tmp[e] # None) /\ (at[h].fd = "dst" => dst[e] # None)
    BY <1>3, Numbers
  <1> QED
    BY <1>6, <1>7, <1>8, <1>9, <1>10 DEF WholeInv

LEMMA RenameStep ==
    ASSUME TypeInv, WholeInv, NEW h \in Handlers, NEW e, e = at[h].photo, Rename(h)
    PROVE  WholeInv'
  <1>1. /\ e \in Photos /\ at[h].pc = "rename" /\ at[h].fd = "gone" /\ tmp[e] \in Preview
        /\ dst' = [dst EXCEPT ![e] = dst'[e]] /\ dst'[e].chunks = tmp[e].chunks
        /\ "mixed" \in tmp[e].marks => "mixed" \in dst'[e].marks
        /\ tmp' = [tmp EXCEPT ![e] = None]
        /\ at'[h] = Resting /\ \A g \in Handlers \ {h} : at'[g] = Moved(e, "tmp", "dst")[g]
        /\ faults' = faults
    BY RenameFacts
  <1>2. /\ \A d \in Photos \ {e} : dst'[d] = dst[d] /\ tmp'[d] = tmp[d]
        /\ tmp'[e] = None /\ tmp[e] # None
    BY <1>1, Numbers DEF TypeInv, TypeOK
  <1>3. \A g \in Handlers \ {h} :
           /\ at'[g].pc = at[g].pc /\ at'[g].photo = at[g].photo
           /\ at'[g].wrote = at[g].wrote /\ at'[g].decoded = at[g].decoded
           /\ at'[g].fd = IF at[g].photo = e /\ at[g].fd = "tmp" THEN "dst"
                          ELSE IF at[g].photo = e /\ at[g].fd = "dst" THEN "gone" ELSE at[g].fd
    BY <1>1, MovedType
  <1>4. \A d \in Photos : Busy(d)' => Busy(d)
    BY <1>1, <1>3, RestingType DEF Busy
  <1>5. ASSUME NEW d \in Photos, d # e PROVE TmpWhole(d)'
    <2>1. \A g \in Handlers : (at[g].photo = d /\ at[g].fd = "tmp")
              <=> (at'[g].photo = d /\ at'[g].fd = "tmp")
      BY <1>1, <1>3, <1>5, RestingType
    <2>2. \A g \in Handlers : at[g].photo = d /\ at[g].fd = "tmp" =>
              at'[g].decoded = at[g].decoded /\ at'[g].wrote = at[g].wrote
      BY <1>1, <1>3
    <2> QED
      BY <1>2, <1>4, <1>5, <2>1, <2>2, OtherTmp DEF WholeInv
  <1>6. ASSUME NEW d \in Photos, d # e PROVE DstWhole(d)'
    <2>1. \A g \in Handlers : (at[g].photo = d /\ at[g].fd = "dst")
              <=> (at'[g].photo = d /\ at'[g].fd = "dst")
      BY <1>1, <1>3, <1>6, RestingType
    <2>2. \A g \in Handlers : at[g].photo = d /\ at[g].fd = "dst" =>
              at'[g].decoded = at[g].decoded /\ at'[g].wrote = at[g].wrote
      BY <1>1, <1>3
    <2> QED
      BY <1>1, <1>2, <1>6, <2>1, <2>2, OtherDst DEF WholeInv
  <1>7. TmpWhole(e)'
    BY <1>2 DEF TmpWhole
  <1>8. DstWhole(e)'
    <2>1. Busy(e)
      BY <1>1 DEF Busy
    <2>2. /\ OneEdition(tmp[e], Openers(e, "tmp", at), at)
          /\ \A i \in 1..Chunks : tmp[e].chunks[i] = None => ToCome(i, Openers(e, "tmp", at), at)
      BY <1>1, <1>2, <2>1 DEF WholeInv, TmpWhole
    <2>3. /\ \A g \in Openers(e, "dst", at') : g \in Openers(e, "tmp", at)
                                               /\ at'[g].decoded = at[g].decoded
          /\ \A g \in Openers(e, "tmp", at) : g \in Openers(e, "dst", at')
                                              /\ at'[g].wrote = at[g].wrote
      BY <1>1, <1>3, RestingType DEF Openers
    <2>4. OneEdition(dst'[e], Openers(e, "dst", at'), at')
      BY <1>1, <2>2, <2>3, StillOne
    <2>5. ASSUME NEW i \in 1..Chunks, dst'[e].chunks[i] = None
          PROVE  ToCome(i, Openers(e, "dst", at'), at')
      BY <1>1, <2>2, <2>3, <2>5, StillToCome
    <2> QED
      BY <2>4, <2>5 DEF DstWhole
  <1> QED
    BY <1>5, <1>6, <1>7, <1>8 DEF WholeInv

\* Who stops leaves the preview that he has open to others, if there are any, and else
\* torn: but then it was renamed when it was open.
LEMMA FailureLeaves ==
    ASSUME TypeInv, WholeInv, NEW e \in Photos, dst' = dst, faults' > 0,
           \A g \in Openers(e, "dst", at') : g \in Openers(e, "dst", at)
                                             /\ at'[g].decoded = at[g].decoded,
           \A g \in Openers(e, "dst", at) : "carried" \in dst[e].marks
    PROVE  DstWhole(e)'
  <1>1. ASSUME dst[e] # None PROVE OneEdition(dst[e], Openers(e, "dst", at'), at')
    BY <1>1, StillOne DEF WholeInv, DstWhole
  <1>2. ASSUME dst[e] # None, NEW i \in 1..Chunks, dst[e].chunks[i] = None
        PROVE  "carried" \in dst[e].marks
    BY <1>2 DEF WholeInv, DstWhole, ToCome
  <1> QED
    BY <1>1, <1>2 DEF DstWhole

LEMMA EncodeFailsStep ==
    ASSUME TypeInv, WholeInv, NEW h \in Handlers, NEW e, e = at[h].photo, EncodeFails(h)
    PROVE  WholeInv'
  <1>1. /\ e \in Photos /\ at[h].pc = "encode" /\ dst' = dst
        /\ tmp' = [tmp EXCEPT ![e] = None] /\ at'[h] = Resting
        /\ \A g \in Handlers \ {h} :
             /\ at'[g].pc = at[g].pc /\ at'[g].photo = at[g].photo
             /\ at'[g].wrote = at[g].wrote /\ at'[g].decoded = at[g].decoded
             /\ at'[g].fd = IF at[g].photo = e /\ at[g].fd = "tmp" THEN "gone" ELSE at[g].fd
        /\ faults' = faults + 1
    BY EncodeFailsFacts
  <1>2. tmp'[e] = None /\ (\A d \in Photos \ {e} : tmp'[d] = tmp[d]) /\ faults' > 0
    BY <1>1, Numbers DEF TypeInv, TypeOK
  <1>3. ASSUME NEW d \in Photos PROVE DstWhole(d)'
    <2>1. \A g \in Openers(d, "dst", at') : g \in Openers(d, "dst", at)
                                            /\ at'[g].decoded = at[g].decoded
      BY <1>1, RestingType DEF Openers
    <2>2. \A g \in Openers(d, "dst", at) : "carried" \in dst[d].marks
      BY DEF Openers, TypeInv, Linked
    <2> QED
      BY <1>1, <1>2, <2>1, <2>2, FailureLeaves
  <1>4. ASSUME NEW d \in Photos, d # e PROVE TmpWhole(d)'
    <2>1. Busy(d)' => Busy(d)
      BY <1>1, RestingType DEF Busy
    <2>2. \A g \in Handlers : (at[g].photo = d /\ at[g].fd = "tmp")
              <=> (at'[g].photo = d /\ at'[g].fd = "tmp")
      BY <1>1, <1>4, RestingType
    <2>3. \A g \in Handlers : at[g].photo = d /\ at[g].fd = "tmp" =>
              at'[g].decoded = at[g].decoded /\ at'[g].wrote = at[g].wrote
      BY <1>1, <1>4
    <2> QED
      BY <1>2, <1>4, <2>1, <2>2, <2>3, OtherTmp DEF WholeInv
  <1>5. TmpWhole(e)'
    BY <1>2 DEF TmpWhole
  <1> QED
    BY <1>3, <1>4, <1>5 DEF WholeInv

LEMMA CrashStep ==
    ASSUME TypeInv, WholeInv, Crash PROVE WholeInv'
  <1>1. (\A g \in Handlers : at'[g] = Resting) /\ dst' = dst /\ tmp' = tmp /\ faults' > 0
    BY Numbers DEF Crash, Fault, TypeInv, TypeOK
  <1>2. ASSUME NEW d \in Photos PROVE DstWhole(d)'
    <2>1. \A g \in Openers(d, "dst", at') : g \in Openers(d, "dst", at)
                                            /\ at'[g].decoded = at[g].decoded
      BY <1>1, RestingType DEF Openers
    <2>2. \A g \in Openers(d, "dst", at) : "carried" \in dst[d].marks
      BY DEF Openers, TypeInv, Linked
    <2> QED
      BY <1>1, <2>1, <2>2, FailureLeaves
  <1>3. ASSUME NEW d \in Photos PROVE TmpWhole(d)'
    <2>1. ~Busy(d)' /\ \A g \in Openers(d, "tmp", at') :
             g \in Openers(d, "tmp", at) /\ at'[g].decoded = at[g].decoded
      BY <1>1, RestingType DEF Busy, Openers
    <2>2. tmp[d] # None => OneEdition(tmp[d], Openers(d, "tmp", at'), at')
      BY <2>1, StillOne DEF WholeInv, TmpWhole
    <2> QED
      BY <1>1, <2>1, <2>2 DEF TmpWhole
  <1> QED
    BY <1>2, <1>3 DEF WholeInv

LEMMA WholeStep == TypeInv /\ WholeInv /\ [Next]_vars => WholeInv'
  <1> SUFFICES ASSUME TypeInv, WholeInv, [Next]_vars PROVE WholeInv'
    OBVIOUS
  <1>1. CASE UNCHANGED vars \/ Tick \/ \E j \in Jpegs : Edit(j)
    <2>1. UNCHANGED <<at, dst, tmp, faults>>
      BY <1>1 DEF vars, Tick, Edit
    <2> QED
      BY <2>1, QuietStep
  <1>2. CASE Crash
    BY <1>2, CrashStep
  <1>3. ASSUME NEW h \in Handlers, Step(h) PROVE WholeInv'
    <2>1. CASE \/ Request(h) \/ Stat(h) \/ Serve(h) \/ MakeAnew(h) \/ Decode(h)
               \/ RenameFails(h) \/ GenerateFails(h)
      <3>1. /\ at[h].pc # "encode" /\ at[h].fd = "gone" /\ at' = [at EXCEPT ![h] = at'[h]]
            /\ at'[h].pc \notin {"encode", "rename"} /\ at'[h].fd = "gone"
            /\ dst' = dst /\ tmp' = tmp /\ faults' \in {faults, faults + 1}
        BY <2>1, PlainStep DEF TypeInv, Linked
      <3>2. faults > 0 => faults' > 0
        BY <3>1, Numbers DEF TypeInv, TypeOK
      <3>3. \A g \in Handlers \ {h} : at'[g] = at[g]
        BY <3>1 DEF TypeInv, TypeOK
      <3> QED
        BY <3>1, <3>2, <3>3, QuietStep
    <2>2. CASE Create(h)
      BY <2>2, CreateStep
    <2>3. CASE Encode(h) \/ Close(h)
      BY <2>3, EncodeStep
    <2>4. CASE Rename(h)
      BY <2>4, RenameStep
    <2>5. CASE EncodeFails(h)
      BY <2>5, EncodeFailsStep
    <2> QED
      BY <1>3, <2>1, <2>2, <2>3, <2>4, <2>5 DEF Step
  <1> QED
    BY <1>1, <1>2, <1>3 DEF Next

\* WHOLE.  A preview that is not one picture from beginning to end is being written, or
\* two requests had its file open and had decoded different editions of the photo, or
\* it was renamed when another request was writing it and a request failed since the
\* start or the daemon died.
THEOREM CachedStaysWhole == Spec => []CachedIsWhole
  <1>1. TypeInv /\ WholeInv => CachedIsWhole
    <2> SUFFICES ASSUME TypeInv, WholeInv, NEW e \in Photos, dst[e] # None, ~Whole(dst[e]),
                        "mixed" \notin dst[e].marks
                 PROVE  \/ \E h \in Handlers : at[h].photo = e /\ at[h].fd = "dst"
                        \/ "carried" \in dst[e].marks /\ faults > 0
      BY DEF CachedIsWhole
    <2>1. PICK n \in Editions : \A i \in 1..Chunks : dst[e].chunks[i] \in {n, None}
      BY DEF WholeInv, DstWhole, OneEdition
    <2>2. PICK i \in 1..Chunks : dst[e].chunks[i] = None
      BY <2>1 DEF Whole
    <2> QED
      BY <2>2 DEF WholeInv, DstWhole, ToCome, Openers
  <1> QED
    BY <1>1, TypeInit, TypeStep, WholeInit, WholeStep, PTL DEF Spec
-----------------------------------------------------------------------------
(* Dates.  Files are not stamped ahead of the clock, so a change of the photo gives *)
(* it a time that is no earlier than that of any preview: one that was last written *)
(* before the photo was last changed has a time that is no later than the photo's.  *)
Dated(e, f) ==
    f # None => /\ f.time <= clock
                /\ thumbSource(e) # None /\ f.by # edition[thumbSource(e)]
                     => f.time <= src[thumbSource(e)]
DatedInv == \A e \in Photos : Dated(e, dst[e]) /\ Dated(e, tmp[e])

LEMMA DatedInit == Init => DatedInv
  BY DEF Init, DatedInv, Dated

\* Steps that leave the photos alone keep the dates of previews as they are, move one,
\* or stamp one with the time it is.
LEMMA StampStep ==
    ASSUME TypeInv, DatedInv, src' = src, edition' = edition, clock' >= clock, clock' \in Nat,
           \A e \in Photos : \A f \in {dst'[e], tmp'[e]} :
              \/ f = None
              \/ f.time = clock /\ (thumbSource(e) # None => f.by = edition[thumbSource(e)])
              \/ \E d \in {dst[e], tmp[e]} : d # None /\ f.time = d.time /\ f.by = d.by
    PROVE  DatedInv'
  <1>1. clock \in Nat
    BY Numbers DEF TypeInv, TypeOK
  <1>2. \A e \in Photos : \A d \in {dst[e], tmp[e]} : d # None => d.time \in Nat
    BY Numbers DEF TypeInv, TypeOK, Preview
  <1>3. ASSUME NEW e \in Photos, NEW f, f \in {dst'[e], tmp'[e]}, f # None
        PROVE  /\ f.time <= clock'
               /\ thumbSource(e) # None /\ f.by # edition[thumbSource(e)]
                    => f.time <= src[thumbSource(e)]
    <2>1. CASE f.time = clock /\ (thumbSource(e) # None => f.by = edition[thumbSource(e)])
      BY <1>1, <2>1
    <2>2. CASE \E d \in {dst[e], tmp[e]} : d # None /\ f.time = d.time /\ f.by = d.by
      BY <1>1, <1>2, <2>2 DEF DatedInv, Dated
    <2> QED
      BY <1>3, <2>1, <2>2
  <1> QED
    BY <1>3 DEF DatedInv, Dated

\* No preview is younger than a change that is made now.
LEMMA ChangeStep ==
    ASSUME TypeInv, DatedInv, NEW j \in Jpegs, Edit(j) PROVE DatedInv'
  <1>1. clock' = clock /\ dst' = dst /\ tmp' = tmp /\ src' = [src EXCEPT ![j] = clock]
        /\ edition' = [edition EXCEPT ![j] = edition[j] + 1]
    BY DEF Edit
  <1>2. ASSUME NEW e \in Photos, NEW f, Dated(e, f), f # None
        PROVE  /\ f.time <= clock
               /\ thumbSource(e) # None /\ f.by # edition'[thumbSource(e)]
                    => f.time <= src'[thumbSource(e)]
    <2>1. f.time <= clock
      BY <1>2 DEF Dated
    <2>2. CASE thumbSource(e) = j
      BY <1>1, <2>1, <2>2 DEF TypeInv, TypeOK
    <2>3. CASE thumbSource(e) # j
      <3>1. thumbSource(e) # None => src'[thumbSource(e)] = src[thumbSource(e)]
                                     /\ edition'[thumbSource(e)] = edition[thumbSource(e)]
        BY <1>1, <2>3, SourceIsJpeg DEF TypeInv, TypeOK
      <3> QED
        BY <1>2, <2>1, <3>1 DEF Dated
    <2> QED
      BY <2>2, <2>3
  <1>3. ASSUME NEW e \in Photos PROVE Dated(e, dst[e])' /\ Dated(e, tmp[e])'
    BY <1>1, <1>2 DEF DatedInv, Dated
  <1> QED
    BY <1>3 DEF DatedInv

\* What a handler writes is stamped with the time it is.
LEMMA WriterDates ==
    ASSUME TypeInv, DatedInv, NEW h \in Handlers, Create(h) \/ Encode(h) \/ Close(h)
    PROVE  DatedInv'
  <1> DEFINE e == at[h].photo
  <1>1. at[h].pc # "idle" /\ e \in Photos /\ Source(h) = thumbSource(e)
    BY DEF Create, Encode, Close, Write, At, TypeInv, Sourced, Source
  <1>2. /\ src' = src /\ edition' = edition /\ clock' = clock
        /\ \A d \in Photos \ {e} : dst'[d] = dst[d] /\ tmp'[d] = tmp[d]
    BY <1>1 DEF Create, Encode, Close, Write, TypeInv, TypeOK
  <1>3. \A f \in {dst'[e], tmp'[e]} :
          f \in {dst[e], tmp[e]} \/ (f.time = clock /\ f.by = edition[thumbSource(e)])
    <2>1. CASE Create(h)
      <3>1. dst' = dst /\ tmp'[e] = Emptied(h, "tmp")
        BY <1>1, <2>1 DEF Create, TypeInv, TypeOK
      <3> QED
        BY <1>1, <3>1, EmptiedType
    <2>2. CASE Encode(h) \/ Close(h)
      <3>1. at[h].pc = "encode"
        BY <2>2 DEF Encode, Close, Write, At
      <3>2. /\ tmp'[e] = tmp[e] \/ (tmp[e] \in Preview /\ tmp'[e] = Written(h, tmp[e]))
            /\ dst'[e] = dst[e] \/ (dst[e] \in Preview /\ dst'[e] = Written(h, dst[e]))
        BY <1>1, <2>2, WriteFiles DEF TypeInv, TypeOK
      <3> QED
        BY <1>1, <3>1, <3>2, WrittenType
    <2> QED
      BY <2>1, <2>2
  <1>4. clock \in Nat /\ clock' >= clock
    BY <1>2, Numbers DEF TypeInv, TypeOK
  <1> HIDE DEF e
  <1>5. \A d \in Photos : \A f \in {dst'[d], tmp'[d]} :
              \/ f = None
              \/ f.time = clock /\ (thumbSource(d) # None => f.by = edition[thumbSource(d)])
              \/ \E b \in {dst[d], tmp[d]} : b # None /\ f.time = b.time /\ f.by = b.by
    BY <1>1, <1>2, <1>3
  <1> QED
    BY <1>2, <1>4, <1>5, StampStep

LEMMA DatedStep == TypeInv /\ DatedInv /\ [Next]_vars => DatedInv'
  <1> SUFFICES ASSUME TypeInv, DatedInv, [Next]_vars PROVE DatedInv'
    OBVIOUS
  <1>1. clock \in Nat
    BY Numbers DEF TypeInv, TypeOK
  <1>2. CASE \E j \in Jpegs : Edit(j)
    BY <1>2, ChangeStep
  <1>3. CASE UNCHANGED vars \/ Tick \/ Crash
    <2>1. src' = src /\ edition' = edition /\ dst' = dst /\ tmp' = tmp
          /\ clock' >= clock /\ clock' \in Nat
      BY <1>1, <1>3 DEF vars, Tick, Crash
    <2> QED
      BY <2>1, StampStep
  <1>4. ASSUME NEW h \in Handlers, Step(h) PROVE DatedInv'
    <2>1. CASE \/ Request(h) \/ Stat(h) \/ Serve(h) \/ MakeAnew(h) \/ Decode(h)
               \/ RenameFails(h) \/ GenerateFails(h)
      <3>1. dst' = dst /\ tmp' = tmp /\ UNCHANGED <<clock, src, edition>>
        BY <2>1, PlainStep
      <3> QED
        BY <1>1, <3>1, StampStep
    <2>2. CASE Create(h) \/ Encode(h) \/ Close(h)
      BY <2>2, WriterDates
    <2>3. CASE Rename(h)
      <3>1. PICK e \in Photos : e = at[h].photo
        BY <2>3 DEF Rename, At, TypeInv, Sourced
      <3>2. /\ tmp[e] # None /\ dst'[e].time = tmp[e].time /\ dst'[e].by = tmp[e].by
            /\ tmp'[e] = None /\ \A d \in Photos \ {e} : dst'[d] = dst[d] /\ tmp'[d] = tmp[d]
            /\ UNCHANGED <<clock, src, edition>>
        BY <2>3, <3>1, RenameFacts, Numbers DEF TypeInv, TypeOK
      <3> QED
        BY <1>1, <3>1, <3>2, StampStep
    <2>4. CASE EncodeFails(h)
      <3>1. PICK e \in Photos : e = at[h].photo
        BY <2>4 DEF EncodeFails, At, TypeInv, Sourced
      <3>2. /\ dst' = dst /\ \A d \in Photos : tmp'[d] \in {tmp[d], None}
            /\ UNCHANGED <<clock, src, edition>>
        BY <2>4, <3>1, EncodeFailsFacts DEF TypeInv, TypeOK
      <3> QED
        BY <1>1, <3>2, StampStep
    <2> QED
      BY <1>4, <2>1, <2>2, <2>3, <2>4 DEF Step
  <1> QED
    BY <1>2, <1>3, <1>4 DEF Next

\* CURRENT.  No preview is served that was last written to before its photo was last
\* changed, although times are coarse and a preview may be as old as the photo.
THEOREM PreviewsStayCurrent == Spec => []PreviewIsCurrent
  <1>1. TypeInv /\ DatedInv => PreviewIsCurrent
    <2> SUFFICES ASSUME TypeInv, DatedInv, NEW e \in Photos, thumbSource(e) # None,
                        dst[e] # None, dst[e].time > src[thumbSource(e)]
                 PROVE  dst[e].by = edition[thumbSource(e)]
      BY DEF PreviewIsCurrent, After
    <2>1. dst[e].time \in Nat /\ src[thumbSource(e)] \in Nat
      BY Numbers, SourceIsJpeg DEF TypeInv, TypeOK, Preview
    <2> QED
      BY <2>1 DEF DatedInv, Dated
  <1> QED
    BY <1>1, TypeInit, TypeStep, DatedInit, DatedStep, PTL DEF Spec
=============================================================================

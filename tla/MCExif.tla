------------------------------- MODULE MCExif -------------------------------
(***************************************************************************)
(* Small files for Exif.  A JPEG holds any TIFF block of two directories,  *)
(* the first with up to two entries and the second with up to one; the     *)
(* Canon box of a CR3 holds one of a few blocks that differ.               *)
(***************************************************************************)
EXTENDS Exif

FewEntries == [tag : {"exif"}, value : 0..2] \cup [tag : TagSet, value : {"good", "bad"}]
Directories(max) == UNION {[1..n -> FewEntries] : n \in 0..max}
MCTiffs == {[ifds |-> <<d, e>>, root |-> 1] : d \in Directories(2), e \in Directories(1)}

Entry(tag, value) == [tag |-> tag, value |-> value]
MCCmts == {[ifds |-> <<d>>, root |-> 1] : d \in
             {<<Entry("original", "good")>>, <<Entry("modified", "good")>>,
              <<Entry("original", "bad"), Entry("exif", 1)>>}}
=============================================================================

----------------------------- MODULE MCPreviews -----------------------------
(***************************************************************************)
(* A small library for Previews: a raw photo with the JPEG shot alongside  *)
(* it, and a raw photo alone.                                              *)
(***************************************************************************)
EXTENDS Previews, TLC

MCPhotos == {"1.CR3", "1.JPG", "2.CR3"}
MCJpegs == {"1.JPG"}
MCStem == "1.CR3" :> 1 @@ "1.JPG" :> 1 @@ "2.CR3" :> 2
MCTaken == "1.CR3" :> 1 @@ "1.JPG" :> 2 @@ "2.CR3" :> 3

\* Handlers are interchangeable.
Alike == Permutations(Handlers)
=============================================================================

----------------------------- MODULE MCCamera -----------------------------
(***************************************************************************)
(* Small cards and API indexes for Camera.                                 *)
(***************************************************************************)
EXTENDS Camera, TLC

\* Two directories of slot 1, two pages in the first.
MCFiles == {<<1, 100, 1>>, <<1, 100, 2>>, <<1, 101, 1>>}

\* As the fake camera: the old version of the API has no listing.
MCOffers == 100 :> {"deviceinformation"} @@ 110 :> {"deviceinformation", "contents"}
=============================================================================

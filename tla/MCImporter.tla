----------------------------- MODULE MCImporter -----------------------------
(***************************************************************************)
(* A small world for Importer: each .cfg picks the shots, keys and uploads *)
(* it needs.  Photos c1, c2 and c3 carry their date; c0 is an empty file   *)
(* and may be filed under any day.                                         *)
(***************************************************************************)
EXTENDS Importer

MCContents == {"c0", "c1", "c2", "c3"}
MCEmpty == {"c0"}
MCFolders == {"may", "june"}
MCDates == [c \in Contents |-> IF c \in EmptyFiles THEN Folders ELSE {"may"}]

(* Names and their numbered variants: a_1 is both the second choice for a and
   the first for a file called a_1. *)
Numbered == [a |-> <<"a", "a_1">>, a_1 |-> <<"a_1", "a_1_1">>, b |-> <<"b", "b_1">>]
MCNames == DOMAIN Numbered
MCPaths == Folders \X UNION {{Numbered[n][1], Numbered[n][2]} : n \in MCNames}
MCCandidate == [t \in Folders \X Names \X (0..MaxSuffix + 1) |->
                  <<t[1], Numbered[t[2]][t[3] + 1]>>]

(* Two directories of the sd card reuse the name a, slot cf holds a
   copy of one frame, and apps that name neither card nor directory upload
   under upload/device. *)
MCNameOf == [k \in Keys |->
  CASE k \in {"sd/100/a", "sd/101/a", "cf/100/a", "upload/device/a"} -> "a"
    [] k = "upload/device/b" -> "b"
    [] k = "sd/100/a_1" -> "a_1"]

MCFrame == [k \in Shots |->
  CASE k \in {"sd/100/a", "cf/100/a"} -> "c1"
    [] k = "sd/101/a" -> "c2"
    [] k = "sd/100/a_1" -> "c0"]

(* What is filed as a_1 in May cannot be read back. *)
SecondUnreadable == {<<"may", "a_1">>}

Handover(k, c) == [key |-> k, data |-> c]

NoUploads == {}
(* The bytes of a frame by its identity and without it, and then another photo of
   the same name. *)
SameName == {Handover("upload/device/a", "c1"), Handover("upload/device/a", "c2")}
FieldUploads == {Handover("sd/100/a", "c1")} \cup SameName
(* One frame, by its identity. *)
OneFrame == {Handover("sd/100/a", "c1")}
(* A frame under a name of the device's own. *)
Renamed == {Handover("upload/device/b", "c1")}
=============================================================================

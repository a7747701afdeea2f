------------------------------ MODULE MCRemote ------------------------------
(***************************************************************************)
(* A small world for Remote: what may be published are its statuses and    *)
(* one event of another component.                                         *)
(***************************************************************************)
EXTENDS Remote

MCMessages == Statuses \cup {Silence, Chatter}
=============================================================================

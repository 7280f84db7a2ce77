------------------------------- MODULE MCFeed -------------------------------
(* Feed for TLC.                                                           *)
EXTENDS Feed
=============================================================================

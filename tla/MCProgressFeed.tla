---------------------------- MODULE MCProgressFeed ----------------------------
(* Small instances of ProgressFeed. *)
EXTENDS ProgressFeed
=============================================================================

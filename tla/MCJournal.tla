----------------------------- MODULE MCJournal -----------------------------
(* Small instances of Journal.                                             *)
EXTENDS Journal
=============================================================================

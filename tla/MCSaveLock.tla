----------------------------- MODULE MCSaveLock -----------------------------
(* Small instances of SaveLock.                                            *)
EXTENDS SaveLock
=============================================================================

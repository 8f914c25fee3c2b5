----------------------------- MODULE MCCaches -----------------------------
(* One client that asks twice per request and others that ask once, for    *)
(* the TLC runs of VersionedCache.                                         *)
EXTENDS VersionedCache

CONSTANT Asker
MCChecks == [c \in Clients |-> IF c = Asker THEN 2 ELSE 1]
=============================================================================

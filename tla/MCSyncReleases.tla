--------------------------- MODULE MCSyncReleases ---------------------------
(* SyncReleases on two releases: one worker, and one worker per release.   *)
EXTENDS SyncReleases

MCCalls == [limit : {0, 1}, cap : {0, N}, early : {FALSE}]
=============================================================================

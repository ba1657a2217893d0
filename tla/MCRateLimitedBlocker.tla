------------------------ MODULE MCRateLimitedBlocker ------------------------
(***************************************************************************)
(* Two kinds of live command, three commands to restore and a queue of     *)
(* three slots: the queue fills and drops, and the restore goroutine       *)
(* yields at half full and waits for room.                                 *)
(***************************************************************************)
EXTENDS RateLimitedBlocker

MCLiveCommands == {"block", "unblock"}
MCRestoreCommands == {"restore1", "restore2", "restore3"}
MCQueueSize == 3
MCMaxSubmissions == 2
=============================================================================

--------------------------- MODULE MCTimerManager --------------------------
(***************************************************************************)
(* Small instances of TimerManager.  The delays are positive, so a         *)
(* recurring timer is handed out at most once per tick of the bounded      *)
(* clock and the history needs no bound of its own.                        *)
(***************************************************************************)
EXTENDS TimerManager
=============================================================================

--------------------------- MODULE MCStatusTicker ---------------------------
(***************************************************************************)
(* StatusTicker with three calls of start_ticker: the second can find the  *)
(* first goroutine before and after it has made its channel, and the third *)
(* meets what the first two have left of ss.timerchan.                     *)
(***************************************************************************)
EXTENDS StatusTicker

CONSTANTS start1, start2, start3

MCStarts == {start1, start2, start3}
=============================================================================

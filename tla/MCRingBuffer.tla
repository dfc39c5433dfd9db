---------------------------- MODULE MCRingBuffer ----------------------------
(* The ring buffer with four slots (three usable), two element values and  *)
(* arrays of up to four elements: longer than the buffer, so that          *)
(* queue_arr overwrites what it queued itself.                             *)
EXTENDS RingBuffer
=============================================================================

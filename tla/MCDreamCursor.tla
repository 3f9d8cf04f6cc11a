--------------------------- MODULE MCDreamCursor ---------------------------
(* Two short transcripts, with a few of the troubles at a time.            *)
EXTENDS DreamCursor

CONSTANTS p1, p2

MCFiles == {1, 2}
MCProcs == {p1, p2}

MCEnvs ==
  {{"huge", "noise"},
   {"huge", "boundary", "crash"},
   {"huge", "fails"},
   {"huge", "unreadable"},
   {"tight", "boundary"},
   {"grows", "huge"},
   {"grows", "noise"},
   {"two", "fails"},
   {"two", "unreadable"},
   {"two", "huge"}}

\* Where a round, a mark or a batch may have to be repeated before all is read.
MCLiveEnvs ==
  {{"huge", "noise"},
   {"huge", "fails", "crash"},
   {"huge", "unreadable"},
   {"tight", "fails", "boundary"},
   {"two", "huge"}}
=============================================================================

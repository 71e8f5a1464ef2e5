---------------------------- MODULE MCPollTimer -----------------------------
(***************************************************************************)
(* Constants for the run of PollTimer.                                     *)
(***************************************************************************)
EXTENDS PollTimer

\* A request is answered at once, after some seconds, or times out.
MCDurations == {0, 7, CurlTimeout}

\* The clock is set back and forward.
MCClocks == {900, 1100}

=============================================================================

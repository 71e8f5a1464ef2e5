------------------------------ MODULE Upstream ------------------------------
(***************************************************************************)
(* What the vDC tells the DSS about its device on its own account, without *)
(* a word about threads, requests to the humifier and locks.  In a session *)
(* it sends one announcement; behind it, it identifies the device once and *)
(* pushes values when a poll has found a change; a push leaves no sensor   *)
(* out that a poll has signalled, and no session begins or ends under it.  *)
(* A failed poll is followed by one pong, at any moment: without a         *)
(* session, during a push, and still when all else is over, until the      *)
(* process ends.  What the DSS answers makes no difference, and the        *)
(* answers to its own requests are not part of this.                       *)
(***************************************************************************)
CONSTANT Sensors  \* what a push is about

VARIABLES
  session,        \* there is a session with the DSS
  announcements,  \* how often one has been sent in this session
  identified,     \* the device has been identified
  signalled,      \* a poll has found a change that no push has taken up
  owed,           \* the sensors whose change has been signalled and not pushed
  pushing,        \* a push is under way
  open,           \* the main loop speaks to the DSS at all
  ponging,        \* a poll has failed and its pong is still to go out
  running         \* the process has not ended

upVars == <<session, announcements, identified, signalled, owed, pushing, open,
            ponging, running>>

\* What belongs to the pongs.
pongVars == <<ponging, running>>

UpInit ==
  /\ session = FALSE
  /\ announcements = 0
  /\ identified = FALSE
  /\ signalled = FALSE
  /\ owed = {}
  /\ pushing = FALSE
  /\ open = TRUE
  /\ ponging = FALSE
  /\ running = TRUE

Talking == open /\ ~pushing

Begin ==
  /\ Talking
  /\ ~session
  /\ session' = TRUE
  /\ announcements' = 0
  /\ UNCHANGED <<identified, signalled, owed, pushing, open, pongVars>>

End ==
  /\ Talking
  /\ session
  /\ session' = FALSE
  /\ announcements' = 0
  /\ UNCHANGED <<identified, signalled, owed, pushing, open, pongVars>>

Announce ==
  /\ Talking
  /\ session
  /\ announcements = 0
  /\ announcements' = 1
  /\ UNCHANGED <<session, identified, signalled, owed, pushing, open, pongVars>>

Announced == session /\ announcements = 1

Identify ==
  /\ Talking
  /\ Announced
  /\ ~identified
  /\ identified' = TRUE
  /\ UNCHANGED <<session, announcements, signalled, owed, pushing, open, pongVars>>

\* A poll finds a change, finds none, or fails, at any moment.
Poll ==
  /\ running
  /\ ~ponging
  /\ \/ signalled' = TRUE /\ owed' = Sensors /\ ponging' = FALSE
     \/ signalled' = FALSE /\ owed' = {} /\ ponging' \in BOOLEAN
  /\ UNCHANGED <<session, announcements, identified, pushing, open, running>>

Pong ==
  /\ running
  /\ ponging
  /\ ponging' = FALSE
  /\ UNCHANGED <<session, announcements, identified, signalled, owed, pushing, open, running>>

StartPush ==
  /\ Talking
  /\ Announced
  /\ identified
  /\ signalled
  /\ pushing' = TRUE
  /\ UNCHANGED <<session, announcements, identified, signalled, owed, open, pongVars>>

TakeSignal ==
  /\ pushing
  /\ signalled' = FALSE
  /\ UNCHANGED <<session, announcements, identified, owed, pushing, open, pongVars>>

Read(sensor) ==
  /\ pushing
  /\ owed' = owed \ {sensor}
  /\ UNCHANGED <<session, announcements, identified, signalled, pushing, open, pongVars>>

\* What is owed still has been signalled while the push was under way.
EndPush ==
  /\ pushing
  /\ owed = {} \/ signalled
  /\ pushing' = FALSE
  /\ UNCHANGED <<session, announcements, identified, signalled, owed, open, pongVars>>

Close ==
  /\ Talking
  /\ open' = FALSE
  /\ UNCHANGED <<session, announcements, identified, signalled, owed, pushing, pongVars>>

\* The process ends, and with it what is left to say.
Halt ==
  /\ running
  /\ ~open
  /\ running' = FALSE
  /\ ponging' = FALSE
  /\ UNCHANGED <<session, announcements, identified, signalled, owed, pushing, open>>

UpNext ==
  \/ Begin \/ End \/ Announce \/ Identify \/ Poll
  \/ StartPush \/ TakeSignal \/ (\E sensor \in Sensors : Read(sensor)) \/ EndPush
  \/ Close \/ Pong \/ Halt

UpSpec == UpInit /\ [][UpNext]_upVars

=============================================================================

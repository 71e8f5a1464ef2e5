--------------------------- MODULE UpstreamProofs ---------------------------
(***************************************************************************)
(* The running vDC implements module Upstream: each of its steps is a step *)
(* of Upstream or changes nothing the DSS is told.                         *)
(***************************************************************************)
EXTENDS VdcProofs

Ended == {"freed", "join", "done", "crashed"}
Pushing == {"clear", "push"}

\* What Upstream sees of the state.
Seen == <<session, sent, presentSignaled, netChanges, owed>>

\* The pongs and the end of the process are as they were.
Pongless ==
  /\ (npc = "pong")' = (npc = "pong")
  /\ (mpc \notin {"done", "crashed"})' = (mpc \notin {"done", "crashed"})

UpStep == [Up!UpNext]_(Up!upVars)

\* Both threads are over when the process is: the main thread has joined the
\* other one, or the crash of one is the crash of both.
EndInv ==
  /\ mpc = "done" => npc = "done"
  /\ mpc = "crashed" <=> npc = "crashed"

-----------------------------------------------------------------------------
\* What is under way stays under way, and what is over stays over.
LEMMA Steady ==
  ASSUME mpc' \in Pushing <=> mpc \in Pushing,
         mpc' \in Ended <=> mpc \in Ended
  PROVE  /\ (mpc \in {"clear", "push"})' = (mpc \in {"clear", "push"})
         /\ (mpc \notin {"freed", "join", "done", "crashed"})'
              = (mpc \notin {"freed", "join", "done", "crashed"})
BY DEF Pushing, Ended

\* A step that neither touches what the DSS is told nor begins or ends a push
\* or the end of the daemon is a stutter.
LEMMA Quiet ==
  ASSUME UNCHANGED Seen,
         mpc' \in Pushing <=> mpc \in Pushing,
         mpc' \in Ended <=> mpc \in Ended,
         Pongless
  PROVE  UpStep
<1>1. UNCHANGED Up!upVars
  BY Steady, Zenon DEF Seen, Pongless, Up!upVars
<1> QED
  BY <1>1 DEF UpStep

\* The main thread sends no pong on its own account, and only the join ends
\* the process.
LEMMA MainPongless ==
  ASSUME MainStep, mpc # "join"
  PROVE  npc' = npc /\ mpc \notin {"done", "crashed"} /\ mpc' \notin {"done", "crashed"}
<1>1. CASE WorkIdle \/ SessionBegin \/ SessionEnd \/ \E sc \in Scenes : CallScene(sc)
  BY <1>1 DEF WorkIdle, SessionBegin, SessionEnd, CallScene, Working
<1>2. CASE SceneGetBegin \/ SceneGetStep \/ SceneGetEnd \/ SceneDecide \/ ScenePress \/ SceneEnd
  BY <1>2 DEF SceneGetBegin, SceneGetStep, SceneGetEnd, SceneDecide, ScenePress, SceneEnd,
              SceneStep, SceneFrame
<1>3. CASE TryLock \/ NoSession \/ AnnounceSent \/ AnnounceFailed \/ Identify
  BY <1>3 DEF TryLock, NoSession, AnnounceSent, AnnounceFailed, Identify, BodyFrame
<1>4. CASE CheckChanges \/ ClearChanges \/ PushSensor \/ SendPush
  BY <1>4 DEF CheckChanges, ClearChanges, PushSensor, SendPush, BodyFrame
<1>5. CASE Teardown
  BY <1>5 DEF Teardown
<1> QED
  BY <1>1, <1>2, <1>3, <1>4, <1>5 DEF MainStep

LEMMA MainQuiet ==
  ASSUME MainStep, mpc # "join"
  PROVE  Pongless
BY MainPongless DEF Pongless

\* The sessions.
LEMMA Sessions ==
  ASSUME TypeInv, SessionBegin \/ SessionEnd
  PROVE  UpStep
<1>p. Pongless
  BY MainQuiet DEF MainStep, SessionBegin, SessionEnd, Working
<1>1. /\ mpc = "work" /\ mpc' = "try"
      /\ session' = ~session /\ sent' = 0
      /\ UNCHANGED <<presentSignaled, netChanges, owed>>
  <2>1. session \in BOOLEAN
    BY TypeInvParts DEF RestOK
  <2> QED
    BY <2>1 DEF SessionBegin, SessionEnd, Working
<1>2. mpc \notin Pushing /\ mpc' \notin Pushing /\ mpc \notin Ended /\ mpc' \notin Ended
  BY <1>1 DEF Pushing, Ended
<1>3. SessionBegin => Up!Begin
  BY <1>p, <1>1, <1>2, Steady, Zenon
  DEF SessionBegin, Up!Begin, Up!Talking, Pushing, Ended, Up!pongVars, Pongless
<1>4. SessionEnd => Up!End
  BY <1>p, <1>1, <1>2, Steady, Zenon
  DEF SessionEnd, Up!End, Up!Talking, Pushing, Ended, Up!pongVars, Pongless
<1> QED
  BY <1>3, <1>4 DEF UpStep, Up!UpNext

\* The announcement: the flag says that it is the first of this session.
LEMMA Announcements ==
  ASSUME TypeInv, SessionInv, AnnounceSent
  PROVE  UpStep
<1>p. Pongless
  BY MainQuiet DEF MainStep, AnnounceSent
<1>1. /\ mpc = "body" /\ mpc' = "work" /\ session
      /\ UNCHANGED <<session, presentSignaled, netChanges, owed>>
  BY DEF AnnounceSent, BodyFrame
<1>2. sent = 0 /\ sent' = 1
  BY DEF AnnounceSent, SessionInv, FlagTells
<1>3. mpc \notin Pushing /\ mpc' \notin Pushing /\ mpc \notin Ended /\ mpc' \notin Ended
  BY <1>1 DEF Pushing, Ended
<1>4. Up!Announce
  BY <1>p, <1>1, <1>2, <1>3, Steady, Zenon DEF Up!Announce, Up!Talking, Pushing, Ended, Up!pongVars, Pongless
<1> QED
  BY <1>4 DEF UpStep, Up!UpNext

\* In the loop body, behind the flag, the announcement of this session is out.
LEMMA AnnouncedBehind ==
  ASSUME TypeInv, SessionInv, session, announced
  PROVE  Up!Announced
BY DEF SessionInv, FlagTells, Up!Announced

LEMMA Identifications ==
  ASSUME TypeInv, SessionInv, Identify
  PROVE  UpStep
<1>p. Pongless
  BY MainQuiet DEF MainStep, Identify
<1>1. /\ mpc = "body" /\ mpc' = "work" /\ session /\ announced
      /\ ~presentSignaled /\ presentSignaled' = TRUE
      /\ UNCHANGED <<session, sent, netChanges, owed>>
  BY DEF Identify, BodyFrame
<1>2. mpc \notin Pushing /\ mpc' \notin Pushing /\ mpc \notin Ended /\ mpc' \notin Ended
  BY <1>1 DEF Pushing, Ended
<1>3. Up!Identify
  BY <1>p, <1>1, <1>2, AnnouncedBehind, Steady, Zenon DEF Up!Identify, Up!Talking, Pushing, Ended, Up!pongVars, Pongless
<1> QED
  BY <1>3 DEF UpStep, Up!UpNext

\* The look at g_network_changes starts a push or leaves everything alone.
LEMMA Checks ==
  ASSUME TypeInv, SessionInv, CheckChanges
  PROVE  UpStep
<1>p. Pongless
  BY MainQuiet DEF MainStep, CheckChanges
<1>1. /\ mpc = "body" /\ session /\ announced /\ presentSignaled
      /\ UNCHANGED Seen
  BY DEF CheckChanges, BodyFrame, Seen
<1>2. CASE ~netChanges
  <2>1. mpc' = "work"
    BY <1>2 DEF CheckChanges
  <2> QED
    BY <1>p, <1>1, <2>1, Quiet DEF Pushing, Ended
<1>3. CASE netChanges
  <2>1. mpc' = "clear"
    BY <1>3 DEF CheckChanges
  <2>2. /\ mpc \notin Ended /\ mpc' \notin Ended
        /\ (mpc \in {"clear", "push"}) = FALSE
        /\ (mpc \in {"clear", "push"})' = TRUE
        /\ (mpc \notin {"freed", "join", "done", "crashed"})'
             = (mpc \notin {"freed", "join", "done", "crashed"})
    BY <1>1, <2>1 DEF Ended
  <2>3. Up!StartPush
    BY <1>p, <1>1, <1>3, <2>2, AnnouncedBehind, Zenon DEF Up!StartPush, Up!Talking, Ended, Seen, Up!pongVars, Pongless
  <2> QED
    BY <2>3 DEF UpStep, Up!UpNext
<1> QED
  BY <1>2, <1>3

\* The push: the flag, the sensors, the end.
LEMMA Pushes ==
  ASSUME TypeInv, SignalInv, ClearChanges \/ PushSensor
  PROVE  UpStep
<1>p. Pongless
  BY MainQuiet DEF MainStep, ClearChanges, PushSensor
<1>1. CASE ClearChanges
  <2>1. /\ mpc = "clear" /\ mpc' = "push" /\ netChanges' = FALSE
        /\ UNCHANGED <<session, sent, presentSignaled, owed>>
    BY <1>1 DEF ClearChanges, BodyFrame
  <2>2. mpc \in Pushing /\ mpc' \in Pushing /\ mpc \notin Ended /\ mpc' \notin Ended
    BY <2>1 DEF Pushing, Ended
  <2>3. Up!TakeSignal
    BY <1>p, <2>1, <2>2, Steady, Zenon DEF Up!TakeSignal, Pushing, Up!pongVars, Pongless
  <2> QED
    BY <2>3 DEF UpStep, Up!UpNext
<1>2. CASE PushSensor
  <2>1. /\ mpc = "push" /\ mpc' = "push" /\ index \in Indexes /\ owed' = owed \ {index}
        /\ UNCHANGED <<session, sent, presentSignaled, netChanges>>
    BY <1>2 DEF PushSensor, BodyFrame
  <2>2. mpc \in Pushing /\ mpc' \in Pushing /\ mpc \notin Ended /\ mpc' \notin Ended
    BY <2>1 DEF Pushing, Ended
  <2>3. Up!Read(index)
    BY <1>p, <2>1, <2>2, Steady, Zenon DEF Up!Read, Pushing, Up!pongVars, Pongless
  <2> QED
    BY <2>1, <2>3 DEF UpStep, Up!UpNext
<1> QED
  BY <1>1, <1>2

\* Behind the last sensor nothing is owed but what a poll has just signalled.
LEMMA PushEnds ==
  ASSUME TypeInv, SignalInv, SendPush
  PROVE  UpStep
<1>p. Pongless
  BY MainQuiet DEF MainStep, SendPush
<1>1. /\ mpc = "push" /\ mpc' = "work" /\ index \notin Indexes
      /\ UNCHANGED Seen
  BY DEF SendPush, BodyFrame, Seen
<1>2. owed = {} \/ netChanges
  <2>1. /\ owed \subseteq 1 .. Len(SensorNames)
        /\ index \in 1 .. Len(SensorNames) + 1
        /\ Len(SensorNames) \in Nat
    BY SensorNamesAssumption, TypeInvParts DEF RestOK, Indexes
  <2>2. index = Len(SensorNames) + 1
    BY <1>1, <2>1 DEF Indexes
  <2> QED
    BY <1>1, <2>1, <2>2 DEF SignalInv, NoLostSignal
<1>3. /\ (mpc \in {"clear", "push"}) = TRUE
      /\ (mpc \in {"clear", "push"})' = FALSE
      /\ (mpc \notin {"freed", "join", "done", "crashed"})'
           = (mpc \notin {"freed", "join", "done", "crashed"})
  BY <1>1
<1>4. Up!EndPush
  BY <1>p, <1>1, <1>2, <1>3, Zenon DEF Up!EndPush, Seen, Up!pongVars, Pongless
<1> QED
  BY <1>4 DEF UpStep, Up!UpNext

\* The process ends behind the main loop.
LEMMA Halts ==
  ASSUME UNCHANGED Seen, mpc \in {"freed", "join"}, mpc' \in {"done", "crashed"},
         npc' \in {"done", "crashed"}
  PROVE  UpStep
<1>1. /\ (mpc \in {"clear", "push"})' = (mpc \in {"clear", "push"})
      /\ (mpc \notin {"freed", "join", "done", "crashed"}) = FALSE
      /\ (mpc \notin {"freed", "join", "done", "crashed"})'
           = (mpc \notin {"freed", "join", "done", "crashed"})
      /\ (mpc \notin {"done", "crashed"}) = TRUE
      /\ (mpc \notin {"done", "crashed"})' = FALSE
      /\ (npc = "pong")' = FALSE
  OBVIOUS
<1>2. Up!Halt
  BY <1>1, Zenon DEF Up!Halt, Seen
<1> QED
  BY <1>2 DEF UpStep, Up!UpNext

LEMMA Endings ==
  ASSUME TypeInv, EndInv, Teardown
  PROVE  UpStep
<1>1. UNCHANGED Seen /\ npc' = npc
  BY DEF Teardown, history, Seen
<1>2. CASE mpc = "work" /\ mpc' = "freed"
  <2>1. /\ (mpc \in {"clear", "push"}) = FALSE
        /\ (mpc \in {"clear", "push"})' = FALSE
        /\ (mpc \notin {"freed", "join", "done", "crashed"}) = TRUE
        /\ (mpc \notin {"freed", "join", "done", "crashed"})' = FALSE
    BY <1>2
  <2>2. Pongless
    BY <1>1, <1>2 DEF Pongless
  <2>3. Up!Close
    BY <1>1, <2>1, <2>2, Zenon DEF Up!Close, Up!Talking, Up!pongVars, Seen, Pongless
  <2> QED
    BY <2>3 DEF UpStep, Up!UpNext
<1>3. CASE mpc = "freed" /\ mpc' = "join"
  <2>1. Pongless
    BY <1>1, <1>3 DEF Pongless
  <2> QED
    BY <1>1, <1>3, <2>1, Quiet DEF Pushing, Ended
<1>4. CASE mpc = "join" /\ npc = "done" /\ mpc' = "done"
  BY <1>1, <1>4, Halts
<1> QED
  BY <1>2, <1>3, <1>4 DEF Teardown

\* The end of a poll on the network thread.
LEMMA Polls ==
  ASSUME EndInv, NetReturn
  PROVE  UpStep
<1>1. npc = "get" /\ UNCHANGED <<session, sent, presentSignaled, mpc>>
  BY DEF NetReturn, NetFrame, mainVars
<1>2. /\ (mpc \in {"clear", "push"})' = (mpc \in {"clear", "push"})
      /\ (mpc \notin {"freed", "join", "done", "crashed"})'
           = (mpc \notin {"freed", "join", "done", "crashed"})
      /\ (mpc \notin {"done", "crashed"})' = (mpc \notin {"done", "crashed"})
      /\ (mpc \notin {"done", "crashed"}) = TRUE
      /\ (npc = "pong") = FALSE
      /\ (npc = "pong")' \in BOOLEAN
  BY <1>1 DEF EndInv
<1>3. \/ netChanges' = TRUE /\ owed' = Indexes /\ (npc = "pong")' = FALSE
      \/ netChanges' = FALSE /\ owed' = {}
  BY DEF NetReturn
<1>4. Up!Poll
  BY <1>1, <1>2, <1>3, Zenon DEF Up!Poll
<1> QED
  BY <1>4 DEF UpStep, Up!UpNext

\* The pong behind a failed poll.
LEMMA Pongs ==
  ASSUME EndInv, NetPong
  PROVE  UpStep
<1>1. npc = "pong" /\ npc' = "top" /\ UNCHANGED <<Seen, mpc>>
  BY DEF NetPong, NetFrame, mainVars, Seen
<1>2. /\ (mpc \in {"clear", "push"})' = (mpc \in {"clear", "push"})
      /\ (mpc \notin {"freed", "join", "done", "crashed"})'
           = (mpc \notin {"freed", "join", "done", "crashed"})
      /\ (mpc \notin {"done", "crashed"})' = (mpc \notin {"done", "crashed"})
      /\ (mpc \notin {"done", "crashed"}) = TRUE
      /\ (npc = "pong") = TRUE
      /\ (npc = "pong")' = FALSE
  BY <1>1 DEF EndInv
<1>3. Up!Pong
  BY <1>1, <1>2, Zenon DEF Up!Pong, Seen
<1> QED
  BY <1>3 DEF UpStep, Up!UpNext

-----------------------------------------------------------------------------
\* Initial states are initial states.
LEMMA InitTold == Init => Up!UpInit
<1> SUFFICES ASSUME Init PROVE Up!UpInit
  OBVIOUS
<1>1. /\ session = FALSE /\ sent = 0 /\ presentSignaled = FALSE
      /\ netChanges = FALSE /\ owed = {} /\ mpc = "work" /\ npc = "top"
  BY DEF Init
<1>2. /\ (mpc \in {"clear", "push"}) = FALSE
      /\ (mpc \notin {"freed", "join", "done", "crashed"}) = TRUE
      /\ (npc = "pong") = FALSE
      /\ (mpc \notin {"done", "crashed"}) = TRUE
  BY <1>1
<1> QED
  BY <1>1, <1>2, Zenon DEF Up!UpInit

\* The two threads come to their ends together.
LEMMA EndStep ==
  ASSUME EndInv, [Next]_vars
  PROVE  EndInv'
<1>1. CASE MainStep /\ mpc # "join"
  BY <1>1, MainPongless DEF EndInv
<1>2. CASE MainStep /\ mpc = "join"
  <2>1. Teardown
    BY <1>2
    DEF MainStep, WorkIdle, SessionBegin, SessionEnd, CallScene, Working, SceneGetBegin,
        SceneGetStep, SceneGetEnd, SceneDecide, ScenePress, SceneEnd, SceneStep, TryLock,
        NoSession, AnnounceSent, AnnounceFailed, Identify, CheckChanges, ClearChanges,
        PushSensor, SendPush
  <2> QED
    BY <1>2, <2>1 DEF Teardown, EndInv
<1>3. CASE NetRun
  <2>1. mpc' = mpc /\ npc \notin {"done", "crashed"} /\ npc' # "crashed"
    BY <1>3
    DEF NetRun, NetTop, NetNotDue, NetPoll, NetGetStep, NetReturn, NetPong, NetFrame, mainVars
  <2> QED
    BY <2>1 DEF EndInv
<1>4. CASE Crash
  BY <1>4 DEF Crash, EndInv
<1>5. CASE Environment
  BY <1>5 DEF Environment, Signal, DeviceDrift, UserPress, mainVars, EndInv
<1>6. CASE UNCHANGED vars
  BY <1>6 DEF vars, mainVars, EndInv
<1> QED
  BY <1>1, <1>2, <1>3, <1>4, <1>5, <1>6 DEF Next, NetStep, Stopped

\* Every step is a step of Upstream or a stutter.
LEMMA StepTold ==
  ASSUME TypeInv, SessionInv, SignalInv, EndInv, [Next]_vars
  PROVE  UpStep
<1>a. ASSUME UNCHANGED <<Seen, mpc>>, npc' = npc \/ (npc # "pong" /\ npc' # "pong")
      PROVE  UpStep
  BY <1>a, Quiet DEF Seen, Pongless
\* The main thread on its way through the loop.
<1>b. ASSUME UNCHANGED Seen, MainStep,
             mpc \in {"work", "scene", "try", "body"},
             mpc' \in {"work", "scene", "try", "body"}
      PROVE  UpStep
  BY <1>b, MainQuiet, Quiet DEF Pushing, Ended
<1>1. CASE WorkIdle \/ SceneEnd \/ \E sc \in Scenes : CallScene(sc)
  BY <1>1, <1>b DEF MainStep, WorkIdle, SceneEnd, CallScene, Working, history, Seen
<1>2. CASE SessionBegin \/ SessionEnd
  BY <1>2, Sessions
<1>3. CASE SceneGetBegin \/ SceneGetStep \/ SceneGetEnd \/ SceneDecide \/ ScenePress
  BY <1>3, <1>a
  DEF SceneGetBegin, SceneGetStep, SceneGetEnd, SceneDecide, ScenePress, SceneFrame, Seen
<1>4. CASE TryLock \/ NoSession \/ AnnounceFailed
  BY <1>4, <1>b DEF MainStep, TryLock, NoSession, AnnounceFailed, BodyFrame, Seen
<1>5. CASE AnnounceSent
  BY <1>5, Announcements
<1>6. CASE Identify
  BY <1>6, Identifications
<1>7. CASE CheckChanges
  BY <1>7, Checks
<1>8. CASE ClearChanges \/ PushSensor
  BY <1>8, Pushes
<1>9. CASE SendPush
  BY <1>9, PushEnds
<1>10. CASE Teardown
  BY <1>10, Endings
<1>11. CASE NetTop \/ NetNotDue \/ NetPoll \/ NetGetStep
  BY <1>11, <1>a DEF NetTop, NetNotDue, NetPoll, NetGetStep, NetFrame, mainVars, Seen
<1>12. CASE NetReturn
  BY <1>12, Polls
<1>13. CASE NetPong
  BY <1>13, Pongs
<1>16. CASE Crash
  <2>1. /\ UNCHANGED Seen /\ mpc \in {"freed", "join"}
        /\ mpc' = "crashed" /\ npc' = "crashed"
    BY <1>16 DEF Crash, UsesFreed, history, Seen
  <2> QED
    BY <2>1, Halts
<1>14. CASE Environment
  BY <1>14, <1>a DEF Environment, Signal, DeviceDrift, UserPress, mainVars, history, Seen
<1>15. CASE UNCHANGED vars
  BY <1>15, <1>a DEF vars, mainVars, history, Seen
<1> QED
  BY <1>1, <1>2, <1>3, <1>4, <1>5, <1>6, <1>7, <1>8, <1>9, <1>10, <1>11, <1>12, <1>13,
     <1>14, <1>15, <1>16
  DEF Next, MainStep, NetStep, NetRun, Stopped

\* The two threads, their flags and the three ways out of the loop body keep
\* what Upstream promises the DSS (main.c:81-104, 110-162, 293-358): one
\* announcement sent in a session, no push in front of it, no push that leaves
\* out what was signalled, nothing of that after the main loop; a pong for each
\* failed poll and no other, until the process ends.
THEOREM DssIsToldInOrder == Spec => ToldInOrder
<1> DEFINE Inv == TypeInv /\ MutexSafe /\ SessionInv /\ SignalInv /\ EndInv
<1>0. Init => EndInv
  BY DEF Init, EndInv
<1>1. Init => Inv
  BY <1>0, InitType, InitMutex, InitSession, InitSignal
<1>2. Inv /\ [Next]_vars => Inv'
  BY NextType, MutexSafeStep, SessionStep, SignalStep, EndStep
<1>3. Inv /\ [Next]_vars => [Up!UpNext]_(Up!upVars)
  BY StepTold DEF UpStep
<1> HIDE DEF Inv
<1> QED
  BY InitTold, <1>1, <1>2, <1>3, PTL DEF Spec, ToldInOrder, Up!UpSpec

=============================================================================

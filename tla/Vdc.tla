-------------------------------- MODULE Vdc ---------------------------------
(***************************************************************************)
(* The running vDC: the main thread of main.c with the session and         *)
(* call-scene callbacks of vdsd.c that dsvdc_work invokes on it, and the   *)
(* network thread of main.c, over the shared state of module Network.      *)
(*                                                                         *)
(* mpc and npc are the program counters.  dsvdc_work processes one message *)
(* of the DSS per call, so between two session events the main loop runs   *)
(* once.  The callbacks that touch no state of this module (ping, the      *)
(* answers to the announcements, remove, save scene, generic request,      *)
(* properties) are the idle return of dsvdc_work.  The clock is            *)
(* abstracted: whenever the network thread wakes up, the values may be due *)
(* or not.                                                                 *)
(***************************************************************************)
EXTENDS Network, Integers

CONSTANTS
  Scenes,       \* the configured scenes: fan, sleep, auto; -1 is "not set"
  UserButtons,  \* the buttons somebody presses on the panel
  MaxDepth      \* bound: no new leak of the mutex from this depth on

Main == "main"
Net == "network"

ASSUME ThreadsAssumption == Threads = {Main, Net}
ASSUME ScenesAssumption ==
  Scenes \subseteq [fan : -1 .. 3, sleep : -1 .. 1, auto : -1 .. 1]
ASSUME UserButtonsAssumption == UserButtons \subseteq Buttons
ASSUME MaxDepthAssumption == MaxDepth \in Nat

NoScene == [fan |-> -1, sleep |-> -1, auto |-> -1]

VARIABLES
  shutdown,         \* g_shutdown_flag
  session,          \* dsvdc_has_session
  announced,        \* humifier_device->announced
  presentSignaled,  \* humifier_device->presentSignaled; present is always true
  netChanges,       \* g_network_changes
  mpc,              \* program counter of the main thread
  scene,            \* the scene the main thread executes
  script,           \* what is left of it
  index,            \* i in push_sensor_data
  npc,              \* program counter of the network thread
  sent,             \* history: how often an announcement went out in this session
  owed,             \* history: sensors signalled as changed and not read since
  clean             \* history: nothing interfered with the scene so far

mainVars == <<session, announced, presentSignaled, mpc, scene, script, index>>
history == <<sent, owed, clean>>
vars == <<netVars, mainVars, shutdown, netChanges, npc, history>>

-----------------------------------------------------------------------------
\* A scene as the sequence of what vdc_callscene_cb does for it.
Op(do, arg) == [do |-> do, arg |-> arg]
OpType == [do : {"get", "fan_1_to_2", "fan_3_to_2"}, arg : {0}]
            \cup [do : {"sleep", "auto"}, arg : {0, 1}]
            \cup [do : {"press"}, arg : Buttons]

Twice(btn) == <<Op("press", btn), Op("press", btn)>>

\* venta_set_mode_sleep and venta_set_mode_automatic read the mode first.
SetMode(mode, on) == <<Op("get", 0), Op(mode, on)>>

SleepScript(sc) ==
  CASE sc.sleep > 0 -> SetMode("sleep", 1) \o Twice(BtnFanDown)
    [] sc.sleep = 0 -> SetMode("sleep", 0)
    [] sc.sleep < 0 -> <<>>

AutoScript(sc) ==
  CASE sc.auto > 0 -> SetMode("auto", 1)
    [] sc.auto = 0 -> SetMode("auto", 0)
    [] sc.auto < 0 -> <<>>

\* Level 2 is one button press away from where the fan is.
FanToTwo == <<Op("fan_1_to_2", 0)>>

FanScript(sc) ==
  CASE sc.fan = 1 -> Twice(BtnFanDown)
    [] sc.fan = 2 -> FanToTwo
    [] sc.fan = 3 -> Twice(BtnFanUp)
    [] sc.fan \notin 1 .. 3 -> <<>>

Script(sc) == <<Op("get", 0)>> \o SleepScript(sc) \o AutoScript(sc) \o FanScript(sc)

-----------------------------------------------------------------------------
Init ==
  /\ NetInit
  /\ shutdown = FALSE
  /\ session = FALSE
  /\ announced = FALSE
  /\ presentSignaled = FALSE
  /\ netChanges = FALSE
  /\ mpc = "work"
  /\ scene = NoScene
  /\ script = <<>>
  /\ index = 1
  /\ npc = "top"
  /\ sent = 0
  /\ owed = {}
  /\ clean = FALSE

\* SIGINT or SIGTERM.
Signal ==
  /\ shutdown' = TRUE
  /\ UNCHANGED <<netVars, mainVars, netChanges, npc, history>>

-----------------------------------------------------------------------------
(* The main loop: dsvdc_work and the callbacks it invokes.                 *)

Working == mpc = "work" /\ ~shutdown

\* The two seconds pass, or a callback without effect on this state runs: also
\* vdc_announce_device_cb, which only logs whether the DSS took the device.
WorkIdle ==
  /\ Working
  /\ mpc' = "try"
  /\ UNCHANGED <<netVars, session, announced, presentSignaled, scene, script, index,
                 shutdown, netChanges, npc, history>>

\* vdc_new_session_cb announces the container and ignores the outcome.
SessionBegin ==
  /\ Working
  /\ ~session
  /\ mutex.count < MaxDepth
  /\ session' = TRUE
  /\ sent' = 0
  /\ mpc' = "try"
  /\ UNCHANGED <<netVars, announced, presentSignaled, scene, script, index,
                 shutdown, netChanges, npc, owed, clean>>

\* vdc_end_session_cb only logs.
SessionEnd ==
  /\ Working
  /\ session
  /\ session' = FALSE
  /\ sent' = 0
  /\ mpc' = "try"
  /\ UNCHANGED <<netVars, announced, presentSignaled, scene, script, index,
                 shutdown, netChanges, npc, owed, clean>>

\* vdc_callscene_cb for a configured scene.
CallScene(sc) ==
  /\ Working
  /\ session
  /\ scene' = sc
  /\ script' = Script(sc)
  /\ clean' = TRUE
  /\ mpc' = "scene"
  /\ UNCHANGED <<netVars, session, announced, presentSignaled, index,
                 shutdown, netChanges, npc, sent, owed>>

SceneStep == mpc = "scene" /\ script # <<>>

\* The steps of a scene leave everything of the main thread but the script.
SceneFrame == UNCHANGED <<session, announced, presentSignaled, mpc, scene, index,
                          shutdown, netChanges, npc, sent, owed>>

SceneGetBegin ==
  /\ SceneStep
  /\ Head(script).do = "get"
  /\ StartGet(Main)
  /\ UNCHANGED <<script, clean>>
  /\ SceneFrame

SceneGetStep ==
  /\ mpc = "scene"
  /\ GetStep(Main)
  /\ clean' = (clean /\ (call[Main].at = "post" => call'[Main].reply = device))
  /\ UNCHANGED script
  /\ SceneFrame

\* The return code is ignored: the scene goes on with what current holds.
SceneGetEnd ==
  /\ SceneStep
  /\ EndGet(Main)
  /\ script' = Tail(script)
  /\ UNCHANGED clean
  /\ SceneFrame

\* A scene function that trusts the values it read at the beginning.
PressUnconditionally(mode, on) == TRUE

\* venta_set_mode_*: press only when the mode is not the requested one.
MustToggle(mode, on) ==
  \/ current[mode] = 0 /\ on = 1
  \/ current[mode] # 0 /\ on = 0

Presses(btn, condition) == IF condition THEN <<Op("press", btn)>> ELSE <<>>

SceneDecide ==
  /\ SceneStep
  /\ LET op == Head(script)
     IN  \/ /\ op.do = "sleep"
            /\ script' = Presses(BtnSleep, MustToggle("sleep", op.arg)) \o Tail(script)
         \/ /\ op.do = "auto"
            /\ script' = Presses(BtnAuto, MustToggle("auto", op.arg)) \o Tail(script)
         \/ /\ op.do = "fan_1_to_2"
            /\ script' = (IF current["fan"] = 1 THEN <<Op("press", BtnFanUp)>>
                          ELSE <<Op("fan_3_to_2", 0)>>) \o Tail(script)
         \/ /\ op.do = "fan_3_to_2"
            /\ script' = Presses(BtnFanDown, current["fan"] = 3) \o Tail(script)
  /\ UNCHANGED <<netVars, clean>>
  /\ SceneFrame

ScenePress ==
  /\ SceneStep
  /\ Head(script).do = "press"
  /\ PostButton(Head(script).arg)
  /\ clean' = (clean /\ device' = Pressed(device, Head(script).arg))
  /\ script' = Tail(script)
  /\ SceneFrame

SceneEnd ==
  /\ mpc = "scene"
  /\ script = <<>>
  /\ scene' = NoScene
  /\ clean' = FALSE
  /\ mpc' = "try"
  /\ UNCHANGED <<netVars, session, announced, presentSignaled, script, index,
                 shutdown, netChanges, npc, sent, owed>>

-----------------------------------------------------------------------------
(* The main loop: the body, under the mutex.                               *)

BodyFrame == UNCHANGED <<device, current, call, session, scene, script,
                         shutdown, npc, clean>>

TryLock ==
  /\ mpc = "try"
  /\ IF CanLock(mutex, Main)
     THEN mpc' = "body" /\ mutex' = Locked(mutex, Main)
     ELSE mpc' = "work" /\ UNCHANGED mutex
  /\ UNCHANGED <<sensors, announced, presentSignaled, index, netChanges, sent, owed>>
  /\ BodyFrame

\* A main loop that leaves it to the end-of-session callback to reset announced.
NoSessionUnnoticed ==
  /\ mpc = "body"
  /\ ~session
  /\ mutex' = Unlocked(mutex, Main)
  /\ mpc' = "work"
  /\ UNCHANGED <<sensors, announced, presentSignaled, index, netChanges, sent, owed>>
  /\ BodyFrame

NoSession ==
  /\ mpc = "body"
  /\ ~session
  /\ announced' = FALSE
  /\ mutex' = Unlocked(mutex, Main)
  /\ mpc' = "work"
  /\ UNCHANGED <<sensors, presentSignaled, index, netChanges, sent, owed>>
  /\ BodyFrame

\* An announcement that nobody writes down.
AnnounceUnrecorded ==
  /\ mpc = "body"
  /\ session
  /\ ~announced
  /\ mutex.count < MaxDepth
  /\ sent' = sent + 1
  /\ mpc' = "work"
  /\ UNCHANGED <<mutex, sensors, announced, presentSignaled, index, netChanges, owed>>
  /\ BodyFrame

\* announce_device: the library has sent the announcement (DSVDC_OK), whatever
\* the DSS will answer; then "continue" with the mutex still held.
AnnounceSent ==
  /\ mpc = "body"
  /\ session
  /\ ~announced
  /\ announced' = TRUE
  /\ sent' = sent + 1
  /\ mpc' = "work"
  /\ UNCHANGED <<mutex, sensors, presentSignaled, index, netChanges, owed>>
  /\ BodyFrame

\* The library could not send it.
AnnounceFailed ==
  /\ mpc = "body"
  /\ session
  /\ ~announced
  /\ mutex.count < MaxDepth
  /\ mpc' = "work"
  /\ UNCHANGED <<mutex, sensors, announced, presentSignaled, index, netChanges, sent, owed>>
  /\ BodyFrame

\* dsvdc_identify_device, then "continue" with the mutex still held.
Identify ==
  /\ mpc = "body"
  /\ session
  /\ announced
  /\ ~presentSignaled
  /\ presentSignaled' = TRUE
  /\ mpc' = "work"
  /\ UNCHANGED <<mutex, sensors, announced, index, netChanges, sent, owed>>
  /\ BodyFrame

CheckChanges ==
  /\ mpc = "body"
  /\ session
  /\ announced
  /\ presentSignaled
  /\ IF netChanges
     THEN mpc' = "clear" /\ UNCHANGED mutex
     ELSE mpc' = "work" /\ mutex' = Unlocked(mutex, Main)
  /\ UNCHANGED <<sensors, announced, presentSignaled, index, netChanges, sent, owed>>
  /\ BodyFrame

ClearChanges ==
  /\ mpc = "clear"
  /\ netChanges' = FALSE
  /\ mpc' = "push"
  /\ UNCHANGED <<mutex, sensors, announced, presentSignaled, index, sent, owed>>
  /\ BodyFrame

\* A loop over the sensors that looks one entry too far.
PushSensorPastEnd ==
  /\ mpc = "push"
  /\ index \in 1 .. Len(SensorNames) + 1
  /\ sensors' = [sensors EXCEPT ![index].reported = TRUE]
  /\ owed' = owed \ {index}
  /\ index' = index + 1
  /\ UNCHANGED <<mutex, announced, presentSignaled, netChanges, mpc, sent>>
  /\ BodyFrame

\* push_sensor_data: one configured sensor.
PushSensor ==
  /\ mpc = "push"
  /\ index \in Indexes
  /\ sensors' = [sensors EXCEPT ![index].reported = TRUE]
  /\ owed' = owed \ {index}
  /\ index' = index + 1
  /\ UNCHANGED <<mutex, announced, presentSignaled, netChanges, mpc, sent>>
  /\ BodyFrame

\* A main loop that resets the flag when the push is over.
SendPushAndClear ==
  /\ mpc = "push"
  /\ index \notin Indexes
  /\ index' = 1
  /\ netChanges' = FALSE
  /\ mutex' = Unlocked(mutex, Main)
  /\ mpc' = "work"
  /\ UNCHANGED <<sensors, announced, presentSignaled, sent, owed>>
  /\ BodyFrame

\* dsvdc_push_property and the end of the loop body.
SendPush ==
  /\ mpc = "push"
  /\ index \notin Indexes
  /\ index' = 1
  /\ mutex' = Unlocked(mutex, Main)
  /\ mpc' = "work"
  /\ UNCHANGED <<sensors, announced, presentSignaled, netChanges, sent, owed>>
  /\ BodyFrame

-----------------------------------------------------------------------------
(* Shutdown: the tail of main.                                             *)

\* while (!g_shutdown_flag) ends; value_name[] and humifier_current_values
\* are freed; then dsvdc_cleanup and curl_global_cleanup; then the join.
Teardown ==
  /\ \/ mpc = "work" /\ shutdown /\ mpc' = "freed"
     \/ mpc = "freed" /\ mpc' = "join"
     \/ mpc = "join" /\ npc = "done" /\ mpc' = "done"
  /\ UNCHANGED <<netVars, session, announced, presentSignaled, scene, script, index,
                 shutdown, netChanges, npc, history>>

-----------------------------------------------------------------------------
(* The network thread.                                                     *)

NetFrame == UNCHANGED <<mainVars, shutdown, sent>>

\* while (!g_shutdown_flag) { sleep(5); ...
NetTop ==
  /\ npc = "top"
  /\ npc' = IF shutdown THEN "done" ELSE "sleep"
  /\ UNCHANGED <<netVars, netChanges, owed, clean>>
  /\ NetFrame

\* The sleep is over; the last look was less than ten seconds ago or the
\* values are not due yet (main.c:83, 86).
NetNotDue ==
  /\ npc = "sleep"
  /\ npc' = "top"
  /\ UNCHANGED <<netVars, netChanges, owed, clean>>
  /\ NetFrame

\* The sleep is over and the values are due.
NetPoll ==
  /\ npc = "sleep"
  /\ npc' = "get"
  /\ StartGet(Net)
  /\ UNCHANGED <<netChanges, owed, clean>>
  /\ NetFrame

\* A scene loses its claim when this thread overwrites a control value with
\* an answer that is older than the humifier's state.
NetGetStep ==
  /\ npc = "get"
  /\ GetStep(Net)
  /\ clean' = (clean /\ \A c \in Controls : current'[c] \in {current[c], device[c]})
  /\ UNCHANGED <<npc, netChanges, owed>>
  /\ NetFrame

\* g_network_changes is set to what this poll found.  Signalling a change
\* makes every configured sensor owed to the DSS; a poll without a change,
\* or one that failed, takes that back; a failed poll is followed by a pong.
NetReturn ==
  /\ npc = "get"
  /\ EndGet(Net)
  /\ netChanges' = (call[Net].rc = Changed)
  /\ owed' = IF call[Net].rc = Changed THEN Indexes ELSE {}
  /\ npc' = IF call[Net].rc \in {Changed, Unchanged} THEN "top" ELSE "pong"
  /\ UNCHANGED clean
  /\ NetFrame

\* dsvdc_send_pong for the device, whatever the main thread does meanwhile and
\* with or without a session.
NetPong ==
  /\ npc = "pong"
  /\ npc' = "top"
  /\ UNCHANGED <<netVars, netChanges, owed, clean>>
  /\ NetFrame

\* The network thread reads or writes what the main thread has freed: the
\* names and control values in parse_json_data, curl in http_post, the handle
\* in dsvdc_send_pong.  Undefined: the process may die (or the step above runs).
UsesFreed ==
  \/ mpc \in {"freed", "join"} /\ call[Net].at \in {"parse", "shift", "store"}
                               /\ DOMAIN call[Net].reply # {}
  \/ mpc = "join" /\ call[Net].at = "post"
  \/ mpc = "join" /\ npc = "pong"

Crash ==
  /\ npc \in {"get", "pong"}
  /\ UsesFreed
  /\ npc' = "crashed"
  /\ mpc' = "crashed"
  /\ UNCHANGED <<netVars, session, announced, presentSignaled, scene, script, index,
                 shutdown, netChanges, history>>

-----------------------------------------------------------------------------
\* Somebody presses a button on the panel of the humidifier.
UserPress(btn) ==
  /\ device' = Pressed(device, btn)
  /\ clean' = FALSE
  /\ UNCHANGED <<current, sensors, mutex, call, mainVars, shutdown, netChanges, npc, sent, owed>>

DeviceDrift ==
  /\ Drift
  /\ UNCHANGED <<mainVars, shutdown, netChanges, npc, history>>

\* The process is gone.
Stopped ==
  /\ mpc \in {"done", "crashed"}
  /\ UNCHANGED vars

MainStep ==
  \/ WorkIdle \/ SessionBegin \/ SessionEnd \/ \E sc \in Scenes : CallScene(sc)
  \/ SceneGetBegin \/ SceneGetStep \/ SceneGetEnd \/ SceneDecide \/ ScenePress \/ SceneEnd
  \/ TryLock \/ NoSession \/ AnnounceSent \/ AnnounceFailed \/ Identify
  \/ CheckChanges \/ ClearChanges \/ PushSensor \/ SendPush
  \/ Teardown

NetRun == NetTop \/ NetNotDue \/ NetPoll \/ NetGetStep \/ NetReturn \/ NetPong

NetStep == NetRun \/ Crash

Environment == Signal \/ DeviceDrift \/ \E btn \in UserButtons : UserPress(btn)

Next == MainStep \/ NetStep \/ Environment \/ Stopped

Spec == Init /\ [][Next]_vars

\* Both threads are scheduled, every sleep ends and every request returns
\* (CURLOPT_TIMEOUT); the values come due again and again; the library does not
\* fail to send the announcement forever.  Nothing makes undefined behaviour a crash.
Fairness ==
  /\ WF_vars(MainStep)
  /\ WF_vars(NetRun)
  /\ SF_vars(NetPoll)
  /\ SF_vars(AnnounceSent)

FairSpec == Spec /\ Fairness

-----------------------------------------------------------------------------
(* Properties.                                                             *)

\* Every variable has its type.
TypeOK ==
  /\ NetTypeOK
  /\ shutdown \in BOOLEAN /\ session \in BOOLEAN /\ announced \in BOOLEAN
  /\ presentSignaled \in BOOLEAN /\ netChanges \in BOOLEAN
  /\ sent \in Nat /\ clean \in BOOLEAN
  /\ mpc \in {"work", "scene", "try", "body", "clear", "push", "freed", "join", "done", "crashed"}
  /\ scene \in Scenes \cup {NoScene}
  /\ script \in Seq(OpType)
  /\ index \in 1 .. Len(SensorNames) + 1
  /\ npc \in {"top", "sleep", "get", "pong", "done", "crashed"}
  /\ owed \subseteq Indexes

\* The unlock that parse_json_data performs without having locked
\* (network.c:314) never takes the mutex from under the body of the main loop,
\* and the network thread never comes to own it, so the main loop's trylock
\* (main.c:300) never fails and a pushed set of values is always read under it.
MutexSafe ==
  /\ mutex.owner # Net
  /\ mpc \in {"body", "clear", "push"} => mutex.owner = Main /\ mutex.count >= 1

\* The main loop learns of a lost session only when it looks (main.c:304):
\* the flag announced never survives from an earlier session into a new one,
\* and nothing is pushed in a session in which no announcement has been sent.
\* Whether the DSS took the device is not asked: its answer is only logged
\* (vdsd.c:54-56).
AnnouncedIsCurrent ==
  /\ session /\ announced => sent > 0
  /\ mpc \in {"clear", "push"} => session /\ sent > 0

\* The hand-over of g_network_changes between the threads (main.c:90, 331-332)
\* has no lock, and still loses no signal by itself: after a poll has signalled
\* a change, until a later poll takes it back, every sensor is either read by
\* push_sensor_data or still going to be, because the flag is up or because the
\* push has not come to it.
NoLostSignal ==
  owed # {} => \/ netChanges
               \/ mpc = "clear"
               \/ mpc = "push" /\ \A i \in owed : i >= index

\* What module Upstream promises the DSS, kept by the two threads and their
\* flags: one announcement sent in a session, although a failed attempt, a lost
\* session and three ways out of the loop body lie in between; pushes for a
\* signal, behind the announcement, over all that is owed; nothing of that once
\* the main loop has ended, and then only pongs, one for each failed poll,
\* until the process ends (main.c:81-104, 110-162, 293-358).
Up == INSTANCE Upstream WITH
        Sensors <- Indexes,
        announcements <- sent,
        identified <- presentSignaled,
        signalled <- netChanges,
        pushing <- mpc \in {"clear", "push"},
        open <- mpc \notin {"freed", "join", "done", "crashed"},
        ponging <- npc = "pong",
        running <- mpc \notin {"done", "crashed"}

ToldInOrder == Up!UpSpec

\* What a scene promises when no request failed, nobody pressed a button and
\* the network thread wrote no outdated value meanwhile: the modes and the fan
\* are as configured (vdsd.c:162-189).  Sleep mode without a fan level means
\* level 1.  Level 2 together with sleep mode is left to the run SampleSceneTwo.
Reached(sc) ==
  /\ sc.sleep >= 0 => device["sleep"] = sc.sleep
  /\ sc.auto >= 0 => device["auto"] = sc.auto
  /\ sc.fan \in {1, 3} => device["fan"] = sc.fan
  /\ sc.fan = 2 /\ (sc.sleep <= 0 \/ sc.auto >= 0) => device["fan"] = 2
  /\ sc.fan \notin 1 .. 3 /\ sc.sleep = 1 => device["fan"] = 1

SceneDone == mpc = "scene" /\ script = <<>>

SceneReached == SceneDone /\ clean => Reached(scene)

\* README:66-67 of the sample configuration: "scene 2: activate fan level 2
\* and sleep mode".  The code sets the fan from a value it read before it
\* pressed "fan down" twice.
SampleSceneTwo ==
  SceneDone /\ clean /\ scene.fan = 2 /\ scene.sleep = 1
    => device["fan"] = 2 /\ device["sleep"] = 1

\* README:70 "scene 5: set sleep mode": with no failed request and nobody at
\* the panel a sleep scene ends in sleep mode.  An answer the network thread
\* received earlier can overwrite the mode the scene has just read.
SleepSceneSleeps ==
  SceneDone /\ scene.sleep = 1 => device["sleep"] = 1

\* main.c:297-299 "do not block here if network thread currently pulls new
\* values, push properties can wait and sent later if lock can be taken":
\* pushing and pulling exclude each other.  The pull takes no lock.
PullExcludesPush ==
  ~(mpc = "push" /\ call[Net].at \in {"parse", "shift", "store"})

\* main.c:88 "some values have changed compared to previous get values": a poll
\* that replaces a value already reported once returns 0.  The comparison is
\* with the value before the previous one.
ChangeDetected ==
  [][\A i \in Indexes :
       sensors[i].reported /\ sensors'[i].value # sensors[i].value => call[Net].changed]_vars

\* main.c:90 "g_network_changes = true; // send to upstream DSS": a change that
\* was signalled stays signalled until the main loop takes it.
SignalStays == [][netChanges /\ ~netChanges' => mpc = "clear"]_vars

\* After SIGTERM the main loop ends, joins the network thread and the process
\* stops: nobody waits for the mutex, a request or the other thread for ever.
Terminates == shutdown ~> mpc \in {"done", "crashed"}

\* In a session that lasts an announcement gets sent, and the flag stays up.
Announces == <>[](session /\ ~shutdown) => <>[]announced

\* The answer has an integer or a boolean for one of the configured sensors.
Informative(reply) ==
  \E i \in Indexes : SensorNames[i] \in DOMAIN reply /\ reply[SensorNames[i]] \notin OtherTyped

\* The network thread's request, if it ends, is answered so.
Informed ==
  call[Net].at = "post" /\ call'[Net].at # "post" => Informative(call'[Net].reply)

\* In a session that lasts, the whole table of sensors is reported once the
\* polls bring a value for any of them, however the polls and sessions before
\* went: failed, without a key, without an integer (network.c:288, 298), with a
\* signal that was taken back or that came without a session.  It is the rule
\* "last_reported == 0" of network.c:292.
FirstReport ==
  <>[](session /\ ~shutdown) /\ <>[][Informed]_vars
    => <>(\A i \in Indexes : sensors[i].reported)

=============================================================================

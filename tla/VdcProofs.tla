----------------------------- MODULE VdcProofs ------------------------------
(***************************************************************************)
(* Theorems about the running vDC, for any sensor table, any answers, any  *)
(* set of scenes and any number of sessions.                               *)
(***************************************************************************)
EXTENDS Vdc, SequenceTheorems, TLAPS

-----------------------------------------------------------------------------
(* Facts about the operators the model is built from.                      *)

\* The button presses keep the humifier within its range.
LEMMA PressedType ==
  ASSUME NEW d \in DeviceType, NEW btn \in Buttons
  PROVE  Pressed(d, btn) \in DeviceType
<1>1. Controls \subseteq Keys /\ 0 .. 3 \subseteq Vals
  BY KeyOrderAssumption DEF Vals
<1>2. d \in [Keys -> Vals] /\ d["fan"] \in 1 .. 3 /\ d["sleep"] \in 0 .. 1 /\ d["auto"] \in 0 .. 1
  BY DEF DeviceType
<1>3. "fan" \in Keys /\ "sleep" \in Keys /\ "auto" \in Keys
  BY <1>1 DEF Controls
<1>4. CASE btn = BtnFanUp
  BY <1>1, <1>2, <1>3, <1>4 DEF Pressed, DeviceType, BtnFanUp
<1>5. CASE btn = BtnFanDown
  BY <1>1, <1>2, <1>3, <1>5 DEF Pressed, DeviceType, BtnFanUp, BtnFanDown
<1>6. CASE btn = BtnSleep
  BY <1>1, <1>2, <1>3, <1>6 DEF Pressed, DeviceType, BtnFanUp, BtnFanDown, BtnSleep
<1>7. CASE btn = BtnAuto
  BY <1>1, <1>2, <1>3, <1>7 DEF Pressed, DeviceType, BtnFanUp, BtnFanDown, BtnSleep, BtnAuto
<1>. QED
  BY <1>4, <1>5, <1>6, <1>7 DEF Buttons

\* Short sequences.
LEMMA ShortSeq ==
  ASSUME NEW S, NEW e \in S, NEW f \in S
  PROVE  <<>> \in Seq(S) /\ <<e>> \in Seq(S) /\ <<e, f>> \in Seq(S)
OBVIOUS

\* Every scene is a sequence of operations of the call-scene handler.
LEMMA ScriptType ==
  ASSUME NEW sc \in Scenes
  PROVE  Script(sc) \in Seq(OpType)
<1>0. /\ sc.fan \in -1 .. 3 /\ sc.sleep \in -1 .. 1 /\ sc.auto \in -1 .. 1
  BY ScenesAssumption
<1>1. /\ Op("get", 0) \in OpType
      /\ Op("fan_1_to_2", 0) \in OpType
      /\ \A do \in {"sleep", "auto"}, arg \in {0, 1} : Op(do, arg) \in OpType
      /\ \A btn \in Buttons : Op("press", btn) \in OpType
  BY DEF OpType, Op
<1>2. BtnFanUp \in Buttons /\ BtnFanDown \in Buttons
  BY DEF Buttons
<1>3. <<>> \in Seq(OpType) /\ <<Op("get", 0)>> \in Seq(OpType)
  BY <1>1, ShortSeq
<1>4. \A btn \in Buttons : Twice(btn) \in Seq(OpType)
  BY <1>1, ShortSeq DEF Twice
<1>5. \A mode \in {"sleep", "auto"}, on \in {0, 1} : SetMode(mode, on) \in Seq(OpType)
  BY <1>1, ShortSeq DEF SetMode
<1>6. SleepScript(sc) \in Seq(OpType)
  <2>1. SetMode("sleep", 1) \o Twice(BtnFanDown) \in Seq(OpType)
    BY <1>2, <1>4, <1>5, ConcatProperties
  <2>. QED
    BY <1>0, <1>3, <1>5, <2>1 DEF SleepScript
<1>7. AutoScript(sc) \in Seq(OpType)
  BY <1>0, <1>3, <1>5 DEF AutoScript
<1>8. FanScript(sc) \in Seq(OpType)
  <2>1. FanToTwo \in Seq(OpType)
    BY <1>1, ShortSeq DEF FanToTwo
  <2>2. Twice(BtnFanDown) \in Seq(OpType) /\ Twice(BtnFanUp) \in Seq(OpType)
    BY <1>2, <1>4
  <2>3. sc.fan \in 1 .. 3 => FanScript(sc) \in Seq(OpType)
    BY <2>1, <2>2 DEF FanScript
  <2>4. sc.fan \notin 1 .. 3 => FanScript(sc) = <<>>
    BY <1>0 DEF FanScript
  <2>. QED
    BY <1>3, <2>3, <2>4
<1>9. <<Op("get", 0)>> \o SleepScript(sc) \o AutoScript(sc) \in Seq(OpType)
  BY <1>3, <1>6, <1>7, ConcatProperties
<1>. QED
  BY <1>8, <1>9, ConcatProperties DEF Script

\* The answers to a request: any part of the humifier's values is one, and an
\* answer stays one when a key is taken out.
LEMMA ReplyTypes ==
  /\ <<>> \in Replies
  /\ \A d \in DeviceType : d \in Replies /\ \A K \in SUBSET Keys : Restrict(d, K) \in Replies
  /\ \A r \in Replies : \A k : Without(r, k) \in Replies
  /\ \A r \in Replies : \A k \in DOMAIN r : k \in Keys /\ r[k] \in Vals
<1>1. <<>> \in [{} -> Vals]
  <2>1. <<>> \in [1 .. 0 -> Vals]
    OBVIOUS
  <2>2. 1 .. 0 = {}
    OBVIOUS
  <2>. QED
    BY <2>1, <2>2
<1>2. DeviceType \subseteq [Keys -> Vals]
  BY DEF DeviceType
<1>3. ASSUME NEW r \in Replies
      PROVE  \E K \in SUBSET Keys : r \in [K -> Vals]
  BY DEF Replies
<1>4. ASSUME NEW K \in SUBSET Keys, NEW r \in [K -> Vals]
      PROVE  r \in Replies
  BY DEF Replies
<1>5. ASSUME NEW r \in Replies, NEW k
      PROVE  Without(r, k) \in Replies
  <2>1. PICK K \in SUBSET Keys : r \in [K -> Vals]
    BY <1>3
  <2>2. Without(r, k) \in [K \ {k} -> Vals]
    BY <2>1 DEF Without, Restrict
  <2>. QED
    BY <1>4, <2>2
<1>6. ASSUME NEW r \in Replies, NEW k \in DOMAIN r
      PROVE  k \in Keys /\ r[k] \in Vals
  BY <1>3
<1>7. ASSUME NEW d \in DeviceType, NEW K \in SUBSET Keys
      PROVE  Restrict(d, K) \in Replies
  <2>1. Restrict(d, K) \in [K -> Vals]
    BY <1>2 DEF Restrict
  <2>. QED
    BY <1>4, <2>1
<1>8. \A d \in DeviceType : d \in Replies
  BY <1>2, <1>4
<1>. QED
  BY <1>1, <1>4, <1>5, <1>6, <1>7, <1>8

\* The records a call goes through.
LEMMA CallRecords ==
  /\ Idle \in CallType
  /\ Posting \in CallType
  /\ \A rc \in Codes : Returning(rc) \in CallType
<1>1. \A rc \in Codes \cup {""} :
        [at |-> "idle", reply |-> <<>>, key |-> "", changed |-> FALSE, rc |-> rc] \in CallType
  BY ReplyTypes DEF CallType
<1>2. Idle \in CallType
  BY <1>1 DEF Idle
<1>3. Posting \in CallType
  BY <1>2 DEF Posting, CallType
<1>4. ASSUME NEW rc \in Codes
      PROVE  Returning(rc) \in CallType
  BY <1>2 DEF Returning, CallType
<1>. QED
  BY <1>2, <1>3, <1>4

\* The types alone are not inductive: the key a thread is about to store must
\* be one of the answer it reads from.
KeyPending ==
  \A t \in Threads :
    call[t].at \in {"shift", "store"} => call[t].key \in DOMAIN call[t].reply

NetInv == NetTypeOK /\ KeyPending

LEMMA InitNetInv == NetInit => NetInv
<1>. SUFFICES ASSUME NetInit PROVE NetInv
  OBVIOUS
<1>1. device \in DeviceType
  <2>1. device \in [Keys -> Vals] /\ Started(device)
    BY DEF NetInit
  <2>2. PICK start \in Starts : \A c \in Controls : device[c] = start[c]
    BY <2>1 DEF Started
  <2>3. /\ device["fan"] = start["fan"]
        /\ device["sleep"] = start["sleep"]
        /\ device["auto"] = start["auto"]
    BY <2>2 DEF Controls
  <2>4. start["fan"] \in 1 .. 3 /\ start["sleep"] \in 0 .. 1 /\ start["auto"] \in 0 .. 1
    BY StartsAssumption
  <2>. QED
    BY <2>1, <2>3, <2>4 DEF DeviceType
<1>2. current \in [Controls -> Vals]
  BY DEF NetInit, Vals
<1>3. sensors \in [Indexes -> SensorType]
  BY DEF NetInit, SensorType, Vals
<1>4. mutex \in MutexType
  BY DEF NetInit, MutexType, FreeMutex
<1>5. call \in [Threads -> CallType]
  BY CallRecords DEF NetInit
<1>6. KeyPending
  BY DEF NetInit, KeyPending, Idle
<1>. QED
  BY <1>1, <1>2, <1>3, <1>4, <1>5, <1>6 DEF NetTypeOK, NetInv

\* Locking and unlocking keep the mutex a mutex.
LEMMA MutexTypes ==
  ASSUME NEW m \in MutexType, NEW t \in Threads
  PROVE  Locked(m, t) \in MutexType /\ Unlocked(m, t) \in MutexType
<1>1. m.owner \in Threads \cup {NoOwner} /\ m.count \in Nat
  BY DEF MutexType
<1>2. Locked(m, t) \in MutexType
  BY <1>1 DEF Locked, MutexType
<1>3. FreeMutex \in MutexType
  BY DEF FreeMutex, MutexType
<1>4. m.count > 1 => [m EXCEPT !.count = @ - 1] \in MutexType
  BY <1>1 DEF MutexType
<1>5. Unlocked(m, t) \in MutexType
  <2>1. CASE m.owner # t
    BY <2>1 DEF Unlocked
  <2>2. CASE m.owner = t /\ m.count <= 1
    BY <2>2, <1>1, <1>3 DEF Unlocked
  <2>3. CASE m.owner = t /\ m.count > 1
    BY <2>3, <1>1, <1>4 DEF Unlocked
  <2>. QED
    BY <1>1, <2>1, <2>2, <2>3
<1>. QED
  BY <1>2, <1>5

\* Replacing one thread's record keeps the types and the pending keys.
LEMMA CallUpdate ==
  ASSUME NetInv, NEW t \in Threads, NEW c \in CallType,
         c.at \in {"shift", "store"} => c.key \in DOMAIN c.reply,
         call' = [call EXCEPT ![t] = c]
  PROVE  call' \in [Threads -> CallType] /\ KeyPending'
BY DEF NetInv, NetTypeOK, KeyPending

\* Every step inside venta_get_data keeps the types.
LEMMA GetStepType ==
  ASSUME NetInv, NEW t \in Threads, GetStep(t)
  PROVE  NetInv'
<1>0. /\ device \in DeviceType
      /\ current \in [Controls -> Vals]
      /\ sensors \in [Indexes -> SensorType]
      /\ mutex \in MutexType
      /\ call \in [Threads -> CallType]
  BY DEF NetInv, NetTypeOK
<1>. DEFINE c == call[t]
<1>c. /\ c \in CallType
      /\ c.reply \in Replies
      /\ c.at \in {"shift", "store"} => c.key \in DOMAIN c.reply
  BY <1>0 DEF NetInv, KeyPending, CallType
<1>. HIDE DEF c
<1>1. CASE HttpPost(t)
  <2>1. call' \in [Threads -> CallType] /\ KeyPending'
    <3>1. ASSUME NEW reply \in Replies, BeginParse(t, reply)
          PROVE  call' \in [Threads -> CallType] /\ KeyPending'
      <4>1. call' = [call EXCEPT ![t] = [c EXCEPT !.at = "parse", !.reply = reply]]
        BY <3>1, <1>0 DEF c, BeginParse
      <4>2. [c EXCEPT !.at = "parse", !.reply = reply] \in CallType
        BY <1>c DEF CallType
      <4>. QED
        BY <1>c, <4>1, <4>2, CallUpdate DEF CallType
    <3>2. device \in Replies /\ \A K \in SUBSET Keys : Restrict(device, K) \in Replies
      BY <1>0, ReplyTypes
    <3>3. ASSUME NEW rc \in Codes, GiveUp(t, rc)
          PROVE  call' \in [Threads -> CallType] /\ KeyPending'
      <4>1. Returning(rc).at = "return"
        BY DEF Returning, Idle
      <4>. QED
        BY <3>3, <4>1, CallRecords, CallUpdate DEF GiveUp
    <3>. QED
      BY <1>1, <3>1, <3>2, <3>3 DEF HttpPost, Codes
  <2>. QED
    BY <1>0, <1>1, <2>1 DEF HttpPost, BeginParse, GiveUp, NetTypeOK, NetInv
<1>2. ASSUME NEW k \in DOMAIN c.reply, ParseKey(t, k)
      PROVE  NetInv'
  <2>1. k \in Keys /\ c.reply[k] \in Vals
    BY <1>c, ReplyTypes
  <2>2. current' \in [Controls -> Vals]
    BY <1>0, <1>2, <2>1 DEF ParseKey, c
  <2>3. call' \in [Threads -> CallType] /\ KeyPending'
    <3>. DEFINE found == find_sensor_value_by_name(k)
                ch == {i \in found : Differs(sensors[i], c.reply[k])} # {}
                skip == SkipKey(c, k)
                take == TakeKey(c, k, ch)
    <3>1. skip \in CallType /\ skip.at = "parse"
      BY <1>c, <1>2, ReplyTypes DEF CallType, ParseKey, c, SkipKey
    <3>2. take \in CallType /\ take.key = k /\ take.reply = c.reply
      <4>. ch \in BOOLEAN
        OBVIOUS
      <4>. HIDE DEF ch
      <4>. QED
        BY <1>c, <2>1 DEF CallType, TakeKey
    <3>3. \/ call' = [call EXCEPT ![t] = skip]
          \/ call' = [call EXCEPT ![t] = take]
      <4>1. call' = [call EXCEPT ![t] = IF found = {} \/ c.reply[k] \in OtherTyped
                                        THEN skip ELSE take]
        BY <1>2, Zenon DEF ParseKey, c
      <4>. QED
        BY <4>1
    <3>. HIDE DEF skip, take, ch
    <3>. QED
      BY <1>2, <3>1, <3>2, <3>3, CallUpdate
  <2>. QED
    BY <1>0, <1>2, <2>2, <2>3 DEF ParseKey, NetTypeOK, NetInv
<1>3. CASE ShiftValue(t)
  <2>1. sensors' \in [Indexes -> SensorType]
    BY <1>0, <1>3 DEF ShiftValue, SensorType
  <2>2. call' = [call EXCEPT ![t] = [c EXCEPT !.at = "store"]]
    BY <1>0, <1>3 DEF ShiftValue, c
  <2>3. [c EXCEPT !.at = "store"] \in CallType /\ c.at = "shift"
    BY <1>c, <1>3 DEF CallType, ShiftValue, c
  <2>4. call' \in [Threads -> CallType] /\ KeyPending'
    BY <1>c, <2>2, <2>3, CallUpdate DEF CallType
  <2>. QED
    BY <1>0, <1>3, <2>1, <2>4 DEF ShiftValue, NetTypeOK, NetInv
<1>4. CASE StoreValue(t)
  <2>1. c.key \in DOMAIN c.reply
    BY <1>c, <1>4 DEF StoreValue, c
  <2>2. c.reply[c.key] \in Vals
    BY <1>c, <2>1, ReplyTypes
  <2>3. sensors' \in [Indexes -> SensorType]
    BY <1>0, <1>4, <2>2 DEF StoreValue, SensorType, c
  <2>. DEFINE d == [c EXCEPT !.at = "parse", !.key = "", !.reply = Without(@, c.key)]
  <2>4. call' = [call EXCEPT ![t] = d]
    BY <1>0, <1>4 DEF StoreValue, c
  <2>5. d \in CallType /\ d.at = "parse"
    BY <1>c, ReplyTypes DEF CallType
  <2>6. call' \in [Threads -> CallType] /\ KeyPending'
    BY <2>4, <2>5, CallUpdate
  <2>. QED
    BY <1>0, <1>4, <2>3, <2>6 DEF StoreValue, NetTypeOK, NetInv
<1>5. CASE ParseDone(t)
  <2>1. PICK rc \in Codes : call' = [call EXCEPT ![t] = Returning(rc)]
    BY <1>5 DEF ParseDone, Codes
  <2>2. Returning(rc) \in CallType /\ Returning(rc).at = "return"
    BY CallRecords DEF Returning, Idle
  <2>3. call' \in [Threads -> CallType] /\ KeyPending'
    BY <2>1, <2>2, CallUpdate
  <2>. QED
    BY <1>0, <1>5, <2>3, MutexTypes DEF ParseDone, NetTypeOK, NetInv
<1>. QED
  BY <1>1, <1>2, <1>3, <1>4, <1>5 DEF GetStep, c

\* Entering and leaving venta_get_data keep them too.
LEMMA StartGetType ==
  ASSUME NetInv, NEW t \in Threads, StartGet(t)
  PROVE  NetInv'
<1>1. Posting.at = "post"
  BY DEF Posting, Idle
<1>. QED
  BY <1>1, CallRecords, CallUpdate DEF StartGet, NetInv, NetTypeOK

LEMMA EndGetType ==
  ASSUME NetInv, NEW t \in Threads, EndGet(t)
  PROVE  NetInv'
<1>1. Idle.at = "idle"
  BY DEF Idle
<1>. QED
  BY <1>1, CallRecords, CallUpdate DEF EndGet, NetInv, NetTypeOK

-----------------------------------------------------------------------------
(* Type correctness.                                                       *)

\* The type invariant made inductive.
TypeInv == TypeOK /\ KeyPending

LEMMA InitType == Init => TypeInv
<1>1. Init => NetInv
  BY InitNetInv DEF Init
<1>2. Init => script \in Seq(OpType)
  BY ShortSeq DEF Init
<1>3. Init => index \in 1 .. Len(SensorNames) + 1
  BY SensorNamesAssumption DEF Init
<1>4. Init => sent \in Nat /\ owed \subseteq Indexes
  BY DEF Init
<1>. QED
  BY <1>1, <1>2, <1>3, <1>4, Zenon DEF Init, TypeInv, TypeOK, NetInv

\* The parts of the state that are not in module Network.
RestOK ==
  /\ shutdown \in BOOLEAN /\ session \in BOOLEAN /\ announced \in BOOLEAN
  /\ presentSignaled \in BOOLEAN /\ netChanges \in BOOLEAN
  /\ sent \in Nat /\ clean \in BOOLEAN
  /\ mpc \in {"work", "scene", "try", "body", "clear", "push", "freed", "join", "done", "crashed"}
  /\ scene \in Scenes \cup {NoScene}
  /\ script \in Seq(OpType)
  /\ index \in 1 .. Len(SensorNames) + 1
  /\ npc \in {"top", "sleep", "get", "pong", "done", "crashed"}
  /\ owed \subseteq Indexes

LEMMA TypeInvParts == TypeInv <=> NetInv /\ RestOK
BY DEF TypeInv, TypeOK, NetInv, RestOK

LEMMA NetUnchanged == NetInv /\ UNCHANGED netVars => NetInv'
BY DEF NetInv, NetTypeOK, KeyPending, netVars

\* A sequence of operations that is not empty.
LEMMA NextOp ==
  ASSUME NEW s \in Seq(OpType), s # <<>>
  PROVE  Head(s) \in OpType /\ Tail(s) \in Seq(OpType)
BY HeadTailProperties

LEMMA PressArg ==
  ASSUME NEW op \in OpType, op.do = "press"
  PROVE  op.arg \in Buttons
BY DEF OpType

\* What the steps of a scene do to the control of the main thread.
LEMMA SceneScripts ==
  ASSUME script \in Seq(OpType), SceneDecide
  PROVE  script' \in Seq(OpType)
<1>1. script # <<>>
  BY DEF SceneDecide, SceneStep
<1>2. Tail(script) \in Seq(OpType)
  BY <1>1, NextOp
<1>3. \A btn \in Buttons, b \in BOOLEAN : Presses(btn, b) \in Seq(OpType)
  <2>1. \A btn \in Buttons : Op("press", btn) \in OpType
    BY DEF OpType, Op
  <2>. QED
    BY <2>1, ShortSeq DEF Presses
<1>4. BtnFanUp \in Buttons /\ BtnFanDown \in Buttons /\ BtnSleep \in Buttons /\ BtnAuto \in Buttons
  BY DEF Buttons
<1>5. Op("press", BtnFanUp) \in OpType /\ Op("fan_3_to_2", 0) \in OpType
  BY <1>4 DEF OpType, Op
<1>. DEFINE op == Head(script)
<1>6. \/ script' = Presses(BtnSleep, MustToggle("sleep", op.arg)) \o Tail(script)
      \/ script' = Presses(BtnAuto, MustToggle("auto", op.arg)) \o Tail(script)
      \/ script' = <<Op("press", BtnFanUp)>> \o Tail(script)
      \/ script' = <<Op("fan_3_to_2", 0)>> \o Tail(script)
      \/ script' = Presses(BtnFanDown, current["fan"] = 3) \o Tail(script)
  BY Zenon DEF SceneDecide
<1>7. /\ MustToggle("sleep", op.arg) \in BOOLEAN
      /\ MustToggle("auto", op.arg) \in BOOLEAN
      /\ (current["fan"] = 3) \in BOOLEAN
  BY DEF MustToggle
<1>8. /\ Presses(BtnSleep, MustToggle("sleep", op.arg)) \in Seq(OpType)
      /\ Presses(BtnAuto, MustToggle("auto", op.arg)) \in Seq(OpType)
      /\ Presses(BtnFanDown, current["fan"] = 3) \in Seq(OpType)
  BY <1>3, <1>4, <1>7, Zenon
<1>9. <<Op("press", BtnFanUp)>> \in Seq(OpType) /\ <<Op("fan_3_to_2", 0)>> \in Seq(OpType)
  BY <1>5, ShortSeq
<1>10. \A s \in Seq(OpType) : s \o Tail(script) \in Seq(OpType)
  BY <1>2, ConcatProperties
<1>. QED
  BY <1>6, <1>8, <1>9, <1>10, Zenon

LEMMA MainStepType ==
  ASSUME TypeInv, MainStep
  PROVE  TypeInv'
<1>0. NetInv /\ RestOK
  BY TypeInvParts
<1>m. Main \in Threads
  BY ThreadsAssumption
<1>n. /\ device \in DeviceType
      /\ sensors \in [Indexes -> SensorType]
      /\ mutex \in MutexType
  BY <1>0 DEF NetInv, NetTypeOK
<1>s. script # <<>> => Head(script) \in OpType /\ Tail(script) \in Seq(OpType)
  BY <1>0, NextOp DEF RestOK
<1>. SUFFICES NetInv' /\ RestOK'
  BY DEF TypeInv, TypeOK, NetInv, RestOK
<1>1. CASE WorkIdle
  BY <1>0, <1>1, NetUnchanged DEF WorkIdle, history, RestOK
<1>2. CASE SessionBegin
  BY <1>0, <1>2, NetUnchanged DEF SessionBegin, RestOK
<1>3. CASE SessionEnd
  BY <1>0, <1>3, NetUnchanged DEF SessionEnd, RestOK
<1>4. ASSUME NEW sc \in Scenes, CallScene(sc)
      PROVE  NetInv' /\ RestOK'
  BY <1>0, <1>4, NetUnchanged, ScriptType DEF CallScene, RestOK
<1>5. CASE SceneGetBegin
  <2>1. NetInv'
    BY <1>0, <1>5, <1>m, StartGetType DEF SceneGetBegin
  <2>. QED
    BY <1>0, <1>5, <2>1 DEF SceneGetBegin, SceneFrame, RestOK
<1>6. CASE SceneGetStep
  <2>1. NetInv'
    BY <1>0, <1>6, <1>m, GetStepType DEF SceneGetStep
  <2>2. clean' \in BOOLEAN
    BY <1>6, Zenon DEF SceneGetStep
  <2>. QED
    BY <1>0, <1>6, <2>1, <2>2 DEF SceneGetStep, SceneFrame, RestOK
<1>7. CASE SceneGetEnd
  <2>1. NetInv'
    BY <1>0, <1>7, <1>m, EndGetType DEF SceneGetEnd
  <2>2. script' \in Seq(OpType)
    BY <1>7, <1>s DEF SceneGetEnd, SceneStep
  <2>. QED
    BY <1>0, <1>7, <2>1, <2>2 DEF SceneGetEnd, SceneFrame, RestOK
<1>8. CASE SceneDecide
  <2>1. script' \in Seq(OpType)
    BY <1>0, <1>8, SceneScripts DEF RestOK
  <2>2. UNCHANGED <<netVars, clean>> /\ SceneFrame
    BY <1>8 DEF SceneDecide
  <2>. QED
    BY <1>0, <2>1, <2>2, NetUnchanged DEF SceneFrame, RestOK
<1>9. CASE ScenePress
  <2>1. Head(script).arg \in Buttons
    BY <1>9, <1>s, PressArg DEF ScenePress, SceneStep
  <2>2. device' \in DeviceType
    BY <1>9, <1>n, <2>1, PressedType DEF ScenePress, PostButton
  <2>3. NetInv'
    BY <1>0, <1>9, <2>2 DEF ScenePress, PostButton, NetInv, NetTypeOK, KeyPending
  <2>4. clean' \in BOOLEAN
    BY <1>9, Zenon DEF ScenePress
  <2>5. script' \in Seq(OpType)
    BY <1>9, <1>s DEF ScenePress, SceneStep
  <2>. QED
    BY <1>0, <1>9, <2>3, <2>4, <2>5 DEF ScenePress, SceneFrame, RestOK
<1>10. CASE SceneEnd
  BY <1>0, <1>10, NetUnchanged DEF SceneEnd, RestOK
<1>11. CASE TryLock
  <2>1. mutex' \in MutexType
    BY <1>11, <1>n, <1>m, MutexTypes DEF TryLock
  <2>. QED
    BY <1>0, <1>11, <2>1
    DEF TryLock, BodyFrame, NetInv, NetTypeOK, KeyPending, RestOK
<1>12. CASE NoSession
  <2>1. mutex' \in MutexType
    BY <1>12, <1>n, <1>m, MutexTypes DEF NoSession
  <2>. QED
    BY <1>0, <1>12, <2>1
    DEF NoSession, BodyFrame, NetInv, NetTypeOK, KeyPending, RestOK
<1>13. CASE AnnounceSent
  BY <1>0, <1>13 DEF AnnounceSent, BodyFrame, NetInv, NetTypeOK, KeyPending, RestOK
<1>14. CASE AnnounceFailed
  BY <1>0, <1>14 DEF AnnounceFailed, BodyFrame, NetInv, NetTypeOK, KeyPending, RestOK
<1>15. CASE Identify
  BY <1>0, <1>15 DEF Identify, BodyFrame, NetInv, NetTypeOK, KeyPending, RestOK
<1>16. CASE CheckChanges
  <2>1. mutex' \in MutexType
    BY <1>16, <1>n, <1>m, MutexTypes DEF CheckChanges
  <2>. QED
    BY <1>0, <1>16, <2>1
    DEF CheckChanges, BodyFrame, NetInv, NetTypeOK, KeyPending, RestOK
<1>17. CASE ClearChanges
  BY <1>0, <1>17 DEF ClearChanges, BodyFrame, NetInv, NetTypeOK, KeyPending, RestOK
<1>18. CASE PushSensor
  <2>1. sensors' \in [Indexes -> SensorType]
    BY <1>18, <1>n DEF PushSensor, SensorType
  <2>2. index' \in 1 .. Len(SensorNames) + 1
    BY <1>18, SensorNamesAssumption DEF PushSensor, Indexes
  <2>. QED
    BY <1>0, <1>18, <2>1, <2>2
    DEF PushSensor, BodyFrame, NetInv, NetTypeOK, KeyPending, RestOK
<1>19. CASE SendPush
  <2>1. mutex' \in MutexType
    BY <1>19, <1>n, <1>m, MutexTypes DEF SendPush
  <2>2. index' \in 1 .. Len(SensorNames) + 1
    BY <1>19, SensorNamesAssumption DEF SendPush
  <2>. QED
    BY <1>0, <1>19, <2>1, <2>2
    DEF SendPush, BodyFrame, NetInv, NetTypeOK, KeyPending, RestOK
<1>20. CASE Teardown
  BY <1>0, <1>20, NetUnchanged DEF Teardown, history, RestOK
<1>. QED
  BY <1>1, <1>2, <1>3, <1>4, <1>5, <1>6, <1>7, <1>8, <1>9, <1>10, <1>11, <1>12,
     <1>13, <1>14, <1>15, <1>16, <1>17, <1>18, <1>19, <1>20 DEF MainStep

LEMMA NetStepType ==
  ASSUME TypeInv, NetStep
  PROVE  TypeInv'
<1>0. NetInv /\ RestOK
  BY TypeInvParts
<1>m. Net \in Threads
  BY ThreadsAssumption
<1>. SUFFICES NetInv' /\ RestOK'
  BY DEF TypeInv, TypeOK, NetInv, RestOK
<1>1. CASE NetTop
  BY <1>0, <1>1, NetUnchanged DEF NetTop, NetFrame, mainVars, RestOK
<1>2. CASE NetNotDue
  BY <1>0, <1>2, NetUnchanged DEF NetNotDue, NetFrame, mainVars, RestOK
<1>3. CASE NetPoll
  <2>1. NetInv'
    BY <1>0, <1>3, <1>m, StartGetType DEF NetPoll
  <2>. QED
    BY <1>0, <1>3, <2>1 DEF NetPoll, NetFrame, mainVars, RestOK
<1>4. CASE NetGetStep
  <2>1. NetInv'
    BY <1>0, <1>4, <1>m, GetStepType DEF NetGetStep
  <2>2. clean' \in BOOLEAN
    BY <1>4, Zenon DEF NetGetStep
  <2>. QED
    BY <1>0, <1>4, <2>1, <2>2 DEF NetGetStep, NetFrame, mainVars, RestOK
<1>5. CASE NetReturn
  <2>1. NetInv'
    BY <1>0, <1>5, <1>m, EndGetType DEF NetReturn
  <2>2. netChanges' \in BOOLEAN
    BY <1>5, Zenon DEF NetReturn
  <2>. QED
    BY <1>0, <1>5, <2>1, <2>2 DEF NetReturn, NetFrame, mainVars, RestOK
<1>6. CASE NetPong
  BY <1>0, <1>6, NetUnchanged DEF NetPong, NetFrame, mainVars, RestOK
<1>7. CASE Crash
  BY <1>0, <1>7, NetUnchanged DEF Crash, history, RestOK
<1>. QED
  BY <1>1, <1>2, <1>3, <1>4, <1>5, <1>6, <1>7 DEF NetStep, NetRun

LEMMA EnvironmentType ==
  ASSUME TypeInv, Environment
  PROVE  TypeInv'
<1>0. NetInv /\ RestOK
  BY TypeInvParts
<1>n. device \in DeviceType
  BY <1>0 DEF NetInv, NetTypeOK
<1>. SUFFICES NetInv' /\ RestOK'
  BY DEF TypeInv, TypeOK, NetInv, RestOK
<1>1. CASE Signal
  BY <1>0, <1>1, NetUnchanged DEF Signal, mainVars, history, RestOK
<1>2. CASE DeviceDrift
  <2>1. PICK q \in Quantities, v \in Readings : device' = [device EXCEPT ![q] = v]
    BY <1>2 DEF DeviceDrift, Drift
  <2>2. device' \in DeviceType
    <3>1. q \in Keys /\ q \notin {"fan", "sleep", "auto"} /\ v \in Vals
      BY DEF Quantities, Controls, Vals
    <3>2. device \in [Keys -> Vals] /\ {"fan", "sleep", "auto"} \subseteq Keys
      BY <1>n, KeyOrderAssumption DEF DeviceType, Controls
    <3>3. /\ device' \in [Keys -> Vals]
          /\ \A c \in {"fan", "sleep", "auto"} : device'[c] = device[c]
      BY <2>1, <3>1, <3>2
    <3>. QED
      BY <1>n, <3>3 DEF DeviceType
  <2>. QED
    BY <1>0, <1>2, <2>2
    DEF DeviceDrift, Drift, NetInv, NetTypeOK, KeyPending, mainVars, history, RestOK
<1>3. ASSUME NEW btn \in UserButtons, UserPress(btn)
      PROVE  NetInv' /\ RestOK'
  <2>1. device' \in DeviceType
    BY <1>n, <1>3, PressedType, UserButtonsAssumption DEF UserPress
  <2>2. NetInv'
    BY <1>0, <1>3, <2>1 DEF UserPress, NetInv, NetTypeOK, KeyPending
  <2>3. clean' \in BOOLEAN /\ UNCHANGED <<mainVars, shutdown, netChanges, npc, sent, owed>>
    BY <1>3 DEF UserPress
  <2>. QED
    BY <1>0, <2>2, <2>3 DEF mainVars, RestOK
<1>. QED
  BY <1>1, <1>2, <1>3 DEF Environment

LEMMA NextType == TypeInv /\ [Next]_vars => TypeInv'
<1>1. ASSUME TypeInv, UNCHANGED vars
      PROVE  TypeInv'
  <2>1. NetInv' /\ RestOK'
    BY <1>1, TypeInvParts, NetUnchanged DEF vars, mainVars, history, RestOK
  <2>. QED
    BY <2>1 DEF TypeInv, TypeOK, NetInv, RestOK
<1>. QED
  BY <1>1, MainStepType, NetStepType, EnvironmentType DEF Next, Stopped

\* In every state of every run each variable has its type: a key to store is
\* always one of the answer (network.c:264-308), the index of push_sensor_data
\* never leaves the configured sensors (main.c:133-157), and the fan and the
\* modes of the humifier stay in range whatever scene presses (vdsd.c:152-197).
THEOREM TypeCorrect == Spec => []TypeOK
<1>1. TypeInv => TypeOK
  BY DEF TypeInv
<1>. QED
  BY InitType, NextType, <1>1, PTL DEF Spec

-----------------------------------------------------------------------------
(* The mutex.                                                              *)

\* The unlock of a thread that is not the owner has no effect; the unlock of
\* the owner leaves the mutex with the same owner or with none.
LEMMA UnlockEffect ==
  ASSUME NEW m \in MutexType, NEW t \in Threads
  PROVE  /\ m.owner # t => Unlocked(m, t) = m
         /\ m.owner = t => Unlocked(m, t).owner \in {t, NoOwner}
         /\ Locked(m, t).owner = t /\ Locked(m, t).count >= 1
<1>1. m.owner \in Threads \cup {NoOwner} /\ m.count \in Nat
  BY DEF MutexType
<1>2. m.owner # t => Unlocked(m, t) = m
  BY DEF Unlocked
<1>3. m.owner = t => Unlocked(m, t).owner \in {t, NoOwner}
  <2>1. CASE m.owner = t /\ m.count <= 1
    BY <2>1, <1>1 DEF Unlocked, FreeMutex
  <2>2. CASE m.owner = t /\ m.count > 1
    <3>1. Unlocked(m, t) = [m EXCEPT !.count = @ - 1]
      BY <2>2, <1>1 DEF Unlocked
    <3>. QED
      BY <3>1, <2>2 DEF MutexType
  <2>. QED
    BY <1>1, <2>1, <2>2
<1>4. Locked(m, t).owner = t /\ Locked(m, t).count >= 1
  BY <1>1 DEF Locked
<1>. QED
  BY <1>2, <1>3, <1>4

\* A step inside venta_get_data changes the mutex only if its thread owns it.
LEMMA GetStepMutex ==
  ASSUME NetInv, NEW t \in Threads, GetStep(t)
  PROVE  mutex' = mutex \/ mutex' = Unlocked(mutex, t)
BY DEF GetStep, HttpPost, BeginParse, GiveUp, ParseKey, ShiftValue, StoreValue, ParseDone

LEMMA MutexSafeStep ==
  ASSUME TypeInv, MutexSafe, [Next]_vars
  PROVE  MutexSafe'
<1>0. NetInv /\ RestOK /\ mutex \in MutexType
  BY TypeInvParts DEF NetInv, NetTypeOK
<1>t. Main \in Threads /\ Net \in Threads /\ Main # Net /\ NoOwner # Main /\ NoOwner # Net
  BY ThreadsAssumption, NoOwnerAssumption DEF Main, Net
<1>u. /\ Unlocked(mutex, Net) = mutex
      /\ Unlocked(mutex, Main).owner # Net
      /\ Locked(mutex, Main).owner = Main /\ Locked(mutex, Main).count >= 1
  BY <1>0, <1>t, UnlockEffect DEF MutexSafe
\* A step that leaves the mutex alone and does not enter the loop body.
<1>a. ASSUME mutex' = mutex,
             mpc' \in {"body", "clear", "push"} => mpc \in {"body", "clear", "push"}
      PROVE  MutexSafe'
  BY <1>a DEF MutexSafe
\* A step of the main thread that unlocks and is outside the body afterwards.
<1>b. ASSUME mutex' \in {mutex, Unlocked(mutex, Main)},
             mpc' \notin {"body", "clear", "push"}
      PROVE  MutexSafe'
  BY <1>b, <1>u DEF MutexSafe
<1>1. CASE WorkIdle \/ SessionBegin \/ SessionEnd \/ \E sc \in Scenes : CallScene(sc)
  BY <1>1, <1>a DEF WorkIdle, SessionBegin, SessionEnd, CallScene, netVars
<1>2. CASE SceneGetBegin \/ SceneGetEnd \/ SceneDecide \/ ScenePress \/ SceneEnd
  BY <1>2, <1>a
  DEF SceneGetBegin, SceneGetEnd, SceneDecide, ScenePress, SceneEnd, SceneFrame,
      StartGet, EndGet, PostButton, netVars
<1>3. CASE SceneGetStep
  <2>1. mutex' \in {mutex, Unlocked(mutex, Main)}
    BY <1>0, <1>3, <1>t, GetStepMutex DEF SceneGetStep
  <2>2. mpc' = "scene"
    BY <1>3 DEF SceneGetStep, SceneFrame
  <2>. QED
    BY <1>b, <2>1, <2>2
<1>4. CASE TryLock
  <2>1. CASE CanLock(mutex, Main)
    BY <1>4, <1>t, <1>u, <2>1 DEF TryLock, MutexSafe
  <2>2. CASE ~CanLock(mutex, Main)
    BY <1>4, <1>a, <2>2 DEF TryLock
  <2>. QED
    BY <2>1, <2>2
<1>5. CASE NoSession \/ SendPush
  BY <1>5, <1>b DEF NoSession, SendPush
<1>6. CASE AnnounceSent \/ AnnounceFailed \/ Identify \/ ClearChanges \/ PushSensor
  BY <1>6, <1>a DEF AnnounceSent, AnnounceFailed, Identify, ClearChanges, PushSensor
<1>7. CASE CheckChanges
  BY <1>7, <1>a, <1>b DEF CheckChanges
<1>8. CASE Teardown
  BY <1>8, <1>a DEF Teardown, netVars
<1>9. CASE NetTop \/ NetNotDue \/ NetPoll \/ NetReturn \/ NetPong
  BY <1>9, <1>a DEF NetTop, NetNotDue, NetPoll, NetReturn, NetPong, NetFrame, StartGet, EndGet,
                    netVars, mainVars
<1>10. CASE NetGetStep
  <2>1. mutex' = mutex
    BY <1>0, <1>10, <1>t, <1>u, GetStepMutex DEF NetGetStep
  <2>. QED
    BY <1>10, <1>a, <2>1 DEF NetGetStep, NetFrame, mainVars
<1>11. CASE Crash
  BY <1>11, <1>a DEF Crash, netVars
<1>12. CASE Environment
  BY <1>12, <1>a DEF Environment, Signal, DeviceDrift, Drift, UserPress, netVars, mainVars
<1>13. CASE UNCHANGED vars
  BY <1>13, <1>a DEF vars, netVars, mainVars
<1>. QED
  BY <1>1, <1>2, <1>3, <1>4, <1>5, <1>6, <1>7, <1>8, <1>9, <1>10, <1>11, <1>12, <1>13
  DEF Next, MainStep, NetStep, NetRun, Stopped

LEMMA InitMutex == Init => MutexSafe
BY NoOwnerAssumption, ThreadsAssumption DEF Init, NetInit, FreeMutex, MutexSafe, Net

\* The unlock without a lock in parse_json_data (network.c:314), whichever
\* thread runs it and whatever levels the main loop has leaked, never takes the
\* mutex from under the body of the main loop (main.c:300-344).
THEOREM MutexIsSafe == Spec => []MutexSafe
<1>1. Init => MutexSafe
  BY InitMutex
<1>2. TypeInv /\ MutexSafe /\ [Next]_vars => (TypeInv /\ MutexSafe)'
  BY NextType, MutexSafeStep
<1>. QED
  BY InitType, <1>1, <1>2, PTL DEF Spec

-----------------------------------------------------------------------------
(* The announcement.                                                       *)

\* The main loop's look at the session makes AnnouncedIsCurrent inductive: when
\* it is back in dsvdc_work without a session, announced is reset.  That look
\* never misses because trylock never fails, which is why MutexSafe is needed.
WorkUnannounced == mpc = "work" /\ ~session => ~announced

\* The flag tells whether an announcement has been sent in this session.
FlagTells == session => sent = IF announced THEN 1 ELSE 0

SessionInv == AnnouncedIsCurrent /\ WorkUnannounced /\ FlagTells

LEMMA SessionStep ==
  ASSUME TypeInv, MutexSafe, SessionInv, [Next]_vars
  PROVE  SessionInv'
<1>0. /\ session => (announced => sent > 0)
      /\ mpc \in {"clear", "push"} => session /\ sent > 0
      /\ mpc = "work" /\ ~session => ~announced
      /\ session => sent = IF announced THEN 1 ELSE 0
      /\ announced \in BOOLEAN
  BY TypeInvParts DEF SessionInv, AnnouncedIsCurrent, WorkUnannounced, FlagTells, RestOK
<1>t. CanLock(mutex, Main)
  <2>1. mutex.owner \in {Main, Net, NoOwner}
    BY ThreadsAssumption, TypeInvParts DEF NetInv, NetTypeOK, MutexType
  <2>. QED
    BY <2>1 DEF MutexSafe, CanLock
\* A step that leaves the session, the flag and the count of announcements
\* alone, and is not on its way back to dsvdc_work or to the push.
<1>a. ASSUME UNCHANGED <<session, announced, sent>>,
             mpc' \in {"work", "clear", "push"} => mpc' = mpc \/ (session /\ announced)
      PROVE  SessionInv'
  BY <1>0, <1>a DEF SessionInv, AnnouncedIsCurrent, WorkUnannounced, FlagTells
<1>1. CASE WorkIdle \/ SceneEnd \/ \E sc \in Scenes : CallScene(sc)
  BY <1>1, <1>a DEF WorkIdle, SceneEnd, CallScene, history
<1>2. CASE SessionBegin
  BY <1>0, <1>2
  DEF SessionBegin, Working, SessionInv, AnnouncedIsCurrent, WorkUnannounced, FlagTells
<1>3. CASE SessionEnd
  BY <1>3 DEF SessionEnd, SessionInv, AnnouncedIsCurrent, WorkUnannounced, FlagTells
<1>4. CASE SceneGetBegin \/ SceneGetStep \/ SceneGetEnd \/ SceneDecide \/ ScenePress
  BY <1>4, <1>a
  DEF SceneGetBegin, SceneGetStep, SceneGetEnd, SceneDecide, ScenePress, SceneFrame
<1>5. CASE TryLock
  BY <1>5, <1>a, <1>t DEF TryLock, BodyFrame
<1>6. CASE NoSession
  BY <1>6 DEF NoSession, BodyFrame, SessionInv, AnnouncedIsCurrent, WorkUnannounced, FlagTells
<1>7. CASE AnnounceSent
  BY <1>0, <1>7
  DEF AnnounceSent, BodyFrame, SessionInv, AnnouncedIsCurrent, WorkUnannounced, FlagTells
<1>8. CASE AnnounceFailed
  BY <1>0, <1>8
  DEF AnnounceFailed, BodyFrame, SessionInv, AnnouncedIsCurrent, WorkUnannounced, FlagTells
<1>9. CASE Identify \/ CheckChanges
  BY <1>9, <1>a DEF Identify, CheckChanges, BodyFrame
<1>10. CASE ClearChanges \/ PushSensor \/ SendPush
  BY <1>0, <1>10
  DEF ClearChanges, PushSensor, SendPush, BodyFrame,
      SessionInv, AnnouncedIsCurrent, WorkUnannounced, FlagTells
<1>11. CASE Teardown
  BY <1>11, <1>a DEF Teardown, history
<1>12. CASE NetStep
  BY <1>12, <1>a
  DEF NetStep, NetRun, NetTop, NetNotDue, NetPoll, NetGetStep, NetReturn, NetPong, Crash, NetFrame,
      mainVars, history
<1>13. CASE Environment
  BY <1>13, <1>a DEF Environment, Signal, DeviceDrift, UserPress, mainVars, history
<1>14. CASE UNCHANGED vars
  BY <1>14, <1>a DEF vars, mainVars, history
<1>. QED
  BY <1>1, <1>2, <1>3, <1>4, <1>5, <1>6, <1>7, <1>8, <1>9, <1>10, <1>11, <1>12, <1>13,
     <1>14
  DEF Next, MainStep, Stopped

LEMMA InitSession == Init => SessionInv
BY DEF Init, SessionInv, AnnouncedIsCurrent, WorkUnannounced, FlagTells

\* However many sessions come and go, the device counts as announced only when
\* its announcement has been sent in this session, and sensor values are pushed
\* only behind it (main.c:112-119, 304-313, vdsd.c:77-82).  What the DSS answers
\* to the announcement is not asked, here as in the code.
THEOREM AnnouncedStaysCurrent == Spec => []AnnouncedIsCurrent
<1>1. Init => MutexSafe /\ SessionInv
  BY InitMutex, InitSession
<1>2. TypeInv /\ MutexSafe /\ SessionInv /\ [Next]_vars => (TypeInv /\ MutexSafe /\ SessionInv)'
  BY NextType, MutexSafeStep, SessionStep
<1>3. SessionInv => AnnouncedIsCurrent
  BY DEF SessionInv
<1>. QED
  BY InitType, <1>1, <1>2, <1>3, PTL DEF Spec

-----------------------------------------------------------------------------
(* The signal from the network thread to the main loop.                    *)

\* push_sensor_data always starts with the first sensor.
SignalInv == NoLostSignal /\ (mpc # "push" => index = 1)

LEMMA SignalStep ==
  ASSUME TypeInv, SignalInv, [Next]_vars
  PROVE  SignalInv'
<1>0. /\ owed # {} => \/ netChanges
                      \/ mpc = "clear"
                      \/ mpc = "push" /\ \A i \in owed : i >= index
      /\ mpc # "push" => index = 1
  BY DEF SignalInv, NoLostSignal
<1>t. /\ owed \subseteq 1 .. Len(SensorNames)
      /\ index \in 1 .. Len(SensorNames) + 1
      /\ Len(SensorNames) \in Nat
  BY SensorNamesAssumption, TypeInvParts DEF RestOK, Indexes
\* A step that touches neither the signal nor the push.
<1>a. ASSUME UNCHANGED <<owed, netChanges, index>>,
             mpc' = mpc \/ {mpc, mpc'} \cap {"clear", "push"} = {}
      PROVE  SignalInv'
  BY <1>0, <1>a DEF SignalInv, NoLostSignal
<1>1. CASE WorkIdle \/ SessionBegin \/ SessionEnd \/ SceneEnd \/ \E sc \in Scenes : CallScene(sc)
  BY <1>1, <1>a DEF WorkIdle, SessionBegin, SessionEnd, SceneEnd, CallScene, Working, history
<1>2. CASE SceneGetBegin \/ SceneGetStep \/ SceneGetEnd \/ SceneDecide \/ ScenePress
  BY <1>2, <1>a
  DEF SceneGetBegin, SceneGetStep, SceneGetEnd, SceneDecide, ScenePress, SceneFrame
<1>3. CASE TryLock \/ NoSession \/ AnnounceSent \/ AnnounceFailed \/ Identify
  BY <1>3, <1>a
  DEF TryLock, NoSession, AnnounceSent, AnnounceFailed, Identify
<1>4. CASE CheckChanges
  BY <1>0, <1>4 DEF CheckChanges, SignalInv, NoLostSignal
<1>5. CASE ClearChanges
  BY <1>0, <1>t, <1>5 DEF ClearChanges, SignalInv, NoLostSignal
<1>6. CASE PushSensor
  BY <1>0, <1>t, <1>6 DEF PushSensor, SignalInv, NoLostSignal
<1>7. CASE SendPush
  <2>1. index = Len(SensorNames) + 1
    BY <1>t, <1>7 DEF SendPush, Indexes
  <2>2. owed = {} \/ netChanges
    BY <1>0, <1>t, <1>7, <2>1 DEF SendPush
  <2>. QED
    BY <1>7, <2>2 DEF SendPush, SignalInv, NoLostSignal
<1>8. CASE Teardown
  BY <1>8, <1>a DEF Teardown, history
<1>9. CASE NetTop \/ NetNotDue \/ NetPoll \/ NetGetStep \/ NetPong
  BY <1>9, <1>a DEF NetTop, NetNotDue, NetPoll, NetGetStep, NetPong, NetFrame, mainVars
<1>10. CASE NetReturn
  BY <1>0, <1>10 DEF NetReturn, NetFrame, mainVars, SignalInv, NoLostSignal
<1>11. CASE Crash
  BY <1>11, <1>a DEF Crash, UsesFreed, history
<1>12. CASE Environment
  BY <1>12, <1>a DEF Environment, Signal, DeviceDrift, UserPress, mainVars, history
<1>13. CASE UNCHANGED vars
  BY <1>13, <1>a DEF vars, mainVars, history
<1>. QED
  BY <1>1, <1>2, <1>3, <1>4, <1>5, <1>6, <1>7, <1>8, <1>9, <1>10, <1>11, <1>12, <1>13
  DEF Next, MainStep, NetStep, NetRun, Stopped

LEMMA InitSignal == Init => SignalInv
BY DEF Init, SignalInv, NoLostSignal

\* The unlocked hand-over of g_network_changes (main.c:90, 331-332) loses no
\* signal: whatever the two threads do in between, a signalled change stays
\* pending until each sensor is pushed or a later poll takes the signal back.
THEOREM NoSignalIsLost == Spec => []NoLostSignal
<1>1. Init => SignalInv
  BY InitSignal
<1>2. TypeInv /\ SignalInv /\ [Next]_vars => (TypeInv /\ SignalInv)'
  BY NextType, SignalStep
<1>3. SignalInv => NoLostSignal
  BY DEF SignalInv
<1>. QED
  BY InitType, <1>1, <1>2, <1>3, PTL DEF Spec

=============================================================================

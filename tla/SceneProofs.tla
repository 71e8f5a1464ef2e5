---------------------------- MODULE SceneProofs -----------------------------
(***************************************************************************)
(* SceneReached for every scene: what the call-scene handler of vdsd.c     *)
(* promises while nothing disturbs it, whatever the network thread does at *)
(* the same time.                                                          *)
(*                                                                         *)
(* A scene goes through stages.  A stage says what is left of the script   *)
(* and what the settings of the humifier, d, and the values in memory, c,  *)
(* have to do with the scene by then.                                      *)
(***************************************************************************)
EXTENDS VdcProofs

-----------------------------------------------------------------------------
(* Scripts, from the back to the front.                                    *)

Cons(op, s) == <<op>> \o s

Get == Op("get", 0)
PressUp == Op("press", BtnFanUp)
PressDown == Op("press", BtnFanDown)

FanRest(sc) == FanScript(sc)

AutoRest(sc) ==
  IF sc.auto >= 0 THEN Cons(Get, Cons(Op("auto", sc.auto), FanRest(sc))) ELSE FanRest(sc)

DownRest(sc) == IF sc.sleep = 1 THEN Cons(PressDown, Cons(PressDown, AutoRest(sc))) ELSE AutoRest(sc)

SleepRest(sc) ==
  IF sc.sleep >= 0 THEN Cons(Get, Cons(Op("sleep", sc.sleep), DownRest(sc))) ELSE AutoRest(sc)

-----------------------------------------------------------------------------
(* The stages.                                                             *)

Synced(d, c) == \A k \in Controls : c[k] = d[k]
FanKnown(d, c) == c["fan"] = d["fan"]

Slept(sc, d) == sc.sleep >= 0 => d["sleep"] = sc.sleep
Switched(sc, d) == sc.auto >= 0 => d["auto"] = sc.auto

\* Sleep mode comes with fan level 1, unless a level is configured.
Lowered(sc, d) == sc.sleep = 1 => d["fan"] = 1

\* Level 2 is promised when the values are read after the last change of the
\* fan by the scene itself.
Claims2(sc) == sc.fan = 2 /\ (sc.sleep <= 0 \/ sc.auto >= 0)

\* Reading, deciding on and changing the sleep mode, then the fan.
StageStart(sc, s, d, c) == s = Cons(Get, SleepRest(sc))

StageSleepGet(sc, s, d, c) ==
  sc.sleep >= 0 /\ s = Cons(Get, Cons(Op("sleep", sc.sleep), DownRest(sc)))

StageSleepDecide(sc, s, d, c) ==
  sc.sleep >= 0 /\ s = Cons(Op("sleep", sc.sleep), DownRest(sc)) /\ Synced(d, c)

StageSleepPress(sc, s, d, c) ==
  /\ sc.sleep >= 0 /\ s = Cons(Op("press", BtnSleep), DownRest(sc))
  /\ d["sleep"] = 1 - sc.sleep /\ FanKnown(d, c)

StageDownTwice(sc, s, d, c) ==
  sc.sleep = 1 /\ s = Cons(PressDown, Cons(PressDown, AutoRest(sc))) /\ Slept(sc, d)

StageDownOnce(sc, s, d, c) ==
  sc.sleep = 1 /\ s = Cons(PressDown, AutoRest(sc)) /\ Slept(sc, d) /\ d["fan"] <= 2

\* The automatic mode.
StageAutoGet(sc, s, d, c) ==
  /\ sc.auto >= 0 /\ s = Cons(Get, Cons(Op("auto", sc.auto), FanRest(sc)))
  /\ Slept(sc, d) /\ Lowered(sc, d)

StageAutoDecide(sc, s, d, c) ==
  /\ sc.auto >= 0 /\ s = Cons(Op("auto", sc.auto), FanRest(sc))
  /\ Slept(sc, d) /\ Lowered(sc, d) /\ Synced(d, c)

StageAutoPress(sc, s, d, c) ==
  /\ sc.auto >= 0 /\ s = Cons(Op("press", BtnAuto), FanRest(sc))
  /\ Slept(sc, d) /\ Lowered(sc, d) /\ d["auto"] = 1 - sc.auto /\ FanKnown(d, c)

\* The fan.
StageFanOne(sc, s, d, c) ==
  /\ sc.fan = 1 /\ Slept(sc, d) /\ Switched(sc, d)
  /\ s = Cons(PressDown, Cons(PressDown, <<>>)) \/ (s = Cons(PressDown, <<>>) /\ d["fan"] <= 2)

StageFanThree(sc, s, d, c) ==
  /\ sc.fan = 3 /\ Slept(sc, d) /\ Switched(sc, d)
  /\ s = Cons(PressUp, Cons(PressUp, <<>>)) \/ (s = Cons(PressUp, <<>>) /\ d["fan"] >= 2)

StageFanTwo(sc, s, d, c) ==
  /\ sc.fan = 2 /\ Slept(sc, d) /\ Switched(sc, d)
  /\ \/ s = Cons(Op("fan_1_to_2", 0), <<>>) /\ (Claims2(sc) => FanKnown(d, c))
     \/ s = Cons(Op("fan_3_to_2", 0), <<>>) /\ (Claims2(sc) => FanKnown(d, c) /\ d["fan"] # 1)
     \/ s = Cons(PressUp, <<>>) /\ (Claims2(sc) => d["fan"] = 1)
     \/ s = Cons(PressDown, <<>>) /\ (Claims2(sc) => d["fan"] = 3)

\* The end: what Reached says of the humifier d.
Settled(sc, d) ==
  /\ Slept(sc, d) /\ Switched(sc, d)
  /\ sc.fan \in {1, 3} => d["fan"] = sc.fan
  /\ Claims2(sc) => d["fan"] = 2
  /\ sc.fan \notin 1 .. 3 => Lowered(sc, d)

StageDone(sc, s, d, c) == s = <<>> /\ Settled(sc, d)

Stage(sc, s, d, c) ==
  \/ StageStart(sc, s, d, c)
  \/ StageSleepGet(sc, s, d, c) \/ StageSleepDecide(sc, s, d, c) \/ StageSleepPress(sc, s, d, c)
  \/ StageDownTwice(sc, s, d, c) \/ StageDownOnce(sc, s, d, c)
  \/ StageAutoGet(sc, s, d, c) \/ StageAutoDecide(sc, s, d, c) \/ StageAutoPress(sc, s, d, c)
  \/ StageFanOne(sc, s, d, c) \/ StageFanTwo(sc, s, d, c) \/ StageFanThree(sc, s, d, c)
  \/ StageDone(sc, s, d, c)

-----------------------------------------------------------------------------
(* The inductive invariant.                                                *)

\* The main thread is inside venta_get_data only where its script says so.
CallInv ==
  call[Main].at # "idle" => mpc = "scene" /\ script # <<>> /\ Head(script).do = "get"

\* Its answer is what the humifier has; the keys that are done are in memory.
GetInv ==
  /\ call[Main].at \in {"parse", "shift", "store"} =>
       \A k \in Controls :
         IF k \in DOMAIN call[Main].reply
         THEN call[Main].reply[k] = device[k]
         ELSE current[k] = device[k]
  /\ call[Main].at \in {"shift", "store"} /\ call[Main].key \in Controls =>
       current[call[Main].key] = device[call[Main].key]
  /\ call[Main].at = "return" => Synced(device, current)

StageInv == clean /\ mpc = "scene" => GetInv /\ Stage(scene, script, device, current)

SceneInv == CallInv /\ StageInv

-----------------------------------------------------------------------------
(* Facts about scripts.                                                    *)

LEMMA ConsProperties ==
  ASSUME NEW op \in OpType, NEW s \in Seq(OpType)
  PROVE  /\ Cons(op, s) \in Seq(OpType)
         /\ Cons(op, s) # <<>>
         /\ Head(Cons(op, s)) = op
         /\ Tail(Cons(op, s)) = s
BY DEF Cons

LEMMA PairIs ==
  ASSUME NEW a \in OpType, NEW b \in OpType
  PROVE  <<a>> \o <<b>> = <<a, b>>
<1> DEFINE s == <<a>>
           t == <<b>>
           u == <<a, b>>
<1>1. /\ s \in Seq(OpType) /\ t \in Seq(OpType) /\ u \in Seq(OpType)
      /\ Len(s) = 1 /\ Len(t) = 1 /\ Len(u) = 2
      /\ s[1] = a /\ t[1] = b /\ u[1] = a /\ u[2] = b
  BY ShortSeq
<1> HIDE DEF s, t, u
<1>2. /\ s \o t \in Seq(OpType)
      /\ Len(s \o t) = Len(s) + Len(t)
      /\ \A i \in 1 .. Len(s) + Len(t) :
           (s \o t)[i] = IF i <= Len(s) THEN s[i] ELSE t[i - Len(s)]
  BY <1>1, ConcatProperties
<1>3. Len(s \o t) = 2 /\ (s \o t)[1] = a /\ (s \o t)[2] = b
  BY <1>1, <1>2
<1>4. s \o t = u
  BY <1>1, <1>2, <1>3, SeqEqual
<1> QED
  BY <1>4 DEF s, t, u

LEMMA Associative ==
  ASSUME NEW s \in Seq(OpType), NEW t \in Seq(OpType), NEW u \in Seq(OpType)
  PROVE  (s \o t) \o u = s \o (t \o u)
<1>1. \A S : \A a \in Seq(S) : \A b \in Seq(S) : \A c \in Seq(S) :
        (a \o b) \o c = a \o (b \o c)
  BY ConcatAssociative
<1> QED
  BY <1>1

LEMMA ShortCons ==
  ASSUME NEW op \in OpType
  PROVE  Cons(op, <<>>) = <<op>> /\ Cons(op, Cons(op, <<>>)) = <<op, op>>
<1>1. <<op>> \in Seq(OpType) /\ <<op>> \o <<>> = <<op>>
  BY ShortSeq, ConcatEmptySeq
<1> QED
  BY <1>1, PairIs DEF Cons

LEMMA PairCons ==
  ASSUME NEW a \in OpType, NEW b \in OpType, NEW s \in Seq(OpType)
  PROVE  <<a, b>> \o s = Cons(a, Cons(b, s))
<1>1. <<a>> \in Seq(OpType) /\ <<b>> \in Seq(OpType)
  BY ShortSeq
<1>2. (<<a>> \o <<b>>) \o s = <<a>> \o (<<b>> \o s)
  BY <1>1, Associative
<1> QED
  BY <1>2, PairIs DEF Cons

LEMMA OpsTyped ==
  /\ Get \in OpType /\ PressUp \in OpType /\ PressDown \in OpType
  /\ Op("fan_1_to_2", 0) \in OpType /\ Op("fan_3_to_2", 0) \in OpType
  /\ \A mode \in {"sleep", "auto"}, on \in {0, 1} : Op(mode, on) \in OpType
  /\ \A btn \in Buttons : Op("press", btn) \in OpType
BY DEF Get, PressUp, PressDown, Op, OpType, Buttons

\* What each operation is.
LEMMA OpFields ==
  \A do, arg : Op(do, arg).do = do /\ Op(do, arg).arg = arg
BY DEF Op

AnyScene == [fan : -1 .. 3, sleep : -1 .. 1, auto : -1 .. 1]

LEMMA ScenesKnown == Scenes \cup {NoScene} \subseteq AnyScene
BY ScenesAssumption DEF NoScene, AnyScene

LEMMA SceneRange ==
  ASSUME NEW sc \in AnyScene
  PROVE  sc.fan \in -1 .. 3 /\ sc.sleep \in -1 .. 1 /\ sc.auto \in -1 .. 1
BY DEF AnyScene

LEMMA FanRestIs ==
  ASSUME NEW sc \in AnyScene
  PROVE  /\ FanRest(sc) \in Seq(OpType)
         /\ sc.fan = 1 => FanRest(sc) = Cons(PressDown, Cons(PressDown, <<>>))
         /\ sc.fan = 2 => FanRest(sc) = Cons(Op("fan_1_to_2", 0), <<>>)
         /\ sc.fan = 3 => FanRest(sc) = Cons(PressUp, Cons(PressUp, <<>>))
         /\ sc.fan \notin 1 .. 3 => FanRest(sc) = <<>>
<1>1. \A op \in OpType : Cons(op, <<>>) = <<op>> /\ Cons(op, Cons(op, <<>>)) = <<op, op>>
  BY ShortCons
<1>2. Twice(BtnFanDown) = <<PressDown, PressDown>> /\ Twice(BtnFanUp) = <<PressUp, PressUp>>
  BY DEF Twice, PressDown, PressUp
<1>3. sc.fan = 1 => FanRest(sc) = Cons(PressDown, Cons(PressDown, <<>>))
  BY <1>1, <1>2, OpsTyped DEF FanRest, FanScript
<1>4. sc.fan = 2 => FanRest(sc) = Cons(Op("fan_1_to_2", 0), <<>>)
  BY <1>1, OpsTyped DEF FanRest, FanScript, FanToTwo
<1>5. sc.fan = 3 => FanRest(sc) = Cons(PressUp, Cons(PressUp, <<>>))
  BY <1>1, <1>2, OpsTyped DEF FanRest, FanScript
<1>6. sc.fan \notin 1 .. 3 => FanRest(sc) = <<>>
  BY SceneRange DEF FanRest, FanScript
<1>7. <<>> \in Seq(OpType)
  OBVIOUS
<1>8. FanRest(sc) \in Seq(OpType)
  <2>1. \A op \in OpType : /\ Cons(op, <<>>) \in Seq(OpType)
                           /\ Cons(op, Cons(op, <<>>)) \in Seq(OpType)
    BY <1>7, ConsProperties
  <2>2. CASE sc.fan = 1
    BY <1>3, <2>1, <2>2, OpsTyped
  <2>3. CASE sc.fan = 2
    BY <1>4, <2>1, <2>3, OpsTyped
  <2>4. CASE sc.fan = 3
    BY <1>5, <2>1, <2>4, OpsTyped
  <2>5. CASE sc.fan \notin 1 .. 3
    BY <1>6, <1>7, <2>5
  <2> QED
    BY <2>2, <2>3, <2>4, <2>5, SceneRange
<1> QED
  BY <1>3, <1>4, <1>5, <1>6, <1>8

LEMMA RestsTyped ==
  ASSUME NEW sc \in AnyScene
  PROVE  /\ AutoRest(sc) \in Seq(OpType)
         /\ DownRest(sc) \in Seq(OpType)
         /\ SleepRest(sc) \in Seq(OpType)
<1>1. sc.auto >= 0 => Op("auto", sc.auto) \in OpType
  BY SceneRange, OpsTyped
<1>2. sc.sleep >= 0 => Op("sleep", sc.sleep) \in OpType
  BY SceneRange, OpsTyped
<1>3. AutoRest(sc) \in Seq(OpType)
  BY <1>1, FanRestIs, OpsTyped, ConsProperties DEF AutoRest
<1>4. DownRest(sc) \in Seq(OpType)
  BY <1>3, OpsTyped, ConsProperties DEF DownRest
<1>5. SleepRest(sc) \in Seq(OpType)
  BY <1>2, <1>3, <1>4, OpsTyped, ConsProperties DEF SleepRest
<1> QED
  BY <1>3, <1>4, <1>5

\* The script from the front is the script from the back.
LEMMA ScriptIs ==
  ASSUME NEW sc \in AnyScene
  PROVE  Script(sc) = Cons(Get, SleepRest(sc))
<1> DEFINE F == FanScript(sc)
           A == AutoScript(sc)
           S == SleepScript(sc)
           G == <<Get>>
<1>1. sc.sleep \in -1 .. 1 /\ sc.auto \in -1 .. 1
  BY SceneRange
<1>2. F \in Seq(OpType)
  BY FanRestIs DEF FanRest
<1>3. G \in Seq(OpType)
  BY OpsTyped, ShortSeq
\* One mode, before the rest r.
<1>4. ASSUME NEW mode \in {"sleep", "auto"}, NEW on \in {0, 1}, NEW r \in Seq(OpType)
      PROVE  /\ SetMode(mode, on) \in Seq(OpType)
             /\ SetMode(mode, on) \o r = Cons(Get, Cons(Op(mode, on), r))
  <2> DEFINE op == Op(mode, on)
  <2>1. op \in OpType /\ Get \in OpType
    BY OpsTyped
  <2> HIDE DEF op
  <2>2. SetMode(mode, on) = <<Get, op>>
    BY DEF SetMode, Get, op
  <2> QED
    BY <2>1, <2>2, PairCons DEF op
<1>5. A \in Seq(OpType) /\ A \o F = AutoRest(sc)
  <2>1. CASE sc.auto >= 0
    <3>1. A = SetMode("auto", sc.auto) /\ sc.auto \in {0, 1}
      BY <1>1, <2>1 DEF AutoScript
    <3>2. AutoRest(sc) = Cons(Get, Cons(Op("auto", sc.auto), F))
      BY <2>1 DEF AutoRest, FanRest
    <3>3. /\ SetMode("auto", sc.auto) \in Seq(OpType)
          /\ SetMode("auto", sc.auto) \o F = Cons(Get, Cons(Op("auto", sc.auto), F))
      BY <1>2, <1>4, <3>1
    <3> HIDE DEF A, F
    <3> QED
      BY <3>1, <3>2, <3>3
  <2>2. CASE sc.auto < 0
    <3>1. A = <<>>
      BY <1>1, <2>2 DEF AutoScript
    <3> QED
      BY <1>1, <1>2, <2>2, <3>1, ShortSeq, ConcatEmptySeq, OpsTyped DEF AutoRest, FanRest
  <2> QED
    BY <1>1, <2>1, <2>2
<1>6. AutoRest(sc) \in Seq(OpType)
  BY RestsTyped
<1>7. S \in Seq(OpType) /\ S \o AutoRest(sc) = SleepRest(sc)
  <2>1. CASE sc.sleep = 1
    <3> DEFINE T == Twice(BtnFanDown)
    <3>1. S = SetMode("sleep", 1) \o T
      BY <2>1 DEF SleepScript
    <3>2. T = <<PressDown, PressDown>>
      BY DEF Twice, PressDown
    <3>3. T \in Seq(OpType) /\ T \o AutoRest(sc) = Cons(PressDown, Cons(PressDown, AutoRest(sc)))
      BY <1>6, <3>2, OpsTyped, ShortSeq, PairCons
    <3>4. SetMode("sleep", 1) \in Seq(OpType)
      BY <1>4, <1>6
    <3> HIDE DEF T
    <3>5. S \o AutoRest(sc) = SetMode("sleep", 1) \o (T \o AutoRest(sc))
      <4>1. (SetMode("sleep", 1) \o T) \o AutoRest(sc)
              = SetMode("sleep", 1) \o (T \o AutoRest(sc))
        BY <1>6, <3>3, <3>4, Associative
      <4> HIDE DEF S
      <4> QED
        BY <3>1, <4>1
    <3>6. T \o AutoRest(sc) \in Seq(OpType)
      BY <1>6, <3>3, ConcatProperties
    <3>7. S \in Seq(OpType)
      BY <3>1, <3>3, <3>4, ConcatProperties
    <3>8. SetMode("sleep", 1) \o (T \o AutoRest(sc))
            = Cons(Get, Cons(Op("sleep", 1), T \o AutoRest(sc)))
      BY <1>4, <3>6
    <3>9. SleepRest(sc) = Cons(Get, Cons(Op("sleep", 1), T \o AutoRest(sc)))
      BY <2>1, <3>3 DEF SleepRest, DownRest
    <3> QED
      BY <3>5, <3>7, <3>8, <3>9
  <2>2. CASE sc.sleep = 0
    <3>1. S = SetMode("sleep", 0)
      BY <2>2 DEF SleepScript
    <3>2. SleepRest(sc) = Cons(Get, Cons(Op("sleep", 0), AutoRest(sc)))
      BY <2>2 DEF SleepRest, DownRest
    <3>3. /\ SetMode("sleep", 0) \in Seq(OpType)
          /\ SetMode("sleep", 0) \o AutoRest(sc) = Cons(Get, Cons(Op("sleep", 0), AutoRest(sc)))
      BY <1>4, <1>6
    <3> HIDE DEF S
    <3> QED
      BY <3>1, <3>2, <3>3
  <2>3. CASE sc.sleep < 0
    <3>1. S = <<>>
      BY <1>1, <2>3 DEF SleepScript
    <3> QED
      BY <1>1, <1>6, <2>3, <3>1, ShortSeq, ConcatEmptySeq, OpsTyped DEF SleepRest
  <2> QED
    BY <1>1, <2>1, <2>2, <2>3
<1>8. Script(sc) = ((G \o S) \o A) \o F
  BY DEF Script, Get
<1> HIDE DEF F, A, S, G
<1>9. ((G \o S) \o A) \o F = (G \o S) \o (A \o F)
  <2>1. G \o S \in Seq(OpType)
    BY <1>3, <1>7, ConcatProperties
  <2> QED
    BY <1>2, <1>5, <2>1, Associative
<1>10. (G \o S) \o AutoRest(sc) = G \o (S \o AutoRest(sc))
  BY <1>3, <1>6, <1>7, Associative
<1>11. Script(sc) = G \o SleepRest(sc)
  BY <1>5, <1>7, <1>8, <1>9, <1>10
<1> QED
  BY <1>11 DEF Cons, G

-----------------------------------------------------------------------------
(* Facts about the stages.                                                 *)

\* The stages, in each of which the script goes on with something else.
LEMMA StageHeads ==
  ASSUME NEW sc \in AnyScene, NEW s, NEW d, NEW c, Stage(sc, s, d, c), s # <<>>
  PROVE  \/ Head(s) = Get /\ ( \/ StageStart(sc, s, d, c) \/ StageSleepGet(sc, s, d, c)
                              \/ StageAutoGet(sc, s, d, c))
         \/ Head(s) = Op("sleep", sc.sleep) /\ StageSleepDecide(sc, s, d, c)
         \/ Head(s) = Op("auto", sc.auto) /\ StageAutoDecide(sc, s, d, c)
         \/ Head(s) = Op("press", BtnSleep) /\ StageSleepPress(sc, s, d, c)
         \/ Head(s) = Op("press", BtnAuto) /\ StageAutoPress(sc, s, d, c)
         \/ Head(s) = PressDown /\ ( \/ StageDownTwice(sc, s, d, c) \/ StageDownOnce(sc, s, d, c)
                               \/ StageFanOne(sc, s, d, c))
         \/ Head(s) = PressUp /\ StageFanThree(sc, s, d, c)
         \/ Head(s) \in {Op("fan_1_to_2", 0), Op("fan_3_to_2", 0), PressUp, PressDown}
            /\ StageFanTwo(sc, s, d, c)
<1>1. /\ FanRest(sc) \in Seq(OpType) /\ AutoRest(sc) \in Seq(OpType)
      /\ DownRest(sc) \in Seq(OpType) /\ SleepRest(sc) \in Seq(OpType)
      /\ <<>> \in Seq(OpType)
  BY FanRestIs, RestsTyped
<1>2. \A op \in OpType, r \in Seq(OpType) : Cons(op, r) \in Seq(OpType) /\ Head(Cons(op, r)) = op
  BY ConsProperties
<1>3. /\ sc.sleep >= 0 => Op("sleep", sc.sleep) \in OpType
      /\ sc.auto >= 0 => Op("auto", sc.auto) \in OpType
  BY SceneRange, OpsTyped
<1>4. /\ Op("press", BtnSleep) \in OpType /\ Op("press", BtnAuto) \in OpType
      /\ Get \in OpType /\ PressUp \in OpType /\ PressDown \in OpType
      /\ Op("fan_1_to_2", 0) \in OpType /\ Op("fan_3_to_2", 0) \in OpType
  BY OpsTyped DEF Buttons
<1>5. StageStart(sc, s, d, c) => Head(s) = Get
  BY <1>1, <1>2, <1>4 DEF StageStart
<1>6. StageSleepGet(sc, s, d, c) => Head(s) = Get
  BY <1>1, <1>2, <1>3, <1>4 DEF StageSleepGet
<1>7. StageAutoGet(sc, s, d, c) => Head(s) = Get
  BY <1>1, <1>2, <1>3, <1>4 DEF StageAutoGet
<1>8. StageSleepDecide(sc, s, d, c) => Head(s) = Op("sleep", sc.sleep)
  BY <1>1, <1>2, <1>3 DEF StageSleepDecide
<1>9. StageAutoDecide(sc, s, d, c) => Head(s) = Op("auto", sc.auto)
  BY <1>1, <1>2, <1>3 DEF StageAutoDecide
<1>10. StageSleepPress(sc, s, d, c) => Head(s) = Op("press", BtnSleep)
  BY <1>1, <1>2, <1>4 DEF StageSleepPress
<1>11. StageAutoPress(sc, s, d, c) => Head(s) = Op("press", BtnAuto)
  BY <1>1, <1>2, <1>4 DEF StageAutoPress
<1>12. StageDownTwice(sc, s, d, c) => Head(s) = PressDown
  BY <1>1, <1>2, <1>4 DEF StageDownTwice
<1>13. StageDownOnce(sc, s, d, c) => Head(s) = PressDown
  BY <1>1, <1>2, <1>4 DEF StageDownOnce
<1>14. StageFanOne(sc, s, d, c) => Head(s) = PressDown
  BY <1>1, <1>2, <1>4 DEF StageFanOne
<1>15. StageFanThree(sc, s, d, c) => Head(s) = PressUp
  BY <1>1, <1>2, <1>4 DEF StageFanThree
<1>16. StageFanTwo(sc, s, d, c)
         => Head(s) \in {Op("fan_1_to_2", 0), Op("fan_3_to_2", 0), PressUp, PressDown}
  BY <1>1, <1>2, <1>4 DEF StageFanTwo
<1>17. ~StageDone(sc, s, d, c)
  BY DEF StageDone
<1> QED
  BY <1>5, <1>6, <1>7, <1>8, <1>9, <1>10, <1>11, <1>12, <1>13, <1>14, <1>15, <1>16, <1>17, Zenon
  DEF Stage

\* Where the script lands when one setting is as configured.
LEMMA LandFan ==
  ASSUME NEW sc \in AnyScene, NEW d, NEW c,
         Slept(sc, d), Switched(sc, d), Lowered(sc, d), Claims2(sc) => FanKnown(d, c)
  PROVE  Stage(sc, FanRest(sc), d, c)
<1>1. CASE sc.fan = 1
  <2>1. StageFanOne(sc, FanRest(sc), d, c)
    BY <1>1, FanRestIs DEF StageFanOne
  <2> QED
    BY <2>1 DEF Stage
<1>2. CASE sc.fan = 2
  <2>1. StageFanTwo(sc, FanRest(sc), d, c)
    BY <1>2, FanRestIs DEF StageFanTwo
  <2> QED
    BY <2>1 DEF Stage
<1>3. CASE sc.fan = 3
  <2>1. StageFanThree(sc, FanRest(sc), d, c)
    BY <1>3, FanRestIs DEF StageFanThree
  <2> QED
    BY <2>1 DEF Stage
<1>4. CASE sc.fan \notin 1 .. 3
  <2>1. StageDone(sc, FanRest(sc), d, c)
    BY <1>4, FanRestIs DEF StageDone, Settled, Claims2
  <2> QED
    BY <2>1 DEF Stage
<1> QED
  BY <1>1, <1>2, <1>3, <1>4, SceneRange

LEMMA LandAuto ==
  ASSUME NEW sc \in AnyScene, NEW d, NEW c,
         Slept(sc, d), Lowered(sc, d), sc.sleep # 1 => FanKnown(d, c)
  PROVE  Stage(sc, AutoRest(sc), d, c)
<1>1. CASE sc.auto >= 0
  <2>1. StageAutoGet(sc, AutoRest(sc), d, c)
    BY <1>1 DEF StageAutoGet, AutoRest
  <2> QED
    BY <2>1 DEF Stage
<1>2. CASE sc.auto < 0
  <2>1. AutoRest(sc) = FanRest(sc) /\ Switched(sc, d)
    BY <1>2, SceneRange DEF AutoRest, Switched
  <2>2. Claims2(sc) => FanKnown(d, c)
    BY <1>2, SceneRange DEF Claims2
  <2> QED
    BY <2>1, <2>2, LandFan
<1> QED
  BY <1>1, <1>2, SceneRange

LEMMA LandDown ==
  ASSUME NEW sc \in AnyScene, NEW d, NEW c,
         Slept(sc, d), sc.sleep # 1 => FanKnown(d, c)
  PROVE  Stage(sc, DownRest(sc), d, c)
<1>1. CASE sc.sleep = 1
  <2>1. StageDownTwice(sc, DownRest(sc), d, c)
    BY <1>1 DEF StageDownTwice, DownRest
  <2> QED
    BY <2>1 DEF Stage
<1>2. CASE sc.sleep # 1
  BY <1>2, LandAuto DEF DownRest, Lowered
<1> QED
  BY <1>1, <1>2

LEMMA LandSleep ==
  ASSUME NEW sc \in AnyScene, NEW d, NEW c, Synced(d, c)
  PROVE  Stage(sc, SleepRest(sc), d, c)
<1>1. CASE sc.sleep >= 0
  <2>1. StageSleepGet(sc, SleepRest(sc), d, c)
    BY <1>1 DEF StageSleepGet, SleepRest
  <2> QED
    BY <2>1 DEF Stage
<1>2. CASE sc.sleep < 0
  <2>1. SleepRest(sc) = AutoRest(sc) /\ Slept(sc, d) /\ Lowered(sc, d)
    BY <1>2, SceneRange DEF SleepRest, Slept, Lowered
  <2>2. FanKnown(d, c)
    BY DEF Synced, FanKnown, Controls
  <2> QED
    BY <2>1, <2>2, LandAuto
<1> QED
  BY <1>1, <1>2, SceneRange

\* What is left of each script after its first operation.
LEMMA Tails ==
  ASSUME NEW sc \in AnyScene
  PROVE  /\ Tail(Cons(Get, SleepRest(sc))) = SleepRest(sc)
         /\ sc.sleep >= 0 =>
              /\ Tail(Cons(Get, Cons(Op("sleep", sc.sleep), DownRest(sc))))
                   = Cons(Op("sleep", sc.sleep), DownRest(sc))
              /\ Tail(Cons(Op("sleep", sc.sleep), DownRest(sc))) = DownRest(sc)
              /\ Tail(Cons(Op("press", BtnSleep), DownRest(sc))) = DownRest(sc)
         /\ Tail(Cons(PressDown, Cons(PressDown, AutoRest(sc)))) = Cons(PressDown, AutoRest(sc))
         /\ Tail(Cons(PressDown, AutoRest(sc))) = AutoRest(sc)
         /\ sc.auto >= 0 =>
              /\ Tail(Cons(Get, Cons(Op("auto", sc.auto), FanRest(sc))))
                   = Cons(Op("auto", sc.auto), FanRest(sc))
              /\ Tail(Cons(Op("auto", sc.auto), FanRest(sc))) = FanRest(sc)
              /\ Tail(Cons(Op("press", BtnAuto), FanRest(sc))) = FanRest(sc)
         /\ \A op \in OpType : /\ Tail(Cons(op, <<>>)) = <<>>
                              /\ Tail(Cons(op, Cons(op, <<>>))) = Cons(op, <<>>)
<1>1. /\ FanRest(sc) \in Seq(OpType) /\ AutoRest(sc) \in Seq(OpType)
      /\ DownRest(sc) \in Seq(OpType) /\ SleepRest(sc) \in Seq(OpType)
      /\ <<>> \in Seq(OpType)
  BY FanRestIs, RestsTyped
<1>2. \A op \in OpType, r \in Seq(OpType) : Cons(op, r) \in Seq(OpType) /\ Tail(Cons(op, r)) = r
  BY ConsProperties
<1>3. /\ sc.sleep >= 0 => Op("sleep", sc.sleep) \in OpType
      /\ sc.auto >= 0 => Op("auto", sc.auto) \in OpType
  BY SceneRange, OpsTyped
<1>4. /\ Op("press", BtnSleep) \in OpType /\ Op("press", BtnAuto) \in OpType
      /\ Get \in OpType /\ PressDown \in OpType
  BY OpsTyped DEF Buttons
<1> QED
  BY <1>1, <1>2, <1>3, <1>4, Zenon

\* Two operations are equal only if they do the same.
LEMMA OpsDiffer ==
  ASSUME NEW do, NEW arg, NEW do2, NEW arg2, do # do2
  PROVE  Op(do, arg) # Op(do2, arg2)
BY OpFields

\* A get that found what the humifier has brings the scene a stage on.
LEMMA GetDone ==
  ASSUME NEW sc \in AnyScene, NEW s, NEW d, NEW c, Stage(sc, s, d, c), s # <<>>,
         Head(s).do = "get", Synced(d, c)
  PROVE  Stage(sc, Tail(s), d, c)
<1>1. StageStart(sc, s, d, c) \/ StageSleepGet(sc, s, d, c) \/ StageAutoGet(sc, s, d, c)
  <2>1. Get.do = "get" /\ PressUp.do = "press" /\ PressDown.do = "press"
    BY OpFields DEF Get, PressUp, PressDown
  <2>2. \A arg : /\ Op("sleep", arg).do # "get" /\ Op("auto", arg).do # "get"
                 /\ Op("press", arg).do # "get"
                 /\ Op("fan_1_to_2", arg).do # "get" /\ Op("fan_3_to_2", arg).do # "get"
    BY OpFields
  <2> QED
    BY <2>1, <2>2, StageHeads
<1>2. CASE StageStart(sc, s, d, c)
  BY <1>2, Tails, LandSleep DEF StageStart
<1>3. CASE StageSleepGet(sc, s, d, c)
  <2>1. StageSleepDecide(sc, Tail(s), d, c)
    BY <1>3, Tails DEF StageSleepGet, StageSleepDecide
  <2> QED
    BY <2>1 DEF Stage
<1>4. CASE StageAutoGet(sc, s, d, c)
  <2>1. StageAutoDecide(sc, Tail(s), d, c)
    BY <1>4, Tails DEF StageAutoGet, StageAutoDecide
  <2> QED
    BY <2>1 DEF Stage
<1> QED
  BY <1>1, <1>2, <1>3, <1>4

\* What the buttons do.
LEMMA PressEffects ==
  ASSUME NEW d \in DeviceType
  PROVE  /\ Pressed(d, BtnSleep)["sleep"] = 1 - d["sleep"]
         /\ Pressed(d, BtnSleep)["auto"] = d["auto"]
         /\ Pressed(d, BtnSleep)["fan"] = d["fan"]
         /\ Pressed(d, BtnAuto)["sleep"] = d["sleep"]
         /\ Pressed(d, BtnAuto)["auto"] = 1 - d["auto"]
         /\ Pressed(d, BtnAuto)["fan"] = d["fan"]
         /\ \A btn \in {BtnFanUp, BtnFanDown} :
              /\ Pressed(d, btn)["sleep"] = d["sleep"]
              /\ Pressed(d, btn)["auto"] = d["auto"]
         /\ Pressed(d, BtnFanUp)["fan"] = IF d["fan"] < 3 THEN d["fan"] + 1 ELSE d["fan"]
         /\ Pressed(d, BtnFanDown)["fan"] = IF d["fan"] > 1 THEN d["fan"] - 1 ELSE d["fan"]
<1>1. /\ d \in [Keys -> Vals] /\ "fan" \in Keys /\ "sleep" \in Keys /\ "auto" \in Keys
      /\ d["fan"] \in 1 .. 3 /\ d["sleep"] \in 0 .. 1 /\ d["auto"] \in 0 .. 1
  BY KeyOrderAssumption DEF DeviceType, Controls
<1>2. Pressed(d, BtnSleep) = [d EXCEPT !["sleep"] = 1 - @]
  BY DEF Pressed, BtnFanUp, BtnFanDown, BtnSleep, BtnAuto
<1>3. Pressed(d, BtnAuto) = [d EXCEPT !["auto"] = 1 - @]
  BY DEF Pressed, BtnFanUp, BtnFanDown, BtnSleep, BtnAuto
<1>4. Pressed(d, BtnFanUp) = [d EXCEPT !["fan"] = IF @ < 3 THEN @ + 1 ELSE @]
  BY DEF Pressed, BtnFanUp, BtnFanDown, BtnSleep, BtnAuto
<1>5. Pressed(d, BtnFanDown) = [d EXCEPT !["fan"] = IF @ > 1 THEN @ - 1 ELSE @]
  BY DEF Pressed, BtnFanUp, BtnFanDown, BtnSleep, BtnAuto
<1> QED
  BY <1>1, <1>2, <1>3, <1>4, <1>5

\* A press that arrives brings the scene a stage on.
LEMMA Press ==
  ASSUME NEW sc \in AnyScene, NEW s, NEW d \in DeviceType, NEW c, Stage(sc, s, d, c), s # <<>>,
         Head(s).do = "press"
  PROVE  Stage(sc, Tail(s), Pressed(d, Head(s).arg), c)
<1> DEFINE e == Pressed(d, Head(s).arg)
<1>d. d["fan"] \in 1 .. 3 /\ d["sleep"] \in 0 .. 1 /\ d["auto"] \in 0 .. 1
  BY DEF DeviceType
<1>r. sc.fan \in -1 .. 3 /\ sc.sleep \in -1 .. 1 /\ sc.auto \in -1 .. 1
  BY SceneRange
<1>b. PressUp.arg = BtnFanUp /\ PressDown.arg = BtnFanDown /\ \A btn : Op("press", btn).arg = btn
  BY OpFields DEF PressUp, PressDown
<1>c. PressUp \in OpType /\ PressDown \in OpType
  BY OpsTyped
\* What the fan buttons leave alone.
<1>m. ASSUME Head(s) \in {PressUp, PressDown}
      PROVE  /\ e["sleep"] = d["sleep"] /\ e["auto"] = d["auto"]
             /\ Slept(sc, e) <=> Slept(sc, d)
             /\ Switched(sc, e) <=> Switched(sc, d)
  <2>1. e["sleep"] = d["sleep"] /\ e["auto"] = d["auto"]
    BY <1>m, <1>b, PressEffects
  <2> HIDE DEF e
  <2> QED
    BY <2>1 DEF Slept, Switched
<1>u. Head(s) = PressUp => e["fan"] = IF d["fan"] < 3 THEN d["fan"] + 1 ELSE d["fan"]
  BY <1>b, PressEffects
<1>w. Head(s) = PressDown => e["fan"] = IF d["fan"] > 1 THEN d["fan"] - 1 ELSE d["fan"]
  BY <1>b, PressEffects
<1>1. CASE Head(s) = Op("press", BtnSleep) /\ StageSleepPress(sc, s, d, c)
  <2>1. e["sleep"] = 1 - d["sleep"] /\ e["fan"] = d["fan"]
    BY <1>1, <1>b, PressEffects
  <2> HIDE DEF e
  <2>2. Slept(sc, e) /\ FanKnown(e, c)
    BY <1>1, <1>r, <2>1 DEF StageSleepPress, Slept, FanKnown
  <2>3. Tail(s) = DownRest(sc)
    BY <1>1, Tails DEF StageSleepPress
  <2>4. Stage(sc, Tail(s), e, c)
    BY <2>2, <2>3, LandDown
  <2> QED
    BY <2>4 DEF e
<1>2. CASE Head(s) = Op("press", BtnAuto) /\ StageAutoPress(sc, s, d, c)
  <2>1. e["auto"] = 1 - d["auto"] /\ e["sleep"] = d["sleep"] /\ e["fan"] = d["fan"]
    BY <1>2, <1>b, PressEffects
  <2> HIDE DEF e
  <2>2. Switched(sc, e) /\ Slept(sc, e) /\ Lowered(sc, e) /\ FanKnown(e, c)
    BY <1>2, <1>r, <2>1 DEF StageAutoPress, Slept, Switched, Lowered, FanKnown
  <2>3. Tail(s) = FanRest(sc)
    BY <1>2, Tails DEF StageAutoPress
  <2>4. Stage(sc, Tail(s), e, c)
    BY <2>2, <2>3, LandFan
  <2> QED
    BY <2>4 DEF e
<1>3. CASE Head(s) = PressDown /\ StageDownTwice(sc, s, d, c)
  <2>1. e["fan"] <= 2
    BY <1>d, <1>w, <1>3
  <2> HIDE DEF e
  <2>2. StageDownOnce(sc, Tail(s), e, c)
    BY <1>3, <1>m, <2>1, Tails DEF StageDownTwice, StageDownOnce
  <2> QED
    BY <2>2 DEF e, Stage
<1>4. CASE Head(s) = PressDown /\ StageDownOnce(sc, s, d, c)
  <2>0. d["fan"] \in 1 .. 2 /\ sc.sleep = 1
    BY <1>d, <1>4 DEF StageDownOnce
  <2>1. e["fan"] = 1
    BY <2>0, <1>w, <1>4
  <2> HIDE DEF e
  <2>2. Slept(sc, e) /\ Lowered(sc, e) /\ Tail(s) = AutoRest(sc)
    BY <1>4, <1>m, <2>1, Tails DEF StageDownOnce, Lowered
  <2>3. Stage(sc, Tail(s), e, c)
    BY <2>0, <2>2, LandAuto
  <2> QED
    BY <2>3 DEF e
<1>5. CASE Head(s) = PressDown /\ StageFanOne(sc, s, d, c)
  <2>0. sc.fan = 1 /\ Slept(sc, d) /\ Switched(sc, d)
    BY <1>5 DEF StageFanOne
  <2>1. CASE s = Cons(PressDown, Cons(PressDown, <<>>))
    <3>1. e["fan"] <= 2
      BY <1>d, <1>w, <1>5
    <3> HIDE DEF e
    <3>2. StageFanOne(sc, Tail(s), e, c)
      BY <1>5, <1>m, <1>c, <2>0, <2>1, <3>1, Tails DEF StageFanOne
    <3> QED
      BY <3>2 DEF e, Stage
  <2>2. CASE s = Cons(PressDown, <<>>) /\ d["fan"] <= 2
    <3>1. e["fan"] = 1
      BY <1>d, <1>w, <1>5, <2>2
    <3> HIDE DEF e
    <3>2. StageDone(sc, Tail(s), e, c)
      BY <1>5, <1>m, <1>c, <2>0, <2>2, <3>1, Tails DEF StageDone, Settled, Claims2
    <3> QED
      BY <3>2 DEF e, Stage
  <2> QED
    BY <1>5, <2>1, <2>2 DEF StageFanOne
<1>6. CASE Head(s) = PressUp /\ StageFanThree(sc, s, d, c)
  <2>0. sc.fan = 3 /\ Slept(sc, d) /\ Switched(sc, d)
    BY <1>6 DEF StageFanThree
  <2>1. CASE s = Cons(PressUp, Cons(PressUp, <<>>))
    <3>1. e["fan"] >= 2
      BY <1>d, <1>u, <1>6
    <3> HIDE DEF e
    <3>2. StageFanThree(sc, Tail(s), e, c)
      BY <1>6, <1>m, <1>c, <2>0, <2>1, <3>1, Tails DEF StageFanThree
    <3> QED
      BY <3>2 DEF e, Stage
  <2>2. CASE s = Cons(PressUp, <<>>) /\ d["fan"] >= 2
    <3>1. e["fan"] = 3
      BY <1>d, <1>u, <1>6, <2>2
    <3> HIDE DEF e
    <3>2. StageDone(sc, Tail(s), e, c)
      BY <1>6, <1>m, <1>c, <2>0, <2>2, <3>1, Tails DEF StageDone, Settled, Claims2
    <3> QED
      BY <3>2 DEF e, Stage
  <2> QED
    BY <1>6, <2>1, <2>2 DEF StageFanThree
<1>7. CASE Head(s) \in {PressUp, PressDown} /\ StageFanTwo(sc, s, d, c)
  <2>0. sc.fan = 2 /\ Slept(sc, d) /\ Switched(sc, d)
    BY <1>7 DEF StageFanTwo
  <2>1. \/ s = Cons(PressUp, <<>>) /\ (Claims2(sc) => d["fan"] = 1)
        \/ s = Cons(PressDown, <<>>) /\ (Claims2(sc) => d["fan"] = 3)
    <3>1. /\ PressUp.do = "press" /\ PressDown.do = "press"
          /\ Op("fan_1_to_2", 0).do = "fan_1_to_2" /\ Op("fan_3_to_2", 0).do = "fan_3_to_2"
      BY OpFields DEF PressUp, PressDown
    <3>2. \A op \in OpType : Head(Cons(op, <<>>)) = op
      BY ConsProperties, ShortSeq
    <3>3. Op("fan_1_to_2", 0) \in OpType /\ Op("fan_3_to_2", 0) \in OpType
      BY OpsTyped
    <3>4. s # Cons(Op("fan_1_to_2", 0), <<>>) /\ s # Cons(Op("fan_3_to_2", 0), <<>>)
      BY <1>7, <3>1, <3>2, <3>3
    <3> QED
      BY <1>7, <3>4 DEF StageFanTwo
  <2>2. \A op \in OpType : Head(Cons(op, <<>>)) = op
    BY ConsProperties, ShortSeq
  <2>3. Claims2(sc) => e["fan"] = 2
    BY <1>c, <1>u, <1>w, <2>1, <2>2
  <2>4. Tail(s) = <<>>
    BY <1>c, <2>1, Tails
  <2> HIDE DEF e
  <2>5. StageDone(sc, Tail(s), e, c)
    BY <1>7, <1>m, <2>0, <2>3, <2>4 DEF StageDone, Settled
  <2> QED
    BY <2>5 DEF e, Stage
<1>8. /\ Head(s) # Get
      /\ \A arg : /\ Head(s) # Op("sleep", arg) /\ Head(s) # Op("auto", arg)
                  /\ Head(s) # Op("fan_1_to_2", arg) /\ Head(s) # Op("fan_3_to_2", arg)
  BY OpFields DEF Get
<1> QED
  BY <1>1, <1>2, <1>3, <1>4, <1>5, <1>6, <1>7, <1>8, StageHeads, Zenon

\* A stage stands whatever happens to the measured quantities and whoever
\* writes the humifier's own values into memory.
LEMMA Undisturbed ==
  ASSUME NEW sc \in AnyScene, NEW s, NEW d, NEW c, NEW d2, NEW c2, Stage(sc, s, d, c),
         \A k \in Controls : d2[k] = d[k] /\ c2[k] \in {c[k], d[k]}
  PROVE  Stage(sc, s, d2, c2)
<1>1. /\ d2["fan"] = d["fan"] /\ d2["sleep"] = d["sleep"] /\ d2["auto"] = d["auto"]
      /\ c2["fan"] \in {c["fan"], d["fan"]}
  BY DEF Controls
<1>2. Synced(d, c) => Synced(d2, c2)
  BY DEF Synced
<1>3. FanKnown(d, c) => FanKnown(d2, c2)
  BY <1>1 DEF FanKnown
<1>4. /\ Slept(sc, d) => Slept(sc, d2)
      /\ Switched(sc, d) => Switched(sc, d2)
      /\ Lowered(sc, d) => Lowered(sc, d2)
      /\ Settled(sc, d) => Settled(sc, d2)
  BY <1>1 DEF Slept, Switched, Lowered, Settled
<1>5. StageStart(sc, s, d, c) => StageStart(sc, s, d2, c2)
  BY DEF StageStart
<1>6. /\ StageSleepGet(sc, s, d, c) => StageSleepGet(sc, s, d2, c2)
      /\ StageSleepDecide(sc, s, d, c) => StageSleepDecide(sc, s, d2, c2)
      /\ StageSleepPress(sc, s, d, c) => StageSleepPress(sc, s, d2, c2)
  BY <1>1, <1>2, <1>3 DEF StageSleepGet, StageSleepDecide, StageSleepPress
<1>7. /\ StageDownTwice(sc, s, d, c) => StageDownTwice(sc, s, d2, c2)
      /\ StageDownOnce(sc, s, d, c) => StageDownOnce(sc, s, d2, c2)
  BY <1>1, <1>4 DEF StageDownTwice, StageDownOnce
<1>8. /\ StageAutoGet(sc, s, d, c) => StageAutoGet(sc, s, d2, c2)
      /\ StageAutoDecide(sc, s, d, c) => StageAutoDecide(sc, s, d2, c2)
      /\ StageAutoPress(sc, s, d, c) => StageAutoPress(sc, s, d2, c2)
  BY <1>1, <1>2, <1>3, <1>4 DEF StageAutoGet, StageAutoDecide, StageAutoPress
<1>9. /\ StageFanOne(sc, s, d, c) => StageFanOne(sc, s, d2, c2)
      /\ StageFanThree(sc, s, d, c) => StageFanThree(sc, s, d2, c2)
  BY <1>1, <1>4 DEF StageFanOne, StageFanThree
<1>10. StageFanTwo(sc, s, d, c) => StageFanTwo(sc, s, d2, c2)
  BY <1>1, <1>3, <1>4 DEF StageFanTwo
<1>11. StageDone(sc, s, d, c) => StageDone(sc, s, d2, c2)
  BY <1>4 DEF StageDone
<1> QED
  BY <1>5, <1>6, <1>7, <1>8, <1>9, <1>10, <1>11 DEF Stage

\* The last stage is what the scene promises.
LEMMA SettledReached ==
  ASSUME NEW sc \in AnyScene, NEW c, Stage(sc, <<>>, device, c)
  PROVE  Reached(sc)
<1>1. /\ FanRest(sc) \in Seq(OpType) /\ AutoRest(sc) \in Seq(OpType)
      /\ DownRest(sc) \in Seq(OpType) /\ SleepRest(sc) \in Seq(OpType)
      /\ <<>> \in Seq(OpType)
  BY FanRestIs, RestsTyped
<1>2. \A op \in OpType, r \in Seq(OpType) : Cons(op, r) \in Seq(OpType) /\ Cons(op, r) # <<>>
  BY ConsProperties
<1>3. /\ sc.sleep >= 0 => Op("sleep", sc.sleep) \in OpType
      /\ sc.auto >= 0 => Op("auto", sc.auto) \in OpType
  BY SceneRange, OpsTyped
<1>4. /\ Op("press", BtnSleep) \in OpType /\ Op("press", BtnAuto) \in OpType
      /\ Get \in OpType /\ PressUp \in OpType /\ PressDown \in OpType
      /\ Op("fan_1_to_2", 0) \in OpType /\ Op("fan_3_to_2", 0) \in OpType
  BY OpsTyped DEF Buttons
<1> DEFINE e == <<>>
<1> HIDE DEF e
<1>5. ~StageStart(sc, e, device, c)
  BY <1>1, <1>2, <1>4 DEF StageStart, e
<1>6. /\ ~StageSleepGet(sc, e, device, c) /\ ~StageSleepDecide(sc, e, device, c)
      /\ ~StageSleepPress(sc, e, device, c)
  BY <1>1, <1>2, <1>3, <1>4 DEF StageSleepGet, StageSleepDecide, StageSleepPress, e
<1>7. ~StageDownTwice(sc, e, device, c) /\ ~StageDownOnce(sc, e, device, c)
  BY <1>1, <1>2, <1>4 DEF StageDownTwice, StageDownOnce, e
<1>8. /\ ~StageAutoGet(sc, e, device, c) /\ ~StageAutoDecide(sc, e, device, c)
      /\ ~StageAutoPress(sc, e, device, c)
  BY <1>1, <1>2, <1>3, <1>4 DEF StageAutoGet, StageAutoDecide, StageAutoPress, e
<1>9. ~StageFanOne(sc, e, device, c) /\ ~StageFanThree(sc, e, device, c)
  BY <1>1, <1>2, <1>4 DEF StageFanOne, StageFanThree, e
<1>10. ~StageFanTwo(sc, e, device, c)
  BY <1>1, <1>2, <1>4 DEF StageFanTwo, e
<1>11. Stage(sc, e, device, c)
  BY DEF e
<1>12. StageDone(sc, e, device, c)
  BY <1>5, <1>6, <1>7, <1>8, <1>9, <1>10, <1>11 DEF Stage
<1> QED
  BY <1>12, SceneRange
  DEF StageDone, Settled, Slept, Switched, Lowered, Claims2, Reached

\* What the scene decides to do next brings it a stage on.
LEMMA Decide ==
  ASSUME NEW sc \in AnyScene, script \in Seq(OpType), device \in DeviceType,
         Stage(sc, script, device, current), SceneDecide
  PROVE  Stage(sc, script', device, current)
<1> DEFINE op == Head(script)
<1>d. device["fan"] \in 1 .. 3 /\ device["sleep"] \in 0 .. 1 /\ device["auto"] \in 0 .. 1
  BY DEF DeviceType
<1>r. sc.fan \in -1 .. 3 /\ sc.sleep \in -1 .. 1 /\ sc.auto \in -1 .. 1
  BY SceneRange
<1>s. script # <<>> /\ Tail(script) \in Seq(OpType)
  BY NextOp DEF SceneDecide, SceneStep
<1>p. \A btn : /\ Presses(btn, TRUE) \o Tail(script) = Cons(Op("press", btn), Tail(script))
               /\ Presses(btn, FALSE) \o Tail(script) = Tail(script)
  BY <1>s, ConcatEmptySeq DEF Presses, Cons
<1>1. CASE op.do = "sleep" /\ script' = Presses(BtnSleep, MustToggle("sleep", op.arg)) \o Tail(script)
  <2>1. StageSleepDecide(sc, script, device, current) /\ op = Op("sleep", sc.sleep)
    <3>1. /\ Get.do # "sleep" /\ PressUp.do # "sleep" /\ PressDown.do # "sleep"
          /\ \A arg : /\ Op("auto", arg).do # "sleep" /\ Op("press", arg).do # "sleep"
                      /\ Op("fan_1_to_2", arg).do # "sleep" /\ Op("fan_3_to_2", arg).do # "sleep"
      BY OpFields DEF Get, PressUp, PressDown
    <3> QED
      BY <1>1, <1>s, <3>1, StageHeads
  <2>2. /\ Tail(script) = DownRest(sc) /\ op.arg = sc.sleep /\ sc.sleep \in {0, 1}
        /\ current["sleep"] = device["sleep"] /\ FanKnown(device, current)
    BY <1>r, <2>1, Tails, OpFields DEF StageSleepDecide, Synced, Controls, FanKnown
  <2>3. CASE device["sleep"] = sc.sleep
    <3>1. MustToggle("sleep", op.arg) = FALSE
      BY <2>2, <2>3 DEF MustToggle
    <3>2. script' = DownRest(sc)
      BY <1>1, <1>p, <2>2, <3>1
    <3> QED
      BY <2>2, <2>3, <3>2, LandDown DEF Slept
  <2>4. CASE device["sleep"] # sc.sleep
    <3>1. MustToggle("sleep", op.arg) = TRUE
      BY <1>d, <2>2, <2>4 DEF MustToggle
    <3>2. script' = Cons(Op("press", BtnSleep), DownRest(sc))
      BY <1>1, <1>p, <2>2, <3>1
    <3>3. StageSleepPress(sc, script', device, current)
      BY <1>d, <2>2, <2>4, <3>2 DEF StageSleepPress
    <3> QED
      BY <3>3 DEF Stage
  <2> QED
    BY <2>3, <2>4
<1>2. CASE op.do = "auto" /\ script' = Presses(BtnAuto, MustToggle("auto", op.arg)) \o Tail(script)
  <2>1. StageAutoDecide(sc, script, device, current) /\ op = Op("auto", sc.auto)
    <3>1. /\ Get.do # "auto" /\ PressUp.do # "auto" /\ PressDown.do # "auto"
          /\ \A arg : /\ Op("sleep", arg).do # "auto" /\ Op("press", arg).do # "auto"
                      /\ Op("fan_1_to_2", arg).do # "auto" /\ Op("fan_3_to_2", arg).do # "auto"
      BY OpFields DEF Get, PressUp, PressDown
    <3> QED
      BY <1>2, <1>s, <3>1, StageHeads
  <2>2. /\ Tail(script) = FanRest(sc) /\ op.arg = sc.auto /\ sc.auto \in {0, 1}
        /\ current["auto"] = device["auto"] /\ FanKnown(device, current)
        /\ Slept(sc, device) /\ Lowered(sc, device)
    BY <1>r, <2>1, Tails, OpFields DEF StageAutoDecide, Synced, Controls, FanKnown
  <2>3. CASE device["auto"] = sc.auto
    <3>1. MustToggle("auto", op.arg) = FALSE
      BY <2>2, <2>3 DEF MustToggle
    <3>2. script' = FanRest(sc)
      BY <1>2, <1>p, <2>2, <3>1
    <3> QED
      BY <2>2, <2>3, <3>2, LandFan DEF Switched
  <2>4. CASE device["auto"] # sc.auto
    <3>1. MustToggle("auto", op.arg) = TRUE
      BY <1>d, <2>2, <2>4 DEF MustToggle
    <3>2. script' = Cons(Op("press", BtnAuto), FanRest(sc))
      BY <1>2, <1>p, <2>2, <3>1
    <3>3. StageAutoPress(sc, script', device, current)
      BY <1>d, <2>2, <2>4, <3>2 DEF StageAutoPress
    <3> QED
      BY <3>3 DEF Stage
  <2> QED
    BY <2>3, <2>4
<1>o. \A o \in OpType : Head(Cons(o, <<>>)) = o /\ Tail(Cons(o, <<>>)) = <<>>
  BY ConsProperties, ShortSeq
<1>t. /\ Op("fan_1_to_2", 0) \in OpType /\ Op("fan_3_to_2", 0) \in OpType
      /\ PressUp \in OpType /\ PressDown \in OpType
  BY OpsTyped
<1>3. CASE /\ op.do = "fan_1_to_2"
           /\ script' = (IF current["fan"] = 1 THEN <<Op("press", BtnFanUp)>>
                         ELSE <<Op("fan_3_to_2", 0)>>) \o Tail(script)
  <2>1. StageFanTwo(sc, script, device, current)
    <3>1. /\ Get.do # "fan_1_to_2" /\ PressUp.do # "fan_1_to_2" /\ PressDown.do # "fan_1_to_2"
          /\ \A arg : /\ Op("auto", arg).do # "fan_1_to_2" /\ Op("press", arg).do # "fan_1_to_2"
                      /\ Op("sleep", arg).do # "fan_1_to_2"
      BY OpFields DEF Get, PressUp, PressDown
    <3> QED
      BY <1>3, <1>s, <3>1, StageHeads
  <2>2. Tail(script) = <<>> /\ (Claims2(sc) => FanKnown(device, current))
    <3>1. /\ Op("fan_3_to_2", 0).do # "fan_1_to_2"
          /\ PressUp.do # "fan_1_to_2" /\ PressDown.do # "fan_1_to_2"
      BY OpFields DEF PressUp, PressDown
    <3> QED
      BY <1>3, <1>o, <1>t, <2>1, <3>1 DEF StageFanTwo
  <2>3. \/ current["fan"] = 1 /\ script' = Cons(PressUp, <<>>)
        \/ current["fan"] # 1 /\ script' = Cons(Op("fan_3_to_2", 0), <<>>)
    BY <1>3, <2>2 DEF Cons, PressUp
  <2>4. StageFanTwo(sc, script', device, current)
    BY <2>1, <2>2, <2>3 DEF StageFanTwo, FanKnown
  <2> QED
    BY <2>4 DEF Stage
<1>4. CASE /\ op.do = "fan_3_to_2"
           /\ script' = Presses(BtnFanDown, current["fan"] = 3) \o Tail(script)
  <2>1. StageFanTwo(sc, script, device, current)
    <3>1. /\ Get.do # "fan_3_to_2" /\ PressUp.do # "fan_3_to_2" /\ PressDown.do # "fan_3_to_2"
          /\ \A arg : /\ Op("auto", arg).do # "fan_3_to_2" /\ Op("press", arg).do # "fan_3_to_2"
                      /\ Op("sleep", arg).do # "fan_3_to_2"
      BY OpFields DEF Get, PressUp, PressDown
    <3> QED
      BY <1>4, <1>s, <3>1, StageHeads
  <2>2. /\ Tail(script) = <<>>
        /\ Claims2(sc) => FanKnown(device, current) /\ device["fan"] # 1
    <3>1. /\ Op("fan_1_to_2", 0).do # "fan_3_to_2"
          /\ PressUp.do # "fan_3_to_2" /\ PressDown.do # "fan_3_to_2"
      BY OpFields DEF PressUp, PressDown
    <3> QED
      BY <1>4, <1>o, <1>t, <2>1, <3>1 DEF StageFanTwo
  <2>3. CASE current["fan"] = 3
    <3>1. script' = Cons(PressDown, <<>>)
      BY <1>4, <1>p, <2>2, <2>3 DEF PressDown
    <3>2. StageFanTwo(sc, script', device, current)
      BY <2>1, <2>2, <2>3, <3>1 DEF StageFanTwo, FanKnown
    <3> QED
      BY <3>2 DEF Stage
  <2>4. CASE current["fan"] # 3
    <3>1. script' = <<>>
      BY <1>4, <1>p, <2>2, <2>4
    <3>2. Claims2(sc) => device["fan"] = 2
      BY <1>d, <2>2, <2>4 DEF FanKnown
    <3>3. StageDone(sc, script', device, current)
      BY <2>1, <3>1, <3>2 DEF StageFanTwo, StageDone, Settled
    <3> QED
      BY <3>3 DEF Stage
  <2> QED
    BY <2>3, <2>4
<1> QED
  BY <1>1, <1>2, <1>3, <1>4 DEF SceneDecide

-----------------------------------------------------------------------------
(* The invariant through the steps.                                        *)

\* What the types say where a scene is concerned.
LEMMA SceneTypes ==
  ASSUME TypeInv
  PROVE  /\ device \in DeviceType /\ scene \in AnyScene /\ script \in Seq(OpType)
         /\ current \in [Controls -> Vals] /\ call \in [Threads -> CallType]
         /\ call[Main] \in CallType
         /\ call[Main].at \in {"shift", "store"} => call[Main].key \in DOMAIN call[Main].reply
         /\ Main \in Threads /\ Net \in Threads /\ Main # Net
         /\ Controls \subseteq Keys /\ DOMAIN device = Keys
<1>1. NetInv /\ RestOK
  BY TypeInvParts
<1>2. Main \in Threads /\ Net \in Threads /\ Main # Net
  BY ThreadsAssumption DEF Main, Net
<1>3. device \in DeviceType /\ device \in [Keys -> Vals]
  BY <1>1 DEF NetInv, NetTypeOK, DeviceType
<1> QED
  BY <1>1, <1>2, <1>3, ScenesKnown, KeyOrderAssumption
  DEF NetInv, NetTypeOK, KeyPending, RestOK

\* A step during which the main thread stands still.
LEMMA SceneKept ==
  ASSUME TypeInv, SceneInv,
         mpc' = mpc, scene' = scene, script' = script, call'[Main] = call[Main],
         clean' => /\ clean
                   /\ \A k \in Controls :
                        device'[k] = device[k] /\ current'[k] \in {current[k], device[k]}
  PROVE  SceneInv'
<1>1. CallInv'
  BY DEF SceneInv, CallInv
<1>2. ASSUME clean', mpc' = "scene"
      PROVE  GetInv' /\ Stage(scene, script, device, current)'
  <2>1. /\ GetInv /\ Stage(scene, script, device, current)
        /\ \A k \in Controls :
             device'[k] = device[k] /\ current'[k] \in {current[k], device[k]}
    BY <1>2 DEF SceneInv, StageInv
  <2>2. Stage(scene, script, device', current')
    BY <2>1, Undisturbed, SceneTypes
  <2>3. GetInv'
    BY <2>1 DEF GetInv, Synced
  <2> QED
    BY <2>2, <2>3
<1> QED
  BY <1>1, <1>2 DEF SceneInv, StageInv

\* Outside a scene the main thread asks the humifier for nothing.
LEMMA SceneOver ==
  ASSUME mpc' # "scene", call'[Main].at = "idle"
  PROVE  SceneInv'
BY DEF SceneInv, CallInv, StageInv

\* A step of the request of a scene.
LEMMA SceneGetKeeps ==
  ASSUME TypeInv, SceneInv, SceneGetStep
  PROVE  SceneInv'
<1> DEFINE c == call[Main]
           d == call'[Main]
<1>0. /\ mpc = "scene" /\ GetStep(Main)
      /\ mpc' = mpc /\ scene' = scene /\ script' = script
      /\ clean' => clean /\ (c.at = "post" => d.reply = device)
  BY DEF SceneGetStep, SceneFrame
<1>1. device' = device
  BY <1>0 DEF GetStep, HttpPost, ParseKey, ShiftValue, StoreValue, ParseDone
<1>2. c.at \in {"post", "parse", "shift", "store"}
  BY <1>0 DEF GetStep, HttpPost, ParseKey, ShiftValue, StoreValue, ParseDone
<1>3. CallInv'
  BY <1>0, <1>2 DEF SceneInv, CallInv
<1>4. ASSUME clean'
      PROVE  GetInv' /\ \A k \in Controls : current'[k] \in {current[k], device[k]}
  <2>0. GetInv /\ (c.at = "post" => d.reply = device)
    BY <1>0, <1>4 DEF SceneInv, StageInv
  <2>1. CASE HttpPost(Main)
    <3>1. current' = current /\ c.at = "post"
      BY <2>1 DEF HttpPost
    <3>2. d.reply = device
      BY <2>0, <3>1
    <3>3. d.at = "parse"
      <4>1. ASSUME NEW rc \in Codes, GiveUp(Main, rc)
            PROVE  FALSE
        <5>1. d = Returning(rc)
          BY <4>1, SceneTypes DEF GiveUp
        <5>2. d.reply = <<>>
          BY <5>1 DEF Returning, Idle
        <5>3. DOMAIN device = {}
          BY <3>2, <5>2
        <5>4. "fan" \in DOMAIN device
          BY SceneTypes DEF Controls
        <5> QED
          BY <5>3, <5>4
      <4>2. ASSUME NEW reply, BeginParse(Main, reply)
            PROVE  d.at = "parse"
        <5>1. d = [c EXCEPT !.at = "parse", !.reply = reply]
          BY <4>2, SceneTypes DEF BeginParse
        <5> QED
          BY <5>1, SceneTypes DEF CallType
      <4> QED
        BY <2>1, <4>1, <4>2 DEF HttpPost, Codes
    <3>4. \A k \in Controls : k \in DOMAIN d.reply
      BY <3>2, SceneTypes
    <3> QED
      BY <1>1, <3>1, <3>2, <3>3, <3>4 DEF GetInv
  <2>2. ASSUME NEW k \in DOMAIN c.reply, ParseKey(Main, k)
        PROVE  GetInv' /\ \A k2 \in Controls : current'[k2] \in {current[k2], device[k2]}
    <3>1. /\ c.at = "parse"
          /\ current' = IF k \in Controls THEN [current EXCEPT ![k] = c.reply[k]] ELSE current
      BY <2>2 DEF ParseKey
    <3>2. \A k2 \in Controls :
            IF k2 \in DOMAIN c.reply THEN c.reply[k2] = device[k2] ELSE current[k2] = device[k2]
      BY <2>0, <3>1 DEF GetInv
    <3>3. \A k2 \in Controls :
            current'[k2] = IF k2 = k THEN device[k2] ELSE current[k2]
      BY <3>1, <3>2, SceneTypes
    <3>4. PICK differs : d \in {SkipKey(c, k), TakeKey(c, k, differs)}
      BY <2>2, SceneTypes, Zenon DEF ParseKey
    <3>5. CASE d = SkipKey(c, k)
      <4>1. d.at = "parse" /\ d.reply = Without(c.reply, k)
        BY <3>1, <3>5, SceneTypes DEF SkipKey, CallType
      <4>2. /\ DOMAIN d.reply = DOMAIN c.reply \ {k}
            /\ \A k2 \in DOMAIN d.reply : d.reply[k2] = c.reply[k2]
        BY <4>1 DEF Without, Restrict
      <4>3. GetInv'
        BY <1>1, <3>2, <3>3, <4>1, <4>2 DEF GetInv
      <4> QED
        BY <3>3, <4>3
    <3>6. CASE d = TakeKey(c, k, differs)
      <4>1. d.at = "shift" /\ d.reply = c.reply /\ d.key = k
        <5> DEFINE f == c.changed \/ differs
        <5>1. d = [c EXCEPT !.at = "shift", !.key = k, !.changed = f]
          BY <3>6, Zenon DEF TakeKey
        <5> HIDE DEF f
        <5> QED
          BY <5>1, SceneTypes DEF CallType
      <4>2. GetInv'
        BY <1>1, <3>2, <3>3, <4>1 DEF GetInv
      <4> QED
        BY <3>3, <4>2
    <3> QED
      BY <3>4, <3>5, <3>6
  <2>3. CASE ShiftValue(Main)
    <3>1. current' = current /\ c.at = "shift"
      BY <2>3 DEF ShiftValue
    <3>2. d = [c EXCEPT !.at = "store"]
      BY <2>3, SceneTypes DEF ShiftValue
    <3>3. d.at = "store" /\ d.reply = c.reply /\ d.key = c.key
      BY <3>2, SceneTypes DEF CallType
    <3> QED
      BY <1>1, <2>0, <3>1, <3>3 DEF GetInv
  <2>4. CASE StoreValue(Main)
    <3>1. current' = current /\ c.at = "store"
      BY <2>4 DEF StoreValue
    <3>2. d = [c EXCEPT !.at = "parse", !.key = "", !.reply = Without(@, c.key)]
      BY <2>4, SceneTypes DEF StoreValue
    <3>3. d.at = "parse" /\ d.reply = Without(c.reply, c.key)
      BY <3>2, SceneTypes DEF CallType
    <3>4. /\ DOMAIN d.reply = DOMAIN c.reply \ {c.key}
          /\ \A k2 \in DOMAIN d.reply : d.reply[k2] = c.reply[k2]
      BY <3>3 DEF Without, Restrict
    <3> QED
      BY <1>1, <2>0, <3>1, <3>3, <3>4 DEF GetInv
  <2>5. CASE ParseDone(Main)
    <3>1. current' = current /\ c.at = "parse" /\ DOMAIN c.reply = {}
      BY <2>5 DEF ParseDone
    <3>2. PICK rc : d = Returning(rc)
      BY <2>5, SceneTypes DEF ParseDone
    <3>3. d.at = "return"
      BY <3>2 DEF Returning, Idle
    <3> QED
      BY <1>1, <2>0, <3>1, <3>3 DEF GetInv, Synced
  <2> QED
    BY <1>0, <2>1, <2>2, <2>3, <2>4, <2>5 DEF GetStep
<1>5. ASSUME clean'
      PROVE  Stage(scene, script, device, current)'
  <2>1. Stage(scene, script, device, current)
    BY <1>0, <1>5 DEF SceneInv, StageInv
  <2>2. Stage(scene, script, device', current')
    BY <1>1, <1>4, <1>5, <2>1, Undisturbed, SceneTypes
  <2> QED
    BY <1>0, <2>2
<1> QED
  BY <1>3, <1>4, <1>5 DEF SceneInv, StageInv

LEMMA SceneInvStep ==
  ASSUME TypeInv, SceneInv, [Next]_vars
  PROVE  SceneInv'
<1>i. mpc # "scene" \/ script = <<>> => call[Main].at = "idle"
  BY DEF SceneInv, CallInv
<1>j. Posting.at = "post" /\ Idle.at = "idle"
  BY DEF Posting, Idle
\* A step of the main thread between two scenes.
<1>o. ASSUME mpc # "scene" \/ script = <<>>, mpc' # "scene", call' = call
      PROVE  SceneInv'
  BY <1>i, <1>o, SceneOver
\* A step of the network thread.
<1>n. ASSUME call'[Main] = call[Main], UNCHANGED mainVars, device' = device,
             clean' => clean /\ \A k \in Controls : current'[k] \in {current[k], device[k]}
      PROVE  SceneInv'
  BY <1>n, SceneKept DEF mainVars
<1>1. CASE WorkIdle \/ SessionBegin \/ SessionEnd
  BY <1>1, <1>o DEF WorkIdle, SessionBegin, SessionEnd, Working, netVars
<1>2. ASSUME NEW sc \in Scenes, CallScene(sc)
      PROVE  SceneInv'
  <2>1. /\ mpc = "work" /\ scene' = sc /\ script' = Script(sc)
        /\ UNCHANGED <<device, current, call>>
    BY <1>2 DEF CallScene, Working, netVars
  <2>2. call'[Main].at = "idle"
    BY <1>i, <2>1
  <2>3. sc \in AnyScene
    BY ScenesKnown
  <2>4. StageStart(sc, Script(sc), device', current')
    BY <2>3, ScriptIs DEF StageStart
  <2>5. Stage(scene, script, device, current)'
    BY <2>1, <2>4 DEF Stage
  <2> QED
    BY <2>2, <2>5 DEF SceneInv, CallInv, StageInv, GetInv
<1>3. CASE SceneGetBegin
  <2>1. /\ mpc = "scene" /\ script # <<>> /\ Head(script).do = "get"
        /\ UNCHANGED <<device, current, script, clean, mpc, scene>>
    BY <1>3 DEF SceneGetBegin, SceneStep, SceneFrame, StartGet
  <2>2. call'[Main].at = "post"
    BY <1>3, <1>j, SceneTypes DEF SceneGetBegin, StartGet
  <2>3. clean => Stage(scene, script, device, current)
    BY <2>1 DEF SceneInv, StageInv
  <2> QED
    BY <2>1, <2>2, <2>3 DEF SceneInv, CallInv, StageInv, GetInv
<1>4. CASE SceneGetStep
  BY <1>4, SceneGetKeeps
<1>5. CASE SceneGetEnd
  <2>1. /\ mpc = "scene" /\ script # <<>> /\ call[Main].at = "return"
        /\ script' = Tail(script)
        /\ UNCHANGED <<device, current, clean, mpc, scene>>
    BY <1>5 DEF SceneGetEnd, SceneStep, SceneFrame, EndGet
  <2>2. call'[Main].at = "idle"
    BY <1>5, <1>j, SceneTypes DEF SceneGetEnd, EndGet
  <2>3. Head(script).do = "get"
    BY <2>1 DEF SceneInv, CallInv
  <2>4. clean => Stage(scene, script, device, current) /\ Synced(device, current)
    BY <2>1 DEF SceneInv, StageInv, GetInv
  <2>5. clean => Stage(scene, Tail(script), device, current)
    BY <2>1, <2>3, <2>4, GetDone, SceneTypes
  <2> QED
    BY <2>1, <2>2, <2>5 DEF SceneInv, CallInv, StageInv, GetInv
<1>6. CASE SceneDecide
  <2>1. /\ mpc = "scene" /\ script # <<>>
        /\ UNCHANGED <<device, current, call, clean, mpc, scene>>
    BY <1>6 DEF SceneDecide, SceneStep, SceneFrame, netVars
  <2>2. call'[Main].at = "idle"
    <3>1. Head(script).do # "get"
      BY <1>6 DEF SceneDecide
    <3> QED
      BY <2>1, <3>1 DEF SceneInv, CallInv
  <2>3. clean => Stage(scene, script', device, current)
    BY <1>6, <2>1, Decide, SceneTypes DEF SceneInv, StageInv
  <2> QED
    BY <2>1, <2>2, <2>3 DEF SceneInv, CallInv, StageInv, GetInv
<1>7. CASE ScenePress
  <2>1. /\ mpc = "scene" /\ script # <<>> /\ Head(script).do = "press"
        /\ script' = Tail(script)
        /\ clean' => clean /\ device' = Pressed(device, Head(script).arg)
        /\ UNCHANGED <<current, call, mpc, scene>>
    BY <1>7 DEF ScenePress, SceneStep, SceneFrame, PostButton
  <2>2. call'[Main].at = "idle"
    BY <2>1 DEF SceneInv, CallInv
  <2>3. clean' => Stage(scene, Tail(script), device', current)
    BY <2>1, Press, SceneTypes DEF SceneInv, StageInv
  <2> QED
    BY <2>1, <2>2, <2>3 DEF SceneInv, CallInv, StageInv, GetInv
<1>8. CASE SceneEnd
  BY <1>8, <1>o DEF SceneEnd, netVars
<1>9. CASE TryLock \/ NoSession \/ AnnounceSent \/ AnnounceFailed \/ Identify
  BY <1>9, <1>o
  DEF TryLock, NoSession, AnnounceSent, AnnounceFailed, Identify, BodyFrame
<1>10. CASE CheckChanges \/ ClearChanges \/ PushSensor \/ SendPush
  BY <1>10, <1>o DEF CheckChanges, ClearChanges, PushSensor, SendPush, BodyFrame
<1>11. CASE Teardown
  BY <1>11, <1>o DEF Teardown, netVars
<1>12. CASE NetTop \/ NetNotDue \/ NetPong
  BY <1>12, <1>n DEF NetTop, NetNotDue, NetPong, NetFrame, netVars
<1>13. CASE NetPoll \/ NetReturn
  <2>1. call'[Main] = call[Main]
    BY <1>13, SceneTypes DEF NetPoll, NetReturn, StartGet, EndGet
  <2>2. UNCHANGED mainVars /\ device' = device /\ current' = current /\ clean' = clean
    BY <1>13 DEF NetPoll, NetReturn, NetFrame, StartGet, EndGet
  <2> QED
    BY <1>n, <2>1, <2>2
<1>14. CASE NetGetStep
  <2>1. call'[Main] = call[Main]
    BY <1>14, SceneTypes
    DEF NetGetStep, GetStep, HttpPost, BeginParse, GiveUp, ParseKey, ShiftValue, StoreValue,
        ParseDone
  <2>2. device' = device
    BY <1>14
    DEF NetGetStep, GetStep, HttpPost, ParseKey, ShiftValue, StoreValue, ParseDone
  <2>3. UNCHANGED mainVars
    BY <1>14 DEF NetGetStep, NetFrame
  <2>4. clean' => clean /\ \A k \in Controls : current'[k] \in {current[k], device[k]}
    BY <1>14 DEF NetGetStep
  <2> QED
    BY <1>n, <2>1, <2>2, <2>3, <2>4
<1>15. CASE Crash
  <2>1. mpc' = "crashed" /\ call' = call /\ mpc \in {"freed", "join"}
    BY <1>15 DEF Crash, UsesFreed, netVars
  <2> QED
    BY <1>o, <2>1
<1>16. CASE Signal
  BY <1>16, SceneKept DEF Signal, netVars, mainVars, history
<1>17. CASE DeviceDrift
  <2>1. PICK q \in Quantities, v \in Readings : device' = [device EXCEPT ![q] = v]
    BY <1>17 DEF DeviceDrift, Drift
  <2>2. \A k \in Controls : device'[k] = device[k]
    BY <2>1, SceneTypes DEF Quantities
  <2> QED
    BY <1>17, <2>2, SceneKept DEF DeviceDrift, Drift, mainVars, history
<1>18. ASSUME NEW btn \in UserButtons, UserPress(btn)
       PROVE  SceneInv'
  BY <1>18, SceneKept DEF UserPress, mainVars
<1>19. CASE UNCHANGED vars
  BY <1>19, SceneKept DEF vars, netVars, mainVars, history
<1> QED
  BY <1>1, <1>2, <1>3, <1>4, <1>5, <1>6, <1>7, <1>8, <1>9, <1>10, <1>11, <1>12, <1>13,
     <1>14, <1>15, <1>16, <1>17, <1>18, <1>19
  DEF Next, MainStep, NetStep, NetRun, Environment, Stopped

\* A configured scene that no failed request, no finger on the panel and no
\* outdated answer of the network thread disturbed ends with the modes and the
\* fan as configured (vdsd.c:162-189), whatever the modes and the fan were, and
\* however the steps of the network thread fall in between.
THEOREM SceneIsReached == Spec => []SceneReached
<1>1. Init => SceneInv
  <2> SUFFICES ASSUME Init PROVE SceneInv
    OBVIOUS
  <2>1. call[Main] = Idle /\ Idle.at = "idle"
    BY ThreadsAssumption DEF Init, NetInit, Idle
  <2> QED
    BY <2>1 DEF Init, SceneInv, CallInv, StageInv
<1>2. TypeInv /\ SceneInv /\ [Next]_vars => (TypeInv /\ SceneInv)'
  BY NextType, SceneInvStep
<1>3. TypeInv /\ SceneInv => SceneReached
  <2> SUFFICES ASSUME TypeInv, SceneInv, SceneDone, clean
               PROVE  Reached(scene)
    BY DEF SceneReached
  <2>1. Stage(scene, <<>>, device, current)
    BY DEF SceneInv, StageInv, SceneDone
  <2> QED
    BY <2>1, SettledReached, SceneTypes
<1> QED
  BY InitType, <1>1, <1>2, <1>3, PTL DEF Spec

=============================================================================

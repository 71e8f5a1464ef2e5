---------------------- MODULE PropertyHandlersProofs -----------------------
(***************************************************************************)
(* Theorems about PropertyHandlers: for every table, every request and any *)
(* interleaving with the network thread.                                   *)
(***************************************************************************)
EXTENDS PropertyHandlers, TLAPS

-----------------------------------------------------------------------------
(* The inductive invariant, part by part.                                  *)

\* What the program counter says about the request and the loops.
LoopInv ==
  /\ at = "lock" => NeedsLock(request)
  /\ at = "vdc" => request.kind = "get"
  /\ at = "element" => request.kind \in {"get", "set"}
  /\ at \in {"walk", "date"} =>
       \/ request.kind = "push"
       \/ /\ request.kind = "get" /\ element <= Len(request.elements)
          /\ Current.name \in Walks
          /\ Current.name = "sensorStates" => ~Nameless(request.elements)
  /\ poll.at = "date" => poll.sensor < Active
  /\ at = "date" => cursor < Active /\ Dated /\ ~Passes(cursor)

\* Only the main thread ever owns the mutex.
LockInv == Released /\ (mutex.count = 0 => mutex.owner = NoOwner)

ZonesBefore(e) == {i \in Zones(request) : i < e}

\* The code after the properties in front of element, and the zone.
CodeInv ==
  /\ at = "lock" => code = "NOT_IMPLEMENTED" /\ element = 1 /\ zone = before
  /\ at = "element" /\ request.kind = "set" =>
       /\ code = "NOT_IMPLEMENTED" => ZonesBefore(element) = {} /\ zone = before
       /\ code = "INVALID_VALUE_TYPE" => element > Len(request.elements)
       /\ code = "OK" =>
            /\ \A i \in ZonesBefore(element) : request.elements[i].value # <<>>
            /\ \A i \in ZonesBefore(element) :
                 (\A j \in ZonesBefore(element) : j <= i)
                   => zone = request.elements[i].value[1] % Width
            /\ ZonesBefore(element) = {} => zone = before

\* The poll that is storing, at this sensor, has stored the value only.
Undated(t) == poll.at = "date" /\ poll.sensor = t

\* No sensor of the table is stored again by the poll that is running.
StoredAlready(t) ==
  \/ poll.at = "idle"
  \/ poll.sensor > t
  \/ Undated(t)

\* A value is as old as its last_query says, except in the middle of a store.
TableInv ==
  \A t \in Sensors :
    /\ sensors[t].last_value <= sensors[t].value /\ sensors[t].value <= polls
    /\ Undated(t) => sensors[t].last_query = sensors[t].last_value /\ sensors[t].value = polls
    /\ ~Undated(t) => sensors[t].last_query = sensors[t].value

\* At most one poll ends while an answer is put together.
ReadingInv ==
  Reading =>
    /\ polls <= now + 1
    /\ polled => poll.at = "idle"
    /\ poll.at = "idle" /\ ~polled => polls <= now

\* So a value that was read is overtaken by one store at most.
OvertakenInv ==
  at = "date" =>
    \/ value = sensors[cursor].value
    \/ /\ value = sensors[cursor].last_value
       /\ StoredAlready(cursor)
       /\ poll.at = "idle" => polled

AgeInv == TableInv /\ ReadingInv /\ OvertakenInv /\ AgeFits

IsWalk(i) == request.elements[i].name \in Walks

\* The sensors the walk for the i-th property does not pass.
Taken(i) ==
  IF request.elements[i].name = "sensorStates" THEN Wanted(request.elements[1].sub) ELSE Sensors

\* The answer to the i-th property has these sensors; without memory, the first
\* of them.
Complete(i) ==
  IsWalk(i) =>
    /\ Answered(i) \subseteq Taken(i)
    /\ \A t \in Taken(i) \ Answered(i) : short /\ \A u \in Answered(i) : u < t

\* The answers so far, and those of the walk that is under way.
AnswerInv ==
  /\ at \in {"idle", "lock", "vdc"} => reply = {}
  /\ at \in {"element", "walk", "date"} /\ request.kind = "get" =>
       /\ \A r \in reply : r.of \in Nat /\ r.of <= element /\ (at = "element" => r.of < element)
       /\ \A i \in 1 .. element - 1 : Complete(i)
       /\ at # "element" => Answered(element) = {t \in Taken(element) : t < cursor}

HandlerInv ==
  /\ TypeOK /\ LoopInv /\ LockInv
  /\ AnsweredOnce /\ CodeInv /\ CodeTells
  /\ AgeInv /\ AnswerInv

-----------------------------------------------------------------------------
(* The types.                                                              *)

\* What fits into 16 bits.
LEMMA WidthFacts == Width \in Nat \ {0} /\ 0 \in uint16_t /\ \A n \in Nat : n % Width \in uint16_t
<1>1. Width \in Nat \ {0}
  BY DEF Width
<1> QED
  BY <1>1 DEF uint16_t

\* Facts about requests, from their type.
LEMMA RequestFacts ==
  \A r \in Requests \cup {Push} :
    /\ r \in RequestType
    /\ Len(r.elements) \in Nat
    /\ DOMAIN r.elements = 1 .. Len(r.elements)
    /\ \A i \in 1 .. Len(r.elements) : r.elements[i] \in ElementType
    /\ r.kind = "set" => r.to # "vdc"
<1>1. Push \in RequestType /\ Push.kind # "set"
  BY DEF Push, RequestType, Handles
<1> SUFFICES ASSUME NEW r \in Requests \cup {Push}
             PROVE  /\ r \in RequestType
                    /\ Len(r.elements) \in Nat
                    /\ DOMAIN r.elements = 1 .. Len(r.elements)
                    /\ \A i \in 1 .. Len(r.elements) : r.elements[i] \in ElementType
                    /\ r.kind = "set" => r.to # "vdc"
  OBVIOUS
<1>2. r \in RequestType /\ (r.kind = "set" => r.to # "vdc")
  BY <1>1, HandlerConstants
<1>3. r.elements \in Seq(ElementType)
  BY <1>2 DEF RequestType
<1> QED
  BY <1>2, <1>3

\* The parts of TypeOK.
MutexTyped == mutex \in MutexType /\ base \in Nat

ZoneTyped ==
  /\ zone \in uint16_t /\ before \in uint16_t
  /\ code \in {"OK", "NOT_IMPLEMENTED", "INVALID_VALUE_TYPE"}

TableTyped ==
  /\ sensors \in [Sensors -> [value : Nat, last_value : Nat, last_query : Nat]]
  /\ polls \in Nat
  /\ poll \in [at : {"idle", "store", "date"}, sensor : 0 .. Active]

FlagsTyped ==
  /\ memory \in BOOLEAN /\ short \in BOOLEAN /\ polled \in BOOLEAN

WalkTyped == now \in Nat /\ value \in Nat

LoopTyped ==
  /\ at \in {"idle", "lock", "vdc", "element", "walk", "date", "undefined"}
  /\ request \in Requests \cup {Push}
  /\ element \in 1 .. Len(request.elements) + 1
  /\ cursor \in 0 .. Active

\* TypeOK is the conjunction of its parts.
LEMMA TypeParts ==
  TypeOK <=> MutexTyped /\ ZoneTyped /\ TableTyped /\ FlagsTyped /\ WalkTyped /\ LoopTyped
BY DEF TypeOK, MutexTyped, ZoneTyped, TableTyped, FlagsTyped, WalkTyped, LoopTyped

-----------------------------------------------------------------------------
(* What the steps leave alone.                                             *)

\* The main loop and the scenes between two requests, and the memory.
LEMMA OutsideFrame ==
  Leak \/ SceneUnlocks \/ MemoryChanges =>
    UNCHANGED <<zone, sensors, polls, poll, at, request, element, cursor, now, value, polled,
                code, sent, reply, short, before>>
<1>1. Leak => UNCHANGED <<zone, sensors, polls, poll, at, request, element, cursor, now, value,
                          polled, code, sent, reply, short, before>>
  BY DEF Leak, tableVars, walkVars
<1>2. SceneUnlocks => UNCHANGED <<zone, sensors, polls, poll, at, request, element, cursor, now,
                                  value, polled, code, sent, reply, short, before>>
  BY DEF SceneUnlocks, tableVars, walkVars
<1>3. MemoryChanges => UNCHANGED <<zone, sensors, polls, poll, at, request, element, cursor, now,
                                   value, polled, code, sent, reply, short, before>>
  BY DEF MemoryChanges, tableVars, walkVars, historyVars
<1> QED
  BY <1>1, <1>2, <1>3

\* The network thread.
LEMMA PollFrame ==
  PollStep => UNCHANGED <<zone, memory, at, request, element, cursor, now, value, code,
                          sent, reply, short, before, base>>
<1>1. PollStep => NetFrame
  BY DEF PollStep, PollBegin, PollOmits, PollValue, PollDate, PollUnlocks
<1> QED
  BY <1>1 DEF NetFrame, historyVars

\* The handlers never write to the sensor table.
LEMMA HandleFrame == Handle => UNCHANGED <<sensors, polls, poll, memory, base>>
<1>1. Handle => Frame
  BY DEF Handle, VdcNameError, VdcProperty, VdcFinish, IndexUndefined, WalkLeavesTable, Lock, NameError, Wildcard, SetMistyped, SetNamed, GetOther, WalkRefused, WalkBegin,
     Finish, Answer, Return, NextElement, WalkPasses, WalkStatic, WalkValue, WalkDate, WalkBreaks,
     WalkEnds, SendPush, WalkFrame
<1> QED
  BY <1>1 DEF Frame, tableVars

-----------------------------------------------------------------------------
(* The steps keep the types.                                               *)

\* The calls of the mutex keep its type.
LEMMA MutexCalls ==
  ASSUME NEW m \in MutexType, NEW t \in Threads
  PROVE  /\ Locked(m, t) \in MutexType
         /\ Unlocked(m, t) \in MutexType
<1>1. Locked(m, t) \in MutexType
  BY DEF Locked, MutexType
<1>2. FreeMutex \in MutexType
  BY DEF FreeMutex, MutexType
<1>3. m.count > 1 => [m EXCEPT !.count = @ - 1] \in MutexType
  BY DEF MutexType
<1>4. m.owner # t \/ (m.owner = t /\ m.count <= 1) \/ (m.owner = t /\ m.count > 1)
  BY DEF MutexType
<1> QED
  BY <1>1, <1>2, <1>3, <1>4 DEF Unlocked

\* The mutex keeps its type, and the levels leaked their number.
LEMMA MutexTypedStep == TypeOK /\ Next => MutexTyped'
<1> SUFFICES ASSUME TypeOK, Next
             PROVE  MutexTyped'
  OBVIOUS
<1>a. Main \in Threads /\ Net \in Threads
  BY HandlerConstants
<1>b. /\ Locked(mutex, Main) \in MutexType
      /\ Unlocked(mutex, Main) \in MutexType
      /\ Unlocked(mutex, Net) \in MutexType
  BY <1>a, MutexCalls DEF TypeOK
<1> USE <1>b
<1> USE TypeParts DEF MutexTyped
<1>1. CASE Leak
  BY <1>1 DEF Leak, tableVars, walkVars
<1>2. CASE SceneUnlocks
  BY <1>2 DEF SceneUnlocks, tableVars, walkVars 
<1>3. ASSUME NEW r \in Requests \cup {Push}, Receive(r)
      PROVE  MutexTyped'
  BY <1>3 DEF Receive, Fresh, Frame, tableVars
<1>4. CASE Lock
  BY <1>4 DEF Lock, Frame, tableVars, walkVars
<1>5. CASE NameError
  BY <1>5 DEF NameError, Answer, Return, Fresh, Frame, tableVars, AtElement
<1>6. CASE Wildcard
  BY <1>6 DEF Wildcard, NextElement, AtElement, Frame, tableVars, walkVars
<1>7. CASE SetMistyped
  BY <1>7 DEF SetMistyped, AtElement, Frame, tableVars, walkVars
<1>8. CASE SetNamed
  BY <1>8 DEF SetNamed, NextElement, AtElement, Frame, tableVars, walkVars
<1>9. CASE GetOther
  BY <1>9 DEF GetOther, NextElement, AtElement, Frame, tableVars, walkVars
<1>10. CASE WalkRefused
  BY <1>10 DEF WalkRefused, NextElement, AtElement, Frame, tableVars, walkVars
<1>11. CASE WalkBegin
  BY <1>11 DEF WalkBegin, AtElement, Frame, tableVars
<1>12. CASE Finish
  BY <1>12 DEF Finish, Answer, Return, Fresh, Frame, tableVars
<1>13. CASE WalkPasses
  BY <1>13 DEF WalkPasses, WalkFrame, Frame, tableVars
<1>14. CASE WalkStatic
  BY <1>14 DEF WalkStatic, WalkFrame, Frame, tableVars
<1>15. CASE WalkValue
  BY <1>15 DEF WalkValue, WalkFrame, Frame, tableVars
<1>16. CASE WalkDate
  BY <1>16 DEF WalkDate, WalkFrame, Frame, tableVars
<1>17. CASE WalkBreaks
  BY <1>17 DEF WalkBreaks, WalkFrame, Frame, tableVars, walkVars
<1>18. CASE WalkEnds
  BY <1>18 DEF WalkEnds, WalkFrame, Frame, tableVars, walkVars
<1>19. CASE SendPush
  BY <1>19 DEF SendPush, Answer, Return, Fresh, Frame, tableVars
<1>20. CASE PollBegin
  BY <1>20 DEF PollBegin, NetFrame, historyVars
<1>21. CASE PollOmits
  BY <1>21 DEF PollOmits, NetFrame, historyVars
<1>22. CASE PollValue
  BY <1>22 DEF PollValue, NetFrame, historyVars
<1>23. CASE PollDate
  BY <1>23 DEF PollDate, NetFrame, historyVars
<1>24. CASE PollUnlocks
  BY <1>24 DEF PollUnlocks, NetFrame, historyVars
<1>25. CASE MemoryChanges
  BY <1>25 DEF MemoryChanges, tableVars, walkVars, historyVars
<1>31. CASE VdcNameError
  BY <1>31 DEF VdcNameError, AtVdcElement, Return, Fresh, Frame, tableVars
<1>32. CASE VdcProperty
  BY <1>32 DEF VdcProperty, NextElement, AtVdcElement, Frame, tableVars, walkVars
<1>33. CASE VdcFinish
  BY <1>33 DEF VdcFinish, Return, Fresh, Frame, tableVars
<1>34. CASE IndexUndefined
  BY <1>34 DEF IndexUndefined, AtElement, Frame, tableVars, walkVars
<1>35. CASE WalkLeavesTable
  BY <1>35 DEF WalkLeavesTable, WalkFrame, Frame, tableVars, walkVars
<1> QED
  BY <1>1, <1>2, <1>3, <1>4, <1>5, <1>6, <1>7, <1>8, <1>9, <1>10, <1>11, <1>12, <1>13,
     <1>14, <1>15, <1>16, <1>17, <1>18, <1>19, <1>20, <1>21, <1>22, <1>23, <1>24, <1>25,
     <1>31, <1>32, <1>33, <1>34, <1>35
  DEF Next, Handle, PollStep

\* The zone stays within 16 bits.
LEMMA ZoneTypedStep == TypeOK /\ Next => ZoneTyped'
<1> SUFFICES ASSUME TypeOK, Next
             PROVE  ZoneTyped'
  OBVIOUS
<1> USE WidthFacts, RequestFacts
<1> USE TypeParts DEF ZoneTyped
<1>1. CASE Leak \/ SceneUnlocks \/ MemoryChanges
  BY <1>1, OutsideFrame
<1>2. CASE PollStep
  BY <1>2, PollFrame
<1>3. ASSUME NEW r \in Requests \cup {Push}, Receive(r)
      PROVE  ZoneTyped'
  BY <1>3 DEF Receive, Fresh, Frame, tableVars
<1>4. CASE Lock
  BY <1>4 DEF Lock, Frame, tableVars, walkVars
<1>5. CASE NameError
  BY <1>5 DEF NameError, Answer, Return, Fresh, Frame, tableVars, AtElement
<1>6. CASE Wildcard
  BY <1>6 DEF Wildcard, NextElement, AtElement, Frame, tableVars, walkVars
<1>7. CASE SetMistyped
  BY <1>7 DEF SetMistyped, AtElement, Frame, tableVars, walkVars
<1>8. CASE SetNamed
  <2>1. Current \in ElementType
    <3>1. \A i \in 1 .. Len(request.elements) : request.elements[i] \in ElementType
      BY RequestFacts DEF LoopTyped
    <3>2. element \in 1 .. Len(request.elements)
      <4>1. Len(request.elements) \in Nat /\ element \in 1 .. Len(request.elements) + 1
        BY RequestFacts DEF LoopTyped
      <4>2. element <= Len(request.elements)
        BY <1>8 DEF SetNamed, AtElement
      <4> QED
        BY <4>1, <4>2
    <3> QED
      BY <3>1, <3>2 DEF Current
  <2>2. Current.value \in Seq(Nat)
    BY <2>1 DEF ElementType
  <2>3. Current.name = "zoneID" => Current.value[1] \in Nat
    BY <1>8, <2>2 DEF SetNamed
  <2>4. zone' \in uint16_t
    BY <1>8, <2>3 DEF SetNamed
  <2> QED
    BY <1>8, <2>4 DEF SetNamed, NextElement
<1>9. CASE GetOther
  BY <1>9 DEF GetOther, NextElement, AtElement, Frame, tableVars, walkVars
<1>10. CASE WalkRefused
  BY <1>10 DEF WalkRefused, NextElement, AtElement, Frame, tableVars, walkVars
<1>11. CASE WalkBegin
  BY <1>11 DEF WalkBegin, AtElement, Frame, tableVars
<1>12. CASE Finish
  BY <1>12 DEF Finish, Answer, Return, Fresh, Frame, tableVars
<1>13. CASE WalkPasses
  BY <1>13 DEF WalkPasses, WalkFrame, Frame, tableVars
<1>14. CASE WalkStatic
  BY <1>14 DEF WalkStatic, WalkFrame, Frame, tableVars
<1>15. CASE WalkValue
  BY <1>15 DEF WalkValue, WalkFrame, Frame, tableVars
<1>16. CASE WalkDate
  BY <1>16 DEF WalkDate, WalkFrame, Frame, tableVars
<1>17. CASE WalkBreaks
  BY <1>17 DEF WalkBreaks, WalkFrame, Frame, tableVars, walkVars
<1>18. CASE WalkEnds
  BY <1>18 DEF WalkEnds, WalkFrame, Frame, tableVars, walkVars
<1>19. CASE SendPush
  BY <1>19 DEF SendPush, Answer, Return, Fresh, Frame, tableVars
<1>31. CASE VdcNameError
  BY <1>31 DEF VdcNameError, AtVdcElement, Return, Fresh, Frame, tableVars
<1>32. CASE VdcProperty
  BY <1>32 DEF VdcProperty, NextElement, AtVdcElement, Frame, tableVars, walkVars
<1>33. CASE VdcFinish
  BY <1>33 DEF VdcFinish, Return, Fresh, Frame, tableVars
<1>34. CASE IndexUndefined
  BY <1>34 DEF IndexUndefined, AtElement, Frame, tableVars, walkVars
<1>35. CASE WalkLeavesTable
  BY <1>35 DEF WalkLeavesTable, WalkFrame, Frame, tableVars, walkVars
<1> QED
  BY <1>1, <1>2, <1>3, <1>4, <1>5, <1>6, <1>7, <1>8, <1>9, <1>10, <1>11, <1>12, <1>13,
     <1>14, <1>15, <1>16, <1>17, <1>18, <1>19,
     <1>31, <1>32, <1>33, <1>34, <1>35
  DEF Next, Handle

\* The network thread stores within the table.
LEMMA TableTypedStep == TypeOK /\ LoopInv /\ Next => TableTyped'
<1> SUFFICES ASSUME TypeOK /\ LoopInv, Next
             PROVE  TableTyped'
  OBVIOUS
<1> USE TableAssumption
<1> USE TypeParts DEF TableTyped, Sensors, is_active, LoopInv
<1>1. CASE Leak \/ SceneUnlocks \/ MemoryChanges
  BY <1>1, OutsideFrame
<1>2. CASE Handle
  BY <1>2, HandleFrame
<1>3. ASSUME NEW r \in Requests \cup {Push}, Receive(r)
      PROVE  TableTyped'
  BY <1>3 DEF Receive, Fresh, Frame, tableVars
<1>4. CASE PollBegin
  BY <1>4 DEF PollBegin, NetFrame, historyVars
<1>5. CASE PollOmits
  BY <1>5 DEF PollOmits
<1>6. CASE PollValue
  BY <1>6 DEF PollValue
<1>7. CASE PollDate
  <2>1. poll.sensor \in Sensors
    BY <1>7, TableAssumption DEF PollDate
  <2>2. sensors' \in [Sensors -> [value : Nat, last_value : Nat, last_query : Nat]]
    BY <1>7, <2>1 DEF PollDate
  <2>3. poll' \in [at : {"idle", "store", "date"}, sensor : 0 .. Active]
    <3>1. poll.sensor + 1 \in 0 .. Active
      BY <2>1
    <3>2. poll' = [at |-> "store", sensor |-> poll.sensor + 1]
      BY <1>7 DEF PollDate
    <3> QED
      BY <3>1, <3>2
  <2>4. polls' = polls
    BY <1>7 DEF PollDate
  <2> QED
    BY <2>2, <2>3, <2>4
<1>8. CASE PollUnlocks
  BY <1>8 DEF PollUnlocks, NetFrame, historyVars
<1> QED
  BY <1>1, <1>2, <1>3, <1>4, <1>5, <1>6, <1>7, <1>8
  DEF Next, PollStep

\* The flags stay Boolean.
LEMMA FlagsTypedStep == TypeOK /\ Next => FlagsTyped'
<1> SUFFICES ASSUME TypeOK, Next
             PROVE  FlagsTyped'
  OBVIOUS
<1> USE TypeParts DEF FlagsTyped
<1>1. CASE Leak
  BY <1>1 DEF Leak, tableVars, walkVars
<1>2. CASE SceneUnlocks
  BY <1>2 DEF SceneUnlocks, tableVars, walkVars
<1>3. ASSUME NEW r \in Requests \cup {Push}, Receive(r)
      PROVE  FlagsTyped'
  BY <1>3 DEF Receive, Fresh, Frame, tableVars
<1>4. CASE Lock
  BY <1>4 DEF Lock, Frame, tableVars, walkVars
<1>5. CASE NameError
  BY <1>5 DEF NameError, Answer, Return, Fresh, Frame, tableVars, AtElement
<1>6. CASE Wildcard
  BY <1>6 DEF Wildcard, NextElement, AtElement, Frame, tableVars, walkVars
<1>7. CASE SetMistyped
  BY <1>7 DEF SetMistyped, AtElement, Frame, tableVars, walkVars
<1>8. CASE SetNamed
  BY <1>8 DEF SetNamed, NextElement, AtElement, Frame, tableVars, walkVars
<1>9. CASE GetOther
  BY <1>9 DEF GetOther, NextElement, AtElement, Frame, tableVars, walkVars
<1>10. CASE WalkRefused
  BY <1>10 DEF WalkRefused, NextElement, AtElement, Frame, tableVars, walkVars
<1>11. CASE WalkBegin
  BY <1>11 DEF WalkBegin, AtElement, Frame, tableVars
<1>12. CASE Finish
  BY <1>12 DEF Finish, Answer, Return, Fresh, Frame, tableVars
<1>13. CASE WalkPasses
  BY <1>13 DEF WalkPasses, WalkFrame, Frame, tableVars
<1>14. CASE WalkStatic
  BY <1>14 DEF WalkStatic, WalkFrame, Frame, tableVars
<1>15. CASE WalkValue
  BY <1>15 DEF WalkValue, WalkFrame, Frame, tableVars
<1>16. CASE WalkDate
  BY <1>16 DEF WalkDate, WalkFrame, Frame, tableVars
<1>17. CASE WalkBreaks
  BY <1>17 DEF WalkBreaks, WalkFrame, Frame, tableVars, walkVars
<1>18. CASE WalkEnds
  BY <1>18 DEF WalkEnds, WalkFrame, Frame, tableVars, walkVars
<1>19. CASE SendPush
  BY <1>19 DEF SendPush, Answer, Return, Fresh, Frame, tableVars
<1>20. CASE PollBegin
  BY <1>20 DEF PollBegin, NetFrame, historyVars
<1>21. CASE PollOmits
  BY <1>21 DEF PollOmits, NetFrame, historyVars
<1>22. CASE PollValue
  BY <1>22 DEF PollValue, NetFrame, historyVars
<1>23. CASE PollDate
  BY <1>23 DEF PollDate, NetFrame, historyVars
<1>24. CASE PollUnlocks
  BY <1>24 DEF PollUnlocks, NetFrame, historyVars
<1>25. CASE MemoryChanges
  BY <1>25 DEF MemoryChanges, tableVars, walkVars, historyVars
<1>31. CASE VdcNameError
  BY <1>31 DEF VdcNameError, AtVdcElement, Return, Fresh, Frame, tableVars
<1>32. CASE VdcProperty
  BY <1>32 DEF VdcProperty, NextElement, AtVdcElement, Frame, tableVars, walkVars
<1>33. CASE VdcFinish
  BY <1>33 DEF VdcFinish, Return, Fresh, Frame, tableVars
<1>34. CASE IndexUndefined
  BY <1>34 DEF IndexUndefined, AtElement, Frame, tableVars, walkVars
<1>35. CASE WalkLeavesTable
  BY <1>35 DEF WalkLeavesTable, WalkFrame, Frame, tableVars, walkVars
<1> QED
  BY <1>1, <1>2, <1>3, <1>4, <1>5, <1>6, <1>7, <1>8, <1>9, <1>10, <1>11, <1>12, <1>13,
     <1>14, <1>15, <1>16, <1>17, <1>18, <1>19, <1>20, <1>21, <1>22, <1>23, <1>24, <1>25,
     <1>31, <1>32, <1>33, <1>34, <1>35
  DEF Next, Handle, PollStep

\* What is read from the table is a time and a value.
LEMMA WalkTypedStep == TypeOK /\ LoopInv /\ Next => WalkTyped'
<1> SUFFICES ASSUME TypeOK /\ LoopInv, Next
             PROVE  WalkTyped'
  OBVIOUS
<1> USE TableAssumption
<1> USE TypeParts DEF WalkTyped, Sensors, is_active, LoopInv
<1>1. CASE Leak \/ SceneUnlocks \/ MemoryChanges
  BY <1>1, OutsideFrame
<1>2. CASE PollStep
  BY <1>2, PollFrame
<1>3. ASSUME NEW r \in Requests \cup {Push}, Receive(r)
      PROVE  WalkTyped'
  BY <1>3 DEF Receive, Fresh, Frame, tableVars
<1>4. CASE Lock
  BY <1>4 DEF Lock, Frame, tableVars, walkVars
<1>5. CASE NameError
  BY <1>5 DEF NameError, Answer, Return, Fresh, Frame, tableVars, AtElement
<1>6. CASE Wildcard
  BY <1>6 DEF Wildcard, NextElement, AtElement, Frame, tableVars, walkVars
<1>7. CASE SetMistyped
  BY <1>7 DEF SetMistyped, AtElement, Frame, tableVars, walkVars
<1>8. CASE SetNamed
  BY <1>8 DEF SetNamed, NextElement, AtElement, Frame, tableVars, walkVars
<1>9. CASE GetOther
  BY <1>9 DEF GetOther, NextElement, AtElement, Frame, tableVars, walkVars
<1>10. CASE WalkRefused
  BY <1>10 DEF WalkRefused, NextElement, AtElement, Frame, tableVars, walkVars
<1>11. CASE WalkBegin
  BY <1>11 DEF WalkBegin, AtElement, Frame, tableVars, TableTyped
<1>12. CASE Finish
  BY <1>12 DEF Finish, Answer, Return, Fresh, Frame, tableVars
<1>13. CASE WalkPasses
  BY <1>13 DEF WalkPasses, WalkFrame, Frame, tableVars
<1>14. CASE WalkStatic
  BY <1>14 DEF WalkStatic, WalkFrame, Frame, tableVars
<1>15. CASE WalkValue
  <2>1. cursor \in Sensors
    BY <1>15 DEF WalkValue, LoopTyped
  <2>2. sensors[cursor].value \in Nat /\ polls \in Nat
    BY <2>1 DEF TableTyped
  <2>3. value' = sensors[cursor].value /\ now' \in {now, polls}
    BY <1>15 DEF WalkValue
  <2> QED
    BY <2>2, <2>3
<1>16. CASE WalkDate
  BY <1>16 DEF WalkDate, WalkFrame, Frame, tableVars
<1>17. CASE WalkBreaks
  BY <1>17 DEF WalkBreaks, WalkFrame, Frame, tableVars, walkVars
<1>18. CASE WalkEnds
  BY <1>18 DEF WalkEnds, WalkFrame, Frame, tableVars, walkVars
<1>19. CASE SendPush
  BY <1>19 DEF SendPush, Answer, Return, Fresh, Frame, tableVars
<1>31. CASE VdcNameError
  BY <1>31 DEF VdcNameError, AtVdcElement, Return, Fresh, Frame, tableVars
<1>32. CASE VdcProperty
  BY <1>32 DEF VdcProperty, NextElement, AtVdcElement, Frame, tableVars, walkVars
<1>33. CASE VdcFinish
  BY <1>33 DEF VdcFinish, Return, Fresh, Frame, tableVars
<1>34. CASE IndexUndefined
  BY <1>34 DEF IndexUndefined, AtElement, Frame, tableVars, walkVars
<1>35. CASE WalkLeavesTable
  BY <1>35 DEF WalkLeavesTable, WalkFrame, Frame, tableVars, walkVars
<1> QED
  BY <1>1, <1>2, <1>3, <1>4, <1>5, <1>6, <1>7, <1>8, <1>9, <1>10, <1>11, <1>12, <1>13,
     <1>14, <1>15, <1>16, <1>17, <1>18, <1>19,
     <1>31, <1>32, <1>33, <1>34, <1>35
  DEF Next, Handle

\* Both loops of a handler stay within their bounds.
LEMMA LoopTypedStep == TypeOK /\ LoopInv /\ Next => LoopTyped'
<1> SUFFICES ASSUME TypeOK /\ LoopInv, Next
             PROVE  LoopTyped'
  OBVIOUS
<1>a. Len(request.elements) \in Nat
  BY RequestFacts DEF TypeOK
<1> USE TableAssumption, RequestFacts, <1>a
<1> USE TypeParts DEF LoopTyped, LoopInv, is_active
<1>1. CASE Leak \/ SceneUnlocks \/ MemoryChanges
  BY <1>1, OutsideFrame
<1>2. CASE PollStep
  BY <1>2, PollFrame
<1>3. ASSUME NEW r \in Requests \cup {Push}, Receive(r)
      PROVE  LoopTyped'
  BY <1>3 DEF Receive, Fresh, Frame, tableVars
<1>4. CASE Lock
  BY <1>4 DEF Lock, Frame, tableVars, walkVars
<1>5. CASE NameError
  BY <1>5 DEF NameError, Answer, Return, Fresh, Frame, tableVars, AtElement
<1>6. CASE Wildcard
  BY <1>6 DEF Wildcard, NextElement, AtElement, Frame, tableVars, walkVars
<1>7. CASE SetMistyped
  BY <1>7 DEF SetMistyped, AtElement, Frame, tableVars, walkVars
<1>8. CASE SetNamed
  BY <1>8 DEF SetNamed, NextElement, AtElement, Frame, tableVars, walkVars
<1>9. CASE GetOther
  BY <1>9 DEF GetOther, NextElement, AtElement, Frame, tableVars, walkVars
<1>10. CASE WalkRefused
  BY <1>10 DEF WalkRefused, NextElement, AtElement, Frame, tableVars, walkVars
<1>11. CASE WalkBegin
  BY <1>11 DEF WalkBegin, AtElement, Frame, tableVars
<1>12. CASE Finish
  BY <1>12 DEF Finish, Answer, Return, Fresh, Frame, tableVars
<1>13. CASE WalkPasses
  BY <1>13 DEF WalkPasses, WalkFrame, Frame, tableVars
<1>14. CASE WalkStatic
  BY <1>14 DEF WalkStatic, WalkFrame, Frame, tableVars
<1>15. CASE WalkValue
  BY <1>15 DEF WalkValue, WalkFrame, Frame, tableVars
<1>16. CASE WalkDate
  BY <1>16 DEF WalkDate, WalkFrame, Frame, tableVars
<1>17. CASE WalkBreaks
  BY <1>17 DEF WalkBreaks, WalkFrame, Frame, tableVars, walkVars
<1>18. CASE WalkEnds
  BY <1>18 DEF WalkEnds, WalkFrame, Frame, tableVars, walkVars
<1>19. CASE SendPush
  BY <1>19 DEF SendPush, Answer, Return, Fresh, Frame, tableVars
<1>31. CASE VdcNameError
  BY <1>31 DEF VdcNameError, AtVdcElement, Return, Fresh, Frame, tableVars
<1>32. CASE VdcProperty
  BY <1>32 DEF VdcProperty, NextElement, AtVdcElement, Frame, tableVars, walkVars
<1>33. CASE VdcFinish
  BY <1>33 DEF VdcFinish, Return, Fresh, Frame, tableVars
<1>34. CASE IndexUndefined
  BY <1>34 DEF IndexUndefined, AtElement, Frame, tableVars, walkVars
<1>35. CASE WalkLeavesTable
  BY <1>35 DEF WalkLeavesTable, WalkFrame, Frame, tableVars, walkVars
<1> QED
  BY <1>1, <1>2, <1>3, <1>4, <1>5, <1>6, <1>7, <1>8, <1>9, <1>10, <1>11, <1>12, <1>13,
     <1>14, <1>15, <1>16, <1>17, <1>18, <1>19,
     <1>31, <1>32, <1>33, <1>34, <1>35
  DEF Next, Handle

\* A walk goes on only for a push or a property that is one of the walks.
LEMMA LoopInvStep == TypeOK /\ LoopInv /\ Next => LoopInv'
<1> SUFFICES ASSUME TypeOK /\ LoopInv, Next
             PROVE  LoopInv'
  OBVIOUS
<1> USE TableAssumption
<1> USE TypeParts DEF LoopInv, NeedsLock, Current, AtElement, Dated, Passes, Only, is_active, Sensors
<1>1. CASE Leak \/ SceneUnlocks \/ MemoryChanges
  BY <1>1, OutsideFrame
<1>2. ASSUME NEW r \in Requests \cup {Push}, Receive(r)
      PROVE  LoopInv'
  BY <1>2 DEF Receive, ForVdc, Fresh, Frame, tableVars
<1>3. CASE Lock
  BY <1>3 DEF Lock, Frame, tableVars, walkVars
<1>4. CASE NameError
  BY <1>4 DEF NameError, Answer, Return, Fresh, Frame, tableVars, AtElement
<1>5. CASE Wildcard
  BY <1>5 DEF Wildcard, NextElement, AtElement, Frame, tableVars, walkVars
<1>6. CASE SetMistyped
  BY <1>6 DEF SetMistyped, AtElement, Frame, tableVars, walkVars
<1>7. CASE SetNamed
  BY <1>7 DEF SetNamed, NextElement, AtElement, Frame, tableVars, walkVars
<1>8. CASE GetOther
  BY <1>8 DEF GetOther, NextElement, AtElement, Frame, tableVars, walkVars
<1>9. CASE WalkRefused
  BY <1>9 DEF WalkRefused, NextElement, AtElement, Frame, tableVars, walkVars
<1>10. CASE WalkBegin
  BY <1>10 DEF WalkBegin, AtElement, Frame, tableVars
<1>11. CASE Finish
  BY <1>11 DEF Finish, Answer, Return, Fresh, Frame, tableVars
<1>12. CASE WalkPasses
  <2>1. UNCHANGED <<at, request, element, poll>> /\ cursor' = cursor + 1
    BY <1>12 DEF WalkPasses, WalkFrame, Frame, tableVars
  <2>2. at = "walk" /\ cursor < Active /\ cursor \in Nat
    BY <1>12 DEF WalkPasses, LoopTyped
  <2> QED
    BY <2>1, <2>2
<1>13. CASE WalkStatic
  BY <1>13 DEF WalkStatic, WalkFrame, Frame, tableVars, LoopTyped
<1>14. CASE WalkValue
  BY <1>14 DEF WalkValue, WalkFrame, Frame, tableVars
<1>15. CASE WalkDate
  BY <1>15 DEF WalkDate, WalkFrame, Frame, tableVars, LoopTyped
<1>16. CASE WalkBreaks
  BY <1>16 DEF WalkBreaks, WalkFrame, Frame, tableVars, walkVars
<1>17. CASE WalkEnds
  BY <1>17 DEF WalkEnds, WalkFrame, Frame, tableVars, walkVars
<1>18. CASE SendPush
  BY <1>18 DEF SendPush, Answer, Return, Fresh, Frame, tableVars
<1>19. CASE PollBegin
  BY <1>19 DEF PollBegin, NetFrame, historyVars
<1>20. CASE PollOmits
  BY <1>20 DEF PollOmits, NetFrame, historyVars
<1>21. CASE PollValue
  BY <1>21 DEF PollValue, NetFrame, historyVars
<1>22. CASE PollDate
  BY <1>22 DEF PollDate, NetFrame, historyVars
<1>23. CASE PollUnlocks
  BY <1>23 DEF PollUnlocks, NetFrame, historyVars
<1>31. CASE VdcNameError
  BY <1>31 DEF VdcNameError, AtVdcElement, Return, Fresh, Frame, tableVars
<1>32. CASE VdcProperty
  BY <1>32 DEF VdcProperty, NextElement, AtVdcElement, Frame, tableVars, walkVars
<1>33. CASE VdcFinish
  BY <1>33 DEF VdcFinish, Return, Fresh, Frame, tableVars
<1>34. CASE IndexUndefined
  BY <1>34 DEF IndexUndefined, AtElement, Frame, tableVars, walkVars
<1>35. CASE WalkLeavesTable
  BY <1>35 DEF WalkLeavesTable, WalkFrame, Frame, tableVars, walkVars
<1> QED
  BY <1>1, <1>2, <1>3, <1>4, <1>5, <1>6, <1>7, <1>8, <1>9, <1>10, <1>11, <1>12, <1>13,
     <1>14, <1>15, <1>16, <1>17, <1>18, <1>19, <1>20, <1>21, <1>22, <1>23,
     <1>31, <1>32, <1>33, <1>34, <1>35
  DEF Next, Handle, PollStep

\* What the calls do to a mutex that is free or held by the main thread.
LEMMA MainHolds ==
  ASSUME NEW m \in MutexType,
         m.count = 0 => m.owner = NoOwner,
         m.count > 0 => m.owner = Main
  PROVE  /\ Locked(m, Main).owner = Main /\ Locked(m, Main).count = m.count + 1
         /\ Unlocked(m, Net) = m
         /\ m.count > 0 =>
              /\ Unlocked(m, Main).count = m.count - 1
              /\ Unlocked(m, Main).count > 0 => Unlocked(m, Main).owner = Main
              /\ Unlocked(m, Main).count = 0 => Unlocked(m, Main).owner = NoOwner
<1>1. m.count \in Nat /\ (m.count > 0 \/ m.count = 0)
  BY DEF MutexType
<1>2. NoOwner \notin {Main, Net} /\ Main # Net
  BY NoOwnerAssumption, HandlerConstants DEF Main, Net
<1>3. Locked(m, Main).owner = Main /\ Locked(m, Main).count = m.count + 1
  BY DEF Locked
<1>4. Unlocked(m, Net) = m
  BY <1>1, <1>2 DEF Unlocked
<1>5. CASE m.count = 1
  <2>1. Unlocked(m, Main) = FreeMutex
    BY <1>5 DEF Unlocked
  <2> QED
    BY <1>3, <1>4, <1>5, <2>1 DEF FreeMutex
<1>6. CASE m.count > 1
  <2>1. m.count \in Nat /\ m.owner = Main
    BY <1>6 DEF MutexType
  <2>2. Unlocked(m, Main) = [m EXCEPT !.count = @ - 1]
    BY <1>6, <2>1 DEF Unlocked
  <2>3. Unlocked(m, Main).count = m.count - 1 /\ Unlocked(m, Main).owner = Main
    BY <2>1, <2>2 DEF MutexType
  <2> QED
    BY <1>3, <1>4, <1>6, <2>1, <2>3
<1> QED
  BY <1>1, <1>3, <1>4, <1>5, <1>6 DEF MutexType

\* Every handler gives back the one level it took.
LEMMA LockInvStep == TypeOK /\ LoopInv /\ LockInv /\ Next => LockInv'
<1> SUFFICES ASSUME TypeOK /\ LoopInv /\ LockInv, Next
             PROVE  LockInv'
  OBVIOUS
<1>a. mutex \in MutexType /\ mutex.count \in Nat /\ base \in Nat
  BY DEF TypeOK, MutexType
<1>b. /\ Locked(mutex, Main).owner = Main /\ Locked(mutex, Main).count = mutex.count + 1
      /\ Unlocked(mutex, Net) = mutex
      /\ mutex.count > 0 =>
           /\ Unlocked(mutex, Main).count = mutex.count - 1
           /\ Unlocked(mutex, Main).count > 0 => Unlocked(mutex, Main).owner = Main
           /\ Unlocked(mutex, Main).count = 0 => Unlocked(mutex, Main).owner = NoOwner
  BY <1>a, MainHolds DEF LockInv, Released
<1> USE <1>a, <1>b
<1> USE DEF LockInv, LockInv, Released, LoopInv
<1>1. CASE Leak
  BY <1>1 DEF Leak, tableVars, walkVars
<1>2. CASE SceneUnlocks
  BY <1>2 DEF SceneUnlocks, tableVars, walkVars
<1>3. ASSUME NEW r \in Requests \cup {Push}, Receive(r)
      PROVE  LockInv'
  BY <1>3 DEF Receive, Fresh, Frame, tableVars
<1>4. CASE Lock
  BY <1>4 DEF Lock, Frame, tableVars, walkVars
<1>5. CASE NameError
  BY <1>5 DEF NameError, Answer, Return, Fresh, Frame, tableVars, AtElement
<1>6. CASE Wildcard
  BY <1>6 DEF Wildcard, NextElement, AtElement, Frame, tableVars, walkVars, AtElement
<1>7. CASE SetMistyped
  BY <1>7 DEF SetMistyped, AtElement, Frame, tableVars, walkVars
<1>8. CASE SetNamed
  BY <1>8 DEF SetNamed, NextElement, AtElement, Frame, tableVars, walkVars
<1>9. CASE GetOther
  BY <1>9 DEF GetOther, NextElement, AtElement, Frame, tableVars, walkVars
<1>10. CASE WalkRefused
  BY <1>10 DEF WalkRefused, NextElement, AtElement, Frame, tableVars, walkVars
<1>11. CASE WalkBegin
  BY <1>11 DEF WalkBegin, AtElement, Frame, tableVars
<1>12. CASE Finish
  BY <1>12 DEF Finish, Answer, Return, Fresh, Frame, tableVars
<1>13. CASE WalkPasses
  BY <1>13 DEF WalkPasses, WalkFrame, Frame, tableVars
<1>14. CASE WalkStatic
  BY <1>14 DEF WalkStatic, WalkFrame, Frame, tableVars
<1>15. CASE WalkValue
  BY <1>15 DEF WalkValue, WalkFrame, Frame, tableVars
<1>16. CASE WalkDate
  BY <1>16 DEF WalkDate, WalkFrame, Frame, tableVars
<1>17. CASE WalkBreaks
  BY <1>17 DEF WalkBreaks, WalkFrame, Frame, tableVars, walkVars
<1>18. CASE WalkEnds
  BY <1>18 DEF WalkEnds, WalkFrame, Frame, tableVars, walkVars
<1>19. CASE SendPush
  BY <1>19 DEF SendPush, Answer, Return, Fresh, Frame, tableVars
<1>20. CASE PollBegin
  BY <1>20 DEF PollBegin, NetFrame, historyVars
<1>21. CASE PollOmits
  BY <1>21 DEF PollOmits, NetFrame, historyVars
<1>22. CASE PollValue
  BY <1>22 DEF PollValue, NetFrame, historyVars
<1>23. CASE PollDate
  BY <1>23 DEF PollDate, NetFrame, historyVars
<1>24. CASE PollUnlocks
  BY <1>24 DEF PollUnlocks, NetFrame, historyVars
<1>25. CASE MemoryChanges
  BY <1>25 DEF MemoryChanges, tableVars, walkVars, historyVars
<1>31. CASE VdcNameError
  BY <1>31 DEF VdcNameError, AtVdcElement, Return, Fresh, Frame, tableVars
<1>32. CASE VdcProperty
  BY <1>32 DEF VdcProperty, NextElement, AtVdcElement, Frame, tableVars, walkVars
<1>33. CASE VdcFinish
  BY <1>33 DEF VdcFinish, Return, Fresh, Frame, tableVars
<1>34. CASE IndexUndefined
  BY <1>34 DEF IndexUndefined, AtElement, Frame, tableVars, walkVars
<1>35. CASE WalkLeavesTable
  BY <1>35 DEF WalkLeavesTable, WalkFrame, Frame, tableVars, walkVars
<1> QED
  BY <1>1, <1>2, <1>3, <1>4, <1>5, <1>6, <1>7, <1>8, <1>9, <1>10, <1>11, <1>12, <1>13,
     <1>14, <1>15, <1>16, <1>17, <1>18, <1>19, <1>20, <1>21, <1>22, <1>23, <1>24, <1>25,
     <1>31, <1>32, <1>33, <1>34, <1>35
  DEF Next, Handle, PollStep

\* Every path answers or frees once.
LEMMA AnsweredOnceStep == TypeOK /\ LoopInv /\ AnsweredOnce /\ Next => AnsweredOnce'
<1> SUFFICES ASSUME TypeOK /\ LoopInv /\ AnsweredOnce, Next
             PROVE  AnsweredOnce'
  OBVIOUS
<1> USE TypeParts DEF AnsweredOnce, LoopInv
<1>1. CASE Leak \/ SceneUnlocks \/ MemoryChanges
  BY <1>1, OutsideFrame
<1>2. CASE PollStep
  BY <1>2, PollFrame
<1>3. ASSUME NEW r \in Requests \cup {Push}, Receive(r)
      PROVE  AnsweredOnce'
  <2>1. /\ sent' = Replies(r) /\ request' = r
        /\ at' = IF NeedsLock(r) THEN "lock" ELSE IF ForVdc(r) THEN "vdc" ELSE "idle"
    BY <1>3 DEF Receive
  <2>2. r.kind = "set" => r.to # "vdc"
    BY RequestFacts
  <2>3. r.to \in Handles
    BY RequestFacts DEF RequestType
  <2>4. CASE NeedsLock(r)
    BY <2>1, <2>4 DEF NeedsLock, Replies, Unhandled, Ponged
  <2>5. CASE Unhandled(r)
    <3>1. at' = "idle"
      BY <2>1, <2>5 DEF NeedsLock, ForVdc, Unhandled
    <3>2. sent' = <<"freed">>
      BY <2>1, <2>5 DEF Replies, Unhandled, Ponged
    <3>3. Len(<<"freed">>) = 1 /\ <<"freed">> # <<"get_response">>
      OBVIOUS
    <3> QED
      BY <3>1, <3>2, <3>3
  <2>6. CASE ForVdc(r)
    <3>1. at' = "vdc"
      BY <2>1, <2>6 DEF NeedsLock, ForVdc
    <3>2. sent' = <<>>
      BY <2>1, <2>6 DEF Replies, Unhandled, Ponged, ForVdc
    <3> QED
      BY <3>1, <3>2
  <2>7. CASE r.kind \notin {"get", "set"}
    BY <2>1, <2>7 DEF NeedsLock, ForVdc, Replies, Unhandled, Ponged
  <2> QED
    BY <2>2, <2>3, <2>4, <2>5, <2>6, <2>7 DEF NeedsLock, ForVdc, Unhandled, Handles
<1>4. CASE Lock
  BY <1>4 DEF Lock, Frame, tableVars, walkVars
<1>5. CASE NameError
  <2>1. sent' = <<"get_response">> /\ request' = request /\ at' = "idle"
    BY <1>5 DEF NameError, AtElement, Answer, Return
  <2>2. element \in DOMAIN request.elements /\ request.elements[element].name = "unreadable"
    BY <1>5, RequestFacts DEF NameError, AtElement, Current, LoopTyped
  <2>3. \E i \in DOMAIN request'.elements : request'.elements[i].name = "unreadable"
    BY <2>1, <2>2
  <2>4. Len(<<"get_response">>) = 1
    OBVIOUS
  <2> QED
    BY <2>1, <2>3, <2>4
<1>6. CASE Wildcard
  BY <1>6 DEF Wildcard, NextElement, AtElement, Frame, tableVars, walkVars
<1>7. CASE SetMistyped
  BY <1>7 DEF SetMistyped, AtElement, Frame, tableVars, walkVars
<1>8. CASE SetNamed
  BY <1>8 DEF SetNamed, NextElement, AtElement, Frame, tableVars, walkVars
<1>9. CASE GetOther
  BY <1>9 DEF GetOther, NextElement, AtElement, Frame, tableVars, walkVars
<1>10. CASE WalkRefused
  BY <1>10 DEF WalkRefused, NextElement, AtElement, Frame, tableVars, walkVars
<1>11. CASE WalkBegin
  BY <1>11 DEF WalkBegin, AtElement, Frame, tableVars
<1>12. CASE Finish
  BY <1>12 DEF Finish, Answer, Return, Fresh, Frame, tableVars
<1>13. CASE WalkPasses
  BY <1>13 DEF WalkPasses, WalkFrame, Frame, tableVars
<1>14. CASE WalkStatic
  BY <1>14 DEF WalkStatic, WalkFrame, Frame, tableVars
<1>15. CASE WalkValue
  BY <1>15 DEF WalkValue, WalkFrame, Frame, tableVars
<1>16. CASE WalkDate
  BY <1>16 DEF WalkDate, WalkFrame, Frame, tableVars
<1>17. CASE WalkBreaks
  BY <1>17 DEF WalkBreaks, WalkFrame, Frame, tableVars, walkVars
<1>18. CASE WalkEnds
  BY <1>18 DEF WalkEnds, WalkFrame, Frame, tableVars, walkVars
<1>19. CASE SendPush
  BY <1>19 DEF SendPush, Answer, Return, Fresh, Frame, tableVars
<1>31. CASE VdcNameError
  BY <1>31 DEF VdcNameError, AtVdcElement, Return, Fresh, Frame, tableVars
<1>32. CASE VdcProperty
  BY <1>32 DEF VdcProperty, NextElement, AtVdcElement, Frame, tableVars, walkVars
<1>33. CASE VdcFinish
  BY <1>33 DEF VdcFinish, Return, Fresh, Frame, tableVars
<1>34. CASE IndexUndefined
  BY <1>34 DEF IndexUndefined, AtElement, Frame, tableVars, walkVars
<1>35. CASE WalkLeavesTable
  BY <1>35 DEF WalkLeavesTable, WalkFrame, Frame, tableVars, walkVars
<1> QED
  BY <1>1, <1>2, <1>3, <1>4, <1>5, <1>6, <1>7, <1>8, <1>9, <1>10, <1>11, <1>12, <1>13,
     <1>14, <1>15, <1>16, <1>17, <1>18, <1>19,
     <1>31, <1>32, <1>33, <1>34, <1>35
  DEF Next, Handle

\* Where the zones are, in front of the next property.
LEMMA ZonesGrow ==
  ASSUME TypeOK, element <= Len(request.elements)
  PROVE  /\ Current.name = "zoneID" => ZonesBefore(element + 1) = ZonesBefore(element) \cup {element}
         /\ Current.name # "zoneID" => ZonesBefore(element + 1) = ZonesBefore(element)
<1>1. DOMAIN request.elements = 1 .. Len(request.elements) /\ Len(request.elements) \in Nat
  BY RequestFacts DEF TypeOK
<1>2. element \in 1 .. Len(request.elements)
  BY <1>1 DEF TypeOK
<1>3. \A i \in Zones(request) : i < element + 1 <=> i < element \/ i = element
  BY <1>1, <1>2 DEF Zones
<1>4. element \in Zones(request) <=> Current.name = "zoneID"
  BY <1>1, <1>2 DEF Zones, Current
<1> QED
  BY <1>3, <1>4, <1>2 DEF ZonesBefore

\* Behind the last property these are all the zones.
LEMMA ZonesAll ==
  ASSUME TypeOK, element > Len(request.elements)
  PROVE  ZonesBefore(element) = Zones(request)
<1>1. DOMAIN request.elements = 1 .. Len(request.elements) /\ Len(request.elements) \in Nat
  BY RequestFacts DEF TypeOK
<1> QED
  BY <1>1 DEF ZonesBefore, Zones, TypeOK

\* The code tells what the properties in front of element have done.
LEMMA CodeInvStep == TypeOK /\ LoopInv /\ CodeInv /\ Next => CodeInv'
<1> SUFFICES ASSUME TypeOK /\ LoopInv /\ CodeInv, Next
             PROVE  CodeInv'
  OBVIOUS
<1> USE TypeParts DEF CodeInv, LoopInv
<1>1. CASE Leak \/ SceneUnlocks \/ MemoryChanges
  BY <1>1, OutsideFrame DEF ZonesBefore, Zones
<1>2. CASE PollStep
  BY <1>2, PollFrame DEF ZonesBefore, Zones
<1>3. ASSUME NEW r \in Requests \cup {Push}, Receive(r)
      PROVE  CodeInv'
  BY <1>3 DEF Receive, Fresh, Frame, tableVars
<1>4. CASE Lock
  <2>1. UNCHANGED <<request, element, code, zone, before>> /\ at' # "lock" /\ at = "lock"
    BY <1>4 DEF Lock, walkVars
  <2>2. ZonesBefore(element)' = ZonesBefore(element)
    BY <2>1 DEF ZonesBefore, Zones
  <2>3. ZonesBefore(1) = {}
    BY RequestFacts DEF ZonesBefore, Zones
  <2> QED
    BY <2>1, <2>2, <2>3
<1>5. CASE NameError
  BY <1>5 DEF NameError, Answer, Return, Fresh, Frame, tableVars, AtElement
<1>6. CASE Wildcard
  <2>1. UNCHANGED <<at, request, code, zone, before>> /\ element' = element + 1 /\ at = "element"
    BY <1>6 DEF Wildcard, NextElement, AtElement
  <2>2. element <= Len(request.elements) /\ Current.name = "wildcard"
    BY <1>6 DEF Wildcard, AtElement
  <2>3. ZonesBefore(element + 1) = ZonesBefore(element)
    BY <2>2, ZonesGrow
  <2>4. ZonesBefore(element)' = ZonesBefore(element)
    BY <2>1, <2>3 DEF ZonesBefore, Zones
  <2>5. element \in Nat /\ Len(request.elements) \in Nat
    BY RequestFacts DEF LoopTyped
  <2>6. code # "INVALID_VALUE_TYPE" \/ request.kind # "set"
    BY <2>1, <2>2, <2>5
  <2> QED
    BY <2>1, <2>4, <2>6
<1>7. CASE SetMistyped
  <2>1. code' = "INVALID_VALUE_TYPE" /\ element' = Len(request.elements) + 1
        /\ UNCHANGED <<request, at>> /\ at = "element"
    BY <1>7 DEF SetMistyped, AtElement
  <2>2. Len(request.elements) \in Nat
    BY RequestFacts DEF LoopTyped
  <2> QED
    BY <2>1, <2>2
<1>8. CASE SetNamed
  <2>1. UNCHANGED <<at, request, before>> /\ element' = element + 1 /\ at = "element" /\ code' = "OK"
    BY <1>8 DEF SetNamed, NextElement, AtElement
  <2>2. element \in 1 .. Len(request.elements) /\ Len(request.elements) \in Nat
    BY <1>8, RequestFacts DEF SetNamed, AtElement, LoopTyped
  <2>3. ZonesBefore(element)' = ZonesBefore(element + 1)
    BY <2>1 DEF ZonesBefore, Zones
  <2>4. \A i \in ZonesBefore(element) : i \in Nat /\ i < element
    BY RequestFacts DEF ZonesBefore, Zones, LoopTyped
  <2>5. code # "INVALID_VALUE_TYPE" /\ request.kind = "set"
    BY <1>8, <2>2 DEF SetNamed, AtElement
  <2>6. CASE Current.name = "zoneID"
    <3>1. ZonesBefore(element)' = ZonesBefore(element) \cup {element}
      BY <2>2, <2>3, <2>6, ZonesGrow
    <3>2. zone' = request.elements[element].value[1] % Width
      BY <1>8, <2>6 DEF SetNamed, Current
    <3>3. request.elements[element].value # <<>>
      BY <1>8, <2>6 DEF SetNamed, Current
    <3>4. \A i \in ZonesBefore(element) : request.elements[i].value # <<>>
      BY <2>1, <2>5 DEF ZoneTyped
    <3>5. \A i \in ZonesBefore(element)' :
            (\A j \in ZonesBefore(element)' : j <= i) => i = element
      <4>1. element \in ZonesBefore(element)'
        BY <3>1
      <4>2. \A i \in ZonesBefore(element)' : i # element => ~(element <= i)
        BY <2>2, <2>4, <3>1
      <4> QED
        BY <4>1, <4>2
    <3> QED
      BY <2>1, <3>1, <3>2, <3>3, <3>4, <3>5
  <2>7. CASE Current.name # "zoneID"
    <3>1. ZonesBefore(element)' = ZonesBefore(element)
      BY <2>2, <2>3, <2>7, ZonesGrow
    <3>2. zone' = zone
      BY <1>8, <2>7 DEF SetNamed
    <3> QED
      BY <2>1, <2>5, <3>1, <3>2 DEF ZoneTyped
  <2> QED
    BY <2>6, <2>7
<1>9. CASE GetOther
  <2>1. request'.kind = "get" /\ at' = "element"
    BY <1>9 DEF GetOther, NextElement, AtElement, Frame, tableVars, walkVars
  <2> QED
    BY <2>1
<1>10. CASE WalkRefused
  <2>1. request'.kind = "get" /\ at' = "element"
    BY <1>10 DEF WalkRefused, NextElement, AtElement, Frame, tableVars, walkVars
  <2> QED
    BY <2>1
<1>11. CASE WalkBegin
  <2>1. at' = "walk"
    BY <1>11 DEF WalkBegin
  <2> QED
    BY <2>1
<1>12. CASE Finish
  BY <1>12 DEF Finish, Answer, Return, Fresh, Frame, tableVars
<1>13. CASE WalkPasses
  BY <1>13 DEF WalkPasses, WalkFrame, Frame, tableVars, ZonesBefore, Zones
<1>14. CASE WalkStatic
  BY <1>14 DEF WalkStatic, WalkFrame, Frame, tableVars, ZonesBefore, Zones
<1>15. CASE WalkValue
  <2>1. UNCHANGED <<request, element, code, zone, before>> /\ at' \in {"walk", "date"}
    BY <1>15 DEF WalkValue, WalkFrame, Frame, tableVars
  <2> QED
    BY <2>1
<1>16. CASE WalkDate
  <2>1. UNCHANGED <<request, element, code, zone, before>> /\ at' \in {"walk", "date"}
    BY <1>16 DEF WalkDate, WalkFrame, Frame, tableVars
  <2> QED
    BY <2>1
<1>17. CASE WalkBreaks
  <2>1. request'.kind = "get" /\ at' = "element"
    BY <1>17 DEF WalkBreaks, WalkFrame, Frame, tableVars, walkVars
  <2> QED
    BY <2>1
<1>18. CASE WalkEnds
  <2>1. request'.kind = "get" /\ at' = "element"
    BY <1>18 DEF WalkEnds, WalkFrame, Frame, tableVars, walkVars
  <2> QED
    BY <2>1
<1>19. CASE SendPush
  BY <1>19 DEF SendPush, Answer, Return, Fresh, Frame, tableVars
<1>31. CASE VdcNameError
  BY <1>31 DEF VdcNameError, AtVdcElement, Return, Fresh, Frame, tableVars
<1>32. CASE VdcProperty
  BY <1>32 DEF VdcProperty, NextElement, AtVdcElement, Frame, tableVars, walkVars
<1>33. CASE VdcFinish
  BY <1>33 DEF VdcFinish, Return, Fresh, Frame, tableVars
<1>34. CASE IndexUndefined
  BY <1>34 DEF IndexUndefined, AtElement, Frame, tableVars, walkVars
<1>35. CASE WalkLeavesTable
  BY <1>35 DEF WalkLeavesTable, WalkFrame, Frame, tableVars, walkVars
<1> QED
  BY <1>1, <1>2, <1>3, <1>4, <1>5, <1>6, <1>7, <1>8, <1>9, <1>10, <1>11, <1>12, <1>13,
     <1>14, <1>15, <1>16, <1>17, <1>18, <1>19,
     <1>31, <1>32, <1>33, <1>34, <1>35
  DEF Next, Handle

\* So does the response.
LEMMA CodeTellsStep == TypeOK /\ LoopInv /\ AnsweredOnce /\ CodeInv /\ CodeTells /\ Next => CodeTells'
<1> SUFFICES ASSUME TypeOK /\ LoopInv /\ AnsweredOnce /\ CodeInv /\ CodeTells, Next
             PROVE  CodeTells'
  OBVIOUS
<1> USE TypeParts DEF CodeTells, LoopInv
<1>1. CASE Leak \/ SceneUnlocks \/ MemoryChanges
  BY <1>1, OutsideFrame DEF Zones
<1>2. CASE PollStep
  BY <1>2, PollFrame DEF Zones
<1>3. ASSUME NEW r \in Requests \cup {Push}, Receive(r)
      PROVE  CodeTells'
  <2>1. sent' = Replies(r)
    BY <1>3 DEF Receive
  <2>2. Replies(r) # <<"set_response">>
    BY DEF Replies
  <2> QED
    BY <2>1, <2>2
<1>4. CASE Lock
  BY <1>4 DEF Lock, Frame, tableVars, walkVars
<1>5. CASE NameError
  <2>1. sent' = <<"get_response">>
    BY <1>5 DEF NameError, AtElement, Answer, Return, AnsweredOnce
  <2> QED
    BY <2>1
<1>6. CASE Wildcard
  BY <1>6 DEF Wildcard, NextElement, AtElement, Frame, tableVars, walkVars
<1>7. CASE SetMistyped
  BY <1>7 DEF SetMistyped, AtElement, Frame, tableVars, walkVars
<1>8. CASE SetNamed
  BY <1>8 DEF SetNamed, NextElement, AtElement, Frame, tableVars, walkVars
<1>9. CASE GetOther
  BY <1>9 DEF GetOther, NextElement, AtElement, Frame, tableVars, walkVars
<1>10. CASE WalkRefused
  BY <1>10 DEF WalkRefused, NextElement, AtElement, Frame, tableVars, walkVars
<1>11. CASE WalkBegin
  BY <1>11 DEF WalkBegin, AtElement, Frame, tableVars
<1>12. CASE Finish
  <2>1. /\ at = "element" /\ element > Len(request.elements)
        /\ UNCHANGED <<request, code, zone, before>>
        /\ sent' = <<IF request.kind = "get" THEN "get_response" ELSE "set_response">>
    BY <1>12 DEF Finish, Answer, Return, AnsweredOnce
  <2>2. request.kind = "get" => sent' # <<"set_response">>
    BY <2>1
  <2>3. ZonesBefore(element) = Zones(request) /\ Zones(request)' = Zones(request)
    BY <2>1, ZonesAll DEF Zones
  <2> QED
    BY <2>1, <2>2, <2>3 DEF CodeInv
<1>13. CASE WalkPasses
  BY <1>13 DEF WalkPasses, WalkFrame, Frame, tableVars
<1>14. CASE WalkStatic
  BY <1>14 DEF WalkStatic, WalkFrame, Frame, tableVars
<1>15. CASE WalkValue
  BY <1>15 DEF WalkValue, WalkFrame, Frame, tableVars
<1>16. CASE WalkDate
  BY <1>16 DEF WalkDate, WalkFrame, Frame, tableVars
<1>17. CASE WalkBreaks
  BY <1>17 DEF WalkBreaks, WalkFrame, Frame, tableVars, walkVars
<1>18. CASE WalkEnds
  BY <1>18 DEF WalkEnds, WalkFrame, Frame, tableVars, walkVars
<1>19. CASE SendPush
  <2>1. sent' = <<"push">>
    BY <1>19 DEF SendPush, Answer, Return, AnsweredOnce
  <2> QED
    BY <2>1
<1>31. CASE VdcNameError
  <2>1. sent' = <<"get_response">>
    BY <1>31 DEF VdcNameError, AtVdcElement, Return, AnsweredOnce
  <2>2. <<"get_response">> # <<"set_response">>
    OBVIOUS
  <2> QED
    BY <2>1, <2>2
<1>32. CASE VdcProperty
  BY <1>32 DEF VdcProperty, NextElement, AtVdcElement, Frame, tableVars, walkVars
<1>33. CASE VdcFinish
  <2>1. sent' = <<"get_response">>
    BY <1>33 DEF VdcFinish, Return, AnsweredOnce
  <2>2. <<"get_response">> # <<"set_response">>
    OBVIOUS
  <2> QED
    BY <2>1, <2>2
<1>34. CASE IndexUndefined
  BY <1>34 DEF IndexUndefined, AtElement, Frame, tableVars, walkVars
<1>35. CASE WalkLeavesTable
  BY <1>35 DEF WalkLeavesTable, WalkFrame, Frame, tableVars, walkVars
<1> QED
  BY <1>1, <1>2, <1>3, <1>4, <1>5, <1>6, <1>7, <1>8, <1>9, <1>10, <1>11, <1>12, <1>13,
     <1>14, <1>15, <1>16, <1>17, <1>18, <1>19,
     <1>31, <1>32, <1>33, <1>34, <1>35
  DEF Next, Handle

\* A value is as old as its last_query says, but in the middle of a store.
LEMMA TableInvStep == TypeOK /\ LoopInv /\ TableInv /\ Next => TableInv'
<1> SUFFICES ASSUME TypeOK /\ LoopInv /\ TableInv, Next
             PROVE  TableInv'
  OBVIOUS
<1> USE TypeParts DEF TableInv, TableTyped, Undated
<1>1. CASE Leak \/ SceneUnlocks \/ MemoryChanges
  BY <1>1, OutsideFrame
<1>2. CASE Handle
  BY <1>2, HandleFrame
<1>3. ASSUME NEW r \in Requests \cup {Push}, Receive(r)
      PROVE  TableInv'
  <2>1. UNCHANGED <<sensors, poll, polls>>
    BY <1>3 DEF Receive, Frame, tableVars
  <2> QED
    BY <2>1
<1>4. CASE PollBegin
  <2>1. poll' = [at |-> "store", sensor |-> 0] /\ polls' = polls + 1 /\ sensors' = sensors
        /\ poll.at = "idle"
    BY <1>4 DEF PollBegin
  <2> QED
    BY <2>1
<1>5. CASE PollOmits
  <2>1. poll' = [poll EXCEPT !.sensor = poll.sensor + 1] /\ poll.at = "store" /\ UNCHANGED <<sensors, polls>>
    BY <1>5 DEF PollOmits
  <2>2. poll'.at = "store"
    BY <2>1
  <2> QED
    BY <2>1, <2>2
<1>6. CASE PollValue
  <2>1. /\ poll.at = "store" /\ poll.sensor \in Sensors
        /\ polls' = polls
    BY <1>6, TableAssumption DEF PollValue, is_active, Sensors
  <2>2. poll'.at = "date" /\ poll'.sensor = poll.sensor
    BY <1>6 DEF PollValue
  <2>3. sensors' = [sensors EXCEPT ![poll.sensor].last_value = sensors[poll.sensor].value,
                                   ![poll.sensor].value = polls]
    BY <1>6 DEF PollValue
  <2>4. /\ sensors'[poll.sensor].last_value = sensors[poll.sensor].value
        /\ sensors'[poll.sensor].value = polls
        /\ sensors'[poll.sensor].last_query = sensors[poll.sensor].last_query
    BY <2>1, <2>3
  <2>5. \A t \in Sensors : t # poll.sensor => sensors'[t] = sensors[t]
    BY <2>1, <2>3
  <2>6. Sensors' = Sensors
    BY DEF Sensors
  <2> QED
    BY <2>1, <2>2, <2>4, <2>5, <2>6
<1>7. CASE PollDate
  <2>1. /\ poll.at = "date" /\ poll.sensor \in Sensors
        /\ polls' = polls /\ poll'.at = "store"
    BY <1>7, TableAssumption DEF PollDate, LoopInv, Sensors
  <2>3. sensors' = [sensors EXCEPT ![poll.sensor].last_query = polls]
    BY <1>7 DEF PollDate
  <2>4. /\ sensors'[poll.sensor].last_value = sensors[poll.sensor].last_value
        /\ sensors'[poll.sensor].value = sensors[poll.sensor].value
        /\ sensors'[poll.sensor].last_query = polls
    BY <2>1, <2>3
  <2>5. \A t \in Sensors : t # poll.sensor => sensors'[t] = sensors[t]
    BY <2>1, <2>3
  <2>6. Sensors' = Sensors
    BY DEF Sensors
  <2> QED
    BY <2>1, <2>4, <2>5, <2>6
<1>8. CASE PollUnlocks
  <2>1. poll' = [at |-> "idle", sensor |-> 0] /\ poll.at = "store" /\ UNCHANGED <<sensors, polls>>
    BY <1>8 DEF PollUnlocks
  <2> QED
    BY <2>1
<1> QED
  BY <1>1, <1>2, <1>3, <1>4, <1>5, <1>6, <1>7, <1>8
  DEF Next, PollStep

\* A poll that begins while an answer is put together is the only one to end.
LEMMA ReadingInvStep == TypeOK /\ LoopInv /\ ReadingInv /\ Next => ReadingInv'
<1> SUFFICES ASSUME TypeOK /\ LoopInv /\ ReadingInv, Next
             PROVE  ReadingInv'
  OBVIOUS
<1> USE TypeParts DEF ReadingInv, Reading, LoopInv, TableTyped, LoopTyped, WalkTyped
<1>1. CASE Leak \/ SceneUnlocks \/ MemoryChanges
  BY <1>1, OutsideFrame
<1>2. ASSUME NEW r \in Requests \cup {Push}, Receive(r)
      PROVE  ReadingInv'
  BY <1>2 DEF Receive, ForVdc, Fresh, Frame, tableVars
<1>3. CASE Lock
  BY <1>3 DEF Lock, Frame, tableVars, walkVars
<1>4. CASE NameError
  BY <1>4 DEF NameError, Answer, Return, Fresh, Frame, tableVars, AtElement
<1>5. CASE Wildcard
  BY <1>5 DEF Wildcard, NextElement, AtElement, Frame, tableVars, walkVars
<1>6. CASE SetMistyped
  BY <1>6 DEF SetMistyped, AtElement, Frame, tableVars, walkVars
<1>7. CASE SetNamed
  BY <1>7 DEF SetNamed, NextElement, AtElement, Frame, tableVars, walkVars
<1>8. CASE GetOther
  BY <1>8 DEF GetOther, NextElement, AtElement, Frame, tableVars, walkVars
<1>9. CASE WalkRefused
  BY <1>9 DEF WalkRefused, NextElement, AtElement, Frame, tableVars, walkVars
<1>10. CASE WalkBegin
  BY <1>10 DEF WalkBegin, AtElement, Frame, tableVars
<1>11. CASE Finish
  BY <1>11 DEF Finish, Answer, Return, Fresh, Frame, tableVars
<1>12. CASE WalkPasses
  BY <1>12 DEF WalkPasses, WalkFrame, Frame, tableVars
<1>13. CASE WalkStatic
  BY <1>13 DEF WalkStatic, WalkFrame, Frame, tableVars
<1>14. CASE WalkValue
  BY <1>14 DEF WalkValue, WalkFrame, Frame, tableVars
<1>15. CASE WalkDate
  BY <1>15 DEF WalkDate, WalkFrame, Frame, tableVars
<1>16. CASE WalkBreaks
  BY <1>16 DEF WalkBreaks, WalkFrame, Frame, tableVars, walkVars
<1>17. CASE WalkEnds
  BY <1>17 DEF WalkEnds, WalkFrame, Frame, tableVars, walkVars
<1>18. CASE SendPush
  BY <1>18 DEF SendPush, Answer, Return, Fresh, Frame, tableVars
<1>19. CASE PollBegin
  BY <1>19 DEF PollBegin, NetFrame, historyVars, WalkIsShort
<1>20. CASE PollOmits
  BY <1>20 DEF PollOmits, NetFrame, historyVars
<1>21. CASE PollValue
  BY <1>21 DEF PollValue, NetFrame, historyVars
<1>22. CASE PollDate
  BY <1>22 DEF PollDate, NetFrame, historyVars
<1>23. CASE PollUnlocks
  BY <1>23 DEF PollUnlocks, NetFrame, historyVars
<1>31. CASE VdcNameError
  BY <1>31 DEF VdcNameError, AtVdcElement, Return, Fresh, Frame, tableVars
<1>32. CASE VdcProperty
  BY <1>32 DEF VdcProperty, NextElement, AtVdcElement, Frame, tableVars, walkVars
<1>33. CASE VdcFinish
  BY <1>33 DEF VdcFinish, Return, Fresh, Frame, tableVars
<1>34. CASE IndexUndefined
  BY <1>34 DEF IndexUndefined, AtElement, Frame, tableVars, walkVars
<1>35. CASE WalkLeavesTable
  BY <1>35 DEF WalkLeavesTable, WalkFrame, Frame, tableVars, walkVars
<1> QED
  BY <1>1, <1>2, <1>3, <1>4, <1>5, <1>6, <1>7, <1>8, <1>9, <1>10, <1>11, <1>12, <1>13,
     <1>14, <1>15, <1>16, <1>17, <1>18, <1>19, <1>20, <1>21, <1>22, <1>23,
     <1>31, <1>32, <1>33, <1>34, <1>35
  DEF Next, Handle, PollStep

\* That poll stores each sensor once.
LEMMA OvertakenInvStep == TypeOK /\ LoopInv /\ OvertakenInv /\ Next => OvertakenInv'
<1> SUFFICES ASSUME TypeOK /\ LoopInv /\ OvertakenInv, Next
             PROVE  OvertakenInv'
  OBVIOUS
<1> USE TypeParts DEF OvertakenInv
<1>1. CASE Leak \/ SceneUnlocks \/ MemoryChanges
  BY <1>1, OutsideFrame DEF StoredAlready, Undated
<1>2. ASSUME NEW r \in Requests \cup {Push}, Receive(r)
      PROVE  OvertakenInv'
  <2>1. at' # "date"
    BY <1>2 DEF Receive
  <2> QED
    BY <2>1
<1>3. CASE Lock
  BY <1>3 DEF Lock, Frame, tableVars, walkVars
<1>4. CASE NameError
  BY <1>4 DEF NameError, Answer, Return, Fresh, Frame, tableVars, AtElement
<1>5. CASE Wildcard
  BY <1>5 DEF Wildcard, NextElement, AtElement, Frame, tableVars, walkVars
<1>6. CASE SetMistyped
  BY <1>6 DEF SetMistyped, AtElement, Frame, tableVars, walkVars
<1>7. CASE SetNamed
  BY <1>7 DEF SetNamed, NextElement, AtElement, Frame, tableVars, walkVars
<1>8. CASE GetOther
  BY <1>8 DEF GetOther, NextElement, AtElement, Frame, tableVars, walkVars
<1>9. CASE WalkRefused
  BY <1>9 DEF WalkRefused, NextElement, AtElement, Frame, tableVars, walkVars
<1>10. CASE WalkBegin
  BY <1>10 DEF WalkBegin, AtElement, Frame, tableVars
<1>11. CASE Finish
  BY <1>11 DEF Finish, Answer, Return, Fresh, Frame, tableVars
<1>12. CASE WalkPasses
  BY <1>12 DEF WalkPasses, WalkFrame, Frame, tableVars
<1>13. CASE WalkStatic
  BY <1>13 DEF WalkStatic, WalkFrame, Frame, tableVars
<1>14. CASE WalkValue
  <2>1. value' = sensors[cursor].value /\ sensors' = sensors /\ cursor' = cursor
    BY <1>14 DEF WalkValue, WalkFrame, Frame, tableVars
  <2> QED
    BY <2>1
<1>15. CASE WalkDate
  BY <1>15 DEF WalkDate, WalkFrame, Frame, tableVars
<1>16. CASE WalkBreaks
  BY <1>16 DEF WalkBreaks, WalkFrame, Frame, tableVars, walkVars
<1>17. CASE WalkEnds
  BY <1>17 DEF WalkEnds, WalkFrame, Frame, tableVars, walkVars
<1>18. CASE SendPush
  BY <1>18 DEF SendPush, Answer, Return, Fresh, Frame, tableVars
<1>19. CASE PollBegin
  <2>1. UNCHANGED <<at, value, sensors, cursor>> /\ poll.at = "idle" /\ (at = "date" => ~polled)
    BY <1>19 DEF PollBegin, NetFrame, WalkIsShort, Reading
  <2> QED
    BY <2>1
<1>20. CASE PollOmits
  <2>1. /\ UNCHANGED <<at, value, sensors, cursor, polled>> /\ poll.at = "store"
        /\ poll'.at = "store" /\ poll'.sensor = poll.sensor + 1
    BY <1>20 DEF PollOmits, NetFrame
  <2>2. StoredAlready(cursor) => StoredAlready(cursor)'
    BY <2>1 DEF StoredAlready, Undated, TableTyped, LoopTyped
  <2> QED
    BY <2>1, <2>2
<1>21. CASE PollValue
  <2>1. /\ UNCHANGED <<at, value, cursor, polled>> /\ poll.at = "store"
        /\ poll'.at = "date" /\ poll'.sensor = poll.sensor /\ poll.sensor \in Sensors
    BY <1>21, TableAssumption DEF PollValue, NetFrame, is_active, Sensors, TableTyped
  <2>2. sensors' = [sensors EXCEPT ![poll.sensor].last_value = sensors[poll.sensor].value,
                                   ![poll.sensor].value = polls]
    BY <1>21 DEF PollValue
  <2> SUFFICES ASSUME at' = "date"
               PROVE  OvertakenInv'
    OBVIOUS
  <2>3. cursor \in Sensors
    BY <2>1, TableAssumption DEF LoopInv, LoopTyped, Sensors
  <2>4. CASE cursor = poll.sensor
    <3>1. ~StoredAlready(cursor)
      BY <2>1, <2>4 DEF StoredAlready, Undated, TableTyped
    <3>2. value = sensors[cursor].value
      BY <2>1, <3>1
    <3>3. sensors'[cursor].last_value = sensors[cursor].value
      BY <2>1, <2>2, <2>4 DEF TableTyped
    <3>4. StoredAlready(cursor)'
      BY <2>1, <2>4 DEF StoredAlready, Undated
    <3> QED
      BY <2>1, <3>2, <3>3, <3>4
  <2>5. CASE cursor # poll.sensor
    <3>1. sensors'[cursor] = sensors[cursor]
      BY <2>1, <2>2, <2>3, <2>5 DEF TableTyped
    <3>2. StoredAlready(cursor) => StoredAlready(cursor)'
      BY <2>1, <2>5 DEF StoredAlready, Undated
    <3> QED
      BY <2>1, <3>1, <3>2
  <2> QED
    BY <2>4, <2>5
<1>22. CASE PollDate
  <2>1. /\ UNCHANGED <<at, value, cursor, polled>> /\ poll.at = "date"
        /\ poll'.at = "store" /\ poll'.sensor = poll.sensor + 1 /\ poll.sensor \in Sensors
    BY <1>22, TableAssumption DEF PollDate, NetFrame, Sensors, TableTyped, LoopInv
  <2>2. sensors' = [sensors EXCEPT ![poll.sensor].last_query = polls]
    BY <1>22 DEF PollDate
  <2> SUFFICES ASSUME at' = "date"
               PROVE  OvertakenInv'
    OBVIOUS
  <2>3. cursor \in Sensors
    BY <2>1, TableAssumption DEF LoopInv, LoopTyped, Sensors
  <2>4. sensors'[cursor].value = sensors[cursor].value /\ sensors'[cursor].last_value = sensors[cursor].last_value
    BY <2>2, <2>3 DEF TableTyped
  <2>5. StoredAlready(cursor) => StoredAlready(cursor)'
    BY <2>1, <2>3 DEF StoredAlready, Undated, Sensors
  <2> QED
    BY <2>1, <2>4, <2>5
<1>23. CASE PollUnlocks
  <2>1. UNCHANGED <<at, value, sensors, cursor>> /\ poll'.at = "idle" /\ (at = "date" => polled')
    BY <1>23 DEF PollUnlocks, NetFrame, Reading
  <2> QED
    BY <2>1 DEF StoredAlready
<1>31. CASE VdcNameError
  BY <1>31 DEF VdcNameError, AtVdcElement, Return, Fresh, Frame, tableVars
<1>32. CASE VdcProperty
  BY <1>32 DEF VdcProperty, NextElement, AtVdcElement, Frame, tableVars, walkVars
<1>33. CASE VdcFinish
  BY <1>33 DEF VdcFinish, Return, Fresh, Frame, tableVars
<1>34. CASE IndexUndefined
  BY <1>34 DEF IndexUndefined, AtElement, Frame, tableVars, walkVars
<1>35. CASE WalkLeavesTable
  BY <1>35 DEF WalkLeavesTable, WalkFrame, Frame, tableVars, walkVars
<1> QED
  BY <1>1, <1>2, <1>3, <1>4, <1>5, <1>6, <1>7, <1>8, <1>9, <1>10, <1>11, <1>12, <1>13,
     <1>14, <1>15, <1>16, <1>17, <1>18, <1>19, <1>20, <1>21, <1>22, <1>23,
     <1>31, <1>32, <1>33, <1>34, <1>35
  DEF Next, Handle, PollStep

\* An answer joins the two reads.
LEMMA AgeFitsStep == TypeOK /\ LoopInv /\ TableInv /\ ReadingInv /\ OvertakenInv /\ AgeFits /\ Next => AgeFits'
<1> SUFFICES ASSUME TypeOK /\ LoopInv /\ TableInv /\ ReadingInv /\ OvertakenInv /\ AgeFits, Next
             PROVE  AgeFits'
  OBVIOUS
<1> USE TypeParts DEF AgeFits
<1>1. CASE Leak \/ SceneUnlocks \/ MemoryChanges
  BY <1>1, OutsideFrame
<1>2. CASE PollStep
  BY <1>2, PollFrame
<1>3. ASSUME NEW r \in Requests \cup {Push}, Receive(r)
      PROVE  AgeFits'
  <2>1. reply' = {}
    BY <1>3 DEF Receive, Fresh, Frame, tableVars
  <2> QED
    BY <2>1
<1>4. CASE Lock
  BY <1>4 DEF Lock, Frame, tableVars, walkVars
<1>5. CASE NameError
  BY <1>5 DEF NameError, Answer, Return, Fresh, Frame, tableVars, AtElement
<1>6. CASE Wildcard
  BY <1>6 DEF Wildcard, NextElement, AtElement, Frame, tableVars, walkVars
<1>7. CASE SetMistyped
  BY <1>7 DEF SetMistyped, AtElement, Frame, tableVars, walkVars
<1>8. CASE SetNamed
  BY <1>8 DEF SetNamed, NextElement, AtElement, Frame, tableVars, walkVars
<1>9. CASE GetOther
  BY <1>9 DEF GetOther, NextElement, AtElement, Frame, tableVars, walkVars
<1>10. CASE WalkRefused
  BY <1>10 DEF WalkRefused, NextElement, AtElement, Frame, tableVars, walkVars
<1>11. CASE WalkBegin
  BY <1>11 DEF WalkBegin, AtElement, Frame, tableVars
<1>12. CASE Finish
  BY <1>12 DEF Finish, Answer, Return, Fresh, Frame, tableVars
<1>13. CASE WalkPasses
  BY <1>13 DEF WalkPasses, WalkFrame, Frame, tableVars
<1>14. CASE WalkStatic
  <2>1. reply' = reply \cup {[of |-> element, sensor |-> cursor]}
    BY <1>14 DEF WalkStatic
  <2>2. "age" \notin DOMAIN [of |-> element, sensor |-> cursor]
    OBVIOUS
  <2> QED
    BY <2>1, <2>2
<1>15. CASE WalkValue
  BY <1>15 DEF WalkValue, WalkFrame, Frame, tableVars
<1>16. CASE WalkDate
  <2> DEFINE new == [of |-> element, sensor |-> cursor, value |-> value,
                     age |-> now - sensors[cursor].last_query, now |-> now,
                     previous |-> sensors[cursor].last_value]
  <2>1. reply' = reply \cup {new} /\ at = "date"
    BY <1>16 DEF WalkDate
  <2>2. cursor \in Sensors
    BY <2>1, TableAssumption DEF LoopInv, LoopTyped, Sensors
  <2>3. /\ sensors[cursor].last_query \in Nat /\ sensors[cursor].last_value \in Nat
        /\ sensors[cursor].value \in Nat /\ polls \in Nat /\ now \in Nat /\ value \in Nat
    BY <2>2 DEF TableTyped, WalkTyped
  <2>4. /\ new.value = value /\ new.now = now /\ new.previous = sensors[cursor].last_value
        /\ new.age = now - sensors[cursor].last_query
    OBVIOUS
  <2> HIDE DEF new
  <2>5. sensors[cursor].last_query <= sensors[cursor].value /\ sensors[cursor].value <= polls
    BY <2>2, <2>3 DEF TableInv
  <2>6. polls <= now + 1
    BY <2>1 DEF ReadingInv, Reading
  <2>7. new.age >= -1
    BY <2>3, <2>4, <2>5, <2>6
  <2>8. value = sensors[cursor].value \/ value = sensors[cursor].last_value
    BY <2>1 DEF OvertakenInv
  <2>9. new.value >= new.now - new.age \/ new.value = new.previous
    BY <2>3, <2>4, <2>5, <2>8
  <2> QED
    BY <2>1, <2>7, <2>9
<1>17. CASE WalkBreaks
  BY <1>17 DEF WalkBreaks, WalkFrame, Frame, tableVars, walkVars
<1>18. CASE WalkEnds
  BY <1>18 DEF WalkEnds, WalkFrame, Frame, tableVars, walkVars
<1>19. CASE SendPush
  BY <1>19 DEF SendPush, Answer, Return, Fresh, Frame, tableVars
<1>31. CASE VdcNameError
  BY <1>31 DEF VdcNameError, AtVdcElement, Return, Fresh, Frame, tableVars
<1>32. CASE VdcProperty
  BY <1>32 DEF VdcProperty, NextElement, AtVdcElement, Frame, tableVars, walkVars
<1>33. CASE VdcFinish
  BY <1>33 DEF VdcFinish, Return, Fresh, Frame, tableVars
<1>34. CASE IndexUndefined
  BY <1>34 DEF IndexUndefined, AtElement, Frame, tableVars, walkVars
<1>35. CASE WalkLeavesTable
  BY <1>35 DEF WalkLeavesTable, WalkFrame, Frame, tableVars, walkVars
<1> QED
  BY <1>1, <1>2, <1>3, <1>4, <1>5, <1>6, <1>7, <1>8, <1>9, <1>10, <1>11, <1>12, <1>13,
     <1>14, <1>15, <1>16, <1>17, <1>18, <1>19,
     <1>31, <1>32, <1>33, <1>34, <1>35
  DEF Next, Handle

\* What one more answer adds to the sensors answered.
LEMMA AnsweredGrows ==
  ASSUME NEW rec, reply' = reply \cup {rec}, NEW i
  PROVE  /\ rec.of = i => Answered(i)' = Answered(i) \cup {rec.sensor}
         /\ rec.of # i => Answered(i)' = Answered(i)
BY DEF Answered

\* A walk leaves out exactly the sensors that are not taken.
LEMMA PassesUntaken ==
  ASSUME TypeOK, LoopInv, at \in {"walk", "date"}, request.kind = "get", cursor \in Sensors
  PROVE  Passes(cursor) <=> cursor \notin Taken(element)
<1>1. element \in 1 .. Len(request.elements) /\ 1 \in 1 .. Len(request.elements)
  BY RequestFacts DEF TypeOK, LoopInv
<1> DEFINE sub == request.elements[1].sub
<1>2. sub \in Seq(Int \cup {Unnamed})
  BY <1>1, RequestFacts DEF TypeOK, ElementType
<1>3. CASE Current.name # "sensorStates"
  BY <1>3 DEF Passes, Taken, Current
<1>4. CASE Current.name = "sensorStates"
  <2>1. sub # <<>> => sub[1] \in Int
    <3>1. sub # <<>> => sub[1] \in Int \cup {Unnamed}
      BY <1>2
    <3>2. sub # <<>> => sub[1] # Unnamed
      BY <1>4 DEF LoopInv, Nameless
    <3> QED
      BY <3>1, <3>2
  <2>2. sub # <<>> => sub[1] # Unnamed
    BY <2>1, UnnamedAssumption
  <2>3. Only(request.elements) = (IF sub = <<>> THEN -1 ELSE sub[1])
    BY DEF Only
  <2>4. Taken(element) = Wanted(sub)
    BY <1>4 DEF Taken, Current
  <2>5. Passes(cursor) <=> Only(request.elements) >= 0 /\ Only(request.elements) # cursor
    BY <1>4 DEF Passes
  <2>6. CASE sub = <<>>
    BY <2>3, <2>4, <2>5, <2>6 DEF Wanted, Named
  <2>7. CASE sub # <<>>
    <3> HIDE DEF sub
    <3>1. Only(request.elements) = sub[1] /\ sub[1] \in Int
      BY <2>1, <2>3, <2>7
    <3>2. Named(sub) <=> sub[1] >= 0
      BY <2>2, <2>7 DEF Named
    <3> QED
      BY <2>4, <2>5, <3>1, <3>2 DEF Wanted
  <2> QED
    BY <2>6, <2>7
<1> QED
  BY <1>3, <1>4

\* Going on with the next property.
LEMMA NextAnswers ==
  ASSUME TypeOK, AnswerInv, at \in {"element", "walk"}, request.kind = "get",
         at' = "element", element' = element + 1, reply' = reply, request' = request,
         short => short', NEW e, e = element, Complete(e)'
  PROVE  AnswerInv'
<1>1. element \in Nat /\ element >= 1
  BY RequestFacts DEF TypeOK
<1>2. \A r \in reply' : r.of \in Nat /\ r.of < element'
  BY <1>1 DEF AnswerInv
<1>3. ASSUME NEW i \in 1 .. element' - 1
      PROVE  Complete(i)'
  <2>1. CASE i = element
    BY <2>1
  <2>2. CASE i # element
    <3>1. i \in 1 .. element - 1
      BY <1>1, <2>2
    <3>2. Complete(i)
      BY <3>1 DEF AnswerInv
    <3> QED
      BY <3>2 DEF Complete, IsWalk, Answered, Taken, Wanted, Named, Sensors
  <2> QED
    BY <2>1, <2>2
<1> QED
  BY <1>1, <1>2, <1>3 DEF AnswerInv

\* A step that has nothing to do with the answers.
LEMMA QuietAnswers ==
  ASSUME AnswerInv, UNCHANGED <<at, request, element, cursor, short, reply>>
  PROVE  AnswerInv'
<1>1. ASSUME NEW i
      PROVE  Complete(i)' <=> Complete(i)
  <2>1. (IsWalk(i)' <=> IsWalk(i)) /\ Answered(i)' = Answered(i)
    BY DEF IsWalk, Answered
  <2>2. Taken(i)' = Taken(i)
    BY DEF Taken, Wanted, Named, Sensors
  <2> QED
    BY <2>1, <2>2 DEF Complete
<1>2. Answered(element)' = Answered(element) /\ (IsWalk(element)' <=> IsWalk(element))
  BY DEF Answered, IsWalk
<1>3. Taken(element)' = Taken(element)
  BY DEF Taken, Wanted, Named, Current, Sensors
<1> QED
  BY <1>1, <1>2, <1>3 DEF AnswerInv

\* Going on with the walk.
LEMMA WalkAnswers ==
  ASSUME TypeOK, AnswerInv, at \in {"element", "walk", "date"}, request.kind = "get",
         at' \in {"walk", "date"}, element' = element, request' = request,
         short' = short,
         \A r \in reply' : r.of \in Nat /\ r.of <= element,
         \A i \in 1 .. element - 1 : Answered(i)' = Answered(i),
         Answered(element)' = {t \in Taken(element) : t < cursor'}
  PROVE  AnswerInv'
<1>1. ASSUME NEW i \in 1 .. element' - 1
      PROVE  Complete(i)'
  <2>1. Complete(i) /\ Answered(i)' = Answered(i)
    BY DEF AnswerInv
  <2>2. IsWalk(i)' <=> IsWalk(i)
    BY DEF IsWalk
  <2>3. Taken(i)' = Taken(i)
    BY DEF Taken, Wanted, Named, Sensors
  <2> QED
    BY <2>1, <2>2, <2>3 DEF Complete
<1>2. Taken(element)' = Taken(element) /\ (IsWalk(element)' <=> IsWalk(element))
  BY DEF Taken, Wanted, Named, Current, Sensors, IsWalk
<1>3. Answered(element)' = {r.sensor : r \in {q \in reply' : q.of = element}}
  BY DEF Answered
<1>4. Answered(element)' = {t \in Taken(element)' : t < cursor'}
  BY <1>2
<1> QED
  BY <1>1, <1>4 DEF AnswerInv

\* One step of a walk takes in one sensor.
LEMMA OneMore ==
  ASSUME NEW S, NEW c \in Nat, c \in S, \A t \in S : t \in Nat
  PROVE  {t \in S : t < c + 1} = {t \in S : t < c} \cup {c}
<1>1. \A t \in S : t < c + 1 <=> t < c \/ t = c
  OBVIOUS
<1> QED
  BY <1>1, Zenon

\* The answers follow the walk.
LEMMA AnswerInvStep == TypeOK /\ LoopInv /\ CodeInv /\ AnswerInv /\ Next => AnswerInv'
<1> SUFFICES ASSUME TypeOK /\ LoopInv /\ CodeInv /\ AnswerInv, Next
             PROVE  AnswerInv'
  OBVIOUS
<1> USE TypeParts DEF AnswerInv
<1>1. CASE Leak \/ SceneUnlocks \/ MemoryChanges
  BY <1>1, OutsideFrame, QuietAnswers
<1>2. CASE PollStep
  BY <1>2, PollFrame, QuietAnswers
<1>3. ASSUME NEW r \in Requests \cup {Push}, Receive(r)
      PROVE  AnswerInv'
  <2>1. at' \in {"idle", "lock", "vdc"} /\ reply' = {}
    BY <1>3 DEF Receive, Fresh
  <2> QED
    BY <2>1
<1>4. CASE Lock
  <2>1. /\ at = "lock" /\ element = 1 /\ UNCHANGED <<request, element, reply>>
        /\ at' = IF request.kind = "push" THEN "walk" ELSE "element"
    BY <1>4 DEF Lock, CodeInv
  <2>2. reply = {} /\ 1 .. 1 - 1 = {}
    BY <2>1
  <2> QED
    BY <2>1, <2>2
<1>5. CASE NameError
  <2>1. at' = "idle" /\ reply' = {}
    BY <1>5 DEF NameError, Answer, Return, Fresh, Frame, tableVars, AtElement
  <2> QED
    BY <2>1
<1>6. CASE Wildcard
  <2>1. /\ at = "element" /\ at' = "element" /\ element' = element + 1 /\ reply' = reply
        /\ request' = request /\ (short => short') /\ Current.name \notin Walks
    BY <1>6 DEF Wildcard, NextElement, AtElement, Frame, tableVars, walkVars, Walks
  <2> PICK e : e = element
    OBVIOUS
  <2>2. Complete(e)'
    BY <2>1 DEF Complete, IsWalk, Current
  <2>3. request.kind = "get" => AnswerInv'
    BY <2>1, <2>2, NextAnswers
  <2> QED
    BY <2>1, <2>3
<1>7. CASE SetMistyped
  <2>1. at' = "element" /\ request'.kind # "get"
    BY <1>7 DEF SetMistyped, AtElement, Frame, tableVars, walkVars
  <2> QED
    BY <2>1
<1>8. CASE SetNamed
  <2>1. at' = "element" /\ request'.kind # "get"
    BY <1>8 DEF SetNamed, NextElement, AtElement, Frame, tableVars, walkVars
  <2> QED
    BY <2>1
<1>9. CASE GetOther
  <2>1. /\ at = "element" /\ at' = "element" /\ element' = element + 1 /\ reply' = reply
        /\ request' = request /\ (short => short') /\ Current.name \notin Walks
    BY <1>9 DEF GetOther, NextElement, AtElement, Frame, tableVars, walkVars, Walks
  <2> PICK e : e = element
    OBVIOUS
  <2>2. Complete(e)'
    BY <2>1 DEF Complete, IsWalk, Current
  <2>3. request.kind = "get" => AnswerInv'
    BY <2>1, <2>2, NextAnswers
  <2> QED
    BY <2>1, <2>3
<1>10. CASE WalkRefused
  <2>1. /\ at = "element" /\ at' = "element" /\ element' = element + 1 /\ reply' = reply
        /\ request' = request /\ short' /\ request.kind = "get"
    BY <1>10 DEF WalkRefused, NextElement, AtElement
  <2>2. element \in Nat /\ \A r \in reply : r.of < element
    BY <2>1, RequestFacts DEF LoopTyped
  <2> PICK e : e = element
    OBVIOUS
  <2>3. Answered(e)' = {}
    BY <2>1, <2>2 DEF Answered
  <2>4. Complete(e)'
    BY <2>1, <2>3 DEF Complete
  <2> QED
    BY <2>1, <2>4, NextAnswers
<1>11. CASE WalkBegin
  <2>1. /\ at = "element" /\ at' = "walk" /\ cursor' = 0 /\ UNCHANGED <<element, reply, request, short>>
        /\ request.kind = "get"
    BY <1>11 DEF WalkBegin, AtElement
  <2>2. element \in Nat /\ \A r \in reply : r.of \in Nat /\ r.of < element
    BY <2>1, RequestFacts DEF LoopTyped
  <2>3. Answered(element)' = {}
    BY <2>1, <2>2 DEF Answered
  <2>4. \A t \in Taken(element) : t \in Nat
    BY TableAssumption DEF Taken, Wanted, Named, Sensors
  <2>5. {t \in Taken(element) : t < cursor'} = {}
    BY <2>1, <2>4
  <2>6. \A i \in 1 .. element - 1 : Answered(i)' = Answered(i)
    BY <2>1 DEF Answered
  <2>7. \A r \in reply' : r.of \in Nat /\ r.of <= element
    BY <2>1, <2>2
  <2> QED
    BY <2>1, <2>3, <2>5, <2>6, <2>7, WalkAnswers
<1>12. CASE Finish
  <2>1. at' = "idle" /\ reply' = {}
    BY <1>12 DEF Finish, Answer, Return, Fresh, Frame, tableVars
  <2> QED
    BY <2>1
<1>13. CASE WalkPasses
  <2>1. /\ at = "walk" /\ at' = "walk" /\ cursor' = cursor + 1 /\ UNCHANGED <<element, reply, request, short>>
        /\ request.kind = "get" /\ cursor < Active /\ Passes(cursor)
    BY <1>13 DEF WalkPasses, WalkFrame, is_active, Passes
  <2>2. cursor \in Sensors /\ cursor \in Nat
    BY <2>1, TableAssumption DEF LoopTyped, Sensors
  <2>3. cursor \notin Taken(element)
    BY <2>1, <2>2, PassesUntaken DEF LoopInv
  <2>4. \A t \in Taken(element) : t \in Nat
    BY TableAssumption DEF Taken, Wanted, Named, Sensors
  <2>5. Answered(element) = {t \in Taken(element) : t < cursor'}
    BY <2>1, <2>2, <2>3, <2>4
  <2>6. \A i : Answered(i)' = Answered(i)
    BY <2>1 DEF Answered
  <2>7. \A r \in reply' : r.of \in Nat /\ r.of <= element
    BY <2>1
  <2> QED
    BY <2>1, <2>5, <2>6, <2>7, WalkAnswers
<1>14. CASE WalkStatic
  <2> SUFFICES ASSUME request.kind = "get"
               PROVE  AnswerInv'
    BY <1>14 DEF WalkStatic, WalkFrame
  <2> DEFINE rec == [of |-> element, sensor |-> cursor]
  <2>1. /\ at = "walk" /\ at' = "walk" /\ cursor' = cursor + 1 /\ UNCHANGED <<element, request, short>>
        /\ reply' = reply \cup {rec}
    BY <1>14 DEF WalkStatic, WalkFrame
  <2>2. cursor < Active /\ ~Passes(cursor)
    BY <1>14 DEF WalkStatic, LoopInv, is_active, Passes, Dated
  <2>3. rec.of = element /\ rec.sensor = cursor
    OBVIOUS
  <2> HIDE DEF rec
  <2>4. cursor \in Sensors /\ cursor \in Nat /\ element \in Nat
    BY <2>2, TableAssumption, RequestFacts DEF LoopTyped, Sensors
  <2>5. cursor \in Taken(element)
    BY <2>1, <2>2, <2>4, PassesUntaken DEF LoopInv
  <2>6. \A t \in Taken(element) : t \in Nat
    BY TableAssumption DEF Taken, Wanted, Named, Sensors
  <2>7. Answered(element)' = Answered(element) \cup {cursor}
    BY <2>1, <2>3, AnsweredGrows
  <2>11. Answered(element) = {t \in Taken(element) : t < cursor}
    BY <2>1
  <2>12. {t \in Taken(element) : t < cursor + 1} = {t \in Taken(element) : t < cursor} \cup {cursor}
    BY ONLY <2>4, <2>5, <2>6, OneMore
  <2>8. Answered(element)' = {t \in Taken(element) : t < cursor'}
    BY <2>1, <2>7, <2>11, <2>12
  <2>9. \A i \in 1 .. element - 1 : Answered(i)' = Answered(i)
    BY <2>1, <2>3, <2>4, AnsweredGrows
  <2>10. \A r \in reply' : r.of \in Nat /\ r.of <= element
    BY <2>1, <2>3, <2>4
  <2> QED
    BY <2>1, <2>8, <2>9, <2>10, WalkAnswers
<1>15. CASE WalkValue
  <2> SUFFICES ASSUME request.kind = "get"
               PROVE  AnswerInv'
    BY <1>15 DEF WalkValue, WalkFrame
  <2>1. at = "walk" /\ at' = "date" /\ UNCHANGED <<element, reply, request, short, cursor>>
    BY <1>15 DEF WalkValue, WalkFrame
  <2>2. \A i : Answered(i)' = Answered(i)
    BY <2>1 DEF Answered
  <2>3. \A r \in reply' : r.of \in Nat /\ r.of <= element
    BY <2>1
  <2>4. Answered(element)' = {t \in Taken(element) : t < cursor'}
    BY <2>1, <2>2
  <2> QED
    BY <2>1, <2>2, <2>3, <2>4, WalkAnswers
<1>16. CASE WalkDate
  <2> SUFFICES ASSUME request.kind = "get"
               PROVE  AnswerInv'
    BY <1>16 DEF WalkDate, WalkFrame
  <2> DEFINE rec == [of |-> element, sensor |-> cursor, value |-> value,
                     age |-> now - sensors[cursor].last_query, now |-> now,
                     previous |-> sensors[cursor].last_value]
  <2>1. /\ at = "date" /\ at' = "walk" /\ cursor' = cursor + 1 /\ UNCHANGED <<element, request, short>>
        /\ reply' = reply \cup {rec}
    BY <1>16 DEF WalkDate, WalkFrame
  <2>2. cursor < Active /\ ~Passes(cursor)
    BY <1>16 DEF WalkDate, LoopInv, is_active, Passes, Dated
  <2>3. rec.of = element /\ rec.sensor = cursor
    OBVIOUS
  <2> HIDE DEF rec
  <2>4. cursor \in Sensors /\ cursor \in Nat /\ element \in Nat
    BY <2>2, TableAssumption, RequestFacts DEF LoopTyped, Sensors
  <2>5. cursor \in Taken(element)
    BY <2>1, <2>2, <2>4, PassesUntaken DEF LoopInv
  <2>6. \A t \in Taken(element) : t \in Nat
    BY TableAssumption DEF Taken, Wanted, Named, Sensors
  <2>7. Answered(element)' = Answered(element) \cup {cursor}
    BY <2>1, <2>3, AnsweredGrows
  <2>11. Answered(element) = {t \in Taken(element) : t < cursor}
    BY <2>1
  <2>12. {t \in Taken(element) : t < cursor + 1} = {t \in Taken(element) : t < cursor} \cup {cursor}
    BY ONLY <2>4, <2>5, <2>6, OneMore
  <2>8. Answered(element)' = {t \in Taken(element) : t < cursor'}
    BY <2>1, <2>7, <2>11, <2>12
  <2>9. \A i \in 1 .. element - 1 : Answered(i)' = Answered(i)
    BY <2>1, <2>3, <2>4, AnsweredGrows
  <2>10. \A r \in reply' : r.of \in Nat /\ r.of <= element
    BY <2>1, <2>3, <2>4
  <2> QED
    BY <2>1, <2>8, <2>9, <2>10, WalkAnswers
<1>17. CASE WalkBreaks
  <2>1. /\ at = "walk" /\ at' = "element" /\ element' = element + 1 /\ reply' = reply
        /\ request' = request /\ (short => short') /\ request.kind = "get"
    BY <1>17 DEF WalkBreaks, WalkFrame
  <2>2. short'
    BY <1>17, TableAssumption DEF WalkBreaks, is_active, LoopTyped
  <2> PICK e : e = element
    OBVIOUS
  <2>3. cursor \in Nat /\ \A t \in Taken(element) : t \in Nat /\ t < Active
    BY TableAssumption DEF LoopTyped, Taken, Wanted, Named, Sensors
  <2>4. Answered(e) = {t \in Taken(element) : t < cursor}
    BY <2>1
  <2>5. Answered(e)' = Answered(e) /\ (IsWalk(e)' <=> IsWalk(e))
    BY <2>1 DEF Answered, IsWalk
  <2>6. Taken(e)' = Taken(element)
    BY <2>1 DEF Taken, Wanted, Named, Current, Sensors
  <2>7. Answered(e) \subseteq Taken(element)
    BY <2>4
  <2>8. \A t \in Taken(element) \ Answered(e) : \A u \in Answered(e) : u < t
    BY <2>2, <2>3, <2>4, TableAssumption
  <2>9. Complete(e)'
    BY <2>2, <2>5, <2>6, <2>7, <2>8 DEF Complete
  <2> QED
    BY <2>1, <2>9, NextAnswers
<1>18. CASE WalkEnds
  <2>1. /\ at = "walk" /\ at' = "element" /\ element' = element + 1 /\ reply' = reply
        /\ request' = request /\ (short => short') /\ request.kind = "get"
    BY <1>18 DEF WalkEnds, WalkFrame
  <2>2. cursor >= Active
    BY <1>18, TableAssumption DEF WalkEnds, is_active, LoopTyped
  <2> PICK e : e = element
    OBVIOUS
  <2>3. cursor \in Nat /\ \A t \in Taken(element) : t \in Nat /\ t < Active
    BY TableAssumption DEF LoopTyped, Taken, Wanted, Named, Sensors
  <2>4. Answered(e) = {t \in Taken(element) : t < cursor}
    BY <2>1
  <2>5. Answered(e)' = Answered(e) /\ (IsWalk(e)' <=> IsWalk(e))
    BY <2>1 DEF Answered, IsWalk
  <2>6. Taken(e)' = Taken(element)
    BY <2>1 DEF Taken, Wanted, Named, Current, Sensors
  <2>7. Answered(e) \subseteq Taken(element)
    BY <2>4
  <2>8. \A t \in Taken(element) \ Answered(e) : FALSE
    BY <2>2, <2>3, <2>4, TableAssumption
  <2>9. Complete(e)'
    BY <2>2, <2>5, <2>6, <2>7, <2>8 DEF Complete
  <2> QED
    BY <2>1, <2>9, NextAnswers
<1>19. CASE SendPush
  <2>1. at' = "idle" /\ reply' = {}
    BY <1>19 DEF SendPush, Answer, Return, Fresh, Frame, tableVars
  <2> QED
    BY <2>1
<1>31. CASE VdcNameError
  BY <1>31 DEF VdcNameError, AtVdcElement, Return, Fresh, Frame, tableVars
<1>32. CASE VdcProperty
  BY <1>32 DEF VdcProperty, NextElement, AtVdcElement, Frame, tableVars, walkVars
<1>33. CASE VdcFinish
  BY <1>33 DEF VdcFinish, Return, Fresh, Frame, tableVars
<1>34. CASE IndexUndefined
  BY <1>34 DEF IndexUndefined, AtElement, Frame, tableVars, walkVars
<1>35. CASE WalkLeavesTable
  BY <1>35 DEF WalkLeavesTable, WalkFrame, Frame, tableVars, walkVars
<1> QED
  BY <1>1, <1>2, <1>3, <1>4, <1>5, <1>6, <1>7, <1>8, <1>9, <1>10, <1>11, <1>12, <1>13,
     <1>14, <1>15, <1>16, <1>17, <1>18, <1>19,
     <1>31, <1>32, <1>33, <1>34, <1>35
  DEF Next, Handle

-----------------------------------------------------------------------------
(* The invariant and the theorems.                                         *)

\* So it is after a step.
LEMMA TypePartsNext ==
  MutexTyped' /\ ZoneTyped' /\ TableTyped' /\ FlagsTyped' /\ WalkTyped' /\ LoopTyped' => TypeOK'
BY DEF TypeOK, MutexTyped, ZoneTyped, TableTyped, FlagsTyped, WalkTyped, LoopTyped

\* The invariant holds at the start.
LEMMA HandlerInit == Init => HandlerInv
<1> SUFFICES ASSUME Init
             PROVE  HandlerInv
  OBVIOUS
<1> USE DEF Init
<1>1. TypeOK
  <2>1. MutexTyped
    BY DEF MutexTyped, MutexType, FreeMutex
  <2>2. ZoneTyped /\ FlagsTyped /\ WalkTyped
    BY WidthFacts DEF ZoneTyped, FlagsTyped, WalkTyped
  <2>3. TableTyped
    BY TableAssumption DEF TableTyped
  <2>4. LoopTyped
    BY TableAssumption, RequestFacts DEF LoopTyped
  <2> QED
    BY <2>1, <2>2, <2>3, <2>4, TypeParts
<1>2. LoopInv
  BY TableAssumption DEF LoopInv
<1>3. LockInv
  BY DEF LockInv, Released, FreeMutex
<1>4. AnsweredOnce /\ CodeInv /\ CodeTells
  BY DEF AnsweredOnce, CodeInv, CodeTells, Push
<1>5. AgeInv
  BY DEF AgeInv, TableInv, Undated, ReadingInv, Reading, OvertakenInv, AgeFits
<1>6. AnswerInv
  BY DEF AnswerInv
<1> QED
  BY <1>1, <1>2, <1>3, <1>4, <1>5, <1>6 DEF HandlerInv

\* The invariant is about handlerVars alone.
LEMMA HandlerStutter == HandlerInv /\ UNCHANGED handlerVars => HandlerInv'
<1> SUFFICES ASSUME HandlerInv, UNCHANGED handlerVars
             PROVE  HandlerInv'
  OBVIOUS
<1> USE DEF handlerVars, tableVars, walkVars, historyVars, HandlerInv
<1>1. TypeOK'
  BY DEF TypeOK
<1>2. LoopInv' /\ LockInv' /\ AnsweredOnce'
  BY DEF LoopInv, NeedsLock, Current, Dated, Passes, Only, LockInv, Released, AnsweredOnce
<1>3. CodeInv' /\ CodeTells'
  BY DEF CodeInv, CodeTells, ZonesBefore, Zones
<1>4. AgeInv'
  BY DEF AgeInv, TableInv, Undated, ReadingInv, Reading, OvertakenInv, StoredAlready, AgeFits
<1>5. AnswerInv'
  BY DEF AnswerInv, Complete, IsWalk, Answered, Taken, Wanted, Named, Current
<1> QED
  BY <1>1, <1>2, <1>3, <1>4, <1>5

\* The invariant holds always.
LEMMA HandlerInvariant == Spec => []HandlerInv
<1>1. HandlerInv /\ Next => HandlerInv'
  <2> SUFFICES ASSUME HandlerInv, Next
               PROVE  HandlerInv'
    OBVIOUS
  <2> USE DEF HandlerInv, AgeInv
  <2>1. TypeOK'
    <3>1. MutexTyped' /\ ZoneTyped' /\ FlagsTyped'
      BY MutexTypedStep, ZoneTypedStep, FlagsTypedStep
    <3>2. TableTyped' /\ WalkTyped' /\ LoopTyped'
      BY TableTypedStep, WalkTypedStep, LoopTypedStep
    <3> QED
      BY <3>1, <3>2, TypePartsNext
  <2>2. LoopInv' /\ LockInv'
    BY LoopInvStep, LockInvStep
  <2>3. AnsweredOnce' /\ CodeInv' /\ CodeTells'
    BY AnsweredOnceStep, CodeInvStep, CodeTellsStep
  <2>4. AgeInv'
    BY TableInvStep, ReadingInvStep, OvertakenInvStep, AgeFitsStep
  <2>5. AnswerInv'
    BY AnswerInvStep
  <2> QED
    BY <2>1, <2>2, <2>3, <2>4, <2>5
<1>2. HandlerInv /\ [Next]_handlerVars => HandlerInv'
  BY <1>1, HandlerStutter
<1> QED
  BY HandlerInit, <1>2, PTL DEF Spec

\* No loop over the sensors goes past the first entry that is not active, or past
\* the one behind a full table, whatever its size (main.c:134; vdsd.c:569, 608,
\* 655): it leaves the table in one case only, that it is full, and by one entry
\* until what it reads there decides.
THEOREM HandlersTyped == Spec => []TypeOK
<1>1. HandlerInv => TypeOK
  BY DEF HandlerInv
<1> QED
  BY HandlerInvariant, <1>1, PTL

\* Every path through the handlers gives back the level of the mutex it took,
\* whatever the main loop has leaked and the network thread unlocks (vdsd.c:265-298,
\* 421-757).
THEOREM LockIsReleased == Spec => []Released
<1>1. HandlerInv => Released
  BY DEF HandlerInv, LockInv
<1> QED
  BY HandlerInvariant, <1>1, PTL

\* The property of a get or set request is sent once or freed, on every path
\* (vdsd.c:255, 270, 300, 414, 427, 758).
THEOREM RequestIsAnsweredOnce == Spec => []AnsweredOnce
<1>1. HandlerInv => AnsweredOnce
  BY DEF HandlerInv
<1> QED
  BY HandlerInvariant, <1>1, PTL

\* The code of a set-property response tells what became of the zone, for every
\* list of properties (vdsd.c:280-300).
THEOREM CodeIsTrue == Spec => []CodeTells
<1>1. HandlerInv => CodeTells
  BY DEF HandlerInv
<1> QED
  BY HandlerInvariant, <1>1, PTL

\* The age answered or pushed belongs to the value or to the value stored next,
\* however the stores of the network thread fall between the two reads
\* (vdsd.c:668-671, main.c:136-144, network.c:295-297).
THEOREM AgeIsTrue == Spec => []AgeFits
<1>1. HandlerInv => AgeFits
  BY DEF HandlerInv, AgeInv
<1> QED
  BY HandlerInvariant, <1>1, PTL

\* Whatever the query, no sensor it asks for is missing, unless memory ran out or
\* its first property names another sensor; and none is added, unless the first
\* property names none or another (vdsd.c:569-683).
THEOREM AnswersAreComplete == Spec => []AnswersAsked
<1>1. HandlerInv => AnswersAsked
  <2> SUFFICES ASSUME HandlerInv, at = "element", request.kind = "get",
                      NEW i \in 1 .. element - 1, request.elements[i].name \in Walks
               PROVE  LET e     == request.elements[i]
                          first == Wanted(request.elements[1].sub)
                      IN  /\ first \subseteq Asked(e) => Answered(i) \subseteq Asked(e)
                          /\ (e.name = "sensorStates" => Asked(e) \subseteq first) =>
                               \A s \in Asked(e) \ Answered(i) :
                                 short /\ \A t \in Answered(i) : t < s
    BY DEF AnswersAsked
  <2>1. Complete(i) /\ IsWalk(i)
    BY DEF HandlerInv, AnswerInv, IsWalk
  <2>2. CASE request.elements[i].name = "sensorStates"
    BY <2>1, <2>2 DEF Complete, Taken
  <2>3. CASE request.elements[i].name # "sensorStates"
    BY <2>1, <2>3 DEF Complete, Taken, Asked
  <2> QED
    BY <2>2, <2>3
<1> QED
  BY HandlerInvariant, <1>1, PTL

=============================================================================

-------------------------- MODULE PropertyHandlers --------------------------
(***************************************************************************)
(* The requests of the DSS that vdsd.c answers on the main thread: get and *)
(* set property, ping, remove, save scene, generic requests; and the push  *)
(* of main.c, which walks over the sensor table like the answers do.       *)
(*                                                                         *)
(* The set property of the vDC is in module ConfigStore.  The network      *)
(* thread stores into the sensor table without the mutex, and unlocks the  *)
(* mutex that it does not hold (network.c:295-314).                        *)
(*                                                                         *)
(* Time is counted in polls: time(NULL) is the number of polls begun, and  *)
(* the value a poll measures is its number, so a value tells its age.      *)
(***************************************************************************)
EXTENDS RecursiveMutex, Integers, Sequences

CONSTANTS
  MaxSensors,  \* MAX_SENSOR_VALUES
  Active,      \* the configured sensors
  Requests,    \* what the DSS asks; see RequestType
  Unnamed,     \* the name of a property that has none
  MaxDepth,    \* bound: levels of the mutex the main loop leaks
  MaxPolls     \* bound: polls of the network thread

Main == "main"
Net == "network"

Handles == {"vdc", "lib", "device", "other"}   \* whose dsuid a request names

\* The names of properties, as far as the handlers tell them apart: a plain
\* one is answered by a value, a nested one needs a new property.
Walks == {"sensorDescriptions", "sensorSettings", "sensorStates"}
Names == Walks \cup {"unreadable", "wildcard", "zoneID", "plain", "nested"}

\* sub is what is inside: nothing, or the number strtol makes of the first name,
\* if it has one; value is the zone, or <<>> when it is no number.
ElementType == [name : Names, sub : Seq(Int \cup {Unnamed}), value : Seq(Nat)]

RequestType == [kind : {"get", "set", "ping", "remove", "save", "generic", "push"},
                to : Handles, elements : Seq(ElementType)]

ASSUME UnnamedAssumption == Unnamed \notin Int

ASSUME HandlerConstants ==
  /\ Threads = {Main, Net}
  /\ MaxDepth \in Nat /\ MaxPolls \in Nat
  /\ \A r \in Requests : r \in RequestType /\ (r.kind = "set" => r.to # "vdc")

\* The table may be full (configuration.c:80).
ASSUME TableAssumption == MaxSensors \in Nat /\ Active \in 0 .. MaxSensors

Push == [kind |-> "push", to |-> "device", elements |-> <<>>]

Sensors == 0 .. Active - 1

Width == 65536
uint16_t == {n \in Nat : n < Width}

VARIABLES
  mutex,    \* g_network_mutex
  zone,     \* humifier_device->humifier->zoneID, 16 bits
  sensors,  \* sensor_values[]: value, last_value, last_query
  memory,   \* whether dsvdc_property_new succeeds
  polls,    \* polls begun
  poll,     \* the network thread: where it is, and the sensor it stores
  at,       \* the main thread; "undefined": C no longer says what it does
  request,  \* the request it handles, or the last one it handled
  element,  \* i of the loop over the properties
  cursor,   \* i of the loop over the sensors
  now,      \* the time the loop over the sensors works with
  value,    \* val, read from the table
  polled,   \* history: a poll has ended since that time was taken
  code,     \* the code of the set-property response
  sent,     \* history: what became of the request's property
  reply,    \* history: the sensors answered, with what was answered
  short,    \* history: memory was refused during the request
  before,   \* history: the zone before the request
  base      \* history: levels the main loop has leaked

tableVars == <<sensors, polls, poll>>
walkVars == <<cursor, now, value, polled>>
historyVars == <<sent, reply, short, before, base>>
handlerVars == <<mutex, zone, tableVars, memory, at, request, element, walkVars,
                 code, historyVars>>

Init ==
  /\ mutex = FreeMutex
  /\ zone = 0
  /\ sensors = [s \in Sensors |-> [value |-> 0, last_value |-> 0, last_query |-> 0]]
  /\ memory = TRUE
  /\ polls = 0
  /\ poll = [at |-> "idle", sensor |-> 0]
  /\ at = "idle"
  /\ request = Push
  /\ element = 1
  /\ cursor = 0 /\ now = 0 /\ value = 0 /\ polled = FALSE
  /\ code = "OK"
  /\ sent = <<>> /\ reply = {} /\ short = FALSE /\ before = 0 /\ base = 0

-----------------------------------------------------------------------------
(* What the main loop and the scenes do to the mutex between two requests. *)

\* A pass of the main loop that ends in one of its "continue"s.
Leak ==
  /\ at = "idle"
  /\ base < MaxDepth
  /\ CanLock(mutex, Main)
  /\ mutex' = Locked(mutex, Main)
  /\ base' = base + 1
  /\ UNCHANGED <<zone, tableVars, memory, at, request, element, walkVars, code,
                 sent, reply, short, before>>

\* A scene reads the humifier: parse_json_data, on the thread that may hold it.
SceneUnlocks ==
  /\ at = "idle"
  /\ base > 0
  /\ mutex' = Unlocked(mutex, Main)
  /\ base' = base - 1
  /\ UNCHANGED <<zone, tableVars, memory, at, request, element, walkVars, code,
                 sent, reply, short, before>>

-----------------------------------------------------------------------------
(* Receiving a request.                                                    *)

Frame == UNCHANGED <<tableVars, memory, base>>

\* The local variables of a handler, and the history of its answer.
Fresh ==
  /\ element' = 1
  /\ cursor' = 0 /\ now' = 0 /\ value' = 0 /\ polled' = FALSE
  /\ reply' = {} /\ short' = FALSE

\* vdc_ping_cb knows three dsuids.
Ponged(r) == r.kind = "ping" /\ r.to # "other"

\* A get or set request for a dsuid that is neither vDC nor device.
Unhandled(r) == r.kind \in {"get", "set"} /\ r.to \in {"lib", "other"}

\* What becomes of a request that needs no mutex.  Remove, save scene and
\* generic requests have no effect and no answer.
Replies(r) ==
  CASE Unhandled(r) -> <<"freed">>
    [] Ponged(r)    -> <<"pong">>
    [] OTHER        -> <<>>

ForVdc(r) == r.kind = "get" /\ r.to = "vdc"

NeedsLock(r) == r.kind \in {"get", "set", "push"} /\ r.to = "device"

Receive(r) ==
  /\ at = "idle"
  /\ request' = r
  /\ at' = IF NeedsLock(r) THEN "lock" ELSE IF ForVdc(r) THEN "vdc" ELSE "idle"
  /\ sent' = Replies(r)
  /\ Fresh
  /\ before' = zone
  /\ code' = "NOT_IMPLEMENTED"
  /\ UNCHANGED <<mutex, zone>>
  /\ Frame

\* pthread_mutex_lock.  The push comes from the main loop, which only tries.
Lock ==
  /\ at = "lock"
  /\ CanLock(mutex, Main)
  /\ mutex' = Locked(mutex, Main)
  /\ at' = IF request.kind = "push" THEN "walk" ELSE "element"
  /\ UNCHANGED <<zone, request, element, walkVars, code, sent, reply, short, before>>
  /\ Frame

\* The response, and the return.
Return(what) ==
  /\ sent' = Append(sent, what)
  /\ at' = "idle"
  /\ Fresh
  /\ UNCHANGED <<zone, request, code, before>>
  /\ Frame

\* pthread_mutex_unlock and the response, in either order.
Answer(what) == mutex' = Unlocked(mutex, Main) /\ Return(what)

Current == request.elements[element]

NextElement ==
  /\ element' = element + 1
  /\ UNCHANGED <<mutex, at, request, walkVars, sent, before>>
  /\ Frame

-----------------------------------------------------------------------------
(* A get request to the vDC: the loop over its properties takes no mutex.  *)

AtVdcElement == at = "vdc" /\ element <= Len(request.elements)

\* A name that is unreadable or missing ends the loop with what there is.
VdcNameError ==
  /\ AtVdcElement
  /\ Current.name \in {"unreadable", "wildcard"}
  /\ Return("get_response")
  /\ UNCHANGED mutex

\* Only a nested property, "capabilities", takes memory.
VdcProperty ==
  /\ AtVdcElement
  /\ Current.name \notin {"unreadable", "wildcard"}
  /\ short' = (short \/ (Current.name = "nested" /\ ~memory))
  /\ NextElement
  /\ UNCHANGED <<zone, code, reply>>

VdcFinish ==
  /\ at = "vdc"
  /\ element > Len(request.elements)
  /\ Return("get_response")
  /\ UNCHANGED mutex

-----------------------------------------------------------------------------
(* The loop over the properties of a request to the device.                *)

AtElement == at = "element" /\ element <= Len(request.elements)

\* An error path that leaves without the unlock.
NameErrorLocked ==
  /\ AtElement
  /\ Current.name = "unreadable"
  /\ Return("get_response")
  /\ UNCHANGED mutex

\* dsvdc_property_get_name fails: a get response, also to a set request.
NameError ==
  /\ AtElement
  /\ Current.name = "unreadable"
  /\ Answer("get_response")

\* A handler that answers a wildcard at once and goes on (vdsd.c:279, 433).
WildcardAnswered ==
  /\ AtElement
  /\ Current.name = "wildcard"
  /\ sent' = Append(sent, "get_response")
  /\ element' = element + 1
  /\ UNCHANGED <<mutex, zone, at, request, walkVars, code, reply, short, before>>
  /\ Frame

Wildcard ==
  /\ AtElement
  /\ Current.name = "wildcard"
  /\ NextElement
  /\ UNCHANGED <<zone, code, reply, short>>

\* A handler that goes on with the next property.
SetMistypedSkipped ==
  /\ AtElement
  /\ request.kind = "set"
  /\ Current.name = "zoneID" /\ Current.value = <<>>
  /\ code' = "INVALID_VALUE_TYPE"
  /\ NextElement
  /\ UNCHANGED <<zone, reply, short>>

\* The zone is no number: break, that is, the loop is at its end.
SetMistyped ==
  /\ AtElement
  /\ request.kind = "set"
  /\ Current.name = "zoneID" /\ Current.value = <<>>
  /\ code' = "INVALID_VALUE_TYPE"
  /\ element' = Len(request.elements) + 1
  /\ UNCHANGED <<mutex, at, request, walkVars, sent, before, zone, reply, short>>
  /\ Frame

\* uint16_t zoneID = uint64_t zoneID.  A name that is not known gets an OK.
SetNamed ==
  /\ AtElement
  /\ request.kind = "set"
  /\ Current.name \notin {"unreadable", "wildcard"}
  /\ Current.name = "zoneID" => Current.value # <<>>
  /\ zone' = IF Current.name = "zoneID" THEN Current.value[1] % Width ELSE zone
  /\ code' = "OK"
  /\ NextElement
  /\ UNCHANGED <<reply, short>>

\* A property that is answered by a value, or by a new property; without
\* memory for that the handler goes on without it.
GetOther ==
  /\ AtElement
  /\ request.kind = "get"
  /\ Current.name \in {"zoneID", "plain", "nested"}
  /\ short' = (short \/ (Current.name = "nested" /\ ~memory))
  /\ NextElement
  /\ UNCHANGED <<zone, code, reply>>

\* The reply property of a walk is refused.
WalkRefused ==
  /\ AtElement
  /\ request.kind = "get"
  /\ Current.name \in Walks
  /\ ~memory
  /\ short' = TRUE
  /\ NextElement
  /\ UNCHANGED <<zone, code, reply>>

\* Something is inside the first property of the query, and has no name.
Nameless(elements) == elements[1].sub # <<>> /\ elements[1].sub[1] = Unnamed

\* strtol of a name that is NULL.
IndexUndefined ==
  /\ AtElement
  /\ request.kind = "get"
  /\ Current.name = "sensorStates"
  /\ memory
  /\ Nameless(request.elements)
  /\ at' = "undefined"
  /\ UNCHANGED <<mutex, zone, request, element, walkVars, code, sent, reply, short, before>>
  /\ Frame

WalkBegin ==
  /\ AtElement
  /\ request.kind = "get"
  /\ Current.name \in Walks
  /\ memory
  /\ Current.name = "sensorStates" => ~Nameless(request.elements)
  /\ at' = "walk"
  /\ cursor' = 0
  /\ now' = polls
  /\ polled' = FALSE
  /\ UNCHANGED <<mutex, zone, request, element, value, code, sent, reply, short, before>>
  /\ Frame

\* After the loop: unlock, then the response.
Finish ==
  /\ at = "element"
  /\ element > Len(request.elements)
  /\ Answer(IF request.kind = "get" THEN "get_response" ELSE "set_response")

-----------------------------------------------------------------------------
(* The loop over the sensors.                                              *)

is_active(i) == i < Active

\* idx: taken from the first property of the query, whichever is answered; -1
\* when nothing is inside that.
Only(elements) == IF elements[1].sub = <<>> THEN -1 ELSE elements[1].sub[1]

Dated == request.kind = "get" => Current.name = "sensorStates"

Passes(i) ==
  /\ request.kind = "get"
  /\ Current.name = "sensorStates"
  /\ Only(request.elements) >= 0
  /\ Only(request.elements) # i

WalkFrame == UNCHANGED <<mutex, zone, request, code, sent, before>> /\ Frame

\* A walk that looks for the sensor asked for and not for the table's end.
WalkPassesAll ==
  /\ at = "walk"
  /\ Passes(cursor)
  /\ cursor' = cursor + 1
  /\ UNCHANGED <<at, element, now, value, polled, reply, short>>
  /\ WalkFrame

WalkPasses ==
  /\ at = "walk"
  /\ is_active(cursor)
  /\ Passes(cursor)
  /\ cursor' = cursor + 1
  /\ UNCHANGED <<at, element, now, value, polled, reply, short>>
  /\ WalkFrame

\* A description or setting.
WalkStatic ==
  /\ at = "walk"
  /\ is_active(cursor)
  /\ ~Dated
  /\ memory
  /\ reply' = reply \cup {[of |-> element, sensor |-> cursor]}
  /\ cursor' = cursor + 1
  /\ UNCHANGED <<at, element, now, value, polled, short>>
  /\ WalkFrame

\* The value is read; the push takes the time anew for each sensor.  Without
\* memory the push tries again, which is no step.
WalkValue ==
  /\ at = "walk"
  /\ is_active(cursor)
  /\ Dated /\ ~Passes(cursor)
  /\ memory
  /\ value' = sensors[cursor].value
  /\ IF request.kind = "push" THEN now' = polls /\ polled' = FALSE
                               ELSE UNCHANGED <<now, polled>>
  /\ at' = "date"
  /\ UNCHANGED <<element, cursor, reply, short>>
  /\ WalkFrame

\* Then last_query is read: the age answered is now - last_query.
WalkDate ==
  /\ at = "date"
  /\ reply' = reply \cup
       {[of |-> element, sensor |-> cursor, value |-> value,
         age |-> now - sensors[cursor].last_query, now |-> now,
         previous |-> sensors[cursor].last_value]}
  /\ cursor' = cursor + 1
  /\ at' = "walk"
  /\ UNCHANGED <<element, now, value, polled, short>>
  /\ WalkFrame

\* A walk that leaves out the sensors it has no memory for.
WalkLeavesOut ==
  /\ at = "walk"
  /\ is_active(cursor)
  /\ request.kind = "get"
  /\ ~Passes(cursor)
  /\ ~memory
  /\ short' = TRUE
  /\ cursor' = cursor + 1
  /\ UNCHANGED <<at, element, now, value, polled, reply>>
  /\ WalkFrame

\* No memory for a sensor: break.  What there is gets answered.
WalkBreaks ==
  /\ at = "walk"
  /\ is_active(cursor)
  /\ request.kind = "get"
  /\ ~Passes(cursor)
  /\ ~memory
  /\ short' = TRUE
  /\ at' = "element"
  /\ element' = element + 1
  /\ UNCHANGED <<walkVars, reply>>
  /\ WalkFrame

\* The table is full.  What is_active reads behind it belongs to the first scene
\* (venta.h:47-48): the loop ends there, which is the next action, or goes on
\* with an entry that is no sensor.
WalkLeavesTable ==
  /\ at = "walk"
  /\ cursor = MaxSensors
  /\ at' = "undefined"
  /\ UNCHANGED <<element, walkVars, reply, short>>
  /\ WalkFrame

WalkEnds ==
  /\ at = "walk"
  /\ ~is_active(cursor)
  /\ request.kind = "get"
  /\ at' = "element"
  /\ element' = element + 1
  /\ UNCHANGED <<walkVars, reply, short>>
  /\ WalkFrame

\* dsvdc_push_property and the end of the loop body of main.
SendPush ==
  /\ at = "walk"
  /\ ~is_active(cursor)
  /\ request.kind = "push"
  /\ Answer("push")

-----------------------------------------------------------------------------
(* The network thread: parse_json_data.                                    *)

NetFrame == UNCHANGED <<zone, memory, at, request, element, cursor, now, value, code, historyVars>>

\* Between taking the time and reading the last_query that goes with it.
Reading == at = "date" \/ (at = "walk" /\ request.kind = "get")

\* Bound: the network thread sleeps for five seconds between two polls
\* (main.c:80), and an answer is put together in less.
WalkIsShort == polled => ~Reading

PollBegin ==
  /\ poll.at = "idle"
  /\ polls < MaxPolls
  /\ WalkIsShort
  /\ polls' = polls + 1
  /\ poll' = [at |-> "store", sensor |-> 0]
  /\ UNCHANGED <<mutex, sensors, polled>>
  /\ NetFrame

\* A date that is written for every key, whatever the type of its value.
PollOmitsDated ==
  /\ poll.at = "store"
  /\ is_active(poll.sensor)
  /\ sensors' = [sensors EXCEPT ![poll.sensor].last_query = polls]
  /\ poll' = [poll EXCEPT !.sensor = @ + 1]
  /\ UNCHANGED <<mutex, polls, polled>>
  /\ NetFrame

\* The answer lacks the sensor, or has neither an integer nor a boolean for it.
PollOmits ==
  /\ poll.at = "store"
  /\ is_active(poll.sensor)
  /\ poll' = [poll EXCEPT !.sensor = @ + 1]
  /\ UNCHANGED <<mutex, sensors, polls, polled>>
  /\ NetFrame

\* last_value = value; value = what was measured.
PollValue ==
  /\ poll.at = "store"
  /\ is_active(poll.sensor)
  /\ sensors' = [sensors EXCEPT ![poll.sensor].last_value = sensors[poll.sensor].value,
                                ![poll.sensor].value = polls]
  /\ poll' = [poll EXCEPT !.at = "date"]
  /\ UNCHANGED <<mutex, polls, polled>>
  /\ NetFrame

\* last_query = now, the time at which parsing began.
PollDate ==
  /\ poll.at = "date"
  /\ sensors' = [sensors EXCEPT ![poll.sensor].last_query = polls]
  /\ poll' = [at |-> "store", sensor |-> poll.sensor + 1]
  /\ UNCHANGED <<mutex, polls, polled>>
  /\ NetFrame

PollUnlocks ==
  /\ poll.at = "store"
  /\ ~is_active(poll.sensor)
  /\ mutex' = Unlocked(mutex, Net)
  /\ poll' = [at |-> "idle", sensor |-> 0]
  /\ polled' = (polled \/ Reading)
  /\ UNCHANGED <<sensors, polls>>
  /\ NetFrame

-----------------------------------------------------------------------------
\* Memory runs out and comes back.
MemoryChanges ==
  /\ memory' = ~memory
  /\ UNCHANGED <<mutex, zone, tableVars, at, request, element, walkVars, code, historyVars>>

Handle ==
  \/ VdcNameError \/ VdcProperty \/ VdcFinish
  \/ Lock \/ NameError \/ Wildcard \/ SetMistyped \/ SetNamed
  \/ GetOther \/ WalkRefused \/ IndexUndefined \/ WalkBegin \/ Finish
  \/ WalkPasses \/ WalkStatic \/ WalkValue \/ WalkDate \/ WalkBreaks
  \/ WalkLeavesTable \/ WalkEnds \/ SendPush

PollStep == PollBegin \/ PollOmits \/ PollValue \/ PollDate \/ PollUnlocks

Next ==
  \/ Leak \/ SceneUnlocks
  \/ \E r \in Requests \cup {Push} : Receive(r)
  \/ Handle
  \/ PollStep
  \/ MemoryChanges

Spec == Init /\ [][Next]_handlerVars

\* The main thread is scheduled while it handles a request.
FairSpec == Spec /\ WF_handlerVars(Handle)

-----------------------------------------------------------------------------
(* Properties.                                                             *)

\* The variables have their types.  No loop over the sensors goes past the first
\* entry that is not active (main.c:134; vdsd.c:569, 608, 655); if the table is
\* full, that is the entry behind it, and the loop reads what is no sensor.
TypeOK ==
  /\ mutex \in MutexType
  /\ zone \in uint16_t /\ before \in uint16_t
  /\ sensors \in [Sensors -> [value : Nat, last_value : Nat, last_query : Nat]]
  /\ memory \in BOOLEAN /\ short \in BOOLEAN
  /\ polls \in Nat /\ now \in Nat /\ value \in Nat /\ base \in Nat /\ polled \in BOOLEAN
  /\ poll \in [at : {"idle", "store", "date"}, sensor : 0 .. Active]
  /\ at \in {"idle", "lock", "vdc", "element", "walk", "date", "undefined"}
  /\ request \in Requests \cup {Push}
  /\ element \in 1 .. Len(request.elements) + 1
  /\ cursor \in 0 .. Active
  /\ code \in {"OK", "NOT_IMPLEMENTED", "INVALID_VALUE_TYPE"}

\* Every path through the handlers gives back the one level of the mutex it has
\* taken, no more and no less (vdsd.c:265-298, 421-757), also when the main
\* loop has leaked levels before, and whatever the network thread unlocks
\* meanwhile (network.c:314).
Released ==
  /\ mutex.count = base + (IF at \in {"element", "walk", "date", "undefined"} THEN 1 ELSE 0)
  /\ mutex.count > 0 => mutex.owner = Main

\* The property of a get or set request is sent with one response or freed,
\* never twice and never not at all; a set request is answered by a get
\* response only when a name could not be read (vdsd.c:255, 270, 300, 335, 340,
\* 408, 414, 427, 758).
AnsweredOnce ==
  /\ at # "idle" => sent = <<>>
  /\ at = "idle" /\ request.kind \in {"get", "set"} => Len(sent) = 1
  /\ at = "idle" /\ request.kind = "set" /\ sent = <<"get_response">> =>
       \E i \in DOMAIN request.elements : request.elements[i].name = "unreadable"

Zones(r) == {i \in DOMAIN r.elements : r.elements[i].name = "zoneID"}

\* What the response to a set request says about the zone of the device
\* (vdsd.c:280-300).  OK: every zone in it was a number, and the last one is in
\* force as far as 16 bits go.  NOT_IMPLEMENTED: nothing has changed.
CodeTells ==
  at = "idle" /\ sent = <<"set_response">> =>
    /\ code = "OK" =>
         /\ \A i \in Zones(request) : request.elements[i].value # <<>>
         /\ \A i \in Zones(request) :
              (\A j \in Zones(request) : j <= i) => zone = request.elements[i].value[1] % Width
         /\ Zones(request) = {} => zone = before
    /\ code = "NOT_IMPLEMENTED" => Zones(request) = {} /\ zone = before

\* The sensors a property of the query asks for: the one it names, or all.
Named(sub) == sub # <<>> /\ sub[1] # Unnamed /\ sub[1] >= 0
Wanted(sub) == IF Named(sub) THEN {sub[1]} \cap Sensors ELSE Sensors
Asked(e) == IF e.name = "sensorStates" THEN Wanted(e.sub) ELSE Sensors

Answered(i) == {r.sensor : r \in {q \in reply : q.of = i}}

\* A query gets the sensors it asks for, or without memory the first of them
\* (vdsd.c:569-683).  For states, the sensor is taken from the first property of
\* the query (vdsd.c:643): if that names none, a later property that names one is
\* answered with all sensors, not less; if that names one, a later property gets
\* no other, not even if it asks for another or for all of them.
AnswersAsked ==
  at = "element" /\ request.kind = "get" =>
    \A i \in 1 .. element - 1 :
      LET e     == request.elements[i]
          first == Wanted(request.elements[1].sub)
      IN  e.name \in Walks =>
            /\ first \subseteq Asked(e) => Answered(i) \subseteq Asked(e)
            /\ (e.name = "sensorStates" => Asked(e) \subseteq first) =>
                 \A s \in Asked(e) \ Answered(i) : short /\ \A t \in Answered(i) : t < s

\* Value and age of a sensor are read while the network thread may be storing
\* them (vdsd.c:668-671, main.c:136-144 against network.c:295-297).  Still the
\* age answered is never that of a value more than one store later, and never
\* further in the future than the poll that came in between.
AgeFits ==
  \A r \in {q \in reply : "age" \in DOMAIN q} :
    /\ r.value >= r.now - r.age \/ r.value = r.previous
    /\ r.age >= -1

\* No handler waits for the mutex for ever or walks without end: the thread
\* comes back to dsvdc_work, as long as memory does not stay away; then the push
\* would try for ever (main.c:139-142).  What it does behind a full table or with
\* the number of no name is undefined.
Ends == <>[]memory => []<>(at = "idle") \/ <>(at = "undefined")

=============================================================================

------------------------------ MODULE Network -------------------------------
(***************************************************************************)
(* network.c: the HTTP client of the humidifier.                           *)
(*                                                                         *)
(* venta_get_data is called by two threads, the network thread that polls  *)
(* and the main thread that executes a scene, and nothing keeps them       *)
(* apart: its lock is commented out (network.c:256) and only the unlock is *)
(* left (network.c:314).  call[t] is the progress of thread t through      *)
(* http_post and parse_json_data; the two threads share the last control   *)
(* values, the sensor table and the mutex.                                 *)
(*                                                                         *)
(* A step is one access to shared data: an answered request, the           *)
(* assignment and the comparison for one JSON key, the two stores into its *)
(* sensor entry, the unlock.                                               *)
(***************************************************************************)
EXTENDS RecursiveMutex, Humifier, Functions

CONSTANTS
  SensorNames,  \* value_name of the configured sensors s0, s1, ... in order
  Faults        \* how a request for the data can go wrong

ASSUME SensorNamesAssumption == SensorNames \in Seq(STRING)
ASSUME FaultsAssumption == Faults \subseteq {"lost", "malformed", "partial"}

VARIABLES
  device,   \* the humidifier: a value for every key
  current,  \* humifier_current_values: fan, mode_sleep, mode_automatic
  sensors,  \* venta.humifier.sensor_values[]
  mutex,    \* g_network_mutex
  call      \* call[t]: where thread t is in venta_get_data

netVars == <<device, current, sensors, mutex, call>>

Indexes == 1 .. Len(SensorNames)

\* Return codes of venta_get_data.
Changed == "0"
Unchanged == "1"
ConnectFailed == "VENTA_CONNECT_FAILED"
GetMeasureFailed == "VENTA_GETMEASURE_FAILED"
Codes == {Changed, Unchanged, ConnectFailed, GetMeasureFailed}

Idle == [at |-> "idle", reply |-> <<>>, key |-> "", changed |-> FALSE, rc |-> ""]
Posting == [Idle EXCEPT !.at = "post"]
Returning(rc) == [Idle EXCEPT !.at = "return", !.rc = rc]

Replies == UNION {[K -> Vals] : K \in SUBSET Keys}

CallType == [at : {"idle", "post", "parse", "shift", "store", "return"}, reply : Replies,
             key : Keys \cup {""}, changed : BOOLEAN, rc : Codes \cup {""}]

SensorType == [value : Vals, last_value : Vals, reported : BOOLEAN]

NetTypeOK ==
  /\ device \in DeviceType
  /\ current \in [Controls -> Vals]
  /\ sensors \in [Indexes -> SensorType]
  /\ mutex \in MutexType
  /\ call \in [Threads -> CallType]

\* calloc'd and static data: everything is zero until the first answer.
NetInit ==
  /\ device \in {d \in [Keys -> Vals] : Started(d)}
  /\ current = [k \in Controls |-> 0]
  /\ sensors = [i \in Indexes |-> [value |-> 0, last_value |-> 0, reported |-> FALSE]]
  /\ mutex = FreeMutex
  /\ call = [t \in Threads |-> Idle]

-----------------------------------------------------------------------------
\* find_sensor_value_by_name: the first entry with that name, as a set that is
\* empty when no sensor is configured for the key (NULL).
find_sensor_value_by_name(key) ==
  {i \in Indexes : SensorNames[i] = key /\ \A j \in 1 .. i - 1 : SensorNames[j] # key}

-----------------------------------------------------------------------------
\* A thread enters venta_get_data and posts its request.
StartGet(t) ==
  /\ call[t].at = "idle"
  /\ call' = [call EXCEPT ![t] = Posting]
  /\ UNCHANGED <<device, current, sensors, mutex>>

\* parse_json_data has a JSON object to evaluate.
BeginParse(t, reply) ==
  /\ call' = [call EXCEPT ![t].at = "parse", ![t].reply = reply]
  /\ UNCHANGED mutex

GiveUp(t, rc) ==
  /\ call' = [call EXCEPT ![t] = Returning(rc)]
  /\ UNCHANGED mutex

\* http_post returns.  An answer may lack keys, down to a body without a
\* "device" object that has nothing to evaluate ("partial"); a body that is no
\* JSON is refused without reaching the unlock ("malformed"); a curl error or a
\* 403, 404 or 503 is a NULL response ("lost").
HttpPost(t) ==
  /\ call[t].at = "post"
  /\ \/ BeginParse(t, device)
     \/ "partial" \in Faults /\ \E K \in SUBSET Keys : BeginParse(t, Restrict(device, K))
     \/ "malformed" \in Faults /\ GiveUp(t, GetMeasureFailed)
     \/ "lost" \in Faults /\ GiveUp(t, ConnectFailed)
  /\ UNCHANGED <<device, current, sensors>>

\* The foreach loop visits the keys in the order of the answer.
IsNext(k, reply) ==
  \E p \in DOMAIN KeyOrder :
    KeyOrder[p] = k /\ \A q \in 1 .. p - 1 : KeyOrder[q] \notin DOMAIN reply

Without(f, k) == Restrict(f, DOMAIN f \ {k})

\* No sensor has that name, or the value is neither an integer nor a boolean;
\* a sensor has, and its value is to be stored.
SkipKey(c, k) == [c EXCEPT !.reply = Without(@, k)]
TakeKey(c, k, differs) ==
  [c EXCEPT !.at = "shift", !.key = k, !.changed = (@ \/ differs)]

\* A comparison that forgets the sensors the upstream has never seen.
ComparedValueOnly(s, v) == s.last_value # v

Differs(s, v) == ~s.reported \/ s.last_value # v

\* One pass of the foreach loop up to the comparison: a control value is
\* assigned; the value of a configured sensor is compared if it is an integer
\* or a boolean.
ParseKey(t, k) ==
  /\ call[t].at = "parse"
  /\ k \in DOMAIN call[t].reply
  /\ IsNext(k, call[t].reply)
  /\ LET v == call[t].reply[k]
         found == find_sensor_value_by_name(k)
     IN  /\ current' = IF k \in Controls THEN [current EXCEPT ![k] = v] ELSE current
         /\ call' = [call EXCEPT ![t] =
              IF found = {} \/ v \in OtherTyped THEN SkipKey(@, k)
              ELSE TakeKey(@, k, {i \in found : Differs(sensors[i], v)} # {})]
  /\ UNCHANGED <<device, sensors, mutex>>

\* A store that waits for the mutex.
ShiftValueLocking(t) ==
  /\ call[t].at = "shift"
  /\ CanLock(mutex, t)
  /\ sensors' = [i \in Indexes |->
                   IF i \in find_sensor_value_by_name(call[t].key)
                   THEN [sensors[i] EXCEPT !.last_value = sensors[i].value] ELSE sensors[i]]
  /\ call' = [call EXCEPT ![t].at = "store"]
  /\ UNCHANGED <<device, current, mutex>>

\* svalue->last_value = svalue->value
ShiftValue(t) ==
  /\ call[t].at = "shift"
  /\ sensors' = [i \in Indexes |->
                   IF i \in find_sensor_value_by_name(call[t].key)
                   THEN [sensors[i] EXCEPT !.last_value = sensors[i].value] ELSE sensors[i]]
  /\ call' = [call EXCEPT ![t].at = "store"]
  /\ UNCHANGED <<device, current, mutex>>

\* svalue->value = the new value: the rest of the pass.
StoreValue(t) ==
  /\ call[t].at = "store"
  /\ LET k == call[t].key
     IN  /\ sensors' = [i \in Indexes |->
                          IF i \in find_sensor_value_by_name(k)
                          THEN [sensors[i] EXCEPT !.value = call[t].reply[k]] ELSE sensors[i]]
         /\ call' = [call EXCEPT ![t].at = "parse", ![t].key = "", ![t].reply = Without(@, k)]
  /\ UNCHANGED <<device, current, mutex>>

\* All keys are done: parse_json_data unlocks a mutex it has not locked.
ParseDone(t) ==
  /\ call[t].at = "parse"
  /\ DOMAIN call[t].reply = {}
  /\ mutex' = Unlocked(mutex, t)
  /\ call' = [call EXCEPT ![t] = Returning(IF call[t].changed THEN Changed ELSE Unchanged)]
  /\ UNCHANGED <<device, current, sensors>>

GetStep(t) ==
  \/ HttpPost(t)
  \/ \E k \in DOMAIN call[t].reply : ParseKey(t, k)
  \/ ShiftValue(t)
  \/ StoreValue(t)
  \/ ParseDone(t)

\* The caller of venta_get_data takes the return code.
EndGet(t) ==
  /\ call[t].at = "return"
  /\ call' = [call EXCEPT ![t] = Idle]
  /\ UNCHANGED <<device, current, sensors, mutex>>

\* venta_set_fan and the posting half of venta_set_mode_*: the button press
\* reaches the humidifier, or it does not; callers ignore the return code.
PostButton(btn) ==
  /\ device' \in {Pressed(device, btn)} \cup IF "lost" \in Faults THEN {device} ELSE {}
  /\ UNCHANGED <<current, sensors, mutex, call>>

-----------------------------------------------------------------------------
\* The environment: quantities drift, somebody presses a button on the panel.
Drift ==
  /\ \E q \in Quantities, v \in Readings : device' = [device EXCEPT ![q] = v]
  /\ UNCHANGED <<current, sensors, mutex, call>>

=============================================================================

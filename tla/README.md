# TLA+ models of vdc-venta

vdc-venta connects a Venta air humidifier to a digitalSTROM server (DSS). It is
one daemon with two threads. The **main thread** runs the loop of
`venta/main.c:293-345`: `dsvdc_work` serves the DSS and invokes the callbacks of
`venta/vdsd.c`, then the loop announces the device and pushes sensor values.
The **network thread** (`main.c:75-108`) polls the humidifier over HTTP
(`venta/network.c`). `venta/configuration.c` reads and writes `venta.cfg`.

This directory holds the models, the TLC runs that check them, and the proofs.

## 1. Inventory

| component | state it keeps | operations | hard about it |
|---|---|---|---|
| main loop (`main.c:293-345`, `110-162`) | `announced`, `presentSignaled`, recursive `g_network_mutex` | announce, identify, push | three `continue`s leave the mutex locked (313, 320, 326) |
| session callbacks (`vdsd.c:62-82`) | session of the library | begin, end | neither touches `announced`: only the main loop notices, one pass later |
| call-scene handler (`vdsd.c:152-197`) | `humifier_current_values` | read, decide, press | toggle buttons; the values it decides from are shared with the other thread |
| network thread (`main.c:75-108`) | `g_query_values_time`, `g_network_changes`, `last` | nap, look, poll, pong | flag without a lock; wall clock; talks to the DSS itself after a failed poll (100) |
| HTTP client (`network.c:145-479`) | sensor table (`value`, `last_value`, `last_reported`), current values | `venta_get_data`, `venta_set_*` | called by both threads; unlocks what it has not locked (256, 314) |
| shutdown (`main.c:347-358`) | | free, cleanup, join | frees before it joins |
| configuration (`configuration.c:24-354`) | `venta.cfg`, scene and sensor tables | read, write through a new file and `rename` | errors ignored, lookups that leave an old integer behind |
| identity, start (`main.c:217-248`) | `vdcdsuid`, `libdsuid` | template, generate, store | crash between generating and storing |
| set property of the vDC (`vdsd.c:199-251`) | `g_default_zoneID` | check, store | refused halfway, after the zone has been set |
| set property of the device, get property (`vdsd.c:253-301`, `318-759`) | zone of the device (16 bits) | property by property, walks over the sensors | a dozen exits under the mutex; allocations that fail; the network thread stores meanwhile |
| ping, remove, save scene, generic request (`vdsd.c:32-52`, `84-150`) | | pong | requests that get no answer |
| answers to the announcements (`vdsd.c:54-60`) | | log | a device the DSS refuses counts as announced |

The threads interact through the sensor table, `humifier_current_values`,
`g_network_changes`, `g_shutdown_flag` and the mutex. The DSS reaches the daemon
only through the callbacks. The humifier is reached by both threads.

What makes the parts correct: the body of the main loop holds the mutex; the
flag `announced` is up only if an announcement has been sent in this session
(whether the DSS took the device is only logged); a signal is not lost between
the threads; an undisturbed scene ends in the settings it names; every shutdown
ends; polls come in time; the file is never torn and brings back the same daemon
with the same identity; every request is answered at most once and leaves the
mutex as it was; the age of a value belongs to that value.

## 2. Modules

| module | models | parameters |
|---|---|---|
| `RecursiveMutex` | external: the pthread mutex, as functions on a mutex value | threads |
| `Humifier` | external: the device as the code uses it, `Pressed` is a button | keys of its answer in order, readings and those that are no integer, initial controls |
| `Network` | `network.c`: the steps of `venta_get_data` per thread, `call[t]` | sensor names, faults |
| `Vdc` | both threads over `Network`; the whole running daemon | scenes, buttons the user presses, leak bound |
| `Upstream` | abstract: what the DSS is told about the device on the daemon's own account, and when | sensors |
| `VdcProofs`, `SceneProofs`, `UpstreamProofs` | theorems about `Vdc`: its invariants, its scenes, that it implements `Upstream` | |
| `PollTimer`, `PollTimerProofs` | the timing of `networkThread` against real time | reload time, durations, clock settings, horizon |
| `SceneTable` | pure: sections of the file to tables and back, lookup of a scene | table sizes |
| `ConfigStore` | file, writer, start, set-property for the vDC, kills | user files, requests, scenes called, width of an int, write faults |
| `Identity` | abstract: what the daemon promises about its dSUIDs | |
| `SceneTableProofs`, `ConfigStoreProofs` | lemmas about reading and writing tables, theorems about `ConfigStore` | |
| `PropertyHandlers` | the requests answered on the main thread, and the push, against the stores of the network thread | size of the table, active sensors (the table may be full), requests, leak and poll bounds |
| `PropertyHandlersProofs` | theorems about `PropertyHandlers` | |
| `MCVdc`, `MCConfigStore`, `MCPollTimer`, `MCPropertyHandlers` | constants for TLC | |

`Vdc` EXTENDS `Network`, which EXTENDS `RecursiveMutex` and `Humifier`.
`Vdc` is shown to implement `Upstream`. `ConfigStore` EXTENDS `SceneTable` and is shown to implement `Identity`.
`PropertyHandlers` EXTENDS `RecursiveMutex` and looks at the two threads more
finely than `Vdc` where `Vdc` takes one step: while a request is answered.

### How Vdc corresponds to the code

`mpc` and `npc` are the program counters. One value of `mpc` is one stretch of
the main thread between two accesses to data the other thread uses: `work`
(inside `dsvdc_work`), `scene` (inside the call-scene callback), `try` (at the
trylock), `body`, `clear`, `push` (the loop body), `freed`, `join`, `done` (the
tail of `main`). `dsvdc_work` handles one message per call, so the loop body
runs between any two session events. A scene is a `script`, the sequence of what
the handler does for its configuration; each request, decision and button press
is a step of its own, because the network thread runs in between.
`AnnounceSent` is the announcement that the library sends, `AnnounceFailed` the
one it does not; the DSS's own answer arrives in a later `dsvdc_work`, changes
nothing and is one of the cases of `WorkIdle`.

A poll (`call[t].at`) posts, parses key by key in the order of the answer
(assign a control value, compare a sensor, shift, store), unlocks and returns.
A key whose value is neither an integer nor a boolean (`OtherTyped`) is assigned
if it is a control and otherwise passed over (`network.c:288`, `298`). A request
ends with the device's values, with some of them, down to none ("partial"), with
something that is no JSON ("malformed", which returns before the unlock of
`network.c:314`) or not at all ("lost"). A poll that fails is followed by
`NetPong`, the pong of `main.c:100`, which the network thread sends at any moment
of the main thread.

The shutdown frees memory the network thread may still use. That is undefined
behaviour: where `UsesFreed` holds, the process may die (`Crash`) or carry on.

`Upstream` sees of all this the session, the announcements and the
identification, the signal, what is owed, whether a push is under way, whether
the main loop still speaks, whether a pong is to go out and whether the process
runs. A stretch of the main thread in which the DSS is told nothing, and every
step of the network thread but the end of a poll and the pong, changes nothing
there. After the end of the main loop there are no announcements and pushes, but
there still are pongs, until the process ends.

The history variables `sent` (how often an announcement went out in
this session), `owed` (the sensors of a signal that have not been pushed) and
`clean` and, in `PollTimer`, `real`,
`started`, `ended`, `failed`, `steady` are read by no action of the code's
model; they record what properties speak about.

### How ConfigStore corresponds to the code

`pc` is where the daemon is: `off`, `identify` (between reading the file and
storing the generated dsuids), `open`, `write`, `rename` (the steps of
`write_config`), `run`, and `respond` (a zone has been stored or not, and the OK
of `vdsd.c:249` is still to go out). `Stop` is possible at each. `acked` is the
zone last answered with OK, `unanswered` are the zones accepted since: if the
daemon is killed before it responds, the file may have one of these.
`AsInt` is what the `int g_default_zoneID` keeps of the `uint64_t` of a request
(`vdsd.c:235`).

`is_scene_configured` looks for the text of a number, between dashes, in the
text of all dsIds (`configuration.c:110-124`, `network.c:323-329`). `Text` is
that text, digit by digit, because the dash is a minus sign as well and 1 is a
part of 19.

### How PropertyHandlers corresponds to the code

`at` is where the main thread is: `idle` (in the main loop), `vdc` (in the loop
over the properties of a get request to the vDC, which takes no mutex), `lock`
(before `pthread_mutex_lock`), `element` (at the head of the loop over the properties,
`element` is its `i`), `walk` (at the head of a loop over the sensors, `cursor`
is its `i`), `date` (between reading the value and reading `last_query`) and
`undefined`, where C no longer says what happens: `strtol` has been called with
NULL (`IndexUndefined`), or the table is full and the walk takes what lies behind
it for a sensor (`WalkLeavesTable`). Whether it does depends on memory that
belongs to the first scene, so the walk may as well end there. The
handlers of get and set property share the steps they have in common; where they
differ the action asks for `request.kind`. `push_sensor_data` is a walk of its
own, with a time taken anew for each sensor. Each path that leaves a handler is
an action that ends in `Answer`, the unlock and the response, so that the count
of the mutex tells whether a path has forgotten one.

A property of a request is what the handlers tell apart: an unreadable name, a
wildcard, the zone with its value or with none that is a number, a property
answered by a value, one that needs a new property, and what is inside (`sub`):
nothing, a number that `strtol` makes of the name, or something that has no name
(`Unnamed`).

The network thread stores `last_value` and `value` in one step and `last_query`
in the next, sensor by sensor, without the mutex (`network.c:295-297`), and then
unlocks what it does not hold (314). Time counts polls: `time(NULL)` is the
number of polls begun, and the value a poll measures is its number. So a value
tells its own age and can be compared with the age answered.

`memory` says whether `dsvdc_property_new` succeeds; it changes at any time.
`Leak` and `SceneUnlocks` stand for the main loop's `continue`s and for scenes,
which change the level of the mutex between two requests.

### Modelled by abstraction

Time is left out of `Vdc`; a look of the network thread is due (`NetPoll`) or
not (`NetNotDue`). `PollTimer` has the clock and shows that looks do come due.
Values are small naturals; a sensor entry keeps `value`, `last_value` and
whether `last_reported` is 0. `present` is set once and never cleared, so the
branch of `main.c:316-321` is dead and not modelled. The push of `Vdc` ends at
the last sensor; what it does with a full table is in `PropertyHandlers`. The
parameters of the file that are read and written alike are represented by
`zone_id`. The scenes of `Vdc` are given by representatives: a mode above 1 is 1 to the handler,
a fan level above 3 or below 0 is none.

## 3. Runs

| run | checks | bounds |
|---|---|---|
| `vdc_safety` | `TypeOK`, `MutexSafe`, `AnnouncedIsCurrent`, `NoLostSignal`, `ToldInOrder` | one sensor, one reading, malformed and partial answers, a scene that reads; leak depth 3; 911 thousand states |
| `vdc_scene` | `SceneReached` | two scenes that between them set fan 2 and 3 and both modes on and off; lost requests, a user who presses the sleep button; 1.9 million states |
| `vdc_live` | `Terminates`, `Announces`, `FirstReport` | one sensor, two readings of which one is no integer, lost requests and partial answers; 246 thousand states |
| `config_safety` | `TypeOK`, `NeverTorn`, `RunsAsStored`, `AckedZoneStored`, `LookupEnds`, `IdentityKept` | tables of 3 scenes and 2 sensors, 22 user files, four dsuids, every write step may fail, zones that do not fit into an int of 17 bits, eight numbers of scenes to call; 688 thousand states |
| `poll_times` | `NeverForgotten`, `NeverEarly` | 150 s of real time, reload 30 s, requests of 0, 7 and 42 s, the clock set back and forward any number of times |
| `properties` | `TypeOK`, `Released`, `AnsweredOnce`, `CodeTells`, `AnswersAsked`, `AgeFits`, `Ends` | a full table of two sensors, two polls, one leaked level, 28 requests with up to three properties; 1.1 million states |
| `vdc_sample_two`, `vdc_sleep_stale`, `vdc_pull_push`, `vdc_change`, `vdc_signal` | one disagreement of code and documentation each, section 5 | |

Why the bounds are enough. *MaxDepth* only stops new leaks of the mutex: what
the code does depends on whether the count is 0, 1 or more, and 3 leaves two
levels to release on the way. One sensor and two readings suffice to tell apart
"same as before", "same as the one before that" and "never reported", which the
runs on changes and on the first report need; `vdc_safety` compares nothing, a
poll is a change or none in it because of the sensor that is not reported yet.
With more sensors the entries do not influence each other, and the theorem
`NoSignalIsLost` covers any number. The poll horizon covers a failed request of 42 s and its retry. The
user files include the boundary cases of both loops: no section, a
gap, a full table, one section too many, parameters missing from each place,
negative numbers and a dsId of -1. An int of 17 bits has the conversion to
negative numbers, and the one modulo its width, at numbers TLC can read; the
scenes called are in the tables, in their texts only, and in neither.
For the properties, two sensors suffice to be before, at and behind the one the
network thread is storing, two polls to overtake an answer that the first has
already overtaken. The table is full: a walk behind the last sensor may end, as it
does in a table with a free place, or go on undefined, so the run has what both
kinds of table do.
The requests hold each property first, last and in between, zones below and
above 16 bits, sensors named that exist, do not, or differ from each other, one
that is named behind a property that names none, and a name that is missing.
`WalkIsShort` bounds the network thread: at most one poll ends between taking
the time and reading the last date, because two polls are at least the
`sleep(5)` of `main.c:80` apart and an answer is put together in less.
The symmetry of `config_safety` permutes the three dsuids that only the daemon
generates.

What `AnswersAsked` says and what it leaves open: the sensor of a `sensorStates`
query is taken from the first property of the request for all of them
(`vdsd.c:643`). No sensor that is asked for is missing, unless the first property
names another one; none is added, unless the first property names none, and then
all are answered, or another one. So a request for a plain property and the state
of sensor 1 gets the states of all sensors, and one for the states of sensors 0
and 1 gets that of 0 twice. The repository has no word on what is right.

What `FirstReport` assumes of the polls: from some point on each that ends brings
an integer or a boolean for one of the sensors. A table whose only sensor reads
21.5 is never reported, and that is so in the code: nothing is compared, stored
and signalled for such a key.

What `SceneReached` claims and what it does not: `clean` is lost as soon as a
request of the scene fails, a user presses a button, or the network thread
writes a value that is neither the one there was nor the device's. Under it, every
configured setting is reached, except for level 2 together with sleep mode,
which is the run `vdc_sample_two`.

### Fairness

`vdc_live` uses `FairSpec`. `WF(MainStep)` and `WF(NetRun)`: the operating
system schedules both threads, `sleep` and `dsvdc_work` return, and every
request ends (`CURLOPT_TIMEOUT`, `network.c:189`). `SF(NetPoll)`: looks come due
again and again, which `NeverForgotten` shows on a clock left alone.
`SF(AnnounceSent)`: the library does not fail to send the announcement of the
device for ever. No fairness is assumed of the DSS, the user or the humifier:
`Announces` and `FirstReport` are conditional on a session that lasts.
`Terminates` accepts the end `crashed`, because of the undefined behaviour above,
but no fairness forces a crash: where undefined behaviour is possible the threads
must also come to their end without it.

`properties` uses `WF(Handle)`: the main thread is scheduled while it handles a
request. `Ends` is conditional on memory that does not stay away, because a push
without memory tries again for ever (`main.c:139-142`).

## 4. Proofs

`VdcProofs` proves, for every value of the constants:

- `TypeCorrect`: `Spec => []TypeOK`. The invariant is `TypeInv`, `TypeOK` with
  `KeyPending`: between comparing and storing a value the key is still in the
  answer. Without it the store could read outside the answer's domain.
- `MutexIsSafe`: `Spec => []MutexSafe`. The network thread only ever unlocks,
  and an unlock by a thread that is not the owner does nothing. The main thread
  cannot parse, hence not unlock, while it is in the loop body.
- `AnnouncedStaysCurrent`: `Spec => []AnnouncedIsCurrent`. The invariant
  `SessionInv` adds `WorkUnannounced`: a main thread that comes back to
  `dsvdc_work` without a session has reset the flag. It needs `MutexSafe`: a
  trylock that failed would send the loop back to `dsvdc_work` without looking.
  It speaks of announcements sent, not of what the DSS answers to them.
- `NoSignalIsLost`: `Spec => []NoLostSignal`. The invariant `SignalInv` adds
  that outside a push the index is at the first sensor.

`UpstreamProofs` proves `DssIsToldInOrder`: `Spec => ToldInOrder`, the refinement
of `Upstream`. Every step of either thread is a step of `Upstream` or changes
nothing it sees; the end of a failed poll and the pong behind it are two steps,
between which the main thread does anything, ending included (`EndInv`: a process
that has ended has no pong left to send, because it has joined the thread that
sends it or has died with it). The steps need more than the invariants above say: that the
flag tells, `FlagTells` in `SessionInv` (a main loop that finds the device not
announced has not announced it in this session; only then is the announcement
the first), and that a push ends with nothing owed or a new signal (`SignalInv`).

`SceneProofs` proves `SceneIsReached`: `Spec => []SceneReached`, for every scene,
any settings of the humifier and the network thread anywhere in between.
`SceneReached` alone says nothing about a scene under way. `SceneInv` is

- `CallInv`: the main thread calls `venta_get_data` only where its script says;
- `GetInv`: as long as the scene is undisturbed its answer is what the humifier
  has, and the keys already parsed are in memory;
- `Stage`: what is left of the script is one of thirteen suffixes, and each comes
  with what holds of humifier and memory there: before a decision memory agrees
  with the humifier, before a press the mode is the opposite of the one wanted,
  behind it the mode is reached; each press of a fan button leaves one level less
  to go; level 2 is decided on a level that has been read since the scene itself
  last changed it, which is where `vdc_sample_two` falls out.

`PollTimerProofs` proves `PollsNeverForgotten` and `PollsNeverEarly` for every
reload time, duration, horizon and whatever the clock is set to. The invariant
`TimerInv` says that while the clock is left alone `g_query_values_time` is the
plan in wall clock time, and that the last look is less than ten seconds ago.

The first three theorems of `ConfigStoreProofs` rest on one invariant, `StoreInv`:
every file is absent, torn or whole; a writer has a purpose and only a template
is written from blank memory; what is renamed is what is in memory; an
acknowledged zone or one accepted after it is in the file, and a daemon that is
starting has what the file has in memory (else storing the generated dsuids would
lose it); the zone a response is about to acknowledge is in the file, unless a
write has failed; an identified daemon has all dsuids, the stored ones among
them.

- `FileNeverTorn`: `Spec => NeverTorn`, an action property.
- `AckedZonesAreStored`: `Spec => []AckedZoneStored`, for every width of an int.
  A daemon killed between the rename and the response leaves a zone behind that
  nobody was told of, hence `unanswered`.
- `IdentityIsKept`: `Spec => IdentityKept`, the refinement of `Identity`. A
  write that replaces the file, or that ends without, is where an incarnation
  becomes visible; all other steps stutter or map to its stop and its edit.

Two more speak of what is in the tables, for tables and files of every size:

- `StoreTyped`: `Spec => []TypeOK`; the tables stay within their sizes.
- `RestartChangesNothing`: `Spec => []RunsAsStored`; a running daemon and one
  that has read its file again are the same.

Their invariant is `StoreInv` with `TableInv` (a table is no longer than its
maximum and its entries are integers) and `StoredInv` (file and memory agree
while the daemon runs or stores a zone). The lemmas are in
`SceneTableProofs`. `SceneTable` describes the loops over the sections by the
number of sections they read, and the parameter `ivalue` that keeps its value
from one lookup to the next by the last one found. That these numbers and these
lookups exist needs an induction over their number. The induction theorems of
the library are out of reach, so `SetInduction` proves it for a set of numbers
by way of its least element, which `LeastElement` takes from the well-foundedness
of < (`WellFoundedInduction`), and each use names the set of lengths for which
its claim holds. `ScenesReadBack` and `SensorsReadBack` say that what is written
of a table is read back as that table; `WrittenRestores` says so of the file.

`PropertyHandlersProofs` proves all invariants of the run `properties` for every
table, full or not, every request, any number of polls and of leaked levels.
`HandlerInv` is their conjunction with

- `LoopInv`: what the program counter says about request, `element`, `cursor`;
- `LockInv`: `Released`, and nobody but the main thread ever owns the mutex;
- `CodeInv`: what code and zone are after the properties in front of `element`;
- `TableInv`, `ReadingInv`, `OvertakenInv`: a value is as old as its
  `last_query` except in the middle of a store; a poll that begins while an
  answer is put together is the only one to end; so a value that has been read
  is overtaken by one store at most, and is then in `last_value`;
- `AnswerInv`: each finished walk has the sensors that its own property and the
  first property of the query let it take, the one under way those up to `cursor`.

The theorems are `HandlersTyped`, `LockIsReleased`, `RequestIsAnsweredOnce`,
`CodeIsTrue`, `AgeIsTrue` and `AnswersAreComplete`.

Assumptions used: the named ASSUMEs on the constants, which TLC evaluates in
the runs. `ThreadsAssumption` (there are these two threads) and
`NoOwnerAssumption` are facts of the code. `UserFilesAssumption` says that the integers in a user's file
are integers, of either sign, as is whatever an uninitialized variable holds
(`Junk`). `RequestsAssumption` says that a zone is a natural number: the library
hands it over unsigned (`vdsd.c:227`). The others are typing.

What negative numbers do is in the properties and not in an assumption.
`RunsAsStored` compares with `Lasting`: a negative mode or fan level comes back as
-1, "not given", which the handler does not tell apart, and a dsId of -1 ends the
table for the writer (`configuration.c:255`), so that the scenes behind it are
lost. `LookupEnds` has one exception: for a dsId of -5 the list of scenes
holds `--5-`, in which `strstr` finds `-5-` for a scene 5 that the table
need not have, and the search runs past its end.

`NeverTorn` rests on two things outside the model: that `config_write_file`
reports every write that fails, and that the machine does not lose power, because
nothing syncs the new file before the rename.

Only model-checked, because fairness and ENABLED are out of the prover's reach:
`Terminates`, `Announces` and `FirstReport` of `vdc_live`, `Ends` of `properties`.
`LookupEnds` is only model-checked because the text of a number is recursive data,
whose properties for every number take an induction the prover cannot do.
Every other property of a passing run is a theorem. The runs that show a
disagreement (section 5) need no proof. No module uses a RECURSIVE operator.

## 5. Where code and documentation disagree

- `vdc_sample_two`: `README:67` promises fan level 2 and sleep mode for the
  sample scene 2; started on level 2 or 3 it ends on level 1.
- `vdc_sleep_stale`: `README:70` promises sleep mode; an outdated answer on the
  network thread, parsed between the scene's read and its test, makes it toggle
  the wrong way or not at all.
- `vdc_pull_push`: the comment of `main.c:297-299` takes the trylock for mutual
  exclusion of pull and push; the pull takes no lock.
- `vdc_change`: `main.c:88`; a value is compared with the one before the
  previous one.
- `vdc_signal`: `main.c:90`; a signalled change is taken back by the next poll.

Seen while reading and given no run: the comment of `main.c:282-283` (the main
loop is not to be blocked by network access, yet scenes do their requests on
it), `README:23` and `README:30` (20 scenes and 5 sensors, against 128 and 15 in
`venta.h:16-18`; the template is written with 128 scenes), `README:10`
(`reload_values`), which a wall clock that is set back suspends until it has
caught up, and `main.c:246-248`, which reports a write that failed, while
`write_config` returns 0 whatever happens (`configuration.c:353`).

## 6. Not modelled

`util.c` (logging), the icons, the command line and the straight-line set-up of
`main`, and dead code (`save_scene`, `decodeURIComponent`,
`vdc_report_extraLevel`). Memory overruns (`network.c:324`,
`configuration.c:120-124`) and failed allocations outside the property handlers
have no counterpart in the models. `PropertyHandlers` leaves out the contents of
the answers other than the sensors' values and ages, the return value of
`vdc_remove_cb`, and the property a generic request leaks. What a walk does with
what it reads behind a full table is not modelled, only that it may go on. What the
library does when `dsvdc_send_pong` is called on the network thread (`main.c:100`)
while the main thread uses the same handle is not in this repository. In `Vdc`, all requests but scenes are the idle return of
`dsvdc_work`.

## 7. Plan

1. Done: `Vdc` with its core properties and theorems; `ConfigStore`,
   `SceneTable`, `Identity`; `PollTimer` with its theorems.
2. Done: `PropertyHandlers` and its theorems; the theorems about `ConfigStore`.
3. Done: `SceneReached` for every scene; the contents of the tables
   (`SceneTableProofs`); `Upstream` and the proof that `Vdc` implements it.
4. Two sensors under one name, and sensor names that differ in case only
   (`strcasecmp`, `configuration.c:360`).
5. `PropertyHandlers` as a refinement of the pull, push and idle steps of `Vdc`:
   the two share the table and the mutex, but have different times.

## 8. Running

    tlc -config VdcSafety.cfg MCVdc
    tlapm VdcProofs.tla

The proofs of `SceneProofs` and `PropertyHandlersProofs` take the longest,
a minute or two each.

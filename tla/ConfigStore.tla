---------------------------- MODULE ConfigStore -----------------------------
(***************************************************************************)
(* venta.cfg and the daemon's life around it: read_config and write_config *)
(* of configuration.c, the start of main.c that calls them, and the set-   *)
(* property handler of vdsd.c for the vDC, which writes the file again.    *)
(*                                                                         *)
(* The daemon may be killed between any two steps, and a write may fail in *)
(* any step.  The user edits or deletes the file while no daemon runs.     *)
(* zone_id stands for the settings that are read and written alike         *)
(* (reload_values, zone_id, debug); id, name and ip of the humifier matter *)
(* only in that the daemon does not start without them.                    *)
(***************************************************************************)
EXTENDS SceneTable

CONSTANTS
  Dsuids,      \* what dsuid_generate_v1 returns, never the same twice
  None,        \* no dsuid: the empty string
  UserFiles,   \* what the user writes
  Requests,    \* set-property requests: sequences of properties, see Accepted
  CalledScenes,\* the numbers of the scenes that are called
  IntWidth,    \* 2^32: an int holds that many numbers, half of them negative
  WriteFaults, \* the steps of a write that can fail
  Junk         \* what an uninitialized variable may hold

Kinds == {"vdc", "lib"}

Identities == [Kinds -> Dsuids \cup {None}]

\* There is no file; a file that is no configuration.
Absent == [is |-> "absent"]
Torn == [is |-> "torn"]

IsConfig(f) == f.is = "config"

\* The fields of a configuration.  mandatory: it has the humifier's id and ip.
HasFields(f) ==
  f = [is |-> "config", ids |-> f.ids, settings |-> f.settings, mandatory |-> f.mandatory,
       scenes |-> f.scenes, sensor_values |-> f.sensor_values]

\* What is looked up with config_lookup_int is an integer.
HasNumbers(f) ==
  /\ \A p \in DOMAIN f.settings : f.settings[p] \in Int
  /\ IntegerSections(f.scenes, SceneParameters)
  /\ IntegerSections(f.sensor_values, SensorParameters)

ASSUME ConfigConstants ==
  /\ None \notin Dsuids
  /\ WriteFaults \subseteq {"open", "write", "rename"}
  /\ Junk \subseteq Int /\ Junk # {}
  /\ CalledScenes \subseteq Int
  /\ IntWidth \in Nat \ {0}

ASSUME UserFilesAssumption ==
  \A f \in UserFiles :
    f = Torn \/ (IsConfig(f) /\ HasFields(f) /\ HasNumbers(f) /\ f.ids \in Identities)

\* The value of a zone is read as an unsigned integer (vdsd.c:227).
ASSUME RequestsAssumption ==
  \A request \in Requests :
    /\ Len(request) \in Nat /\ DOMAIN request = 1 .. Len(request)
    /\ \A i \in DOMAIN request : request[i].value \in Nat

DefaultZone == 65534

VARIABLES
  file,     \* venta.cfg
  tmp,      \* venta.cfg.cfg.new
  mem,      \* the configuration in memory
  pc,       \* where the daemon is
  purpose,  \* why it writes
  issued,   \* dsuids generated so far
  acked,    \* history: the zone of the last request that was answered with OK
  unanswered, \* history: the zones of the accepted requests since then
  lapsed    \* history: a write failed since the user's last edit

cfgVars == <<file, tmp, mem, pc, purpose, issued, acked, unanswered, lapsed>>

-----------------------------------------------------------------------------
(* The contents.                                                           *)

NoIdentity == [k \in Kinds |-> None]

\* Memory before read_config: static data and memset.  The writer takes the
\* zeros for scenes with dsId 0 and everything off, and finds no sensor name.
Blank ==
  [ids |-> NoIdentity, zone_id |-> DefaultZone, sensors |-> <<>>,
   scenes |-> [i \in 1 .. MaxScenes |->
                 [dsId |-> 0, fan |-> 0, mode_automatic |-> 0, mode_sleep |-> 0]]]

\* read_config of a file that is one; junk is ivalue before the first lookup.
Read(f, junk) ==
  LET zone == Given(f.settings, "zone_id", junk)
      last == AfterGroup(f.sensor_values, MaxSensors, SensorParameters, zone)
  IN  [ids     |-> f.ids,
       zone_id |-> Given(f.settings, "zone_id", DefaultZone),
       sensors |-> ReadSensors(f.sensor_values),
       scenes  |-> ReadScenes(f.scenes, last[Readable(f.sensor_values, MaxSensors)])]

\* The file write_config makes of the memory.
ConfigOf(m) ==
  [is |-> "config", ids |-> m.ids, settings |-> [p \in {"zone_id"} |-> m.zone_id], mandatory |-> TRUE,
   scenes |-> WriteScenes(m.scenes), sensor_values |-> WriteSensors(m.sensors)]

-----------------------------------------------------------------------------
Init ==
  /\ file \in UserFiles \cup {Absent}
  /\ tmp = Absent
  /\ mem = Blank
  /\ pc = "off"
  /\ purpose = "none"
  /\ issued = {}
  /\ acked = None
  /\ unanswered = {}
  /\ lapsed = FALSE

\* No file: a template is written, and the daemon exits.
StartWithout ==
  /\ pc = "off"
  /\ file = Absent
  /\ pc' = "open"
  /\ purpose' = "template"
  /\ UNCHANGED <<file, tmp, mem, issued, acked, unanswered, lapsed>>

\* A file: read_config.  One that is torn, or without id or ip, ends the start.
Start ==
  /\ pc = "off"
  /\ IsConfig(file)
  /\ file.mandatory
  /\ \E junk \in Junk : mem' = Read(file, junk)
  /\ pc' = "identify"
  /\ UNCHANGED <<file, tmp, purpose, issued, acked, unanswered, lapsed>>

\* Identities for the given kinds, all new and different.
Generated(kinds) ==
  {new \in [kinds -> Dsuids \ issued] : \A j, k \in kinds : new[j] = new[k] => j = k}

Adopt(new) ==
  /\ mem' = [mem EXCEPT !.ids = [k \in Kinds |-> IF k \in DOMAIN new THEN new[k] ELSE @[k]]]
  /\ issued' = issued \cup {new[k] : k \in DOMAIN new}

\* A start that takes a new identity every time.
IdentifyAnew ==
  /\ pc = "identify"
  /\ \E new \in Generated(Kinds) : Adopt(new)
  /\ pc' = "open"
  /\ purpose' = "start"
  /\ UNCHANGED <<file, tmp, acked, unanswered, lapsed>>

\* main: generate what read_config has not found.
Identify ==
  /\ pc = "identify"
  /\ \E new \in Generated({k \in Kinds : mem.ids[k] = None}) : Adopt(new)
  /\ pc' = "open"
  /\ purpose' = "start"
  /\ UNCHANGED <<file, tmp, acked, unanswered, lapsed>>

-----------------------------------------------------------------------------
(* write_config.  It returns 0 whatever happens.                           *)

\* Where the caller goes on: exit(0), the main loop, or the response to a
\* request, whether the file has been written or not.
WriteReturns(failed) ==
  /\ pc' = CASE purpose = "template" -> "off" [] purpose = "start" -> "run" [] purpose = "zone" -> "respond"
  /\ lapsed' = (lapsed \/ failed)
  /\ mem' = IF purpose = "template" THEN Blank ELSE mem
  /\ purpose' = IF purpose = "zone" THEN "zone" ELSE "none"
  /\ UNCHANGED <<issued, acked, unanswered>>

\* A writer that opens venta.cfg itself.
WriteOpenInPlace ==
  /\ pc = "open"
  /\ tmp' = Torn
  /\ file' = Torn
  /\ pc' = "write"
  /\ UNCHANGED <<mem, purpose, issued, acked, unanswered, lapsed>>

\* config_write_file opens the new file, which empties it.
WriteOpen ==
  /\ pc = "open"
  /\ tmp' = Torn
  /\ pc' = "write"
  /\ UNCHANGED <<file, mem, purpose, issued, acked, unanswered, lapsed>>

\* config_write_file writes and closes it.
WriteFill ==
  /\ pc = "write"
  /\ tmp' = ConfigOf(mem)
  /\ pc' = "rename"
  /\ UNCHANGED <<file, mem, purpose, issued, acked, unanswered, lapsed>>

\* config_write_file fails: unlink, and carry on.
WriteFails ==
  /\ pc \in {"open", "write"} \cap WriteFaults
  /\ tmp' = Absent
  /\ WriteReturns(TRUE)
  /\ UNCHANGED file

Rename ==
  /\ pc = "rename"
  /\ file' = tmp
  /\ tmp' = Absent
  /\ WriteReturns(FALSE)

\* The result of rename is ignored.
RenameFails ==
  /\ pc \in {"rename"} \cap WriteFaults
  /\ WriteReturns(TRUE)
  /\ UNCHANGED <<file, tmp>>

-----------------------------------------------------------------------------
(* vdc_setprop_cb for the vDC.                                             *)

\* A property is [is, value].  The loop sets the zone in memory as it goes and
\* stops at the first property that is not a zoneID ("unknown"), has another
\* type ("mistyped") or no name ("wildcard").
Good(property) == property.is = "zoneID"

Accepted(request) == request # <<>> /\ \A i \in DOMAIN request : Good(request[i])

ZonesSet(request) == {i \in DOMAIN request : \A j \in 1 .. i : Good(request[j])}

\* What an int keeps of an unsigned integer.
AsInt(v) == IF v % IntWidth < IntWidth \div 2 THEN v % IntWidth ELSE (v % IntWidth) - IntWidth

\* The last zone of the request that is set wins.
ZoneAfter(request, zone) ==
  IF ZonesSet(request) = {} THEN zone
  ELSE AsInt(request[CHOOSE i \in ZonesSet(request) : i + 1 \notin ZonesSet(request)].value)

\* A handler that answers without having written the file.
SetPropertyUnwritten(request) ==
  /\ pc = "run"
  /\ mem' = [mem EXCEPT !.zone_id = ZoneAfter(request, @)]
  /\ IF Accepted(request)
     THEN pc' = "respond" /\ purpose' = "zone" /\ unanswered' = unanswered \cup {mem'.zone_id}
     ELSE UNCHANGED <<pc, purpose, unanswered>>
  /\ UNCHANGED <<file, tmp, issued, acked, lapsed>>

SetProperty(request) ==
  /\ pc = "run"
  /\ mem' = [mem EXCEPT !.zone_id = ZoneAfter(request, @)]
  /\ IF Accepted(request)
     THEN pc' = "open" /\ purpose' = "zone" /\ unanswered' = unanswered \cup {mem'.zone_id}
     ELSE UNCHANGED <<pc, purpose, unanswered>>
  /\ UNCHANGED <<file, tmp, issued, acked, lapsed>>

\* The response with DSVDC_OK, after write_config.
Respond ==
  /\ pc = "respond"
  /\ pc' = "run"
  /\ purpose' = "none"
  /\ acked' = mem.zone_id
  /\ unanswered' = {}
  /\ UNCHANGED <<file, tmp, mem, issued, lapsed>>

-----------------------------------------------------------------------------
\* The daemon stops or is killed, at any point.
Stop ==
  /\ pc # "off"
  /\ pc' = "off"
  /\ mem' = Blank
  /\ purpose' = "none"
  /\ UNCHANGED <<file, tmp, issued, acked, unanswered, lapsed>>

\* The user writes, edits or deletes the file while the daemon is off.  An edit
\* leaves the generated dsuids alone.
UserEdits ==
  /\ pc = "off"
  /\ \/ file' \in UserFiles \cup {Absent}
     \/ /\ IsConfig(file)
        /\ file' \in {[f EXCEPT !.ids = file.ids] : f \in {g \in UserFiles : IsConfig(g)}}
  /\ acked' = None
  /\ unanswered' = {}
  /\ lapsed' = FALSE
  /\ UNCHANGED <<tmp, mem, pc, purpose, issued>>

Write == WriteOpen \/ WriteFill \/ WriteFails \/ Rename \/ RenameFails

Next ==
  \/ StartWithout \/ Start \/ Identify
  \/ Write
  \/ \E request \in Requests : SetProperty(request)
  \/ Respond
  \/ Stop \/ UserEdits

Spec == Init /\ [][Next]_cfgVars

-----------------------------------------------------------------------------
(* Properties.                                                             *)

\* The variables have their types, the tables their maximal lengths, and what
\* is about to become venta.cfg is a configuration.
TypeOK ==
  /\ pc \in {"off", "identify", "open", "write", "rename", "respond", "run"}
  /\ purpose \in {"none", "template", "start", "zone"}
  /\ mem.ids \in Identities
  /\ mem.zone_id \in Int
  /\ mem.scenes \in Seq(SceneEntry) /\ Len(mem.scenes) <= MaxScenes
  /\ Len(mem.sensors) <= MaxSensors
  /\ issued \subseteq Dsuids
  /\ pc = "rename" => IsConfig(tmp)
  /\ lapsed \in BOOLEAN

\* Killed or failing at any point, the daemon never leaves a torn venta.cfg: it
\* writes another file and renames it (configuration.c:340-349).  That takes a
\* config_write_file that reports every write that fails, and a machine that
\* does not lose power, because nothing syncs the new file.
NeverTorn == [][file' # file /\ file' = Torn => pc = "off"]_cfgVars

\* A running daemon whose writes have succeeded would come back as it is: the
\* same dsuids, and every scene and sensor as configured (sections that
\* read_config, 78-155, and write_config, 253-338, take and give).
RunsAsStored ==
  pc = "run" /\ ~lapsed =>
    /\ IsConfig(file)
    /\ \A junk \in Junk :
         LET back == Read(file, junk)
         IN  back.ids = mem.ids /\ back.scenes = Lasting(mem.scenes) /\ back.sensors = mem.sensors

\* A zone the daemon has acknowledged (vdsd.c:245-249) survives every restart,
\* also when later requests were refused halfway.  Only a later request that was
\* accepted may take its place without an answer: the daemon was killed, or is,
\* between the rename (configuration.c:348) and the response (vdsd.c:249).
AckedZoneStored ==
  acked # None /\ ~lapsed =>
    IsConfig(file) /\ \A junk \in Junk : Read(file, junk).zone_id \in {acked} \cup unanswered

\* A scene whose number strstr finds in the text of all dsIds (network.c:323-329,
\* configuration.c:110-124) is found within the table: the loop of
\* get_scene_configuration (network.c:342), which has no bound, ends.  The dashes
\* keep 1 from being found in 19; but they are minus signs as well, and 5 is found
\* in the text of a dsId -5.  That is the only exception.
LookupEnds ==
  pc = "run" =>
    \A scene \in CalledScenes :
      is_scene_configured(mem.scenes, scene) =>
        \/ get_scene_configuration(mem.scenes, scene) # {}
        \/ scene > 0 /\ \E i \in DOMAIN mem.scenes : mem.scenes[i].dsId = -scene

\* What a start would find, and the identity the DSS sees.
Stored == IF IsConfig(file) THEN file.ids ELSE NoIdentity
Running == IF pc = "run" \/ (purpose = "zone" /\ pc # "off") THEN mem.ids ELSE NoIdentity

\* The file and the daemon keep the promise of module Identity, also when
\* writes fail or the daemon is killed: a dsuid that is stored is the one every
\* later start runs under, only missing ones are generated (main.c:231-248).
Id == INSTANCE Identity WITH stored <- Stored, running <- Running

IdentityKept == Id!IdSpec

=============================================================================

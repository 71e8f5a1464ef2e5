----------------------------- MODULE SceneTable -----------------------------
(***************************************************************************)
(* The tables of venta.cfg: how read_config builds the scene and sensor    *)
(* tables from the sections s0, s1, ... of the file, how write_config      *)
(* turns them back into sections, and how the call-scene handler looks a   *)
(* scene up.                                                               *)
(*                                                                         *)
(* A section is a function from the parameters it has to their values; the *)
(* sections of a group are a function from their numbers, which may have   *)
(* gaps, to sections.  The tables in memory are sequences: the entries     *)
(* that read_config has filled.  Integers have a sign.  A mode or fan      *)
(* level below zero is the same as none to the call-scene handler and to   *)
(* the writer, and a dsId of -1 is the end of the table to the writer.     *)
(***************************************************************************)
EXTENDS Integers, Sequences

CONSTANTS
  MaxScenes,   \* MAX_SCENES
  MaxSensors   \* MAX_SENSOR_VALUES

ASSUME TableSizes == MaxScenes \in Nat /\ MaxSensors \in Nat

Given(section, parameter, default) ==
  IF parameter \in DOMAIN section THEN section[parameter] ELSE default

SensorParameters == <<"sensor_type", "sensor_usage">>
SceneParameters == <<"dsId", "fan", "mode_automatic", "mode_sleep">>

\* The sections of a group have integers where integers are looked up.
IntegerSections(group, parameters) ==
  \A n \in DOMAIN group : \A p \in 1 .. Len(parameters) :
    parameters[p] \in DOMAIN group[n] => group[n][parameters[p]] \in Int

SceneEntry == [dsId : Int, fan : Int, mode_automatic : Int, mode_sleep : Int]

-----------------------------------------------------------------------------
(* Reading.                                                                *)

\* A loop that lets the number of the last section be the maximum.
ReadableInclusive(group, max) ==
  CHOOSE n \in 0 .. max + 1 : /\ 0 .. n - 1 \subseteq DOMAIN group
                              /\ n = max + 1 \/ n \notin DOMAIN group

\* The loops stop at the first section that is missing.
Readable(group, max) ==
  CHOOSE n \in 0 .. max : /\ 0 .. n - 1 \subseteq DOMAIN group
                          /\ n = max \/ n \notin DOMAIN group

\* One local variable, ivalue, takes every integer that is looked up; a
\* parameter that is missing leaves the integer before it there.
After(section, parameters, ivalue) ==
  LET last[p \in 0 .. Len(parameters)] ==
        IF p = 0 THEN ivalue ELSE Given(section, parameters[p], last[p - 1])
  IN  last[Len(parameters)]

AfterGroup(group, max, parameters, ivalue) ==
  LET after[n \in 0 .. Readable(group, max)] ==
        IF n = 0 THEN ivalue ELSE After(group[n - 1], parameters, after[n - 1])
  IN  after

\* A sensor without a name gets an empty one; the type and usage of one
\* without these parameters stay zero.
ReadSensors(group) ==
  [i \in 1 .. Readable(group, MaxSensors) |->
     LET section == group[i - 1]
     IN  [value_name   |-> Given(section, "value_name", ""),
          sensor_type  |-> Given(section, "sensor_type", 0),
          sensor_usage |-> Given(section, "sensor_usage", 0)]]

\* The dsId is taken from ivalue whether it was found or not.
ReadScenes(group, ivalue) ==
  LET before == AfterGroup(group, MaxScenes, SceneParameters, ivalue)
  IN  [i \in 1 .. Readable(group, MaxScenes) |->
         LET section == group[i - 1]
         IN  [dsId           |-> Given(section, "dsId", before[i - 1]),
              fan            |-> Given(section, "fan", -1),
              mode_automatic |-> Given(section, "mode_automatic", -1),
              mode_sleep     |-> Given(section, "mode_sleep", -1)]]

-----------------------------------------------------------------------------
(* Writing.                                                                *)

\* A writer that takes 0 for "not given".
WrittenIfPositive(entry) ==
  LET given == {p \in DOMAIN entry : p = "dsId" \/ entry[p] > 0}
  IN  [p \in given |-> entry[p]]

\* fan, mode_sleep and mode_automatic are written when they are above -1.
Written(entry) ==
  LET given == {p \in DOMAIN entry : p = "dsId" \/ entry[p] > -1}
  IN  [p \in given |-> entry[p]]

\* The entries in front of the first that the writer takes for the end.
ActiveEntries(scenes) ==
  [i \in {j \in 0 .. Len(scenes) - 1 : scenes[j + 1].dsId # -1} |-> scenes[i + 1]]
Active(scenes) == Readable(ActiveEntries(scenes), MaxScenes)

WriteScenes(scenes) == [i \in 0 .. Active(scenes) - 1 |-> Written(scenes[i + 1])]

\* The scenes of a table that outlive the daemon: those in front of a dsId -1,
\* with -1 for whatever is not given (read_config 125-145, write_config 253-293).
AsGiven(entry) == [p \in DOMAIN entry |-> IF p # "dsId" /\ entry[p] < 0 THEN -1 ELSE entry[p]]
Lasting(scenes) == [i \in 1 .. Active(scenes) |-> AsGiven(scenes[i])]

WriteSensors(sensors) == [i \in 0 .. Len(sensors) - 1 |-> sensors[i + 1]]

-----------------------------------------------------------------------------
(* Looking up.                                                             *)

\* Text is a sequence of digits and dashes; a dash is a minus sign as well.
Dash == 10

DigitsOf[n \in Nat] ==
  IF n < 10 THEN <<n>> ELSE Append(DigitsOf[n \div 10], n % 10)

Text(n) == IF n < 0 THEN <<Dash>> \o DigitsOf[-n] ELSE DigitsOf[n]

\* strstr finds the pattern in the text.
Occurs(pattern, text) ==
  \E i \in 1 .. Len(text) - Len(pattern) + 1 : SubSeq(text, i, i + Len(pattern) - 1) = pattern

\* The list of all dsIds, "-5-17-18-", that read_config puts together.
configured_scenes(scenes) ==
  LET upTo[n \in 0 .. Len(scenes)] ==
        IF n = 0 THEN <<Dash>> ELSE upTo[n - 1] \o Text(scenes[n].dsId) \o <<Dash>>
  IN  upTo[Len(scenes)]

\* A search for "-1" that forgets the dash after the number finds "-17-".
ConfiguredPrefix(scenes, scene) == Occurs(<<Dash>> \o Text(scene), configured_scenes(scenes))

\* "-<scene>-" occurs in the list.
is_scene_configured(scenes, scene) ==
  Occurs(<<Dash>> \o Text(scene) \o <<Dash>>, configured_scenes(scenes))

\* get_scene_configuration: the first entry.  The loop has no other end.
get_scene_configuration(scenes, scene) ==
  {scenes[i] : i \in {j \in DOMAIN scenes :
     /\ scenes[j].dsId = scene
     /\ \A k \in 1 .. j - 1 : scenes[k].dsId # scene}}

=============================================================================

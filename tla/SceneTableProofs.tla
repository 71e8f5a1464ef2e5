-------------------------- MODULE SceneTableProofs ---------------------------
(***************************************************************************)
(* What the loops of read_config and write_config do for tables of every   *)
(* size: facts about the operators of SceneTable.                          *)
(*                                                                         *)
(* The loops are recursive functions over the numbers of the sections.  An *)
(* induction over them is an induction over a set of numbers, which rests  *)
(* on the least element that every set of numbers has.                     *)
(***************************************************************************)
EXTENDS SceneTable, WellFoundedInduction, TLAPS

-----------------------------------------------------------------------------
(* Induction over sets of natural numbers.                                 *)

Less == {p \in Nat \X Nat : p[1] < p[2]}

LEMMA LessWellFounded == IsWellFoundedOn(Less, Nat)
BY NatLessThanWellFounded DEF Less, OpToRel

\* Every set of natural numbers but the empty one has a least element.
LEMMA LeastElement ==
  ASSUME NEW S \in SUBSET Nat, S # {}
  PROVE  \E n \in S : \A m \in S : n <= m
<1>1. PICK n \in S : \A m \in S : ~ (<<m, n>> \in Less)
  BY LessWellFounded, WFMin
<1>2. ASSUME NEW m \in S
      PROVE  n <= m
  <2>1. n \in Nat /\ m \in Nat /\ <<m, n>> \in Nat \X Nat
    OBVIOUS
  <2>2. ~(m < n)
    BY <1>1, <2>1 DEF Less
  <2> QED
    BY <2>1, <2>2
<1> QED
  BY <1>2

\* A set that has 0 and with each number up to N the next one has them all.
LEMMA SetInduction ==
  ASSUME NEW N \in Nat, NEW S, 0 \in S, \A n \in 1 .. N : n - 1 \in S => n \in S
  PROVE  0 .. N \subseteq S
<1> SUFFICES ASSUME (0 .. N) \ S # {}
             PROVE  FALSE
  OBVIOUS
<1>1. PICK n \in (0 .. N) \ S : \A m \in (0 .. N) \ S : n <= m
  <2>1. (0 .. N) \ S \in SUBSET Nat
    OBVIOUS
  <2> QED
    BY <2>1, LeastElement
<1>2. n \in 1 .. N /\ n - 1 \in 0 .. N
  BY <1>1
<1>3. n - 1 \in S
  BY <1>1, <1>2
<1> QED
  BY <1>1, <1>2, <1>3

-----------------------------------------------------------------------------
(* The number of sections that are read.                                   *)

IsReadable(n, group, max) ==
  0 .. n - 1 \subseteq DOMAIN group /\ (n = max \/ n \notin DOMAIN group)

\* Whatever sections the file has, the loops stop at one place.
LEMMA ReadableExists ==
  ASSUME NEW group, NEW max \in Nat
  PROVE  /\ Readable(group, max) \in 0 .. max
         /\ IsReadable(Readable(group, max), group, max)
<1> DEFINE Stops == {n \in 0 .. max : n = max \/ n \notin DOMAIN group}
<1>1. PICK n \in Stops : \A m \in Stops : n <= m
  <2>1. Stops \in SUBSET Nat /\ max \in Stops
    OBVIOUS
  <2> QED
    BY <2>1, LeastElement
<1>2. 0 .. n - 1 \subseteq DOMAIN group
  <2> SUFFICES ASSUME NEW m \in 0 .. n - 1, m \notin DOMAIN group
               PROVE  FALSE
    OBVIOUS
  <2>1. m \in Stops /\ m < n
    OBVIOUS
  <2> QED
    BY <1>1, <2>1
<1>3. n \in 0 .. max /\ IsReadable(n, group, max)
  BY <1>2 DEF IsReadable
<1>4. Readable(group, max) = CHOOSE k \in 0 .. max : IsReadable(k, group, max)
  BY DEF Readable, IsReadable
<1> QED
  BY <1>3, <1>4

LEMMA ReadableUnique ==
  ASSUME NEW group, NEW max \in Nat, NEW n \in 0 .. max, IsReadable(n, group, max)
  PROVE  Readable(group, max) = n
<1>1. PICK k \in 0 .. max : k = Readable(group, max) /\ IsReadable(k, group, max)
  BY ReadableExists
<1>2. ~(k < n)
  BY <1>1 DEF IsReadable
<1>3. ~(n < k)
  BY <1>1 DEF IsReadable
<1> QED
  BY <1>1, <1>2, <1>3

-----------------------------------------------------------------------------
(* The integer that is left behind.                                        *)

\* f is the sequence of what ivalue is in front of the first n parameters of a
\* section, and of what it is in front of the first n sections of a group.
Lookups(f, n, section, parameters, ivalue) ==
  f = [p \in 0 .. n |-> IF p = 0 THEN ivalue ELSE Given(section, parameters[p], f[p - 1])]

GroupLookups(f, n, group, parameters, ivalue) ==
  f = [p \in 0 .. n |-> IF p = 0 THEN ivalue ELSE After(group[p - 1], parameters, f[p - 1])]

LEMMA LookupsExist ==
  ASSUME NEW section, NEW parameters, NEW ivalue, NEW N \in Nat
  PROVE  \E f : Lookups(f, N, section, parameters, ivalue)
<1> DEFINE Done == {n \in 0 .. N : \E f : Lookups(f, n, section, parameters, ivalue)}
<1>1. 0 \in Done
  <2> DEFINE f == [p \in 0 .. 0 |-> ivalue]
  <2>1. Lookups(f, 0, section, parameters, ivalue)
    BY DEF Lookups
  <2> QED
    BY <2>1
<1>2. ASSUME NEW n \in 1 .. N, n - 1 \in Done
      PROVE  n \in Done
  <2>1. PICK f : Lookups(f, n - 1, section, parameters, ivalue)
    BY <1>2
  <2> DEFINE g == [p \in 0 .. n |-> IF p < n THEN f[p]
                                   ELSE Given(section, parameters[n], f[n - 1])]
  <2>2. \A p \in 0 .. n - 1 :
          f[p] = IF p = 0 THEN ivalue ELSE Given(section, parameters[p], f[p - 1])
    BY <2>1 DEF Lookups
  <2>3. \A p \in 0 .. n :
          g[p] = IF p = 0 THEN ivalue ELSE Given(section, parameters[p], g[p - 1])
    <3> SUFFICES ASSUME NEW p \in 0 .. n
                 PROVE  g[p] = IF p = 0 THEN ivalue ELSE Given(section, parameters[p], g[p - 1])
      OBVIOUS
    <3>1. CASE p = 0
      BY <2>2, <3>1
    <3>2. CASE p # 0 /\ p < n
      <4>1. g[p] = f[p] /\ g[p - 1] = f[p - 1]
        BY <3>2
      <4> QED
        BY <2>2, <3>2, <4>1
    <3>3. CASE p = n
      <4>1. g[p] = Given(section, parameters[p], f[p - 1]) /\ g[p - 1] = f[p - 1] /\ p # 0
        BY <3>3
      <4> QED
        BY <4>1
    <3> QED
      BY <3>1, <3>2, <3>3
  <2>4. Lookups(g, n, section, parameters, ivalue)
    BY <2>3 DEF Lookups
  <2> QED
    BY <2>4
<1>3. 0 .. N \subseteq Done
  BY <1>1, <1>2, SetInduction
<1> QED
  BY <1>3

LEMMA GroupLookupsExist ==
  ASSUME NEW group, NEW parameters, NEW ivalue, NEW N \in Nat
  PROVE  \E f : GroupLookups(f, N, group, parameters, ivalue)
<1> DEFINE Done == {n \in 0 .. N : \E f : GroupLookups(f, n, group, parameters, ivalue)}
<1>1. 0 \in Done
  <2> DEFINE f == [p \in 0 .. 0 |-> ivalue]
  <2>1. GroupLookups(f, 0, group, parameters, ivalue)
    BY DEF GroupLookups
  <2> QED
    BY <2>1
<1>2. ASSUME NEW n \in 1 .. N, n - 1 \in Done
      PROVE  n \in Done
  <2>1. PICK f : GroupLookups(f, n - 1, group, parameters, ivalue)
    BY <1>2
  <2> DEFINE g == [p \in 0 .. n |-> IF p < n THEN f[p]
                                   ELSE After(group[n - 1], parameters, f[n - 1])]
  <2>2. \A p \in 0 .. n - 1 :
          f[p] = IF p = 0 THEN ivalue ELSE After(group[p - 1], parameters, f[p - 1])
    BY <2>1 DEF GroupLookups
  <2>3. \A p \in 0 .. n :
          g[p] = IF p = 0 THEN ivalue ELSE After(group[p - 1], parameters, g[p - 1])
    <3> SUFFICES ASSUME NEW p \in 0 .. n
                 PROVE  g[p] = IF p = 0 THEN ivalue ELSE After(group[p - 1], parameters, g[p - 1])
      OBVIOUS
    <3>1. CASE p = 0
      BY <2>2, <3>1
    <3>2. CASE p # 0 /\ p < n
      <4>1. g[p] = f[p] /\ g[p - 1] = f[p - 1]
        BY <3>2
      <4> QED
        BY <2>2, <3>2, <4>1
    <3>3. CASE p = n
      <4>1. g[p] = After(group[p - 1], parameters, f[p - 1]) /\ g[p - 1] = f[p - 1] /\ p # 0
        BY <3>3
      <4> QED
        BY <4>1
    <3> QED
      BY <3>1, <3>2, <3>3
  <2>4. GroupLookups(g, n, group, parameters, ivalue)
    BY <2>3 DEF GroupLookups
  <2> QED
    BY <2>4
<1>3. 0 .. N \subseteq Done
  BY <1>1, <1>2, SetInduction
<1> QED
  BY <1>3

\* ivalue is a number of the file, or what it was before.
LEMMA AfterType ==
  ASSUME NEW section, NEW parameters, Len(parameters) \in Nat, NEW S, NEW ivalue \in S,
         \A p \in 1 .. Len(parameters) :
           parameters[p] \in DOMAIN section => section[parameters[p]] \in S
  PROVE  After(section, parameters, ivalue) \in S
<1>1. PICK f : /\ Lookups(f, Len(parameters), section, parameters, ivalue)
               /\ After(section, parameters, ivalue) = f[Len(parameters)]
  <2> DEFINE F == CHOOSE f : Lookups(f, Len(parameters), section, parameters, ivalue)
  <2>1. Lookups(F, Len(parameters), section, parameters, ivalue)
    BY LookupsExist
  <2>2. After(section, parameters, ivalue) = F[Len(parameters)]
    BY DEF After, Lookups
  <2> QED
    BY <2>1, <2>2
<1> DEFINE Typed == {n \in 0 .. Len(parameters) : f[n] \in S}
<1>2. 0 \in Typed
  BY <1>1 DEF Lookups
<1>3. ASSUME NEW n \in 1 .. Len(parameters), n - 1 \in Typed
      PROVE  n \in Typed
  <2>1. f[n] = Given(section, parameters[n], f[n - 1])
    BY <1>1 DEF Lookups
  <2> QED
    BY <1>3, <2>1 DEF Given
<1>4. 0 .. Len(parameters) \subseteq Typed
  BY <1>2, <1>3, SetInduction
<1> QED
  BY <1>1, <1>4

LEMMA AfterGroupType ==
  ASSUME NEW group, NEW max \in Nat, NEW parameters, Len(parameters) \in Nat,
         NEW S, NEW ivalue \in S,
         \A n \in DOMAIN group : \A p \in 1 .. Len(parameters) :
           parameters[p] \in DOMAIN group[n] => group[n][parameters[p]] \in S
  PROVE  \A n \in 0 .. Readable(group, max) :
           AfterGroup(group, max, parameters, ivalue)[n] \in S
<1> DEFINE R == Readable(group, max)
           f == AfterGroup(group, max, parameters, ivalue)
<1>1. R \in Nat /\ 0 .. R - 1 \subseteq DOMAIN group
  BY ReadableExists DEF IsReadable
<1>2. GroupLookups(f, R, group, parameters, ivalue)
  <2> DEFINE F == CHOOSE g : GroupLookups(g, R, group, parameters, ivalue)
  <2>1. GroupLookups(F, R, group, parameters, ivalue)
    BY <1>1, GroupLookupsExist
  <2>2. f = F
    BY DEF AfterGroup, GroupLookups
  <2> QED
    BY <2>1, <2>2
<1> DEFINE Typed == {n \in 0 .. R : f[n] \in S}
<1> HIDE DEF f, R
<1>3. 0 \in Typed
  BY <1>1, <1>2 DEF GroupLookups
<1>4. ASSUME NEW n \in 1 .. R, n - 1 \in Typed
      PROVE  n \in Typed
  <2>1. f[n] = After(group[n - 1], parameters, f[n - 1])
    BY <1>1, <1>2 DEF GroupLookups
  <2>2. f[n - 1] \in S /\ n - 1 \in DOMAIN group
    BY <1>1, <1>4
  <2>3. After(group[n - 1], parameters, f[n - 1]) \in S
    BY <2>2, AfterType
  <2> QED
    BY <2>1, <2>3
<1>5. 0 .. R \subseteq Typed
  BY <1>1, <1>3, <1>4, SetInduction
<1> QED
  BY <1>5 DEF f, R

-----------------------------------------------------------------------------
(* The tables.                                                             *)

LEMMA SceneParametersAre ==
  /\ Len(SceneParameters) = 4
  /\ SceneParameters[1] = "dsId" /\ SceneParameters[2] = "fan"
  /\ SceneParameters[3] = "mode_automatic" /\ SceneParameters[4] = "mode_sleep"
BY DEF SceneParameters

LEMMA SensorParametersAre ==
  /\ Len(SensorParameters) = 2
  /\ SensorParameters[1] = "sensor_type" /\ SensorParameters[2] = "sensor_usage"
BY DEF SensorParameters

\* read_config fills the scene table up to its end at most, and leaves every
\* entry with an integer in each field.
LEMMA ReadScenesType ==
  ASSUME NEW group, IntegerSections(group, SceneParameters), NEW ivalue \in Int
  PROVE  /\ ReadScenes(group, ivalue) \in Seq(SceneEntry)
         /\ Len(ReadScenes(group, ivalue)) <= MaxScenes
<1> DEFINE R == Readable(group, MaxScenes)
           before == AfterGroup(group, MaxScenes, SceneParameters, ivalue)
           Entry(i) == [dsId           |-> Given(group[i - 1], "dsId", before[i - 1]),
                        fan            |-> Given(group[i - 1], "fan", -1),
                        mode_automatic |-> Given(group[i - 1], "mode_automatic", -1),
                        mode_sleep     |-> Given(group[i - 1], "mode_sleep", -1)]
<1>1. R \in 0 .. MaxScenes /\ 0 .. R - 1 \subseteq DOMAIN group
  BY ReadableExists, TableSizes DEF IsReadable
<1>2. \A n \in 0 .. R : before[n] \in Int
  <2>1. \A n \in DOMAIN group : \A p \in 1 .. Len(SceneParameters) :
          SceneParameters[p] \in DOMAIN group[n] => group[n][SceneParameters[p]] \in Int
    BY DEF IntegerSections
  <2>2. Len(SceneParameters) \in Nat /\ MaxScenes \in Nat
    BY SceneParametersAre, TableSizes
  <2> QED
    BY <2>1, <2>2, AfterGroupType
<1>3. ReadScenes(group, ivalue) = [i \in 1 .. R |-> Entry(i)]
  BY DEF ReadScenes
<1> HIDE DEF R, before
<1>4. ASSUME NEW i \in 1 .. R
      PROVE  Entry(i) \in SceneEntry
  <2>1. i - 1 \in DOMAIN group /\ before[i - 1] \in Int
    BY <1>1, <1>2
  <2>2. \A p \in {"dsId", "fan", "mode_automatic", "mode_sleep"} :
          p \in DOMAIN group[i - 1] => group[i - 1][p] \in Int
    BY <2>1, SceneParametersAre DEF IntegerSections
  <2> QED
    BY <2>1, <2>2 DEF SceneEntry, Given
<1>5. [i \in 1 .. R |-> Entry(i)] \in Seq(SceneEntry) /\ Len([i \in 1 .. R |-> Entry(i)]) = R
  <2>1. [i \in 1 .. R |-> Entry(i)] \in [1 .. R -> SceneEntry] /\ R \in Nat
    BY <1>1, <1>4
  <2> HIDE DEF Entry
  <2> QED
    BY <2>1
<1> QED
  BY <1>1, <1>3, <1>5

\* A sequence of at most MaxSensors entries, each with its three fields.
SensorTable(sensors) ==
  \E n \in 0 .. MaxSensors :
    /\ sensors = [i \in 1 .. n |-> [value_name   |-> sensors[i].value_name,
                                   sensor_type  |-> sensors[i].sensor_type,
                                   sensor_usage |-> sensors[i].sensor_usage]]
    /\ \A i \in 1 .. n : sensors[i].sensor_type \in Int /\ sensors[i].sensor_usage \in Int

LEMMA SensorTableLength ==
  ASSUME NEW sensors, SensorTable(sensors)
  PROVE  Len(sensors) \in 0 .. MaxSensors
BY TableSizes DEF SensorTable

LEMMA ReadSensorsType ==
  ASSUME NEW group, IntegerSections(group, SensorParameters)
  PROVE  SensorTable(ReadSensors(group))
<1> DEFINE n == Readable(group, MaxSensors)
           t == ReadSensors(group)
<1>1. n \in 0 .. MaxSensors /\ 0 .. n - 1 \subseteq DOMAIN group
  BY ReadableExists, TableSizes DEF IsReadable
<1>2. DOMAIN t = 1 .. n
  BY DEF ReadSensors
<1>3. ASSUME NEW i \in 1 .. n
      PROVE  t[i] = [value_name   |-> t[i].value_name,
                     sensor_type  |-> t[i].sensor_type,
                     sensor_usage |-> t[i].sensor_usage]
  BY DEF ReadSensors
<1>4. t = [i \in 1 .. n |-> t[i]]
  BY <1>2 DEF ReadSensors
<1>5. t = [i \in 1 .. n |-> [value_name   |-> t[i].value_name,
                            sensor_type  |-> t[i].sensor_type,
                            sensor_usage |-> t[i].sensor_usage]]
  BY <1>3, <1>4
<1>6. ASSUME NEW i \in 1 .. n
      PROVE  t[i].sensor_type \in Int /\ t[i].sensor_usage \in Int
  <2>1. i - 1 \in DOMAIN group
    BY <1>1
  <2>2. \A p \in {"sensor_type", "sensor_usage"} :
          p \in DOMAIN group[i - 1] => group[i - 1][p] \in Int
    BY <2>1, SensorParametersAre DEF IntegerSections
  <2>3. /\ t[i].sensor_type = Given(group[i - 1], "sensor_type", 0)
        /\ t[i].sensor_usage = Given(group[i - 1], "sensor_usage", 0)
    BY DEF ReadSensors
  <2> QED
    BY <2>2, <2>3 DEF Given
<1> HIDE DEF n, t
<1> QED
  BY <1>1, <1>5, <1>6 DEF SensorTable, t

-----------------------------------------------------------------------------
(* What is written is read back.                                           *)

\* Sections that are numbered without a gap are all read.
LEMMA ReadableWritten ==
  ASSUME NEW max \in Nat, NEW n \in 0 .. max, NEW group, DOMAIN group = 0 .. n - 1
  PROVE  Readable(group, max) = n
<1>1. IsReadable(n, group, max)
  BY DEF IsReadable
<1> QED
  BY <1>1, ReadableUnique

\* A field that is written when it is above -1 and read as -1 when it is
\* missing comes back.
LEMMA EntryReadBack ==
  ASSUME NEW e \in SceneEntry, NEW default
  PROVE  /\ AsGiven(e) = [dsId           |-> Given(Written(e), "dsId", default),
                          fan            |-> Given(Written(e), "fan", -1),
                          mode_automatic |-> Given(Written(e), "mode_automatic", -1),
                          mode_sleep     |-> Given(Written(e), "mode_sleep", -1)]
<1>1. DOMAIN e = {"dsId", "fan", "mode_automatic", "mode_sleep"}
  BY DEF SceneEntry
<1>2. DOMAIN Written(e) = {p \in DOMAIN e : p = "dsId" \/ e[p] > -1}
      /\ \A p \in DOMAIN Written(e) : Written(e)[p] = e[p]
  BY DEF Written
<1>3. Given(Written(e), "dsId", default) = e.dsId
  BY <1>1, <1>2 DEF Given
<1>4. ASSUME NEW p \in {"fan", "mode_automatic", "mode_sleep"}
      PROVE  Given(Written(e), p, -1) = IF e[p] < 0 THEN -1 ELSE e[p]
  <2>1. p \in DOMAIN e /\ p # "dsId" /\ e[p] \in Int
    BY DEF SceneEntry
  <2>2. CASE e[p] >= 0
    BY <1>2, <2>1, <2>2 DEF Given
  <2>3. CASE e[p] < 0
    <3>1. p \notin DOMAIN Written(e)
      BY <1>2, <2>1, <2>3
    <3> QED
      BY <2>3, <3>1 DEF Given
  <2> QED
    BY <2>1, <2>2, <2>3
<1> QED
  BY <1>1, <1>3, <1>4 DEF AsGiven

\* The writer stops within the table.
LEMMA ActiveWithin ==
  ASSUME NEW S, NEW scenes \in Seq(S), Len(scenes) <= MaxScenes
  PROVE  /\ Active(scenes) \in 0 .. Len(scenes)
         /\ DOMAIN WriteScenes(scenes) = 0 .. Active(scenes) - 1
         /\ \A i \in 1 .. Active(scenes) : WriteScenes(scenes)[i - 1] = Written(scenes[i])
<1> DEFINE n == Active(scenes)
<1>1. n \in 0 .. MaxScenes /\ 0 .. n - 1 \subseteq DOMAIN ActiveEntries(scenes)
  BY ReadableExists, TableSizes DEF Active, IsReadable
<1>2. DOMAIN ActiveEntries(scenes) \subseteq 0 .. Len(scenes) - 1 /\ Len(scenes) \in Nat
  BY DEF ActiveEntries
<1>3. n \in 0 .. Len(scenes)
  <2>1. n # 0 => n - 1 \in 0 .. Len(scenes) - 1
    BY <1>1, <1>2
  <2> QED
    BY <1>1, <1>2, <2>1
<1> HIDE DEF n
<1>4. WriteScenes(scenes) = [i \in 0 .. n - 1 |-> Written(scenes[i + 1])]
  BY DEF WriteScenes, n
<1>5. \A i \in 1 .. n : WriteScenes(scenes)[i - 1] = Written(scenes[i])
  <2> TAKE i \in 1 .. n
  <2>1. i - 1 \in 0 .. n - 1 /\ (i - 1) + 1 = i
    BY <1>3
  <2>2. WriteScenes(scenes)[i - 1] = Written(scenes[(i - 1) + 1])
    BY <1>4, <2>1
  <2> QED
    BY <2>1, <2>2
<1> QED
  BY <1>3, <1>4, <1>5 DEF n

\* The scene table comes back from the file, whatever was in ivalue.
LEMMA ScenesReadBack ==
  ASSUME NEW scenes \in Seq(SceneEntry), Len(scenes) <= MaxScenes, NEW ivalue
  PROVE  ReadScenes(WriteScenes(scenes), ivalue) = Lasting(scenes)
<1> DEFINE n == Active(scenes)
           g == WriteScenes(scenes)
           back == ReadScenes(g, ivalue)
           before == AfterGroup(g, MaxScenes, SceneParameters, ivalue)
<1>1. n \in 0 .. Len(scenes) /\ n \in 0 .. MaxScenes
  BY ActiveWithin, TableSizes
<1>2. DOMAIN g = 0 .. n - 1 /\ \A i \in 1 .. n : g[i - 1] = Written(scenes[i])
  BY ActiveWithin
<1>3. Readable(g, MaxScenes) = n
  BY <1>1, <1>2, ReadableWritten, TableSizes
<1>4. back = [i \in 1 .. n |->
                [dsId           |-> Given(g[i - 1], "dsId", before[i - 1]),
                 fan            |-> Given(g[i - 1], "fan", -1),
                 mode_automatic |-> Given(g[i - 1], "mode_automatic", -1),
                 mode_sleep     |-> Given(g[i - 1], "mode_sleep", -1)]]
  BY <1>3 DEF ReadScenes
<1> HIDE DEF n, g, before, back
<1>5. ASSUME NEW i \in 1 .. n
      PROVE  back[i] = AsGiven(scenes[i])
  <2>1. scenes[i] \in SceneEntry /\ g[i - 1] = Written(scenes[i])
    BY <1>1, <1>2
  <2>2. back[i] = [dsId           |-> Given(g[i - 1], "dsId", before[i - 1]),
                   fan            |-> Given(g[i - 1], "fan", -1),
                   mode_automatic |-> Given(g[i - 1], "mode_automatic", -1),
                   mode_sleep     |-> Given(g[i - 1], "mode_sleep", -1)]
    BY <1>4
  <2> QED
    BY <2>1, <2>2, EntryReadBack
<1>6. back = [i \in 1 .. n |-> AsGiven(scenes[i])]
  BY <1>4, <1>5
<1> QED
  BY <1>6 DEF back, n, g, Lasting

LEMMA SensorsReadBack ==
  ASSUME NEW sensors, SensorTable(sensors)
  PROVE  ReadSensors(WriteSensors(sensors)) = sensors
<1> DEFINE g == WriteSensors(sensors)
<1>1. PICK n \in 0 .. MaxSensors :
        sensors = [i \in 1 .. n |-> [value_name   |-> sensors[i].value_name,
                                    sensor_type  |-> sensors[i].sensor_type,
                                    sensor_usage |-> sensors[i].sensor_usage]]
  BY DEF SensorTable
<1>2. Len(sensors) = n
  BY <1>1, TableSizes
<1>3. DOMAIN g = 0 .. n - 1 /\ \A i \in 1 .. n : g[i - 1] = sensors[i]
  BY <1>2, TableSizes DEF WriteSensors
<1>4. Readable(g, MaxSensors) = n
  BY <1>3, ReadableWritten, TableSizes
<1> HIDE DEF g
<1>5. \A i \in 1 .. n : DOMAIN sensors[i] = {"value_name", "sensor_type", "sensor_usage"}
  BY <1>1
<1>6. ReadSensors(g) =
        [i \in 1 .. n |-> [value_name   |-> Given(g[i - 1], "value_name", ""),
                          sensor_type  |-> Given(g[i - 1], "sensor_type", 0),
                          sensor_usage |-> Given(g[i - 1], "sensor_usage", 0)]]
  BY <1>4 DEF ReadSensors
<1>7. ReadSensors(g) =
        [i \in 1 .. n |-> [value_name   |-> sensors[i].value_name,
                          sensor_type  |-> sensors[i].sensor_type,
                          sensor_usage |-> sensors[i].sensor_usage]]
  BY <1>3, <1>5, <1>6 DEF Given
<1> QED
  BY <1>1, <1>7 DEF g

\* What is written are integers again.
LEMMA WrittenSectionsInteger ==
  /\ \A scenes \in Seq(SceneEntry) :
       Len(scenes) <= MaxScenes => IntegerSections(WriteScenes(scenes), SceneParameters)
  /\ \A sensors : SensorTable(sensors) =>
                  IntegerSections(WriteSensors(sensors), SensorParameters)
<1>1. ASSUME NEW scenes \in Seq(SceneEntry), Len(scenes) <= MaxScenes
      PROVE  IntegerSections(WriteScenes(scenes), SceneParameters)
  <2>1. ASSUME NEW e \in SceneEntry, NEW p \in DOMAIN Written(e)
        PROVE  Written(e)[p] \in Int
    <3>1. p \in DOMAIN e /\ Written(e)[p] = e[p]
      BY DEF Written
    <3> QED
      BY <3>1 DEF SceneEntry
  <2>2. ASSUME NEW n \in DOMAIN WriteScenes(scenes)
        PROVE  \A p \in DOMAIN WriteScenes(scenes)[n] : WriteScenes(scenes)[n][p] \in Int
    <3>1. n + 1 \in 1 .. Len(scenes) /\ WriteScenes(scenes)[n] = Written(scenes[n + 1])
      <4>1. n + 1 \in 1 .. Active(scenes) /\ (n + 1) - 1 = n /\ Active(scenes) \in 0 .. Len(scenes)
        BY <1>1, ActiveWithin
      <4>2. WriteScenes(scenes)[(n + 1) - 1] = Written(scenes[n + 1])
        BY <1>1, <4>1, ActiveWithin
      <4> QED
        BY <4>1, <4>2
    <3>2. scenes[n + 1] \in SceneEntry
      BY <3>1
    <3> QED
      BY <2>1, <3>1, <3>2
  <2> QED
    BY <1>1, <2>2 DEF IntegerSections
<1>2. ASSUME NEW sensors, SensorTable(sensors)
      PROVE  IntegerSections(WriteSensors(sensors), SensorParameters)
  <2>1. PICK n \in 0 .. MaxSensors :
          /\ DOMAIN sensors = 1 .. n /\ Len(sensors) = n
          /\ \A i \in 1 .. n : /\ sensors[i].sensor_type \in Int
                               /\ sensors[i].sensor_usage \in Int
    BY <1>2, TableSizes DEF SensorTable
  <2>2. ASSUME NEW k \in DOMAIN WriteSensors(sensors)
        PROVE  /\ WriteSensors(sensors)[k]["sensor_type"] \in Int
               /\ WriteSensors(sensors)[k]["sensor_usage"] \in Int
    <3>1. k + 1 \in 1 .. n /\ WriteSensors(sensors)[k] = sensors[k + 1]
      BY <2>1, TableSizes DEF WriteSensors
    <3> QED
      BY <2>1, <3>1
  <2>3. \A p \in 1 .. Len(SensorParameters) :
          SensorParameters[p] \in {"sensor_type", "sensor_usage"}
    BY SensorParametersAre
  <2> QED
    BY <2>2, <2>3 DEF IntegerSections
<1> QED
  BY <1>1, <1>2

=============================================================================

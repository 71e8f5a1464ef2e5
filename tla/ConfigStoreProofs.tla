------------------------- MODULE ConfigStoreProofs --------------------------
(***************************************************************************)
(* Theorems about ConfigStore: the file is never torn, an acknowledged     *)
(* zone survives, and the daemon implements module Identity.               *)
(*                                                                         *)
(* Those need of the tables only that read_config and write_config pass    *)
(* the dsuids and the zone through.  The theorems on the tables themselves *)
(* rest on module SceneTableProofs.                                        *)
(***************************************************************************)
EXTENDS ConfigStore, SceneTableProofs

-----------------------------------------------------------------------------
(* The inductive invariant, part by part.                                  *)

\* Every file is absent, torn or a whole configuration.
FileInv ==
  \/ file = Absent
  \/ file = Torn
  \/ IsConfig(file) /\ HasFields(file) /\ file.ids \in Identities

MemInv ==
  /\ mem = [ids |-> mem.ids, zone_id |-> mem.zone_id, sensors |-> mem.sensors,
            scenes |-> mem.scenes]
  /\ mem.ids \in Identities

\* A writer has a purpose.  A template is written by a daemon that has read
\* nothing, because there is no file.
PhaseInv ==
  /\ pc \in {"off", "identify", "open", "write", "rename", "respond", "run"}
  /\ pc \in {"off", "identify", "run"} => purpose = "none"
  /\ pc = "off" => mem = Blank
  /\ pc \in {"open", "write", "rename"} => purpose \in {"template", "start", "zone"}
  /\ pc = "respond" => purpose = "zone"
  /\ purpose = "template" => file = Absent /\ mem = Blank

\* What is renamed is what is in memory.
WrittenInv == pc = "rename" => tmp = ConfigOf(mem)

FileZone == Given(file.settings, "zone_id", DefaultZone)

\* The acknowledged zone is in the file, unless the daemon was killed before it
\* answered a later request.  A daemon that is starting has the file's zone in
\* memory, so that writing the generated dsuids does not lose it; one that is
\* about to answer has stored what it answers.
ZoneInv ==
  /\ purpose = "zone" => mem.zone_id \in unanswered
  /\ pc = "respond" /\ ~lapsed => IsConfig(file) /\ FileZone = mem.zone_id
  /\ acked # None /\ ~lapsed =>
       /\ IsConfig(file)
       /\ FileZone \in {acked} \cup unanswered
       /\ pc = "identify" \/ purpose = "start" => mem.zone_id = FileZone

\* A daemon that has identified itself has all dsuids, the stored ones among
\* them.
IdentityInv ==
  /\ pc = "identify" => IsConfig(file) /\ mem.ids = file.ids
  /\ pc = "run" \/ purpose \in {"start", "zone"} => mem.ids \in [Kinds -> Dsuids]
  /\ purpose = "start" => Id!Completes(mem.ids, Stored)

StoreInv == FileInv /\ MemInv /\ PhaseInv /\ WrittenInv /\ ZoneInv /\ IdentityInv

-----------------------------------------------------------------------------
(* What the operators pass through.                                        *)

\* A file that is read back gives the dsuids and the zone it has.
LEMMA ReadPasses ==
  ASSUME NEW f, NEW junk
  PROVE  /\ Read(f, junk).ids = f.ids
         /\ Read(f, junk).zone_id = Given(f.settings, "zone_id", DefaultZone)
         /\ Read(f, junk) = [ids |-> Read(f, junk).ids, zone_id |-> Read(f, junk).zone_id,
                             sensors |-> Read(f, junk).sensors, scenes |-> Read(f, junk).scenes]
BY DEF Read

\* A file that is written is a configuration with the dsuids and the zone of
\* the memory.
LEMMA WrittenPasses ==
  ASSUME NEW m
  PROVE  /\ IsConfig(ConfigOf(m))
         /\ HasFields(ConfigOf(m))
         /\ ConfigOf(m).ids = m.ids
         /\ Given(ConfigOf(m).settings, "zone_id", DefaultZone) = m.zone_id
BY DEF ConfigOf, IsConfig, HasFields, Given

\* The three kinds of files exclude each other.
LEMMA FileKinds == ~IsConfig(Absent) /\ ~IsConfig(Torn) /\ Absent # Torn
BY DEF IsConfig, Absent, Torn

LEMMA BlankFields ==
  /\ Blank = [ids |-> Blank.ids, zone_id |-> Blank.zone_id, sensors |-> Blank.sensors,
              scenes |-> Blank.scenes]
  /\ Blank.ids = NoIdentity
  /\ NoIdentity \in Identities
BY DEF Blank, NoIdentity, Identities

\* The files a user writes, and those he edits.
LEMMA UserFilesFit ==
  ASSUME NEW f \in UserFiles \cup {Absent}
  PROVE  f = Absent \/ f = Torn \/ (IsConfig(f) /\ HasFields(f) /\ f.ids \in Identities)
BY UserFilesAssumption

LEMMA EditedFilesFit ==
  ASSUME NEW g \in UserFiles, IsConfig(g), NEW ids \in Identities
  PROVE  LET f == [g EXCEPT !.ids = ids]
         IN  IsConfig(f) /\ HasFields(f) /\ f.ids = ids
<1>1. HasFields(g)
  BY UserFilesAssumption, FileKinds
<1> QED
  BY <1>1 DEF HasFields, IsConfig

-----------------------------------------------------------------------------
(* The invariant is inductive.                                             *)

LEMMA InitStoreInv == Init => StoreInv
<1> SUFFICES ASSUME Init
             PROVE  StoreInv
  OBVIOUS
<1>1. FileInv
  BY UserFilesFit DEF Init, FileInv
<1>2. MemInv
  BY BlankFields DEF Init, MemInv
<1>3. PhaseInv /\ WrittenInv
  BY DEF Init, PhaseInv, WrittenInv
<1>4. ZoneInv
  BY DEF Init, ZoneInv
<1>5. IdentityInv
  BY DEF Init, IdentityInv
<1> QED
  BY <1>1, <1>2, <1>3, <1>4, <1>5 DEF StoreInv

LEMMA FileInvStep == StoreInv /\ Next => FileInv'
<1> SUFFICES ASSUME StoreInv, Next
             PROVE  FileInv'
  OBVIOUS
<1> USE DEF StoreInv, FileInv
<1>1. CASE StartWithout
  BY <1>1 DEF StartWithout
<1>2. CASE Start
  BY <1>2 DEF Start
<1>3. CASE Identify
  BY <1>3 DEF Identify, Adopt
<1>4. CASE WriteOpen
  BY <1>4 DEF WriteOpen
<1>5. CASE WriteFill
  BY <1>5 DEF WriteFill
<1>6. CASE WriteFails
  BY <1>6 DEF WriteFails, WriteReturns
<1>7. CASE Rename
  BY <1>7, WrittenPasses DEF Rename, WriteReturns, WrittenInv, MemInv
<1>8. CASE RenameFails
  BY <1>8 DEF RenameFails, WriteReturns
<1>9. ASSUME NEW request \in Requests, SetProperty(request)
      PROVE  FileInv'
  BY <1>9 DEF SetProperty
<1>12. CASE Respond
  BY <1>12 DEF Respond
<1>10. CASE Stop
  BY <1>10 DEF Stop
<1>11. CASE UserEdits
  <2>1. CASE file' \in UserFiles \cup {Absent}
    BY <2>1, UserFilesFit
  <2>2. CASE /\ IsConfig(file)
             /\ file' \in {[f EXCEPT !.ids = file.ids] : f \in {g \in UserFiles : IsConfig(g)}}
    <3>1. PICK f \in UserFiles : IsConfig(f) /\ file' = [f EXCEPT !.ids = file.ids]
      BY <2>2
    <3>2. file.ids \in Identities
      BY <2>2, FileKinds
    <3> QED
      BY <3>1, <3>2, EditedFilesFit
  <2> QED
    BY <1>11, <2>1, <2>2 DEF UserEdits
<1> QED
  BY <1>1, <1>2, <1>3, <1>4, <1>5, <1>6, <1>7, <1>8, <1>9, <1>10, <1>11, <1>12 DEF Next, Write

LEMMA MemInvStep == StoreInv /\ Next => MemInv'
<1> SUFFICES ASSUME StoreInv, Next
             PROVE  MemInv'
  OBVIOUS
<1> USE DEF StoreInv, MemInv
<1>1. CASE StartWithout
  BY <1>1 DEF StartWithout
<1>2. CASE Start
  BY <1>2, ReadPasses, FileKinds DEF Start, FileInv
<1>3. CASE Identify
  BY <1>3 DEF Identify, Adopt, Identities, Generated
<1>4. CASE WriteOpen
  BY <1>4 DEF WriteOpen
<1>5. CASE WriteFill
  BY <1>5 DEF WriteFill
<1>6. CASE WriteFails
  BY <1>6, BlankFields DEF WriteFails, WriteReturns
<1>7. CASE Rename
  BY <1>7, BlankFields DEF Rename, WriteReturns
<1>8. CASE RenameFails
  BY <1>8, BlankFields DEF RenameFails, WriteReturns
<1>9. ASSUME NEW request \in Requests, SetProperty(request)
      PROVE  MemInv'
  BY <1>9 DEF SetProperty
<1>12. CASE Respond
  BY <1>12 DEF Respond
<1>10. CASE Stop
  BY <1>10, BlankFields DEF Stop
<1>11. CASE UserEdits
  BY <1>11 DEF UserEdits
<1> QED
  BY <1>1, <1>2, <1>3, <1>4, <1>5, <1>6, <1>7, <1>8, <1>9, <1>10, <1>11, <1>12 DEF Next, Write

LEMMA PhaseInvStep == StoreInv /\ Next => PhaseInv'
<1> SUFFICES ASSUME StoreInv, Next
             PROVE  PhaseInv'
  OBVIOUS
<1> USE DEF StoreInv, PhaseInv
<1>1. CASE StartWithout
  BY <1>1 DEF StartWithout
<1>2. CASE Start
  BY <1>2, FileKinds DEF Start
<1>3. CASE Identify
  BY <1>3 DEF Identify, Adopt
<1>4. CASE WriteOpen
  BY <1>4 DEF WriteOpen
<1>5. CASE WriteFill
  BY <1>5 DEF WriteFill
<1>6. CASE WriteFails
  BY <1>6 DEF WriteFails, WriteReturns
<1>7. CASE Rename
  BY <1>7 DEF Rename, WriteReturns
<1>8. CASE RenameFails
  BY <1>8 DEF RenameFails, WriteReturns
<1>9. ASSUME NEW request \in Requests, SetProperty(request)
      PROVE  PhaseInv'
  BY <1>9 DEF SetProperty
<1>12. CASE Respond
  BY <1>12 DEF Respond
<1>10. CASE Stop
  BY <1>10 DEF Stop
<1>11. CASE UserEdits
  BY <1>11 DEF UserEdits
<1> QED
  BY <1>1, <1>2, <1>3, <1>4, <1>5, <1>6, <1>7, <1>8, <1>9, <1>10, <1>11, <1>12 DEF Next, Write

LEMMA WrittenInvStep == StoreInv /\ Next => WrittenInv'
<1> SUFFICES ASSUME StoreInv, Next
             PROVE  WrittenInv'
  OBVIOUS
<1> USE DEF StoreInv, WrittenInv, PhaseInv
<1>1. CASE StartWithout
  BY <1>1 DEF StartWithout
<1>2. CASE Start
  BY <1>2 DEF Start
<1>3. CASE Identify
  BY <1>3 DEF Identify, Adopt
<1>4. CASE WriteOpen
  BY <1>4 DEF WriteOpen
<1>5. CASE WriteFill
  BY <1>5 DEF WriteFill
<1>6. CASE WriteFails
  BY <1>6 DEF WriteFails, WriteReturns
<1>7. CASE Rename
  BY <1>7 DEF Rename, WriteReturns
<1>8. CASE RenameFails
  BY <1>8 DEF RenameFails, WriteReturns
<1>9. ASSUME NEW request \in Requests, SetProperty(request)
      PROVE  WrittenInv'
  BY <1>9 DEF SetProperty
<1>12. CASE Respond
  BY <1>12 DEF Respond
<1>10. CASE Stop
  BY <1>10 DEF Stop
<1>11. CASE UserEdits
  BY <1>11 DEF UserEdits
<1> QED
  BY <1>1, <1>2, <1>3, <1>4, <1>5, <1>6, <1>7, <1>8, <1>9, <1>10, <1>11, <1>12 DEF Next, Write

LEMMA ZoneInvStep == StoreInv /\ Next => ZoneInv'
<1> SUFFICES ASSUME StoreInv, Next
             PROVE  ZoneInv'
  OBVIOUS
<1> USE DEF StoreInv, ZoneInv, PhaseInv, FileZone
<1>1. CASE StartWithout
  BY <1>1, FileKinds DEF StartWithout
<1>2. CASE Start
  BY <1>2, ReadPasses DEF Start
<1>3. CASE Identify
  BY <1>3 DEF Identify, Adopt, MemInv
<1>4. CASE WriteOpen
  BY <1>4 DEF WriteOpen
<1>5. CASE WriteFill
  BY <1>5 DEF WriteFill
<1>6. CASE WriteFails
  BY <1>6 DEF WriteFails, WriteReturns
<1>7. CASE Rename
  <2>1. file' = ConfigOf(mem) /\ pc' # "identify" /\ purpose' \in {"none", "zone"}
    BY <1>7 DEF Rename, WriteReturns, WrittenInv
  <2>2. IsConfig(file') /\ Given(file'.settings, "zone_id", DefaultZone) = mem.zone_id
    BY <2>1, WrittenPasses
  <2>3. CASE purpose = "zone"
    BY <1>7, <2>1, <2>2, <2>3 DEF Rename, WriteReturns
  <2>4. CASE purpose = "start"
    BY <1>7, <2>1, <2>2, <2>4 DEF Rename, WriteReturns
  <2>5. CASE purpose = "template"
    BY <1>7, <2>1, <2>5, FileKinds DEF Rename, WriteReturns
  <2> QED
    BY <1>7, <2>3, <2>4, <2>5 DEF Rename
<1>8. CASE RenameFails
  BY <1>8 DEF RenameFails, WriteReturns
<1>9. ASSUME NEW request \in Requests, SetProperty(request)
      PROVE  ZoneInv'
  BY <1>9 DEF SetProperty
<1>12. CASE Respond
  BY <1>12 DEF Respond
<1>10. CASE Stop
  BY <1>10 DEF Stop
<1>11. CASE UserEdits
  BY <1>11 DEF UserEdits
<1> QED
  BY <1>1, <1>2, <1>3, <1>4, <1>5, <1>6, <1>7, <1>8, <1>9, <1>10, <1>11, <1>12 DEF Next, Write

LEMMA IdentityInvStep == StoreInv /\ Next => IdentityInv'
<1> SUFFICES ASSUME StoreInv, Next
             PROVE  IdentityInv'
  OBVIOUS
<1> USE DEF StoreInv, IdentityInv, PhaseInv
<1>1. CASE StartWithout
  BY <1>1 DEF StartWithout
<1>2. CASE Start
  BY <1>2, ReadPasses DEF Start
<1>3. CASE Identify
  BY <1>3 DEF Identify, Adopt, MemInv, Generated, Id!Completes, Stored, Identities
<1>4. CASE WriteOpen
  BY <1>4 DEF WriteOpen, Id!Completes, Stored
<1>5. CASE WriteFill
  BY <1>5 DEF WriteFill, Id!Completes, Stored
<1>6. CASE WriteFails
  BY <1>6 DEF WriteFails, WriteReturns
<1>7. CASE Rename
  BY <1>7 DEF Rename, WriteReturns, WrittenInv
<1>8. CASE RenameFails
  BY <1>8 DEF RenameFails, WriteReturns
<1>9. ASSUME NEW request \in Requests, SetProperty(request)
      PROVE  IdentityInv'
  BY <1>9 DEF SetProperty, MemInv, Id!Completes, Stored
<1>12. CASE Respond
  BY <1>12 DEF Respond
<1>10. CASE Stop
  BY <1>10 DEF Stop
<1>11. CASE UserEdits
  BY <1>11 DEF UserEdits
<1> QED
  BY <1>1, <1>2, <1>3, <1>4, <1>5, <1>6, <1>7, <1>8, <1>9, <1>10, <1>11, <1>12 DEF Next, Write

LEMMA StutterStoreInv == StoreInv /\ UNCHANGED cfgVars => StoreInv'
<1> SUFFICES ASSUME StoreInv, UNCHANGED cfgVars
             PROVE  StoreInv'
  OBVIOUS
<1> USE DEF StoreInv, cfgVars
<1>1. FileInv' /\ MemInv' /\ PhaseInv' /\ WrittenInv'
  BY DEF FileInv, MemInv, PhaseInv, WrittenInv
<1>2. ZoneInv' /\ IdentityInv'
  BY DEF ZoneInv, FileZone, IdentityInv, Id!Completes, Stored
<1> QED
  BY <1>1, <1>2

\* The invariant of the other theorems.
LEMMA StoreInvariant == Spec => []StoreInv
<1>1. StoreInv /\ Next => StoreInv'
  BY FileInvStep, MemInvStep, PhaseInvStep, WrittenInvStep, ZoneInvStep, IdentityInvStep
  DEF StoreInv
<1>2. StoreInv /\ [Next]_cfgVars => StoreInv'
  BY <1>1, StutterStoreInv
<1> QED
  BY <1>2, InitStoreInv, PTL DEF Spec

-----------------------------------------------------------------------------
(* The tables: a second invariant, on top of the first.                    *)

\* A memory whose tables have their types and lengths.
Tabled(m) ==
  /\ m.zone_id \in Int
  /\ m.scenes \in Seq(SceneEntry) /\ Len(m.scenes) <= MaxScenes
  /\ SensorTable(m.sensors)

\* Every configuration has integers where integers are looked up, so that what
\* is read from it fills the tables with integers.
TableInv ==
  /\ IsConfig(file) => HasNumbers(file)
  /\ Tabled(mem)
  /\ issued \subseteq Dsuids
  /\ lapsed \in BOOLEAN

\* A start from file f gives the identity and the tables of m.
Restores(f, m) ==
  /\ IsConfig(f)
  /\ \A junk \in Junk : /\ Read(f, junk).ids = m.ids
                        /\ Read(f, junk).scenes = Lasting(m.scenes)
                        /\ Read(f, junk).sensors = m.sensors

\* RunsAsStored, also while a zone is being stored.
StoredInv == (pc = "run" \/ purpose = "zone") /\ ~lapsed => Restores(file, mem)

LEMMA ReadTabled ==
  ASSUME NEW f, HasNumbers(f), NEW junk \in Junk
  PROVE  Tabled(Read(f, junk))
<1> DEFINE zone == Given(f.settings, "zone_id", junk)
           last == AfterGroup(f.sensor_values, MaxSensors, SensorParameters, zone)
           ivalue == last[Readable(f.sensor_values, MaxSensors)]
<1>1. Read(f, junk).zone_id \in Int
  BY DEF Read, Given, HasNumbers, DefaultZone
<1>2. SensorTable(Read(f, junk).sensors)
  BY ReadSensorsType DEF Read, HasNumbers
<1>3. ivalue \in Int
  <2>1. zone \in Int
    BY ConfigConstants DEF Given, HasNumbers
  <2>2. \A n \in DOMAIN f.sensor_values : \A p \in 1 .. Len(SensorParameters) :
          SensorParameters[p] \in DOMAIN f.sensor_values[n]
            => f.sensor_values[n][SensorParameters[p]] \in Int
    BY DEF HasNumbers, IntegerSections
  <2>3. Len(SensorParameters) \in Nat /\ MaxSensors \in Nat
    BY SensorParametersAre, TableSizes
  <2>4. \A n \in 0 .. Readable(f.sensor_values, MaxSensors) : last[n] \in Int
    BY <2>1, <2>2, <2>3, AfterGroupType
  <2> QED
    BY <2>3, <2>4, ReadableExists
<1>4. Read(f, junk).scenes = ReadScenes(f.scenes, ivalue)
  BY DEF Read
<1> HIDE DEF ivalue
<1>5. /\ Read(f, junk).scenes \in Seq(SceneEntry)
      /\ Len(Read(f, junk).scenes) <= MaxScenes
  BY <1>3, <1>4, ReadScenesType DEF HasNumbers
<1> QED
  BY <1>1, <1>2, <1>5 DEF Tabled

LEMMA BlankTabled == Tabled(Blank)
<1>1. Blank.scenes \in Seq(SceneEntry) /\ Len(Blank.scenes) = MaxScenes
  BY TableSizes DEF Blank, SceneEntry
<1>2. SensorTable(Blank.sensors)
  BY TableSizes DEF Blank, SensorTable
<1>3. Blank.zone_id \in Int
  BY DEF Blank, DefaultZone
<1> QED
  BY <1>1, <1>2, <1>3, TableSizes DEF Tabled

\* What is written has integers again, and gives back the memory.
LEMMA WrittenRestores ==
  ASSUME NEW m, Tabled(m)
  PROVE  HasNumbers(ConfigOf(m)) /\ Restores(ConfigOf(m), m)
<1>1. /\ ConfigOf(m).scenes = WriteScenes(m.scenes)
      /\ ConfigOf(m).sensor_values = WriteSensors(m.sensors)
      /\ \A p \in DOMAIN ConfigOf(m).settings : ConfigOf(m).settings[p] = m.zone_id
  BY DEF ConfigOf
<1>2. HasNumbers(ConfigOf(m))
  BY <1>1, WrittenSectionsInteger DEF HasNumbers, Tabled
<1>3. ASSUME NEW junk \in Junk
      PROVE  /\ Read(ConfigOf(m), junk).ids = m.ids
             /\ Read(ConfigOf(m), junk).scenes = Lasting(m.scenes)
             /\ Read(ConfigOf(m), junk).sensors = m.sensors
  <2>1. \A ivalue : ReadScenes(WriteScenes(m.scenes), ivalue) = Lasting(m.scenes)
    BY ScenesReadBack DEF Tabled
  <2>2. ReadSensors(WriteSensors(m.sensors)) = m.sensors
    BY SensorsReadBack DEF Tabled
  <2>3. Read(ConfigOf(m), junk).ids = m.ids
    BY ReadPasses, WrittenPasses
  <2> QED
    BY <1>1, <2>1, <2>2, <2>3 DEF Read
<1> QED
  BY <1>2, <1>3, WrittenPasses DEF Restores

\* Every number leaves an integer in an int.
LEMMA AsIntType ==
  ASSUME NEW v \in Nat
  PROVE  AsInt(v) \in Int
<1>1. IntWidth \in Nat \ {0}
  BY ConfigConstants
<1>2. v % IntWidth \in 0 .. IntWidth - 1
  BY <1>1
<1> QED
  BY <1>1, <1>2 DEF AsInt

\* The zone a request leaves behind is one it names, or the one before.
LEMMA ZoneAfterType ==
  ASSUME NEW request \in Requests, NEW zone \in Int
  PROVE  ZoneAfter(request, zone) \in Int
<1> DEFINE N == Len(request)
           Set == ZonesSet(request)
<1>1. N \in Nat /\ DOMAIN request = 1 .. N /\ \A i \in 1 .. N : request[i].value \in Nat
  BY RequestsAssumption
<1>2. Set \subseteq 1 .. N /\ \A i \in Set : \A j \in 1 .. i : j \in Set
  BY <1>1 DEF ZonesSet
<1>3. ASSUME Set # {}
      PROVE  \E i \in Set : i + 1 \notin Set
  <2> SUFFICES ASSUME \A i \in Set : i + 1 \in Set
               PROVE  FALSE
    OBVIOUS
  <2>1. 0 .. N \subseteq {0} \cup Set
    <3>1. 1 \in Set
      BY <1>1, <1>2, <1>3
    <3>2. \A n \in 1 .. N : n - 1 \in {0} \cup Set => n \in {0} \cup Set
      <4> SUFFICES ASSUME NEW n \in 1 .. N, n - 1 \in {0} \cup Set
                   PROVE  n \in Set
        OBVIOUS
      <4>1. CASE n = 1
        BY <3>1, <4>1
      <4>2. CASE n # 1
        <5>1. n - 1 \in Set
          BY <4>2
        <5>2. (n - 1) + 1 \in Set
          BY <5>1
        <5>3. (n - 1) + 1 = n
          BY <1>1
        <5> QED
          BY <5>2, <5>3
      <4> QED
        BY <4>1, <4>2
    <3> HIDE DEF Set, N
    <3> QED
      BY <1>1, <3>2, SetInduction
  <2>2. N \in Set
    BY <1>1, <1>2, <1>3, <2>1
  <2>3. N + 1 \in Set
    BY <2>2
  <2>4. N + 1 \in 1 .. N /\ N \in Nat
    <3> HIDE DEF Set
    <3> QED
      BY <1>1, <1>2, <2>3
  <2> QED
    BY <2>4
<1>4. ASSUME Set # {}
      PROVE  AsInt(request[CHOOSE i \in Set : i + 1 \notin Set].value) \in Int
  <2> HIDE DEF N, Set
  <2>1. (CHOOSE i \in Set : i + 1 \notin Set) \in Set
    BY <1>3, <1>4
  <2> QED
    BY <1>1, <1>2, <2>1, AsIntType
<1> QED
  BY <1>4 DEF ZoneAfter

LEMMA InitTableInv == Init => TableInv /\ StoredInv
<1> SUFFICES ASSUME Init
             PROVE  TableInv /\ StoredInv
  OBVIOUS
<1>1. IsConfig(file) => HasNumbers(file)
  BY UserFilesAssumption, FileKinds DEF Init
<1> QED
  BY <1>1, BlankTabled DEF Init, TableInv, StoredInv

LEMMA TableInvStep == StoreInv /\ TableInv /\ Next => TableInv'
<1> SUFFICES ASSUME StoreInv, TableInv, Next
             PROVE  TableInv'
  OBVIOUS
<1> USE DEF TableInv
<1>1. CASE StartWithout
  BY <1>1 DEF StartWithout
<1>2. CASE Start
  BY <1>2, ReadTabled DEF Start
<1>3. CASE Identify
  <2>1. PICK new \in Generated({k \in Kinds : mem.ids[k] = None}) : Adopt(new)
    BY <1>3 DEF Identify
  <2>2. issued' \subseteq Dsuids
    BY <2>1 DEF Adopt, Generated
  <2>3. Tabled(mem')
    BY <2>1 DEF Adopt, StoreInv, MemInv, Tabled
  <2> QED
    BY <1>3, <2>2, <2>3 DEF Identify
<1>4. CASE WriteOpen
  BY <1>4 DEF WriteOpen
<1>5. CASE WriteFill
  BY <1>5 DEF WriteFill
<1>6. CASE WriteFails
  BY <1>6, BlankTabled DEF WriteFails, WriteReturns
<1>7. CASE Rename
  <2>1. file' = ConfigOf(mem)
    BY <1>7 DEF Rename, StoreInv, WrittenInv
  <2> QED
    BY <1>7, <2>1, BlankTabled, WrittenRestores DEF Rename, WriteReturns
<1>8. CASE RenameFails
  BY <1>8, BlankTabled DEF RenameFails, WriteReturns
<1>9. ASSUME NEW request \in Requests, SetProperty(request)
      PROVE  TableInv'
  <2>1. Tabled(mem')
    BY <1>9, ZoneAfterType DEF SetProperty, StoreInv, MemInv, Tabled
  <2> QED
    BY <1>9, <2>1 DEF SetProperty
<1>12. CASE Respond
  BY <1>12 DEF Respond
<1>10. CASE Stop
  BY <1>10, BlankTabled DEF Stop
<1>11. CASE UserEdits
  <2>1. CASE file' \in UserFiles \cup {Absent}
    BY <1>11, <2>1, UserFilesAssumption, FileKinds DEF UserEdits
  <2>2. CASE /\ IsConfig(file)
             /\ file' \in {[f EXCEPT !.ids = file.ids] : f \in {g \in UserFiles : IsConfig(g)}}
    <3>1. PICK f \in UserFiles : IsConfig(f) /\ file' = [f EXCEPT !.ids = file.ids]
      BY <2>2
    <3>2. HasNumbers(f) /\ HasFields(f)
      BY <3>1, UserFilesAssumption, FileKinds
    <3>3. /\ file'.settings = f.settings /\ file'.scenes = f.scenes
          /\ file'.sensor_values = f.sensor_values
      BY <3>1, <3>2 DEF HasFields
    <3> QED
      BY <1>11, <3>2, <3>3 DEF UserEdits, HasNumbers
  <2> QED
    BY <1>11, <2>1, <2>2 DEF UserEdits
<1> QED
  BY <1>1, <1>2, <1>3, <1>4, <1>5, <1>6, <1>7, <1>8, <1>9, <1>10, <1>11, <1>12 DEF Next, Write

LEMMA StoredInvStep == StoreInv /\ TableInv /\ StoredInv /\ Next => StoredInv'
<1> SUFFICES ASSUME StoreInv, TableInv, StoredInv, Next
             PROVE  StoredInv'
  OBVIOUS
<1> USE DEF StoredInv
<1>0. /\ pc \in {"off", "identify", "run"} => purpose = "none"
      /\ pc \in {"open", "write", "rename"} => purpose \in {"template", "start", "zone"}
      /\ pc = "respond" => purpose = "zone"
      /\ purpose = "template" => mem = Blank
  BY DEF StoreInv, PhaseInv
<1>1. CASE StartWithout \/ Start \/ Identify \/ Stop \/ UserEdits
  BY <1>0, <1>1 DEF StartWithout, Start, Identify, Stop, UserEdits
<1>6. CASE Respond
  BY <1>0, <1>6 DEF Respond
<1>2. CASE WriteOpen \/ WriteFill
  BY <1>2 DEF WriteOpen, WriteFill
<1>3. CASE WriteFails \/ RenameFails
  BY <1>3 DEF WriteFails, RenameFails, WriteReturns
<1>4. CASE Rename
  <2>1. CASE purpose = "template"
    BY <1>4, <2>1 DEF Rename, WriteReturns
  <2>2. CASE purpose # "template"
    <3>1. file' = ConfigOf(mem) /\ mem' = mem
      BY <1>4, <2>2 DEF Rename, WriteReturns, StoreInv, WrittenInv
    <3> QED
      BY <3>1, WrittenRestores DEF TableInv
  <2> QED
    BY <2>1, <2>2
<1>5. ASSUME NEW request \in Requests, SetProperty(request)
      PROVE  StoredInv'
  <2>1. mem'.ids = mem.ids /\ mem'.scenes = mem.scenes /\ mem'.sensors = mem.sensors
    BY <1>5 DEF SetProperty, StoreInv, MemInv
  <2>2. pc = "run" /\ file' = file /\ lapsed' = lapsed
    BY <1>5 DEF SetProperty
  <2> QED
    BY <2>1, <2>2 DEF Restores
<1> QED
  BY <1>1, <1>2, <1>3, <1>4, <1>5, <1>6 DEF Next, Write

LEMMA TableInvariant == Spec => [](StoreInv /\ TableInv /\ StoredInv)
<1>1. StoreInv /\ TableInv /\ StoredInv /\ [Next]_cfgVars => TableInv' /\ StoredInv'
  <2>1. CASE UNCHANGED cfgVars
    BY <2>1 DEF cfgVars, TableInv, StoredInv
  <2> QED
    BY <2>1, TableInvStep, StoredInvStep
<1> QED
  BY <1>1, InitTableInv, StoreInvariant, PTL DEF Spec

-----------------------------------------------------------------------------
(* The theorems.                                                           *)

\* write_config never leaves a torn venta.cfg, wherever it fails or is killed
\* (configuration.c:340-349): what is renamed is a whole configuration.
THEOREM FileNeverTorn == Spec => NeverTorn
<1>1. StoreInv /\ Next => (file' # file /\ file' = Torn => pc = "off")
  <2> SUFFICES ASSUME StoreInv, Next, file' # file, file' = Torn
               PROVE  pc = "off"
    OBVIOUS
  <2>1. ~Rename
    <3>1. Rename => file' = ConfigOf(mem)
      BY DEF Rename, StoreInv, WrittenInv
    <3> QED
      BY <3>1, WrittenPasses, FileKinds
  <2> QED
    BY <2>1 DEF Next, Write, StartWithout, Start, Identify, WriteOpen, WriteFill, WriteFails,
                RenameFails, SetProperty, Respond, Stop, UserEdits
<1>2. StoreInv /\ [Next]_cfgVars => [file' # file /\ file' = Torn => pc = "off"]_cfgVars
  BY <1>1
<1> QED
  BY <1>2, StoreInvariant, PTL DEF Spec, NeverTorn

\* A zone the DSS has got an OK for is read back by every later start, unless a
\* write failed, the user edits the file (vdsd.c:245-249) or a later request took
\* its place in the file (configuration.c:348) that was still to be answered.
THEOREM AckedZonesAreStored == Spec => []AckedZoneStored
<1>1. StoreInv => AckedZoneStored
  BY ReadPasses DEF StoreInv, ZoneInv, FileZone, AckedZoneStored
<1> QED
  BY <1>1, StoreInvariant, PTL

\* Whatever sections the file has, partial, with gaps or too many, read_config
\* keeps within its tables (configuration.c:77-155), and the integer that is
\* left in ivalue when a dsId is missing (117-119) is an integer all the same.
THEOREM StoreTyped == Spec => []TypeOK
<1>1. StoreInv /\ TableInv => TypeOK
  <2> SUFFICES ASSUME StoreInv, TableInv
               PROVE  TypeOK
    OBVIOUS
  <2>1. pc = "rename" => IsConfig(tmp)
    BY WrittenPasses DEF StoreInv, WrittenInv
  <2>2. purpose \in {"none", "template", "start", "zone"}
    BY DEF StoreInv, PhaseInv
  <2>3. Len(mem.sensors) <= MaxSensors
    BY SensorTableLength, TableSizes DEF TableInv, Tabled
  <2> QED
    BY <2>1, <2>2, <2>3 DEF StoreInv, MemInv, PhaseInv, TableInv, Tabled, TypeOK
<1> QED
  BY <1>1, TableInvariant, PTL

\* For tables of every size, what write_config (253-338) stores of the scenes
\* and sensors is what read_config (76-155) makes of it: a restart changes
\* nothing the daemon runs with, but for scenes behind a dsId -1.
THEOREM RestartChangesNothing == Spec => []RunsAsStored
<1>1. StoredInv => RunsAsStored
  BY DEF StoredInv, Restores, RunsAsStored
<1> QED
  BY <1>1, TableInvariant, PTL

-----------------------------------------------------------------------------
(* ConfigStore implements Identity.                                        *)

\* The dsuids of a running daemon, or of none.
LEMMA StoredIdentities == StoreInv => Stored \in Identities
BY FileKinds, BlankFields DEF StoreInv, FileInv, Stored

LEMMA InitIdentity == Init => Id!IdInit
<1> SUFFICES ASSUME Init
             PROVE  Id!IdInit
  OBVIOUS
<1>1. Stored \in Identities
  BY InitStoreInv, StoredIdentities
<1>2. Running = NoIdentity
  BY DEF Init, Running
<1> QED
  BY <1>1, <1>2 DEF Id!IdInit, Id!Identities, Identities, Id!Nobody, NoIdentity

IdNext == Id!Incarnate \/ Id!StoreLater \/ Id!Vanish \/ Id!Forget

\* Steps that leave the file and the identity alone.
LEMMA QuietSteps ==
  ASSUME StoreInv, StartWithout \/ Start \/ Identify \/ WriteOpen \/ WriteFill \/ Respond
  PROVE  Stored' = Stored /\ Running' = Running
<1> USE DEF StoreInv, PhaseInv
<1>1. CASE StartWithout
  BY <1>1 DEF StartWithout, Stored, Running
<1>2. CASE Start
  BY <1>2 DEF Start, Stored, Running
<1>3. CASE Identify
  BY <1>3 DEF Identify, Stored, Running
<1>4. CASE WriteOpen
  BY <1>4 DEF WriteOpen, Stored, Running
<1>5. CASE WriteFill
  BY <1>5 DEF WriteFill, Stored, Running
<1>6. CASE Respond
  BY <1>6 DEF Respond, Stored, Running
<1> QED
  BY <1>1, <1>2, <1>3, <1>4, <1>5, <1>6

\* A set-property request may begin a write, and changes no dsuid.
LEMMA SetPropertyQuiet ==
  ASSUME StoreInv, NEW request \in Requests, SetProperty(request)
  PROVE  Stored' = Stored /\ Running' = Running
<1>1. mem'.ids = mem.ids
  BY DEF SetProperty, StoreInv, MemInv
<1>2. pc = "run" /\ (pc' = "run" \/ (pc' = "open" /\ purpose' = "zone")) /\ file' = file
  BY DEF SetProperty
<1> QED
  BY <1>1, <1>2 DEF Stored, Running

\* A write that ends, whether it has replaced the file or not, is where an
\* incarnation becomes visible, or where a stored identity is completed.
LEMMA WriteEnds ==
  ASSUME StoreInv, WriteFails \/ Rename \/ RenameFails
  PROVE  IdNext \/ (Stored' = Stored /\ Running' = Running)
<1> USE DEF StoreInv, PhaseInv
<1>1. purpose \in {"template", "start", "zone"} /\ pc \in {"open", "write", "rename"}
  BY DEF WriteFails, Rename, RenameFails
<1>2. \/ Stored' = Stored /\ file' = file
      \/ Rename /\ Stored' = mem.ids
  <2>1. CASE Rename
    <3>1. file' = ConfigOf(mem)
      BY <2>1 DEF Rename, WrittenInv
    <3> QED
      BY <2>1, <3>1, WrittenPasses DEF Stored
  <2> QED
    BY <2>1 DEF WriteFails, RenameFails, Stored
<1>3. CASE purpose = "template"
  <2>1. Running = NoIdentity /\ Running' = NoIdentity
    BY <1>1, <1>3 DEF Running, WriteFails, Rename, RenameFails, WriteReturns
  <2>2. Stored = NoIdentity /\ mem.ids = NoIdentity
    BY <1>3, FileKinds, BlankFields DEF Stored
  <2> QED
    BY <1>2, <2>1, <2>2
<1>4. CASE purpose = "start"
  <2>1. Running = NoIdentity /\ Running' = mem.ids
    BY <1>1, <1>4 DEF Running, WriteFails, Rename, RenameFails, WriteReturns
  <2>2. mem.ids \in [Kinds -> Dsuids] /\ Id!Completes(mem.ids, Stored)
    BY <1>4 DEF IdentityInv
  <2> QED
    BY <1>2, <2>1, <2>2 DEF IdNext, Id!Incarnate, Id!Nobody, NoIdentity
<1>5. CASE purpose = "zone"
  <2>1. Running = mem.ids /\ Running' = mem.ids
    BY <1>1, <1>5 DEF Running, WriteFails, Rename, RenameFails, WriteReturns
  <2>2. mem.ids # NoIdentity
    <3>1. mem.ids \in [Kinds -> Dsuids]
      BY <1>5 DEF IdentityInv
    <3>2. mem.ids["vdc"] \in Dsuids /\ NoIdentity["vdc"] = None
      BY <3>1 DEF Kinds, NoIdentity
    <3> QED
      BY <3>2, ConfigConstants
  <2> QED
    BY <1>2, <2>1, <2>2 DEF IdNext, Id!StoreLater, Id!Nobody, NoIdentity
<1> QED
  BY <1>1, <1>3, <1>4, <1>5

\* The end of the daemon, and what the user does while there is none.
LEMMA OutsideSteps ==
  ASSUME StoreInv, StoreInv', Stop \/ UserEdits
  PROVE  IdNext
<1>1. CASE Stop
  <2>1. Running' = NoIdentity /\ Stored' = Stored
    BY <1>1 DEF Stop, Running, Stored
  <2> QED
    BY <2>1 DEF IdNext, Id!Vanish, Id!Nobody, NoIdentity
<1>2. CASE UserEdits
  <2>1. Running = NoIdentity /\ Running' = NoIdentity
    BY <1>2 DEF UserEdits, Running, StoreInv, PhaseInv
  <2>2. Stored' \in Identities
    BY FileKinds, BlankFields DEF StoreInv, FileInv, Stored
  <2> QED
    BY <2>1, <2>2 DEF IdNext, Id!Forget, Id!Nobody, Id!Identities, Identities, NoIdentity
<1> QED
  BY <1>1, <1>2

\* Whatever fails, and wherever the daemon is killed, it runs under the dsuids
\* that were stored and only invents missing ones (main.c:231-248): the
\* specification of the file and its writer implements module Identity.
THEOREM IdentityIsKept == Spec => IdentityKept
<1>1. StoreInv /\ StoreInv' /\ Next => [IdNext]_(Id!idVars)
  <2> SUFFICES ASSUME StoreInv, StoreInv', Next
               PROVE  IdNext \/ (Stored' = Stored /\ Running' = Running)
    BY DEF Id!idVars
  <2>1. CASE StartWithout \/ Start \/ Identify \/ WriteOpen \/ WriteFill \/ Respond
    BY <2>1, QuietSteps
  <2>2. CASE \E request \in Requests : SetProperty(request)
    BY <2>2, SetPropertyQuiet
  <2>3. CASE WriteFails \/ Rename \/ RenameFails
    BY <2>3, WriteEnds
  <2>4. CASE Stop \/ UserEdits
    BY <2>4, OutsideSteps
  <2> QED
    BY <2>1, <2>2, <2>3, <2>4 DEF Next, Write
<1>2. UNCHANGED cfgVars => [IdNext]_(Id!idVars)
  BY DEF cfgVars, Id!idVars, Stored, Running
<1>3. StoreInv /\ StoreInv' /\ [Next]_cfgVars => [IdNext]_(Id!idVars)
  BY <1>1, <1>2
<1> QED
  BY <1>3, InitIdentity, StoreInvariant, PTL DEF Spec, IdentityKept, Id!IdSpec, IdNext

=============================================================================

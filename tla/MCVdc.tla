------------------------------- MODULE MCVdc --------------------------------
(***************************************************************************)
(* Constants for the runs of Vdc.                                          *)
(***************************************************************************)
EXTENDS Vdc

MCThreads == {"main", "network"}

\* The order of the answer, with none and one of the measured quantities.
MCKeys == <<"fan", "sleep", "auto">>
MCKeysOne == <<"hum", "fan", "sleep", "auto">>

\* Control settings at the start: any, and only one.
MCStarts == [fan : 1 .. 3, sleep : 0 .. 1, auto : 0 .. 1]
MCOneStart == {[fan |-> 1, sleep |-> 0, auto |-> 0]}

\* Sensor tables.
MCNone == <<>>
MCOne == <<"hum">>

\* Scenes: [fan, sleep, auto].
Sc(fan, sleep, auto) == [fan |-> fan, sleep |-> sleep, auto |-> auto]
MCSleepScenes == {Sc(-1, 1, -1), Sc(-1, 0, -1)}
MCSampleScenes == {Sc(1, 1, -1), Sc(2, 1, -1), Sc(3, 1, -1), Sc(-1, -1, 1), Sc(-1, 1, -1)}
MCMixedScenes == {Sc(3, 1, 0), Sc(2, 0, 1)}
MCReadScene == {Sc(-1, -1, -1)}
MCNoScenes == {}

=============================================================================

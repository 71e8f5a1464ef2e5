--------------------------- MODULE MCConfigStore ----------------------------
(***************************************************************************)
(* Constants for the runs of ConfigStore.                                  *)
(***************************************************************************)
EXTENDS ConfigStore, TLC

CONSTANTS d1, d2, d3, d4

MCDsuids == {d1, d2, d3, d4}

\* d4 is the one a user writes into a file.
MCSymmetry == Permutations({d1, d2, d3})

\* Sections of scenes: complete, partial, without a dsId, with a gap, with
\* negative numbers, too many.
Off == "dsId" :> 19 @@ "fan" :> 0 @@ "mode_automatic" :> 0 @@ "mode_sleep" :> 0
FanOnly == "dsId" :> 5 @@ "fan" :> 1
Sleep == "dsId" :> 1 @@ "mode_sleep" :> 1
NoId == "fan" :> 2 @@ "mode_sleep" :> 1
Negative == "dsId" :> -5 @@ "fan" :> -2 @@ "mode_automatic" :> 1
Nothing == "dsId" :> -1 @@ "fan" :> 1

MCSceneGroups ==
  {<<>>, 0 :> NoId, 0 :> Off @@ 1 :> NoId @@ 2 :> FanOnly,
   0 :> FanOnly @@ 2 :> Off, 0 :> Negative @@ 1 :> Nothing @@ 2 :> FanOnly,
   0 :> Sleep @@ 1 :> FanOnly @@ 2 :> Off @@ 3 :> NoId}

MCSensorGroups ==
  {<<>>, 0 :> ("value_name" :> "hum" @@ "sensor_type" :> 2)
           @@ 1 :> ("sensor_type" :> 1 @@ "sensor_usage" :> 7)}

Config(ids, settings, scenes, sensors) ==
  [is |-> "config", ids |-> ids, settings |-> settings, mandatory |-> TRUE,
   scenes |-> scenes, sensor_values |-> sensors]

\* Files of a user: with and without a zone, one that has a dsuid for the vDC only,
\* one that lacks what is mandatory and one that is no configuration.
MCUserFiles ==
  {Config(NoIdentity, <<>>, scenes, sensors) :
     scenes \in MCSceneGroups, sensors \in MCSensorGroups}
  \cup {Config(NoIdentity, "zone_id" :> 3, scenes, <<>>) : scenes \in MCSceneGroups}
  \cup {Config([NoIdentity EXCEPT !["vdc"] = d4], "zone_id" :> 3, <<>>, <<>>),
        Config(NoIdentity, <<>>, 0 :> FanOnly, <<>>),
        [Config(NoIdentity, <<>>, <<>>, <<>>) EXCEPT !.mandatory = FALSE], Torn}

\* ivalue before the first lookup.
MCJunk == {-1, 0, 5}

Zone(z) == [is |-> "zoneID", value |-> z]
Other == [is |-> "unknown", value |-> 0]

\* The largest two zones do not fit into an int of MCIntWidth: they come out as 9
\* and as -1.
MCIntWidth == 131072
MCRequests ==
  {<<>>, <<Zone(8), Other>>, <<Zone(7), Zone(MCIntWidth + 9)>>, <<Zone(MCIntWidth - 1)>>}

MCCalledScenes == {-5, -1, 0, 1, 5, 9, 19, 51}

=============================================================================

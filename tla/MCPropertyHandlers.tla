------------------------ MODULE MCPropertyHandlers -------------------------
(***************************************************************************)
(* Constants for the run of PropertyHandlers.                              *)
(***************************************************************************)
EXTENDS PropertyHandlers

MCThreads == {Main, Net}

El(name) == [name |-> name, sub |-> <<>>, value |-> <<>>]
Sub(name, n) == [El(name) EXCEPT !.sub = <<n>>]
Zone(z) == [El("zoneID") EXCEPT !.value = <<z>>]

Get(to, elements) == [kind |-> "get", to |-> to, elements |-> elements]
Set(to, elements) == [kind |-> "set", to |-> to, elements |-> elements]
Bare(kind, to) == [kind |-> kind, to |-> to, elements |-> <<>>]

\* Queries: none, one and two properties, with one sensor named, one beyond the
\* table, two different ones, one behind a property that names none, a name that is
\* missing, and an unreadable name behind a walk.
MCGets ==
  {Get("device", q) :
     q \in {<<>>, <<El("wildcard"), El("nested"), El("sensorDescriptions")>>,
            <<El("sensorStates")>>, <<Sub("sensorStates", 1)>>, <<Sub("sensorStates", 5)>>,
            <<Sub("sensorStates", 0), Sub("sensorStates", 1)>>,
            <<El("plain"), El("sensorSettings"), Sub("sensorStates", 1)>>,
            <<Sub("plain", Unnamed), El("sensorDescriptions"), El("sensorStates")>>,
            <<Sub("sensorStates", -2), El("unreadable")>>}}

\* Zones below and above 16 bits; refused before, between and after zones.
MCSets ==
  {Set("device", s) :
     s \in {<<>>, <<El("wildcard")>>, <<El("plain")>>, <<Zone(7)>>, <<Zone(9), El("plain")>>,
            <<Zone(7), Zone(65545)>>, <<Zone(7), El("zoneID"), Zone(9)>>,
            <<Zone(9), El("wildcard"), El("unreadable")>>}}

MCOthers ==
  {Get("vdc", q) :
     q \in {<<>>, <<El("plain"), El("nested")>>, <<El("zoneID"), El("wildcard"), El("plain")>>,
            <<El("unreadable")>>}}
  \cup {Get("other", <<El("plain")>>), Set("lib", <<Zone(7)>>),
   Bare("ping", "lib"), Bare("ping", "other"), Bare("remove", "device"),
   Bare("save", "device"), Bare("generic", "device")}

MCRequests == MCGets \cup MCSets \cup MCOthers

=============================================================================

------------------------- MODULE MCServiceDiscovery -------------------------
(* Instances of ServiceDiscovery for TLC.                                  *)
EXTENDS ServiceDiscovery, TLC

CONSTANTS name, tagged, plain, labelled, portless, scalar

\* Looking a service up by its name, or by its name and a tag.
BothQueries == {name, tagged}
AllOffers == (plain :> {name}) @@ (labelled :> BothQueries) @@ (portless :> {name})
             @@ (scalar :> {})
\* A service that has no port, and an entry that is no object.
AllFatal == (plain :> {}) @@ (labelled :> {}) @@ (portless :> {name})
            @@ (scalar :> BothQueries)

\* Three instances, with the tag in most of the places it can be in; one that
\* lacks its port; one in front of an entry that is no object; nothing.
AllDocs ==
  {<<a, b, labelled>> : a, b \in {plain, labelled}}
  \cup {<<labelled, plain, plain>>, <<plain, plain, plain>>}
  \cup {<<portless>>, <<labelled, scalar>>, <<>>}

\* A service with three instances.
OneQuery == {name}
PlainOnly == plain :> {name}
Sound == plain :> {}
OneDoc == {<<plain, plain, plain>>}
=============================================================================

----------------------------- MODULE MCLifecycle -----------------------------
(***************************************************************************)
(* Small instances of Lifecycle for TLC.                                   *)
(***************************************************************************)
EXTENDS Lifecycle

\* Two files as Serialize writes them, the marker's bytes in the data of one;
\* one whose name holds the marker, one cut off before the marker, one that has
\* no table, and an empty one.
SomeFiles ==
  [cells : {<<"node", "separator", "value", "marker", "map", "name">>,
            <<"node", "separator", "marker", "marker", "map", "name">>,
            <<"node", "separator", "value", "marker", "map", "marker">>,
            <<"node", "separator", "value">>,
            <<"marker", "map", "name">>, <<>>},
   nodeCount : {1}]
=============================================================================

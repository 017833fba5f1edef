------------------------------ MODULE MCDrivers ------------------------------
(***************************************************************************)
(* Small instances of the four parts; the initial states of one part are   *)
(* multiplied by those of the others.                                      *)
(***************************************************************************)
EXTENDS Drivers

\* Two devices of each board, the switches of one port in both directions.
SomeDevices == {"display", "light", "warning_led", "white", "front_light"}

\* The lists of the server: no destination, one, two, and one of them as often
\* as the parser can read if the text has nothing else; with any other field it
\* is rejected.
FirstNode == CHOOSE node \in Nodes : TRUE
ServerDestinations ==
  {<<>>} \cup OneDestination \cup {<<FirstNode, node>> : node \in Nodes \ {FirstNode}}
    \cup {[i \in 1..(TokenCount - 1) |-> FirstNode]}

ExpanderEventLimit == [switch |-> 3, fault |-> 2, restart |-> 1]
FlashEventLimit == [call |-> 2, fault |-> 1, power |-> 1]
DisplayEventLimit == [draw |-> 3, fault |-> 2, block |-> 1]
=============================================================================

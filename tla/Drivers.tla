------------------------------- MODULE Drivers -------------------------------
(***************************************************************************)
(* What stands between the nodes and the world: the drivers of the port    *)
(* expander, of the flash memory and of the display, and the texts of the  *)
(* messages.                                                               *)
(*                                                                         *)
(* They share no state: the buses are locked for each transfer, and the    *)
(* display and the flash memory are switched by their users.  A behaviour  *)
(* therefore exercises one of them, chosen in the initial state.           *)
(***************************************************************************)
EXTENDS Expander, Flash, NodeMapper, Display

VARIABLE driver         \* what the behaviour exercises

Exercised == {"expander", "flash", "mapper", "display"}

driversVars == <<driver, expanderVars, flashVars, mapperVars, displayVars>>

\* What is not exercised has one initial state.
DriversInit ==
  /\ driver \in Exercised
  /\ ExpanderInit /\ FlashInit /\ MapperInit /\ DisplayInit
  /\ driver # "expander" => board = "T01"
  /\ driver # "mapper" => node_msg.source = CHOOSE n \in Nodes : TRUE
  /\ driver # "mapper" => node_msg.value_0 = CHOOSE v \in Values : TRUE
  /\ driver # "display" => x_current = CHOOSE x \in Margins : TRUE

Only(name) == driver = name /\ UNCHANGED driver

DriversNext ==
  \/ Only("expander") /\ ExpanderNext /\ UNCHANGED <<flashVars, mapperVars, displayVars>>
  \/ Only("flash") /\ FlashNext /\ UNCHANGED <<expanderVars, mapperVars, displayVars>>
  \/ Only("mapper") /\ MapperNext /\ UNCHANGED <<expanderVars, flashVars, displayVars>>
  \/ Only("display") /\ DisplayNext /\ UNCHANGED <<expanderVars, flashVars, mapperVars>>

DriversSpec == DriversInit /\ [][DriversNext]_driversVars

DriversTypeOK ==
  /\ driver \in Exercised
  /\ ExpanderTypeOK /\ FlashTypeOK /\ MapperTypeOK /\ DisplayTypeOK
=============================================================================

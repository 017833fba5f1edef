----------------------------- MODULE NodeMapper -----------------------------
(***************************************************************************)
(* node.mapper.c: the text of a node message, and the message that is made *)
(* of a text, in a buffer of the dispatcher that still holds an earlier    *)
(* message.                                                                *)
(*                                                                         *)
(* A text is the record of its fields; a field may be Missing.  The lwjson *)
(* parser is external: it accepts or rejects a text as a whole, and it     *)
(* rejects one of more than TokenCount tokens.                             *)
(***************************************************************************)
EXTENDS Integers, Sequences

CONSTANTS Nodes,        \* ids of nodes
          Values,       \* what value_id may carry
          TokenCount,   \* the tokens the parser may use
          ServerCommands, DataSizes,    \* of the texts of the server
          TextDestinations,             \* the lists dst_id of the texts of the server
          Missing, Broken

Commands ==
  {"DO_NOTHING", "REQUEST_VERSION", "RESPONSE_VERSION", "UPDATE_FIRMWARE", "SET_MODE", "SET_LIGHT",
   "SET_INTRUSION", "SET_WARNING", "UPDATE_HUMIDITY", "UPDATE_TEMPERATURE", "UPDATE_DOOR_STATE"}

VARIABLES text,         \* the text received last
          node_msg,     \* the buffer
          exit_code,    \* whether the text was accepted
          original      \* the message the text was made of, if a node of this firmware sent it

mapperVars == <<text, node_msg, exit_code, original>>

\* What the two boards send: one destination each.
SentCommands == {"RESPONSE_VERSION", "SET_LIGHT", "SET_INTRUSION", "UPDATE_HUMIDITY",
                 "UPDATE_TEMPERATURE", "UPDATE_DOOR_STATE"}
OneDestination == {<<n>> : n \in Nodes}
Sendable == [source : Nodes, dest_array : OneDestination, cmd_id : SentCommands, value_0 : Values]

-----------------------------------------------------------------------------
(* node_mapper_serialize_message                                           *)

Text(source, dest_array, cmd_id, value_id, data) ==
  [src_id |-> source, dst_id |-> dest_array, cmd_id |-> cmd_id, value_id |-> value_id, data |-> data]

\* The number of values in the object data, for the commands that have one.
DataSize == [RESPONSE_VERSION |-> 3, SET_LIGHT |-> 1, SET_INTRUSION |-> 1, UPDATE_HUMIDITY |-> 3,
             UPDATE_TEMPERATURE |-> 2, UPDATE_DOOR_STATE |-> 1]

MutantSerialize(m) ==
  IF m.cmd_id \in DOMAIN DataSize
  THEN Text(m.source, m.dest_array, m.cmd_id,
            IF m.cmd_id = "SET_LIGHT" THEN m.value_0 ELSE Missing, DataSize[m.cmd_id])
  ELSE Text(m.source, m.dest_array, "DO_NOTHING", Missing, 0)

\* Every other command becomes DO_NOTHING.
Serialize(m) ==
  IF m.cmd_id \in DOMAIN DataSize
  THEN Text(m.source, m.dest_array, m.cmd_id,
            IF m.cmd_id \in {"SET_LIGHT", "SET_INTRUSION"} THEN m.value_0 ELSE Missing,
            DataSize[m.cmd_id])
  ELSE Text(m.source, m.dest_array, "DO_NOTHING", Missing, 0)

-----------------------------------------------------------------------------
(* node_mapper_deserialize_message                                         *)

\* One token for each field, each destination and each value.
Present(field) == IF field = Missing THEN 0 ELSE 1
Tokens(t) ==
  Present(t.src_id) + (IF t.dst_id = Missing THEN 0 ELSE 1 + Len(t.dst_id)) + Present(t.cmd_id)
    + (IF t.data = 0 THEN 0 ELSE 1 + t.data)

Parses(t) == t # Broken /\ Tokens(t) <= TokenCount

CommandsWithValue == {"SET_MODE", "SET_LIGHT", "SET_INTRUSION", "SET_WARNING"}

MutantDestinations(t, buffer) ==
  IF t.dst_id = Missing THEN buffer.dest_array ELSE buffer.dest_array \o t.dst_id

\* The array is emptied first and then filled, one entry for each token under
\* dst_id, whatever there is room for in it.
DestinationsOf(t, buffer) == IF t.dst_id = Missing THEN <<>> ELSE t.dst_id

\* Fields that the text does not have keep what the buffer held, but for the
\* destinations and the command.
Filled(t, buffer) ==
  LET cmd_id == IF t.cmd_id = Missing THEN "DO_NOTHING" ELSE t.cmd_id
  IN  [source |-> IF t.src_id = Missing THEN buffer.source ELSE t.src_id,
       dest_array |-> DestinationsOf(t, buffer),
       cmd_id |-> cmd_id,
       value_0 |-> IF cmd_id \in CommandsWithValue /\ t.value_id # Missing
                   THEN t.value_id ELSE buffer.value_0]

Deserialize(t) ==
  /\ text' = t
  /\ IF Parses(t)
     THEN exit_code' = "STD_SUCCESS" /\ node_msg' = Filled(t, node_msg)
     ELSE exit_code' = "STD_FAILURE" /\ node_msg' = [node_msg EXCEPT !.dest_array = <<>>]

-----------------------------------------------------------------------------
(* What arrives: texts of other nodes, and texts of the server.            *)

Texts(commands, sizes) ==
  {Broken} \cup
  {t \in [src_id : Nodes \cup {Missing}, dst_id : TextDestinations \cup {Missing},
          cmd_id : commands \cup {Missing}, value_id : Values \cup {Missing}, data : sizes] :
     t.value_id # Missing => t.data > 0}

\* What is missing, and what is broken, is nothing that a message or a text may hold.
ASSUME TextAssumption ==
  /\ TokenCount \in Nat \ {0}
  /\ ServerCommands \subseteq Commands /\ DataSizes \subseteq Nat
  /\ TextDestinations \subseteq Seq(Nodes)
  /\ Missing \notin Nodes /\ Missing \notin Values /\ Missing \notin Commands
  /\ Missing \notin OneDestination /\ Missing \notin Sendable
  /\ Broken \notin {Serialize(m) : m \in Sendable}

MapperInit ==
  /\ text = Broken /\ exit_code = "STD_FAILURE" /\ original = Missing
  /\ node_msg \in [source : Nodes, dest_array : {<<>>}, cmd_id : {"DO_NOTHING"}, value_0 : Values]

FromNode(m) == Deserialize(Serialize(m)) /\ original' = m
FromServer(t) == Deserialize(t) /\ original' = Missing

MapperNext ==
  \/ \E m \in Sendable : FromNode(m)
  \/ \E t \in Texts(ServerCommands, DataSizes) : FromServer(t)

MapperSpec == MapperInit /\ [][MapperNext]_mapperVars

-----------------------------------------------------------------------------
(* Properties.                                                             *)

MapperTypeOK ==
  /\ text = Broken \/ text.cmd_id \in Commands \cup {Missing}
  /\ original \in Sendable \cup {Missing}
  /\ exit_code \in {"STD_SUCCESS", "STD_FAILURE"}
  /\ node_msg \in [source : Nodes, dest_array : Seq(Nodes), cmd_id : Commands, value_0 : Values]

\* A message that a node of this firmware sends is accepted by another one, and
\* it arrives as it was sent, whatever the buffer held before.
RoundTrip ==
  original # Missing =>
    /\ exit_code = "STD_SUCCESS"
    /\ node_msg.source = original.source /\ node_msg.dest_array = original.dest_array
    /\ node_msg.cmd_id = original.cmd_id
    /\ original.cmd_id \in {"SET_LIGHT", "SET_INTRUSION"} => node_msg.value_0 = original.value_0

\* dest_array has no bound of its own in the code.  Every token under dst_id is
\* written, a node named twice is written twice, and what keeps the number of
\* entries below that of the parser's tokens, however many texts were read into
\* the buffer, is that each text is read into an emptied array and that the
\* parser spends one token on the list itself.
DestinationsBounded == Len(node_msg.dest_array) < TokenCount
=============================================================================

------------------------------ MODULE Expander ------------------------------
(***************************************************************************)
(* The port expander MCP23017: the driver's image of its registers, the    *)
(* registers themselves, and the devices the two boards switch with it.    *)
(*                                                                         *)
(* Every function of the driver changes its image first and then writes    *)
(* the register; the boards log an error of the bus and go on.  One task   *)
(* uses the driver after the initialisation.                               *)
(***************************************************************************)
EXTENDS Integers, Sequences

CONSTANTS Used,             \* the devices that are switched
          ExpanderLimit     \* how often each event may happen

ExpanderEvents == {"switch", "fault", "restart"}

ASSUME ExpanderLimitAssumption == ExpanderLimit \in [ExpanderEvents -> Nat]

VARIABLES board,            \* the board the firmware runs on
          image, chip,      \* what the driver remembers, and the registers
          calls,            \* calls of the driver still to make
          asked, clean,     \* the last operation, and whether every write succeeded
          expander_left     \* events that may still happen

expanderVars == <<board, image, chip, calls, asked, clean, expander_left>>

Pins == 0..7
Ports == {"A", "B"}
Registers == {"direction", "out", "cmp_mode", "cmp_value", "polarity", "pullup", "control"}
Configuration == <<"config", "both">>
Cells == (Registers \X Ports) \cup {Configuration}

ExpanderHappens(event) ==
  /\ expander_left[event] > 0
  /\ expander_left' = [expander_left EXCEPT ![event] = @ - 1]

-----------------------------------------------------------------------------
(* Calls of the driver: a call is the sequence of its register writes.     *)

SetBits(register, port, pins, high) == [cell |-> <<register, port>>, pins |-> pins, high |-> high]

SetPortDirection(port, input)     == <<SetBits("direction", port, Pins, input)>>
SetPinDirection(port, pin, input) == <<SetBits("direction", port, {pin}, input)>>
SetPortOut(port, high)            == <<SetBits("out", port, Pins, high)>>
SetPinOut(port, pin, high)        == <<SetBits("out", port, {pin}, high)>>

SetPinInt(port, pin, config) ==
  [i \in 1..5 |->
    LET register == <<"cmp_mode", "cmp_value", "polarity", "pullup", "control">>[i]
    IN  SetBits(register, port, {pin}, config[register])]

\* Reset values of the chip, with which the driver's image starts as well.
Defaults == [cell \in Cells |-> IF cell[1] = "direction" THEN Pins ELSE {}]

\* INTPOL, DISSLW and MIRROR.
Configure == <<[cell |-> Configuration, pins |-> {1, 4, 6}, high |-> TRUE]>>

InitExpander ==
  << Configure,
     SetPortDirection("A", FALSE), SetPortOut("A", FALSE),
     SetPortDirection("B", FALSE), SetPortOut("B", FALSE) >>

-----------------------------------------------------------------------------
(* The devices: which pin powers each of them, and which level does.       *)

Powered(port, pin, level) == [port |-> port, pin |-> pin, level |-> level]

IndoorPins == [display |-> Powered("A", 3, TRUE), veranda_light |-> Powered("A", 2, TRUE)]
StripPins ==
  [white |-> Powered("B", 2, TRUE), green |-> Powered("B", 0, TRUE),
   blue |-> Powered("A", 1, TRUE), red |-> Powered("B", 1, TRUE)]
OutdoorPins == [buzzer |-> Powered("A", 0, TRUE), front_light |-> Powered("B", 5, TRUE)]
PinsOfT01 ==
  [display |-> Powered("B", 7, TRUE), light |-> Powered("B", 6, TRUE),
   warning_led |-> Powered("B", 5, FALSE)]

PinOf(device) ==
  IF board = "T01" THEN PinsOfT01[device]
  ELSE IF device \in DOMAIN IndoorPins THEN IndoorPins[device]
  ELSE IF device \in DOMAIN StripPins THEN StripPins[device]
  ELSE OutdoorPins[device]

Devices ==
  IF board = "T01" THEN DOMAIN PinsOfT01
  ELSE DOMAIN IndoorPins \cup DOMAIN StripPins \cup DOMAIN OutdoorPins

SwitchDevice(device, on) ==
  LET power == PinOf(device)
  IN  << SetPinOut(power.port, power.pin, IF on THEN power.level ELSE ~power.level) >>

\* Interrupt on both edges of the signal, no pull-up.
PirInterrupt == [control |-> TRUE, cmp_mode |-> FALSE, cmp_value |-> FALSE,
                 polarity |-> FALSE, pullup |-> FALSE]

\* The front PIR gets its power from B7; its signal arrives at B6.
EnableFrontPir ==
  << SetPinDirection("B", 6, TRUE), SetPinInt("B", 6, PirInterrupt), SetPinOut("B", 7, TRUE) >>

MutantDisableFrontPir ==
  << SetPinDirection("B", 6, FALSE), SetPinOut("B", 7, FALSE), SetPinOut("B", 6, FALSE) >>

\* Without power the PIR's output is held at low level by the expander.
DisableFrontPir ==
  << SetPinOut("B", 7, FALSE), SetPinDirection("B", 6, FALSE), SetPinOut("B", 6, FALSE) >>

-----------------------------------------------------------------------------
(* Actions.                                                                *)

WritesOf(operation) == UNION {{operation[i][j] : j \in DOMAIN operation[i]} : i \in DOMAIN operation}

Perform(operation) == calls' = operation /\ asked' = WritesOf(operation) /\ clean' = TRUE

ExpanderInit ==
  /\ board \in {"T01", "B02"}
  /\ image = Defaults /\ chip = Defaults
  /\ calls = InitExpander /\ asked = WritesOf(InitExpander) /\ clean = TRUE
  /\ expander_left = ExpanderLimit

SwitchPower(device, on) ==
  /\ calls = <<>> /\ device \in Devices
  /\ ExpanderHappens("switch")
  /\ Perform(SwitchDevice(device, on))
  /\ UNCHANGED <<board, image, chip>>

SwitchFrontPir(on) ==
  /\ calls = <<>> /\ board = "B02"
  /\ ExpanderHappens("switch")
  /\ Perform(IF on THEN EnableFrontPir ELSE DisableFrontPir)
  /\ UNCHANGED <<board, image, chip>>

MutantUpdate(registers, write) ==
  [registers EXCEPT ![write.cell] = IF write.high THEN write.pins ELSE {}]

\* A function of the driver sets or clears its bits in the image.
Update(registers, write) ==
  [registers EXCEPT ![write.cell] = IF write.high THEN @ \cup write.pins ELSE @ \ write.pins]

\* The whole register is written, and with it every change that was lost before.
Written(write) == [chip EXCEPT ![write.cell] = Update(image, write)[write.cell]]

MutantWriteRegister ==
  /\ calls # <<>>
  /\ LET write == Head(Head(calls)) IN
       /\ image' = Update(image, write)
       /\ chip' = IF image' = image THEN chip ELSE Written(write)
  /\ calls' = IF Len(Head(calls)) = 1 THEN Tail(calls)
              ELSE <<Tail(Head(calls))>> \o Tail(calls)
  /\ UNCHANGED <<board, asked, clean, expander_left>>

WriteRegister ==
  /\ calls # <<>>
  /\ LET write == Head(Head(calls)) IN
       /\ image' = Update(image, write)
       /\ chip' = Written(write)
  /\ calls' = IF Len(Head(calls)) = 1 THEN Tail(calls)
              ELSE <<Tail(Head(calls))>> \o Tail(calls)
  /\ UNCHANGED <<board, asked, clean, expander_left>>

\* The bus fails, before or after the chip took the byte: the rest of the call
\* is given up, the image is not taken back, and the next call is made.
WriteRegisterFails ==
  /\ calls # <<>>
  /\ ExpanderHappens("fault")
  /\ LET write == Head(Head(calls)) IN
       /\ image' = Update(image, write)
       /\ chip' \in {chip, Written(write)}
  /\ calls' = Tail(calls) /\ clean' = FALSE
  /\ UNCHANGED <<board, asked>>

\* The controller starts again, and the driver with it; the registers of the
\* expander keep their values unless the power failed.
RestartBoard(power_failed) ==
  /\ ExpanderHappens("restart")
  /\ image' = Defaults
  /\ chip' = IF power_failed THEN Defaults ELSE chip
  /\ Perform(InitExpander)
  /\ UNCHANGED board

ExpanderNext ==
  \/ \E device \in Used, on \in BOOLEAN : SwitchPower(device, on)
  \/ \E on \in BOOLEAN : SwitchFrontPir(on)
  \/ WriteRegister
  \/ WriteRegisterFails
  \/ \E power_failed \in BOOLEAN : RestartBoard(power_failed)

ExpanderSpec == ExpanderInit /\ [][ExpanderNext]_expanderVars

-----------------------------------------------------------------------------
(* Properties.                                                             *)

Writes == [cell : Cells, pins : SUBSET Pins, high : BOOLEAN]

ExpanderTypeOK ==
  /\ board \in {"T01", "B02"}
  /\ image \in [Cells -> SUBSET Pins] /\ chip \in [Cells -> SUBSET Pins]
  /\ calls \in Seq(Seq(Writes) \ {<<>>})
  /\ asked \subseteq Writes /\ clean \in BOOLEAN
  /\ expander_left \in [ExpanderEvents -> Nat]

\* B6 drives against the signal of the front PIR, which has power.
Contends(registers) ==
  /\ 7 \in registers[<<"out", "B">>] /\ 7 \notin registers[<<"direction", "B">>]
  /\ 6 \notin registers[<<"direction", "B">>]

\* The expander never drives the signal of a powered front PIR, in whatever
\* order the calls of the board fail or the board restarts, except while port B
\* still differs from what the driver believes it to be
\* (board_B02_enable_front_pir_power, board_B02_disable_front_pir_power).
NoContention ==
  board = "B02" /\ Contends(chip) =>
    \E register \in {"direction", "out"} : chip[<<register, "B">>] # image[<<register, "B">>]

Holds(write, registers) ==
  IF write.high THEN write.pins \subseteq registers[write.cell]
  ELSE write.pins \cap registers[write.cell] = {}

\* An operation whose own writes succeed leaves the chip as it asks, whatever
\* was lost before: switching a device again repairs what the bus has dropped.
LastCallHolds == calls = <<>> /\ clean => \A write \in asked : Holds(write, chip)

\* A write changes the bits its call names and, beside them, only bits an
\* earlier write failed to bring to the chip: switching one device never
\* switches another, unless that one was asked for before.
OthersKept ==
  [][ calls # <<>> /\ expander_left'["restart"] = expander_left["restart"] =>
        \A cell \in Cells : \A pin \in Pins :
          (pin \in chip[cell]) # (pin \in chip'[cell]) =>
            \/ LET write == Head(Head(calls)) IN cell = write.cell /\ pin \in write.pins
            \/ (pin \in chip[cell]) # (pin \in image[cell])
    ]_expanderVars
=============================================================================

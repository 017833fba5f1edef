---------------------------- MODULE DriversProofs ----------------------------
(***************************************************************************)
(* Theorems about the drivers and the texts of the messages, for all sizes *)
(* and all numbers of events: that the composition behaves like each of    *)
(* its parts, and what holds of the port expander, of the flash memory, of *)
(* the messages that travel as texts and of the display.                   *)
(***************************************************************************)
EXTENDS Drivers, SequenceTheorems, WellFoundedInduction, TLAPS

-----------------------------------------------------------------------------
(* The port expander.                                                      *)

Call == Seq(Writes) \ {<<>>}

\* The writes that are still to be made.
Pending == WritesOf(calls)

ThisWrite == Head(Head(calls))

-----------------------------------------------------------------------------
(* Operations, as sequences and as sets of writes.                         *)

\* What is in the set of an operation's writes.
LEMMA InWrites ==
  ASSUME NEW operation, NEW write
  PROVE  write \in WritesOf(operation) <=>
           \E i \in DOMAIN operation : \E j \in DOMAIN operation[i] : write = operation[i][j]
BY DEF WritesOf

\* A write of an operation is one of the writes of one of its calls.
LEMMA OfWrites ==
  ASSUME NEW operation, NEW write \in WritesOf(operation)
  PROVE  \E i \in DOMAIN operation : \E j \in DOMAIN operation[i] : write = operation[i][j]
BY DEF WritesOf

\* A function of the driver that sets bits makes one write.
LEMMA SetBitsType ==
  ASSUME NEW register \in Registers, NEW port \in Ports,
         NEW pins \in SUBSET Pins, NEW high \in BOOLEAN
  PROVE  SetBits(register, port, pins, high) \in Writes
BY DEF SetBits, Writes, Cells

\* A call that makes one write is a call.
LEMMA OneWrite ==
  ASSUME NEW write \in Writes
  PROVE  <<write>> \in Call
BY DEF Call

\* The functions that set directions and outputs make calls.
LEMMA DirectionTypes ==
  ASSUME NEW port \in Ports, NEW pin \in Pins, NEW high \in BOOLEAN
  PROVE  /\ SetPortDirection(port, high) \in Call /\ SetPinDirection(port, pin, high) \in Call
         /\ SetPortOut(port, high) \in Call /\ SetPinOut(port, pin, high) \in Call
<1>1. {pin} \in SUBSET Pins /\ Pins \in SUBSET Pins
  OBVIOUS
<1>2. "direction" \in Registers /\ "out" \in Registers
  BY DEF Registers
<1>. QED  BY <1>1, <1>2, SetBitsType, OneWrite
          DEF SetPortDirection, SetPinDirection, SetPortOut, SetPinOut

\* So does the function that sets the configuration.
LEMMA ConfigureType == Configure \in Call
<1>1. [cell |-> Configuration, pins |-> {1, 4, 6}, high |-> TRUE] \in Writes
  BY DEF Writes, Cells, Pins
<1>. QED  BY <1>1, OneWrite DEF Configure

IntRegisters == <<"cmp_mode", "cmp_value", "polarity", "pullup", "control">>

\* The configuration of the front PIR's interrupt has a bit for each register.
LEMMA PirInterruptType ==
  ASSUME NEW i \in 1..5
  PROVE  /\ IntRegisters[i] \in Registers \ {"direction", "out"}
         /\ PirInterrupt[IntRegisters[i]] \in BOOLEAN
<1>1. i = 1 \/ i = 2 \/ i = 3 \/ i = 4 \/ i = 5
  OBVIOUS
<1>2. /\ IntRegisters[1] = "cmp_mode" /\ IntRegisters[2] = "cmp_value"
      /\ IntRegisters[3] = "polarity" /\ IntRegisters[4] = "pullup"
      /\ IntRegisters[5] = "control"
  BY DEF IntRegisters
<1>3. IntRegisters[i] \in {"cmp_mode", "cmp_value", "polarity", "pullup", "control"}
  BY <1>1, <1>2
<1>4. IntRegisters[i] \in Registers \ {"direction", "out"}
  BY <1>3 DEF Registers
<1>5. ASSUME NEW r \in {"cmp_mode", "cmp_value", "polarity", "pullup", "control"}
      PROVE  PirInterrupt[r] \in BOOLEAN
  <2>1. CASE r = "control"
    BY <2>1 DEF PirInterrupt
  <2>2. CASE r # "control"
    <3>1. r = "cmp_mode" \/ r = "cmp_value" \/ r = "polarity" \/ r = "pullup"
      BY <2>2
    <3>2. PirInterrupt[r] = FALSE
      BY <3>1 DEF PirInterrupt
    <3>. QED  BY <3>2
  <2>. QED  BY <2>1, <2>2
<1>. QED  BY <1>3, <1>4, <1>5

\* The configuration of the front PIR's interrupt touches neither the direction
\* nor the output of a pin.
LEMMA FrontPirInterrupt ==
  LET sets == SetPinInt("B", 6, PirInterrupt)
  IN  /\ sets \in Call /\ DOMAIN sets = 1..5
      /\ \A i \in 1..5 : /\ sets[i] = SetBits(IntRegisters[i], "B", {6}, PirInterrupt[IntRegisters[i]])
                         /\ sets[i].cell # <<"direction", "B">> /\ sets[i].cell # <<"out", "B">>
<1>. DEFINE bits(i) == SetBits(IntRegisters[i], "B", {6}, PirInterrupt[IntRegisters[i]])
<1>1. SetPinInt("B", 6, PirInterrupt) = [i \in 1..5 |-> bits(i)]
  BY DEF SetPinInt, IntRegisters
<1>2. ASSUME NEW i \in 1..5
      PROVE  /\ bits(i) \in Writes
             /\ bits(i).cell # <<"direction", "B">> /\ bits(i).cell # <<"out", "B">>
  <2>1. {6} \in SUBSET Pins /\ "B" \in Ports
    BY DEF Pins, Ports
  <2>2. bits(i) \in Writes
    BY <2>1, PirInterruptType, SetBitsType
  <2>3. bits(i).cell = <<IntRegisters[i], "B">>
    BY DEF SetBits
  <2>. QED  BY <2>2, <2>3, PirInterruptType
<1>. HIDE DEF bits
<1>3. [i \in 1..5 |-> bits(i)] \in Seq(Writes)
  BY <1>2, 5 \in Nat
<1>4. [i \in 1..5 |-> bits(i)] # <<>>
  <2>1. 1 \in DOMAIN [i \in 1..5 |-> bits(i)]
    OBVIOUS
  <2>. QED  BY <2>1
<1>5. [i \in 1..5 |-> bits(i)] \in Call
  BY <1>3, <1>4 DEF Call
<1>. QED  BY <1>1, <1>2, <1>5 DEF bits

-----------------------------------------------------------------------------
(* What the operations of the boards ask for.                              *)

\* Two writes of an operation never disagree about a bit.
Agree(asks) ==
  \A v, w \in asks : v.cell = w.cell /\ v.pins \cap w.pins # {} => v.high = w.high

\* The direction of B6 and the power at B7.
TakesSignal(w)  == w.cell = <<"direction", "B">> /\ 6 \in w.pins /\ ~w.high
FreesSignal(w)  == w.cell = <<"direction", "B">> /\ 6 \in w.pins /\ w.high
GivesPower(w)   == w.cell = <<"out", "B">> /\ 7 \in w.pins /\ w.high
TakesPower(w)   == w.cell = <<"out", "B">> /\ 7 \in w.pins /\ ~w.high

\* What is still to be written cannot make the expander drive the signal of a
\* powered PIR: it frees the signal before it gives the power, and takes the
\* power before it takes the signal.
SafeOrder(asks, first, registers) ==
  /\ \A w \in asks : GivesPower(w) =>
       /\ \A v \in asks : ~TakesSignal(v)
       /\ 6 \in registers[<<"direction", "B">>] \/ FreesSignal(first)
  /\ \A w \in asks : TakesSignal(w) =>
       7 \notin registers[<<"out", "B">>] \/ TakesPower(first)

\* The devices of board T01 hang on pins of the expander.
LEMMA WiredOnT01 ==
  ASSUME board = "T01", NEW device \in Devices
  PROVE  \E port \in Ports, pin \in Pins, level \in BOOLEAN :
           PinOf(device) = Powered(port, pin, level)
<1>1. PinOf(device) = PinsOfT01[device]
  BY DEF PinOf
<1>2. device = "display" \/ device = "light" \/ device = "warning_led"
  BY DEF Devices, PinsOfT01
<1>3. CASE device = "display"
  <2>1. PinOf(device) = Powered("B", 7, TRUE)
    BY <1>1, <1>3 DEF PinsOfT01
  <2>2. "B" \in Ports /\ 7 \in Pins
    BY DEF Ports, Pins
  <2>. QED  BY <2>1, <2>2, Zenon
<1>4. CASE device = "light"
  <2>1. PinOf(device) = Powered("B", 6, TRUE)
    BY <1>1, <1>4 DEF PinsOfT01
  <2>2. "B" \in Ports /\ 6 \in Pins
    BY DEF Ports, Pins
  <2>. QED  BY <2>1, <2>2, Zenon
<1>5. CASE device = "warning_led"
  <2>1. PinOf(device) = Powered("B", 5, FALSE)
    BY <1>1, <1>5 DEF PinsOfT01
  <2>2. "B" \in Ports /\ 5 \in Pins
    BY DEF Ports, Pins
  <2>. QED  BY <2>1, <2>2, Zenon
<1>. QED  BY <1>2, <1>3, <1>4, <1>5

\* No device of board B02 but the front PIR hangs on B6 or B7.
LEMMA WiredOnB02 ==
  ASSUME board = "B02", NEW device \in Devices
  PROVE  \E port \in Ports, pin \in 0..5, level \in BOOLEAN :
           PinOf(device) = Powered(port, pin, level)
<1>1. \/ device = "display" \/ device = "veranda_light"
      \/ device = "white" \/ device = "green" \/ device = "blue" \/ device = "red"
      \/ device = "buzzer" \/ device = "front_light"
  BY DEF Devices, IndoorPins, StripPins, OutdoorPins
<1>2. CASE device = "display"
  <2>1. PinOf(device) = Powered("A", 3, TRUE)
    BY <1>2 DEF PinOf, IndoorPins
  <2>2. "A" \in Ports /\ 3 \in 0..5
    BY DEF Ports
  <2>. QED  BY <2>1, <2>2, Zenon
<1>3. CASE device = "veranda_light"
  <2>1. PinOf(device) = Powered("A", 2, TRUE)
    BY <1>3 DEF PinOf, IndoorPins
  <2>2. "A" \in Ports /\ 2 \in 0..5
    BY DEF Ports
  <2>. QED  BY <2>1, <2>2, Zenon
<1>4. CASE device = "white"
  <2>1. PinOf(device) = Powered("B", 2, TRUE)
    BY <1>4 DEF PinOf, IndoorPins, StripPins
  <2>2. "B" \in Ports /\ 2 \in 0..5
    BY DEF Ports
  <2>. QED  BY <2>1, <2>2, Zenon
<1>5. CASE device = "green"
  <2>1. PinOf(device) = Powered("B", 0, TRUE)
    BY <1>5 DEF PinOf, IndoorPins, StripPins
  <2>2. "B" \in Ports /\ 0 \in 0..5
    BY DEF Ports
  <2>. QED  BY <2>1, <2>2, Zenon
<1>6. CASE device = "blue"
  <2>1. PinOf(device) = Powered("A", 1, TRUE)
    BY <1>6 DEF PinOf, IndoorPins, StripPins
  <2>2. "A" \in Ports /\ 1 \in 0..5
    BY DEF Ports
  <2>. QED  BY <2>1, <2>2, Zenon
<1>7. CASE device = "red"
  <2>1. PinOf(device) = Powered("B", 1, TRUE)
    BY <1>7 DEF PinOf, IndoorPins, StripPins
  <2>2. "B" \in Ports /\ 1 \in 0..5
    BY DEF Ports
  <2>. QED  BY <2>1, <2>2, Zenon
<1>8. CASE device = "buzzer"
  <2>1. PinOf(device) = Powered("A", 0, TRUE)
    BY <1>8 DEF PinOf, IndoorPins, StripPins, OutdoorPins
  <2>2. "A" \in Ports /\ 0 \in 0..5
    BY DEF Ports
  <2>. QED  BY <2>1, <2>2, Zenon
<1>9. CASE device = "front_light"
  <2>1. PinOf(device) = Powered("B", 5, TRUE)
    BY <1>9 DEF PinOf, IndoorPins, StripPins, OutdoorPins
  <2>2. "B" \in Ports /\ 5 \in 0..5
    BY DEF Ports
  <2>. QED  BY <2>1, <2>2, Zenon
<1>. QED  BY <1>1, <1>2, <1>3, <1>4, <1>5, <1>6, <1>7, <1>8, <1>9

\* What switching a device asks for.
LEMMA SwitchDeviceAsks ==
  ASSUME NEW device \in Devices, NEW on \in BOOLEAN, board \in {"T01", "B02"}
  PROVE  LET operation == SwitchDevice(device, on)
         IN  /\ operation \in Seq(Call)
             /\ Agree(WritesOf(operation))
             /\ board = "B02" => \A w \in WritesOf(operation) : ~GivesPower(w) /\ ~TakesSignal(w)
<1>1. PICK port \in Ports, pin \in Pins, level \in BOOLEAN :
        /\ PinOf(device) = Powered(port, pin, level)
        /\ board = "B02" => pin # 7
  <2>1. CASE board = "T01"
    BY <2>1, WiredOnT01
  <2>2. CASE board = "B02"
    BY <2>2, WiredOnB02 DEF Pins
  <2>. QED  BY <2>1, <2>2
<1>. DEFINE high  == IF on THEN level ELSE ~level
            write == SetBits("out", port, {pin}, high)
<1>2. high \in BOOLEAN
  OBVIOUS
<1>3. SwitchDevice(device, on) = << <<write>> >>
  BY <1>1 DEF SwitchDevice, SetPinOut, Powered
<1>. HIDE DEF high
<1>4. write \in Writes
  BY <1>2, SetBitsType DEF Registers
<1>5. << <<write>> >> \in Seq(Call)
  BY <1>4, OneWrite
<1>6. WritesOf(<< <<write>> >>) = {write}
  BY DEF WritesOf
<1>7. Agree({write})
  BY DEF Agree
<1>8. board = "B02" => ~GivesPower(write) /\ ~TakesSignal(write)
  BY <1>1 DEF GivesPower, TakesSignal, SetBits
<1>. QED  BY <1>3, <1>5, <1>6, <1>7, <1>8

\* What the power of the front PIR asks for: the signal is freed first.
LEMMA EnableAsks ==
  /\ EnableFrontPir \in Seq(Call)
  /\ Agree(WritesOf(EnableFrontPir))
  /\ FreesSignal(Head(Head(EnableFrontPir)))
  /\ \A w \in WritesOf(EnableFrontPir) : ~TakesSignal(w)
<1>. DEFINE free  == SetBits("direction", "B", {6}, TRUE)
            sets  == SetPinInt("B", 6, PirInterrupt)
            give  == SetBits("out", "B", {7}, TRUE)
<1>1. EnableFrontPir = << <<free>>, sets, <<give>> >>
  BY DEF EnableFrontPir, SetPinDirection, SetPinOut
<1>2. /\ sets \in Call /\ DOMAIN sets = 1..5
      /\ \A i \in 1..5 : /\ sets[i] = SetBits(IntRegisters[i], "B", {6}, PirInterrupt[IntRegisters[i]])
                         /\ sets[i].cell # <<"direction", "B">> /\ sets[i].cell # <<"out", "B">>
  BY FrontPirInterrupt
<1>. HIDE DEF sets
<1>3. <<free>> \in Call /\ <<give>> \in Call
  <2>1. {6} \in SUBSET Pins /\ {7} \in SUBSET Pins /\ "B" \in Ports
    BY DEF Pins, Ports
  <2>2. free \in Writes /\ give \in Writes
    BY <2>1, SetBitsType DEF Registers
  <2>. QED  BY <2>2, OneWrite
<1>4. << <<free>>, sets, <<give>> >> \in Seq(Call)
  BY <1>2, <1>3
<1>5. ASSUME NEW w \in WritesOf(EnableFrontPir)
      PROVE  w = free \/ w = give \/ \E i \in 1..5 : w = sets[i]
  <2>1. PICK i \in DOMAIN EnableFrontPir :
               \E j \in DOMAIN EnableFrontPir[i] : w = EnableFrontPir[i][j]
    BY InWrites
  <2>2. PICK j \in DOMAIN EnableFrontPir[i] : w = EnableFrontPir[i][j]
    BY <2>1
  <2>. HIDE DEF free, give
  <2>3. /\ DOMAIN EnableFrontPir = 1..3
        /\ EnableFrontPir[1] = <<free>> /\ EnableFrontPir[2] = sets
        /\ EnableFrontPir[3] = <<give>>
    BY <1>1
  <2>4. i = 1 \/ i = 2 \/ i = 3
    BY <2>3
  <2>5. CASE i = 1
    BY <2>2, <2>3, <2>5
  <2>6. CASE i = 2
    BY <1>2, <2>2, <2>3, <2>6
  <2>7. CASE i = 3
    BY <2>2, <2>3, <2>7
  <2>. QED  BY <2>4, <2>5, <2>6, <2>7
<1>6. ASSUME NEW w \in WritesOf(EnableFrontPir)
      PROVE  /\ w.cell = <<"direction", "B">> => w = free
             /\ w.cell = <<"out", "B">> => w = give
  BY <1>2, <1>5 DEF SetBits
<1>7. ~TakesSignal(free) /\ FreesSignal(free)
  BY DEF TakesSignal, FreesSignal, SetBits
<1>8. \A w \in WritesOf(EnableFrontPir) : ~TakesSignal(w)
  BY <1>6, <1>7 DEF TakesSignal
<1>9. ASSUME NEW i \in 1..5, NEW k \in 1..5, sets[i].cell = sets[k].cell
      PROVE  sets[i] = sets[k]
  <2>1. IntRegisters[i] = IntRegisters[k]
    BY <1>2, <1>9 DEF SetBits
  <2>. QED  BY <1>2, <2>1
<1>10. ASSUME NEW v \in WritesOf(EnableFrontPir), NEW w \in WritesOf(EnableFrontPir), v.cell = w.cell
       PROVE  v = w
  <2>1. CASE v.cell \in {<<"direction", "B">>, <<"out", "B">>}
    BY <1>6, <1>10, <2>1
  <2>2. CASE v.cell \notin {<<"direction", "B">>, <<"out", "B">>}
    <3>1. v # free /\ w # free /\ v # give /\ w # give
      BY <1>10, <2>2 DEF SetBits
    <3>2. PICK i \in 1..5 : v = sets[i]
      BY <1>5, <3>1
    <3>3. PICK k \in 1..5 : w = sets[k]
      BY <1>5, <3>1
    <3>. QED  BY <1>9, <1>10, <3>2, <3>3
  <2>. QED  BY <2>1, <2>2
<1>11. Agree(WritesOf(EnableFrontPir))
  BY <1>10 DEF Agree
<1>12. Head(Head(EnableFrontPir)) = free
  BY <1>1
<1>. QED  BY <1>1, <1>4, <1>7, <1>8, <1>11, <1>12

\* Taking the power asks for three single writes, the power first.
LEMMA DisableAsks ==
  /\ DisableFrontPir \in Seq(Call)
  /\ Agree(WritesOf(DisableFrontPir))
  /\ TakesPower(Head(Head(DisableFrontPir)))
  /\ \A w \in WritesOf(DisableFrontPir) : ~GivesPower(w)
<1>. DEFINE take   == SetBits("out", "B", {7}, FALSE)
            signal == SetBits("direction", "B", {6}, FALSE)
            low    == SetBits("out", "B", {6}, FALSE)
<1>1. DisableFrontPir = << <<take>>, <<signal>>, <<low>> >>
  BY DEF DisableFrontPir, SetPinOut, SetPinDirection
<1>2. take \in Writes /\ signal \in Writes /\ low \in Writes
  <2>1. {6} \in SUBSET Pins /\ {7} \in SUBSET Pins /\ "B" \in Ports
    BY DEF Pins, Ports
  <2>. QED  BY <2>1, SetBitsType DEF Registers
<1>3. ~take.high /\ ~signal.high /\ ~low.high /\ TakesPower(take)
  BY DEF SetBits, TakesPower
<1>. HIDE DEF take, signal, low
<1>4. DisableFrontPir \in Seq(Call)
  <2>1. <<take>> \in Call /\ <<signal>> \in Call /\ <<low>> \in Call
    BY <1>2, OneWrite
  <2>. QED  BY <1>1, <2>1
<1>5. \A w \in WritesOf(DisableFrontPir) : w = take \/ w = signal \/ w = low
  BY <1>1 DEF WritesOf
<1>6. \A w \in WritesOf(DisableFrontPir) : ~w.high
  BY <1>3, <1>5
<1>7. Head(Head(DisableFrontPir)) = take
  BY <1>1
<1>8. Agree(WritesOf(DisableFrontPir))
  <2>. SUFFICES ASSUME NEW v \in WritesOf(DisableFrontPir), NEW w \in WritesOf(DisableFrontPir)
                PROVE  v.high = w.high
    BY DEF Agree
  <2>1. v.high = FALSE /\ w.high = FALSE
    BY <1>2, <1>5, <1>6 DEF Writes
  <2>. QED  BY <2>1
<1>. QED  BY <1>3, <1>4, <1>6, <1>7, <1>8 DEF GivesPower

\* The initialisation writes each register once, and nothing high but its
\* configuration.
LEMMA InitAsks ==
  /\ InitExpander \in Seq(Call)
  /\ Agree(WritesOf(InitExpander))
  /\ \A w \in WritesOf(InitExpander) : ~GivesPower(w)
<1>. DEFINE config == [cell |-> Configuration, pins |-> {1, 4, 6}, high |-> TRUE]
            dirA == SetBits("direction", "A", Pins, FALSE)
            outA == SetBits("out", "A", Pins, FALSE)
            dirB == SetBits("direction", "B", Pins, FALSE)
            outB == SetBits("out", "B", Pins, FALSE)
<1>1. InitExpander = << <<config>>, <<dirA>>, <<outA>>, <<dirB>>, <<outB>> >>
  BY DEF InitExpander, Configure, SetPortDirection, SetPortOut
<1>2. <<config>> \in Call
  BY ConfigureType DEF Configure
<1>3. <<dirA>> \in Call /\ <<outA>> \in Call /\ <<dirB>> \in Call /\ <<outB>> \in Call
  <2>1. dirA \in Writes /\ outA \in Writes /\ dirB \in Writes /\ outB \in Writes
    BY SetBitsType DEF Registers, Ports
  <2>. QED  BY <2>1, OneWrite
<1>4. config.cell = Configuration /\ ~GivesPower(config)
  BY DEF GivesPower, Configuration
<1>5. ~dirA.high /\ ~outA.high /\ ~dirB.high /\ ~outB.high
  BY DEF SetBits
<1>6. /\ dirA.cell # Configuration /\ outA.cell # Configuration
      /\ dirB.cell # Configuration /\ outB.cell # Configuration
  BY DEF SetBits, Configuration
<1>7. dirA.high = FALSE /\ outA.high = FALSE /\ dirB.high = FALSE /\ outB.high = FALSE
  BY DEF SetBits
<1>. HIDE DEF config, dirA, outA, dirB, outB
<1>8. InitExpander \in Seq(Call)
  BY <1>1, <1>2, <1>3
<1>9. \A w \in WritesOf(InitExpander) :
        w = config \/ w = dirA \/ w = outA \/ w = dirB \/ w = outB
  BY <1>1 DEF WritesOf
<1>10. Agree(WritesOf(InitExpander))
  <2>. SUFFICES ASSUME NEW v \in WritesOf(InitExpander), NEW w \in WritesOf(InitExpander),
                       v.cell = w.cell
                PROVE  v.high = w.high
    BY DEF Agree
  <2>1. CASE v = config
    BY <1>4, <1>6, <1>9, <2>1
  <2>2. CASE v # config
    <3>1. w # config
      BY <1>4, <1>6, <1>9, <2>2
    <3>2. v.high = FALSE /\ w.high = FALSE
      BY <1>7, <1>9, <2>2, <3>1
    <3>. QED  BY <3>2
  <2>. QED  BY <2>1, <2>2
<1>11. \A w \in WritesOf(InitExpander) : ~GivesPower(w)
  BY <1>4, <1>5, <1>9 DEF GivesPower
<1>. QED  BY <1>8, <1>10, <1>11

-----------------------------------------------------------------------------
(* One write after the other.                                              *)

\* The first write is among the pending ones.
LEMMA ThisPending ==
  ASSUME calls \in Seq(Call), calls # <<>>
  PROVE  /\ Head(calls) \in Seq(Writes) /\ Head(calls) # <<>> /\ Head(calls) = calls[1]
         /\ 1 \in DOMAIN calls /\ 1 \in DOMAIN calls[1] /\ ThisWrite = calls[1][1]
         /\ ThisWrite \in Pending /\ ThisWrite \in Writes
<1>1. Head(calls) \in Seq(Writes) /\ Head(calls) # <<>> /\ Head(calls) = calls[1]
  BY DEF Call
<1>2. /\ 1 \in DOMAIN calls /\ 1 \in DOMAIN calls[1] /\ ThisWrite = calls[1][1]
      /\ ThisWrite \in Writes
  BY <1>1 DEF ThisWrite
<1>. QED  BY <1>1, <1>2, InWrites DEF Pending

\* A call that has been made, or given up, leaves the other calls.
LEMMA OneCallLess ==
  ASSUME calls \in Seq(Call), calls # <<>>
  PROVE  /\ Tail(calls) \in Seq(Call)
         /\ WritesOf(Tail(calls)) \subseteq Pending
         /\ Len(Head(calls)) = 1 => Pending = {ThisWrite} \cup WritesOf(Tail(calls))
<1>1. Head(calls) \in Seq(Writes) /\ Head(calls) # <<>> /\ Head(calls) = calls[1]
  BY ThisPending
<1>2. ASSUME NEW w \in WritesOf(Tail(calls)) PROVE w \in Pending
  <2>1. PICK i \in DOMAIN Tail(calls) : \E j \in DOMAIN Tail(calls)[i] : w = Tail(calls)[i][j]
    BY <1>2, OfWrites
  <2>2. i + 1 \in DOMAIN calls /\ Tail(calls)[i] = calls[i + 1]
    OBVIOUS
  <2>. QED  BY <2>1, <2>2, InWrites DEF Pending
<1>3. ASSUME Len(Head(calls)) = 1, NEW w \in Pending
      PROVE  w \in {ThisWrite} \cup WritesOf(Tail(calls))
  <2>1. PICK i \in DOMAIN calls : \E j \in DOMAIN calls[i] : w = calls[i][j]
    BY <1>3, OfWrites DEF Pending
  <2>2. PICK j \in DOMAIN calls[i] : w = calls[i][j]
    BY <2>1
  <2>3. CASE i = 1
    <3>1. j = 1
      BY <1>1, <1>3, <2>2, <2>3
    <3>. QED  BY <2>2, <2>3, <3>1, ThisPending
  <2>4. CASE i # 1
    <3>1. i - 1 \in DOMAIN Tail(calls) /\ Tail(calls)[i - 1] = calls[i]
      BY <2>4
    <3>. QED  BY <2>2, <3>1, InWrites
  <2>. QED  BY <2>3, <2>4
<1>4. Tail(calls) \in Seq(Call)
  OBVIOUS
<1>5. ThisWrite \in Pending
  BY ThisPending
<1>. QED  BY <1>2, <1>3, <1>4, <1>5

\* A write that is made, in a call of more, leaves the other writes.
LEMMA OneWriteLess ==
  ASSUME calls \in Seq(Call), calls # <<>>, Len(Head(calls)) # 1,
         NEW rest, Len(rest) = Len(calls), DOMAIN rest = DOMAIN calls,
         rest[1] = Tail(Head(calls)),
         \A i \in DOMAIN calls : i # 1 => rest[i] = calls[i]
  PROVE  Pending = {ThisWrite} \cup WritesOf(rest)
<1>. DEFINE first == Head(calls)
<1>1. first \in Seq(Writes) /\ first # <<>> /\ first = calls[1]
  BY ThisPending
<1>2. ASSUME NEW w \in Pending PROVE w \in {ThisWrite} \cup WritesOf(rest)
  <2>1. PICK i \in DOMAIN calls : \E j \in DOMAIN calls[i] : w = calls[i][j]
    BY <1>2, OfWrites DEF Pending
  <2>2. PICK j \in DOMAIN calls[i] : w = calls[i][j]
    BY <2>1
  <2>3. CASE i = 1 /\ j = 1
    BY <2>2, <2>3, ThisPending
  <2>4. CASE i = 1 /\ j # 1
    <3>1. j - 1 \in DOMAIN Tail(first) /\ Tail(first)[j - 1] = first[j]
      BY <1>1, <2>4
    <3>2. rest[1] = Tail(first) /\ 1 \in DOMAIN rest /\ w = first[j]
      BY <1>1, <2>2, <2>4
    <3>. HIDE DEF first
    <3>3. j - 1 \in DOMAIN rest[1] /\ w = rest[1][j - 1]
      BY <3>1, <3>2
    <3>. QED  BY <3>2, <3>3, InWrites
  <2>5. CASE i # 1
    BY <2>1, <2>5, InWrites
  <2>. QED  BY <2>3, <2>4, <2>5
<1>3. ASSUME NEW w \in WritesOf(rest) PROVE w \in Pending
  <2>1. PICK i \in DOMAIN rest : \E j \in DOMAIN rest[i] : w = rest[i][j]
    BY <1>3, OfWrites
  <2>2. PICK j \in DOMAIN rest[i] : w = rest[i][j]
    BY <2>1
  <2>3. CASE i = 1
    <3>1. j + 1 \in DOMAIN first /\ Tail(first)[j] = first[j + 1]
      BY <1>1, <2>2, <2>3
    <3>. QED  BY <1>1, <2>2, <2>3, <3>1, InWrites DEF Pending
  <2>4. CASE i # 1
    BY <2>1, <2>4, InWrites DEF Pending
  <2>. QED  BY <2>3, <2>4
<1>4. ThisWrite \in Pending
  BY ThisPending
<1>. QED  BY <1>2, <1>3, <1>4

\* So does every write.
LEMMA Remaining ==
  ASSUME calls \in Seq(Call), calls # <<>>,
         calls' = IF Len(Head(calls)) = 1 THEN Tail(calls)
                  ELSE <<Tail(Head(calls))>> \o Tail(calls)
  PROVE  calls' \in Seq(Call) /\ Pending = {ThisWrite} \cup WritesOf(calls')
<1>1. CASE Len(Head(calls)) = 1
  BY <1>1, OneCallLess
<1>2. CASE Len(Head(calls)) # 1
  <2>. DEFINE first == Head(calls)
              rest  == <<Tail(first)>> \o Tail(calls)
  <2>1. first \in Seq(Writes) /\ first # <<>>
    BY ThisPending
  <2>2. Tail(first) \in Call
    <3>1. Len(first) \in Nat /\ Len(first) # 0
      BY <2>1
    <3>2. Tail(first) \in Seq(Writes) /\ Len(Tail(first)) = Len(first) - 1
      BY <2>1
    <3>3. Len(Tail(first)) # 0
      BY <1>2, <3>1, <3>2
    <3>4. Len(<<>>) = 0
      OBVIOUS
    <3>5. Tail(first) # <<>>
      BY <3>3, <3>4
    <3>. QED  BY <3>2, <3>5 DEF Call
  <2>3. /\ rest \in Seq(Call) /\ Len(rest) = Len(calls) /\ rest[1] = Tail(first)
        /\ \A i \in DOMAIN calls : i # 1 => rest[i] = calls[i]
    BY <2>2
  <2>4. DOMAIN rest = DOMAIN calls
    BY <2>3
  <2>5. calls' = rest
    BY <1>2
  <2>. HIDE DEF rest
  <2>6. Pending = {ThisWrite} \cup WritesOf(rest)
    BY <1>2, <2>3, <2>4, OneWriteLess
  <2>. QED  BY <2>3, <2>5, <2>6
<1>. QED  BY <1>1, <1>2

-----------------------------------------------------------------------------
(* The types.                                                              *)

\* A write changes its register in the image, and no other.
LEMMA UpdateType ==
  ASSUME NEW registers \in [Cells -> SUBSET Pins], NEW write \in Writes
  PROVE  /\ Update(registers, write) \in [Cells -> SUBSET Pins]
         /\ Update(registers, write)[write.cell] \in SUBSET Pins
         /\ \A cell \in Cells : cell # write.cell => Update(registers, write)[cell] = registers[cell]
         /\ Update(registers, write)[write.cell] =
              IF write.high THEN registers[write.cell] \cup write.pins
              ELSE registers[write.cell] \ write.pins
<1>1. write.cell \in Cells /\ write.pins \in SUBSET Pins
  BY DEF Writes
<1>. QED  BY <1>1 DEF Update

\* The write that is due, and what it makes of the chip.
LEMMA WrittenType ==
  ASSUME ExpanderTypeOK, NEW write \in Writes
  PROVE  /\ Written(write) \in [Cells -> SUBSET Pins]
         /\ Written(write)[write.cell] = Update(image, write)[write.cell]
         /\ \A cell \in Cells : cell # write.cell => Written(write)[cell] = chip[cell]
<1>1. write.cell \in Cells /\ Update(image, write)[write.cell] \in SUBSET Pins
  BY UpdateType DEF Writes, ExpanderTypeOK
<1>2. chip \in [Cells -> SUBSET Pins]
  BY DEF ExpanderTypeOK
<1>. HIDE DEF Update
<1>. QED  BY <1>1, <1>2 DEF Written

\* The reset values are values of the registers.
LEMMA DefaultsType == Defaults \in [Cells -> SUBSET Pins]
BY DEF Defaults

\* An operation of calls asks for writes.
LEMMA AskedType ==
  ASSUME NEW operation \in Seq(Call)
  PROVE  WritesOf(operation) \subseteq Writes
<1>. SUFFICES ASSUME NEW w \in WritesOf(operation) PROVE w \in Writes
  OBVIOUS
<1>1. PICK i \in DOMAIN operation : \E j \in DOMAIN operation[i] : w = operation[i][j]
  BY OfWrites
<1>2. operation[i] \in Seq(Writes)
  BY DEF Call
<1>. QED  BY <1>1, <1>2

\* An event that happens leaves a number of events.
LEMMA LeftType ==
  ASSUME expander_left \in [ExpanderEvents -> Nat], NEW event \in ExpanderEvents,
         ExpanderHappens(event)
  PROVE  expander_left' \in [ExpanderEvents -> Nat]
<1>. DEFINE less == expander_left[event] - 1
<1>1. less \in Nat
  BY DEF ExpanderHappens
<1>2. expander_left' = [expander_left EXCEPT ![event] = less]
  BY DEF ExpanderHappens
<1>. HIDE DEF less
<1>. QED  BY <1>1, <1>2

\* Every operation a board performs is a sequence of calls without
\* contradictions.
LEMMA PerformType ==
  ASSUME NEW operation \in Seq(Call), Perform(operation)
  PROVE  calls' \in Seq(Call) /\ asked' \subseteq Writes /\ clean' \in BOOLEAN
BY AskedType DEF Perform

\* Both operations on the front PIR are calls without contradictions.
LEMMA FrontPirOperation ==
  ASSUME NEW on \in BOOLEAN
  PROVE  /\ (IF on THEN EnableFrontPir ELSE DisableFrontPir) \in Seq(Call)
         /\ Agree(WritesOf(IF on THEN EnableFrontPir ELSE DisableFrontPir))
<1>1. CASE on
  BY <1>1, EnableAsks
<1>2. CASE ~on
  BY <1>2, DisableAsks
<1>. QED  BY <1>1, <1>2

\* The initial states have their types.
LEMMA InitType == ExpanderInit => ExpanderTypeOK
<1>. SUFFICES ASSUME ExpanderInit PROVE ExpanderTypeOK
  OBVIOUS
<1>1. calls \in Seq(Call) /\ asked \subseteq Writes
  BY InitAsks, AskedType DEF ExpanderInit
<1>. QED  BY <1>1, DefaultsType, ExpanderLimitAssumption DEF ExpanderInit, ExpanderTypeOK, Call

\* Every step keeps the types.
LEMMA StepType ==
  ASSUME ExpanderTypeOK, [ExpanderNext]_expanderVars
  PROVE  ExpanderTypeOK'
<1>0. calls \in Seq(Call)
  BY DEF ExpanderTypeOK, Call
<1>1. ASSUME NEW device \in Used, NEW on \in BOOLEAN, SwitchPower(device, on)
      PROVE  ExpanderTypeOK'
  <2>1. SwitchDevice(device, on) \in Seq(Call)
    BY <1>1, SwitchDeviceAsks DEF SwitchPower, ExpanderTypeOK
  <2>2. calls' \in Seq(Call) /\ asked' \subseteq Writes /\ clean' \in BOOLEAN
    BY <1>1, <2>1, PerformType DEF SwitchPower
  <2>3. expander_left' \in [ExpanderEvents -> Nat]
    BY <1>1, LeftType DEF SwitchPower, ExpanderTypeOK, ExpanderEvents
  <2>. QED  BY <1>1, <2>2, <2>3 DEF SwitchPower, ExpanderTypeOK, Call
<1>2. ASSUME NEW on \in BOOLEAN, SwitchFrontPir(on)
      PROVE  ExpanderTypeOK'
  <2>2. calls' \in Seq(Call) /\ asked' \subseteq Writes /\ clean' \in BOOLEAN
    BY <1>2, FrontPirOperation, PerformType DEF SwitchFrontPir
  <2>3. expander_left' \in [ExpanderEvents -> Nat]
    BY <1>2, LeftType DEF SwitchFrontPir, ExpanderTypeOK, ExpanderEvents
  <2>. QED  BY <1>2, <2>2, <2>3 DEF SwitchFrontPir, ExpanderTypeOK, Call
<1>3. CASE WriteRegister
  <2>1. ThisWrite \in Writes
    BY <1>0, <1>3, ThisPending DEF WriteRegister
  <2>2. image' = Update(image, ThisWrite) /\ chip' = Written(ThisWrite)
    BY <1>3 DEF WriteRegister, ThisWrite
  <2>3. image' \in [Cells -> SUBSET Pins] /\ chip' \in [Cells -> SUBSET Pins]
    BY <2>1, <2>2, UpdateType, WrittenType DEF ExpanderTypeOK
  <2>4. calls' \in Seq(Call)
    BY <1>0, <1>3, Remaining DEF WriteRegister
  <2>. QED  BY <1>3, <2>3, <2>4 DEF WriteRegister, ExpanderTypeOK, Call
<1>4. CASE WriteRegisterFails
  <2>1. ThisWrite \in Writes
    BY <1>0, <1>4, ThisPending DEF WriteRegisterFails
  <2>2. image' = Update(image, ThisWrite) /\ chip' \in {chip, Written(ThisWrite)}
    BY <1>4 DEF WriteRegisterFails, ThisWrite
  <2>3. image' \in [Cells -> SUBSET Pins] /\ chip' \in [Cells -> SUBSET Pins]
    BY <2>1, <2>2, UpdateType, WrittenType DEF ExpanderTypeOK
  <2>4. calls' \in Seq(Call)
    BY <1>0, <1>4, OneCallLess DEF WriteRegisterFails
  <2>5. expander_left' \in [ExpanderEvents -> Nat]
    BY <1>4, LeftType DEF WriteRegisterFails, ExpanderTypeOK, ExpanderEvents
  <2>. QED  BY <1>4, <2>3, <2>4, <2>5 DEF WriteRegisterFails, ExpanderTypeOK, Call
<1>5. ASSUME NEW power_failed \in BOOLEAN, RestartBoard(power_failed)
      PROVE  ExpanderTypeOK'
  <2>1. calls' \in Seq(Call) /\ asked' \subseteq Writes /\ clean' \in BOOLEAN
    BY <1>5, InitAsks, PerformType DEF RestartBoard
  <2>2. expander_left' \in [ExpanderEvents -> Nat]
    BY <1>5, LeftType DEF RestartBoard, ExpanderTypeOK, ExpanderEvents
  <2>3. image' \in [Cells -> SUBSET Pins] /\ chip' \in [Cells -> SUBSET Pins]
    BY <1>5, DefaultsType DEF RestartBoard, ExpanderTypeOK
  <2>. QED  BY <1>5, <2>1, <2>2, <2>3 DEF RestartBoard, ExpanderTypeOK, Call
<1>6. CASE UNCHANGED expanderVars
  BY <1>6 DEF expanderVars, ExpanderTypeOK
<1>. QED  BY <1>1, <1>2, <1>3, <1>4, <1>5, <1>6 DEF ExpanderNext

\* The variables of the driver, its calls and the chip have their types.
THEOREM ExpanderTyping == ExpanderSpec => []ExpanderTypeOK
BY InitType, StepType, PTL DEF ExpanderSpec

-----------------------------------------------------------------------------
(* A write keeps the bits of others.                                       *)

\* What differs after a write belongs to it, or was lost before.
LEMMA WriteKeeps ==
  ASSUME ExpanderTypeOK, calls # <<>>, chip' \in {chip, Written(ThisWrite)},
         NEW cell \in Cells, NEW pin \in Pins, (pin \in chip[cell]) # (pin \in chip'[cell])
  PROVE  \/ cell = ThisWrite.cell /\ pin \in ThisWrite.pins
         \/ (pin \in chip[cell]) # (pin \in image[cell])
<1>1. ThisWrite \in Writes
  BY ThisPending DEF ExpanderTypeOK, Call
<1>2. chip' = Written(ThisWrite)
  OBVIOUS
<1>3. cell = ThisWrite.cell
  BY <1>1, <1>2, WrittenType
<1>4. chip'[cell] = Update(image, ThisWrite)[cell]
  BY <1>1, <1>2, <1>3, WrittenType
<1>5. image \in [Cells -> SUBSET Pins]
  BY DEF ExpanderTypeOK
<1>6. ASSUME pin \notin ThisWrite.pins
      PROVE  (pin \in chip'[cell]) <=> (pin \in image[cell])
  <2>1. chip'[cell] = IF ThisWrite.high THEN image[cell] \cup ThisWrite.pins
                     ELSE image[cell] \ ThisWrite.pins
    BY <1>1, <1>3, <1>4, <1>5, UpdateType
  <2>2. chip'[cell] = image[cell] \cup ThisWrite.pins \/ chip'[cell] = image[cell] \ ThisWrite.pins
    BY <2>1
  <2>. QED  BY <1>6, <2>2
<1>. QED  BY <1>3, <1>6

\* Switching one device never switches another, unless that one was asked for
\* before and its write was lost.
THEOREM KeepsOthers == ExpanderSpec => OthersKept
<1>. DEFINE Kept ==
       calls # <<>> /\ expander_left'["restart"] = expander_left["restart"] =>
         \A cell \in Cells : \A pin \in Pins :
           (pin \in chip[cell]) # (pin \in chip'[cell]) =>
             \/ LET write == Head(Head(calls)) IN cell = write.cell /\ pin \in write.pins
             \/ (pin \in chip[cell]) # (pin \in image[cell])
<1>1. ASSUME ExpanderTypeOK, [ExpanderNext]_expanderVars
      PROVE  [Kept]_expanderVars
  <2>. SUFFICES ASSUME calls # <<>>, expander_left'["restart"] = expander_left["restart"],
                       NEW cell \in Cells, NEW pin \in Pins,
                       (pin \in chip[cell]) # (pin \in chip'[cell])
                PROVE  \/ cell = ThisWrite.cell /\ pin \in ThisWrite.pins
                       \/ (pin \in chip[cell]) # (pin \in image[cell])
    BY DEF ThisWrite
  <2>1. CASE WriteRegister \/ WriteRegisterFails
    <3>1. chip' \in {chip, Written(ThisWrite)}
      BY <2>1 DEF WriteRegister, WriteRegisterFails, ThisWrite
    <3>. QED  BY <1>1, <3>1, WriteKeeps
  <2>2. ASSUME NEW power_failed \in BOOLEAN, RestartBoard(power_failed)
        PROVE  FALSE
    <3>1. expander_left["restart"] \in Nat
      BY <1>1 DEF ExpanderTypeOK, ExpanderEvents
    <3>2. expander_left' = [expander_left EXCEPT !["restart"] = @ - 1]
      BY <2>2 DEF RestartBoard, ExpanderHappens
    <3>3. expander_left'["restart"] = expander_left["restart"] - 1
      BY <1>1, <3>2 DEF ExpanderTypeOK, ExpanderEvents
    <3>. QED  BY <3>1, <3>3
  <2>3. CASE UNCHANGED expanderVars
    BY <2>3 DEF expanderVars
  <2>4. (\E device \in Used, on \in BOOLEAN : SwitchPower(device, on)) => UNCHANGED chip
    BY DEF SwitchPower
  <2>5. (\E on \in BOOLEAN : SwitchFrontPir(on)) => UNCHANGED chip
    BY DEF SwitchFrontPir
  <2>. QED  BY <1>1, <2>1, <2>2, <2>3, <2>4, <2>5 DEF ExpanderNext
<1>. QED  BY <1>1, ExpanderTyping, PTL DEF ExpanderSpec, OthersKept

-----------------------------------------------------------------------------
(* No contention.                                                          *)

\* The driver's image never asks for a contention, and what is still to be
\* written keeps it so.
SignalInv ==
  board = "B02" =>
    /\ 7 \in image[<<"out", "B">>] => 6 \in image[<<"direction", "B">>]
    /\ SafeOrder(Pending, ThisWrite, image)

\* A write, made or lost, keeps the order that is safe for the signal.
LEMMA SignalWrite ==
  ASSUME ExpanderTypeOK, SignalInv, calls # <<>>, image' = Update(image, ThisWrite),
         WritesOf(calls') \subseteq Pending, board' = board
  PROVE  SignalInv'
<1>. DEFINE out == <<"out", "B">>
            dir == <<"direction", "B">>
<1>. SUFFICES ASSUME board = "B02" PROVE
       /\ 7 \in image'[out] => 6 \in image'[dir]
       /\ \A w \in WritesOf(calls') : GivesPower(w) =>
            (\A v \in WritesOf(calls') : ~TakesSignal(v)) /\ 6 \in image'[dir]
       /\ \A w \in WritesOf(calls') : TakesSignal(w) => 7 \notin image'[out]
  BY DEF SignalInv, SafeOrder, Pending
<1>1. ThisWrite \in Pending /\ ThisWrite \in Writes
  BY ThisPending DEF ExpanderTypeOK, Call
<1>2. image \in [Cells -> SUBSET Pins] /\ out \in Cells /\ dir \in Cells
  BY DEF ExpanderTypeOK, Cells, Registers, Ports
<1>3. /\ ThisWrite.cell # out => image'[out] = image[out]
      /\ ThisWrite.cell # dir => image'[dir] = image[dir]
      /\ image'[ThisWrite.cell] = IF ThisWrite.high THEN image[ThisWrite.cell] \cup ThisWrite.pins
                                  ELSE image[ThisWrite.cell] \ ThisWrite.pins
  BY <1>1, <1>2, UpdateType
<1>4. out # dir
  OBVIOUS
<1>5. /\ 7 \in image[out] => 6 \in image[dir]
      /\ \A w \in Pending : GivesPower(w) =>
            /\ \A v \in Pending : ~TakesSignal(v)
            /\ 6 \in image[dir] \/ FreesSignal(ThisWrite)
      /\ \A w \in Pending : TakesSignal(w) => 7 \notin image[out] \/ TakesPower(ThisWrite)
  BY DEF SignalInv, SafeOrder
<1>6. /\ GivesPower(ThisWrite) <=> ThisWrite.cell = out /\ 7 \in ThisWrite.pins /\ ThisWrite.high
      /\ TakesPower(ThisWrite) <=> ThisWrite.cell = out /\ 7 \in ThisWrite.pins /\ ~ThisWrite.high
      /\ TakesSignal(ThisWrite) <=> ThisWrite.cell = dir /\ 6 \in ThisWrite.pins /\ ~ThisWrite.high
      /\ FreesSignal(ThisWrite) <=> ThisWrite.cell = dir /\ 6 \in ThisWrite.pins /\ ThisWrite.high
  BY DEF GivesPower, TakesPower, TakesSignal, FreesSignal
<1>. HIDE DEF out, dir
\* What the write does to the two pins.
<1>7. /\ 7 \in image'[out] => 7 \in image[out] \/ GivesPower(ThisWrite)
      /\ 7 \in image[out] /\ ~TakesPower(ThisWrite) => 7 \in image'[out]
      /\ TakesPower(ThisWrite) => 7 \notin image'[out]
      /\ 6 \in image[dir] /\ ~TakesSignal(ThisWrite) => 6 \in image'[dir]
      /\ FreesSignal(ThisWrite) => 6 \in image'[dir]
  BY <1>3, <1>6
<1>8. ~(TakesSignal(ThisWrite) /\ TakesPower(ThisWrite))
  BY <1>4, <1>6
<1>9. ~(FreesSignal(ThisWrite) /\ GivesPower(ThisWrite))
  BY <1>4, <1>6
<1>10. ~(TakesSignal(ThisWrite) /\ GivesPower(ThisWrite))
  BY <1>4, <1>6
<1>11. 7 \in image'[out] => 6 \in image'[dir]
  <2>. SUFFICES ASSUME 7 \in image'[out] PROVE 6 \in image'[dir]
    OBVIOUS
  <2>1. CASE GivesPower(ThisWrite)
    BY <1>1, <1>5, <1>7, <1>9, <2>1
  <2>2. CASE ~GivesPower(ThisWrite)
    BY <1>1, <1>5, <1>7, <2>2
  <2>. QED  BY <2>1, <2>2
<1>12. ASSUME NEW w \in WritesOf(calls'), GivesPower(w)
       PROVE  (\A v \in WritesOf(calls') : ~TakesSignal(v)) /\ 6 \in image'[dir]
  BY <1>1, <1>5, <1>7, <1>12
<1>13. ASSUME NEW w \in WritesOf(calls'), TakesSignal(w)
       PROVE  7 \notin image'[out]
  BY <1>1, <1>5, <1>7, <1>13
<1>. QED  BY <1>11, <1>12, <1>13

\* An operation that starts when nothing is pending.
LEMMA SignalOperation ==
  ASSUME SignalInv, board' = board, image' = image, NEW operation,
         calls' = operation, \A w \in WritesOf(operation) : ~GivesPower(w) /\ ~TakesSignal(w)
  PROVE  SignalInv'
BY DEF SignalInv, SafeOrder, Pending

\* No contention is asked for at the start.
LEMMA SignalInit == ExpanderInit => SignalInv
<1>. SUFFICES ASSUME ExpanderInit PROVE SignalInv
  OBVIOUS
<1>1. 7 \notin image[<<"out", "B">>]
  BY DEF ExpanderInit, Defaults, Cells, Registers, Ports
<1>2. \A w \in Pending : ~GivesPower(w)
  BY InitAsks DEF ExpanderInit, Pending
<1>. QED  BY <1>1, <1>2 DEF SignalInv, SafeOrder

\* No step makes the driver ask for a contention.
LEMMA SignalStep ==
  ASSUME ExpanderTypeOK, SignalInv, [ExpanderNext]_expanderVars
  PROVE  SignalInv'
<1>0. calls \in Seq(Call) /\ board \in {"T01", "B02"}
  BY DEF ExpanderTypeOK, Call
<1>1. ASSUME NEW device \in Used, NEW on \in BOOLEAN, SwitchPower(device, on)
      PROVE  SignalInv'
  <2>1. CASE board = "B02"
    <3>1. \A w \in WritesOf(SwitchDevice(device, on)) : ~GivesPower(w) /\ ~TakesSignal(w)
      BY <1>0, <1>1, <2>1, SwitchDeviceAsks DEF SwitchPower
    <3>. QED  BY <1>1, <3>1, SignalOperation DEF SwitchPower, Perform
  <2>2. CASE board # "B02"
    BY <1>1, <2>2 DEF SwitchPower, SignalInv
  <2>. QED  BY <2>1, <2>2
<1>2. ASSUME SwitchFrontPir(TRUE)
      PROVE  SignalInv'
  <2>1. calls' = EnableFrontPir /\ image' = image /\ board' = board
    BY <1>2 DEF SwitchFrontPir, Perform
  <2>. QED  BY <2>1, EnableAsks DEF SignalInv, SafeOrder, Pending, ThisWrite
<1>3. ASSUME SwitchFrontPir(FALSE)
      PROVE  SignalInv'
  <2>1. calls' = DisableFrontPir /\ image' = image /\ board' = board
    BY <1>3 DEF SwitchFrontPir, Perform
  <2>. QED  BY <2>1, DisableAsks DEF SignalInv, SafeOrder, Pending, ThisWrite
<1>4. CASE WriteRegister
  <2>1. WritesOf(calls') \subseteq Pending
    BY <1>0, <1>4, Remaining DEF WriteRegister
  <2>2. image' = Update(image, ThisWrite) /\ board' = board /\ calls # <<>>
    BY <1>4 DEF WriteRegister, ThisWrite
  <2>. QED  BY <2>1, <2>2, SignalWrite
<1>5. CASE WriteRegisterFails
  <2>1. WritesOf(calls') \subseteq Pending
    BY <1>0, <1>5, OneCallLess DEF WriteRegisterFails
  <2>2. image' = Update(image, ThisWrite) /\ board' = board /\ calls # <<>>
    BY <1>5 DEF WriteRegisterFails, ThisWrite
  <2>. QED  BY <2>1, <2>2, SignalWrite
<1>6. ASSUME NEW power_failed \in BOOLEAN, RestartBoard(power_failed)
      PROVE  SignalInv'
  <2>1. calls' = InitExpander /\ image' = Defaults
    BY <1>6 DEF RestartBoard, Perform
  <2>2. 7 \notin Defaults[<<"out", "B">>]
    BY DEF Defaults, Cells, Registers, Ports
  <2>. QED  BY <2>1, <2>2, InitAsks DEF SignalInv, SafeOrder, Pending
<1>7. CASE UNCHANGED expanderVars
  BY <1>7 DEF expanderVars, SignalInv, SafeOrder, Pending, ThisWrite
<1>8. ASSUME NEW on \in BOOLEAN, SwitchFrontPir(on)
      PROVE  SignalInv'
  BY <1>2, <1>3, <1>8
<1>. QED  BY <1>1, <1>4, <1>5, <1>6, <1>7, <1>8 DEF ExpanderNext

\* Where port B is what the driver believes it to be, the expander does not
\* drive the signal of a powered front PIR.
THEOREM Uncontended == ExpanderSpec => []NoContention
<1>1. SignalInv => NoContention
  BY DEF SignalInv, NoContention, Contends
<1>2. ExpanderSpec => []SignalInv
  BY SignalInit, SignalStep, ExpanderTyping, PTL DEF ExpanderSpec
<1>. QED  BY <1>1, <1>2, PTL

-----------------------------------------------------------------------------
(* An operation without failures leaves the chip as it asks.               *)

\* Every write that was asked for is still to come, or it holds in the image
\* as well as in the chip: the next write of its register keeps it.
AskedInv ==
  /\ Pending \subseteq asked
  /\ Agree(asked)
  /\ clean => \A w \in asked : w \in Pending \/ (Holds(w, chip) /\ Holds(w, image))

\* When an operation without contradictions begins, all of it is pending.
LEMMA AskedOperation ==
  ASSUME NEW operation, Agree(WritesOf(operation)), Perform(operation)
  PROVE  AskedInv'
<1>1. calls' = operation /\ asked' = WritesOf(operation)
  BY DEF Perform
<1>2. Pending' = asked'
  BY <1>1 DEF Pending
<1>3. Agree(asked')
  BY <1>1
<1>4. Agree(asked)'
  BY <1>3 DEF Agree
<1>5. (clean => \A w \in asked : w \in Pending \/ (Holds(w, chip) /\ Holds(w, image)))'
  BY <1>2 DEF Pending, Holds
<1>. QED  BY <1>2, <1>4, <1>5 DEF AskedInv

\* A write keeps what an operation without contradictions has written before.
LEMMA WriteHolds ==
  ASSUME ExpanderTypeOK, AskedInv, calls # <<>>, NEW w \in asked,
         w = ThisWrite \/ (Holds(w, chip) /\ Holds(w, image))
  PROVE  Holds(w, Written(ThisWrite)) /\ Holds(w, Update(image, ThisWrite))
<1>1. ThisWrite \in Writes /\ ThisWrite \in asked /\ w \in Writes
  BY ThisPending DEF AskedInv, ExpanderTypeOK, Call
<1>2. w.cell \in Cells /\ w.pins \subseteq Pins /\ w.high \in BOOLEAN
  BY <1>1 DEF Writes
<1>3. image \in [Cells -> SUBSET Pins]
  BY DEF ExpanderTypeOK
<1>4. CASE w.cell # ThisWrite.cell
  <2>1. Holds(w, chip) /\ Holds(w, image)
    BY <1>4
  <2>2. Written(ThisWrite)[w.cell] = chip[w.cell]
    BY <1>1, <1>2, <1>4, WrittenType
  <2>3. Update(image, ThisWrite)[w.cell] = image[w.cell]
    BY <1>1, <1>2, <1>3, <1>4, UpdateType
  <2>. QED  BY <2>1, <2>2, <2>3 DEF Holds
<1>5. CASE w.cell = ThisWrite.cell
  <2>. DEFINE before == image[w.cell]
              after  == Update(image, ThisWrite)[w.cell]
  <2>1. Written(ThisWrite)[w.cell] = after
    BY <1>1, <1>5, WrittenType
  <2>2. /\ ThisWrite.high => after = before \cup ThisWrite.pins
        /\ ~ThisWrite.high => after = before \ ThisWrite.pins
    <3>1. Update(image, ThisWrite)[ThisWrite.cell] =
            IF ThisWrite.high THEN image[ThisWrite.cell] \cup ThisWrite.pins
            ELSE image[ThisWrite.cell] \ ThisWrite.pins
      BY <1>1, <1>3, UpdateType
    <3>2. after = IF ThisWrite.high THEN before \cup ThisWrite.pins
                  ELSE before \ ThisWrite.pins
      BY <1>5, <3>1
    <3>. HIDE DEF before, after
    <3>. QED  BY <3>2
  <2>3. /\ w = ThisWrite \/ (w.high => w.pins \subseteq before)
        /\ w = ThisWrite \/ (~w.high => w.pins \cap before = {})
    BY DEF Holds
  <2>4. w.pins \cap ThisWrite.pins # {} => w.high = ThisWrite.high
    BY <1>1, <1>5 DEF AskedInv, Agree
  <2>. HIDE DEF before, after
  <2>5. ASSUME w.high PROVE w.pins \subseteq after
    <3>1. CASE w = ThisWrite
      BY <2>2, <2>5, <3>1
    <3>2. CASE w # ThisWrite /\ ThisWrite.high
      BY <2>2, <2>3, <2>5, <3>2
    <3>3. CASE w # ThisWrite /\ ~ThisWrite.high
      <4>1. w.pins \cap ThisWrite.pins = {}
        BY <2>4, <2>5, <3>3
      <4>. QED  BY <2>2, <2>3, <2>5, <3>3, <4>1
    <3>. QED  BY <3>1, <3>2, <3>3
  <2>6. ASSUME ~w.high PROVE w.pins \cap after = {}
    <3>1. CASE w = ThisWrite
      BY <2>2, <2>6, <3>1
    <3>2. CASE w # ThisWrite /\ ~ThisWrite.high
      BY <2>2, <2>3, <2>6, <3>2
    <3>3. CASE w # ThisWrite /\ ThisWrite.high
      <4>1. w.pins \cap ThisWrite.pins = {}
        BY <2>4, <2>6, <3>3
      <4>. QED  BY <2>2, <2>3, <2>6, <3>3, <4>1
    <3>. QED  BY <3>1, <3>2, <3>3
  <2>7. after = Update(image, ThisWrite)[w.cell]
    BY DEF after
  <2>. QED  BY <2>1, <2>5, <2>6, <2>7 DEF Holds
<1>. QED  BY <1>4, <1>5

\* No step loses track of a write that was asked for.
LEMMA AskedStep ==
  ASSUME ExpanderTypeOK, AskedInv, [ExpanderNext]_expanderVars
  PROVE  AskedInv'
<1>0. calls \in Seq(Call) /\ board \in {"T01", "B02"}
  BY DEF ExpanderTypeOK, Call
<1>1. ASSUME NEW device \in Used, NEW on \in BOOLEAN, SwitchPower(device, on)
      PROVE  AskedInv'
  <2>1. Agree(WritesOf(SwitchDevice(device, on)))
    BY <1>0, <1>1, SwitchDeviceAsks DEF SwitchPower
  <2>. QED  BY <1>1, <2>1, AskedOperation DEF SwitchPower
<1>2. ASSUME NEW on \in BOOLEAN, SwitchFrontPir(on)
      PROVE  AskedInv'
  BY <1>2, FrontPirOperation, AskedOperation DEF SwitchFrontPir
<1>3. CASE WriteRegister
  <2>1. Pending = {ThisWrite} \cup Pending'
    BY <1>0, <1>3, Remaining DEF WriteRegister, Pending
  <2>2. /\ image' = Update(image, ThisWrite) /\ chip' = Written(ThisWrite)
        /\ asked' = asked /\ clean' = clean /\ calls # <<>>
    BY <1>3 DEF WriteRegister, ThisWrite
  <2>3. ASSUME clean, NEW w \in asked, w \notin Pending'
        PROVE  Holds(w, chip') /\ Holds(w, image')
    <3>1. w = ThisWrite \/ (Holds(w, chip) /\ Holds(w, image))
      BY <2>1, <2>3 DEF AskedInv
    <3>. QED  BY <2>2, <3>1, WriteHolds
  <2>4. Pending' \subseteq asked'
    BY <2>1, <2>2 DEF AskedInv
  <2>5. Agree(asked)'
    BY <2>2 DEF AskedInv, Agree
  <2>6. (clean => \A w \in asked : w \in Pending \/ (Holds(w, chip) /\ Holds(w, image)))'
    <3>1. clean => \A w \in asked : w \in Pending' \/ (Holds(w, chip') /\ Holds(w, image'))
      <4>. SUFFICES ASSUME clean, NEW w \in asked
                    PROVE  w \in Pending' \/ (Holds(w, chip') /\ Holds(w, image'))
        OBVIOUS
      <4>1. CASE w \in Pending'
        BY <4>1
      <4>2. CASE w \notin Pending'
        BY <2>3, <4>2
      <4>. QED  BY <4>1, <4>2
    <3>. QED  BY <2>2, <3>1 DEF Holds
  <2>. QED  BY <2>4, <2>5, <2>6 DEF AskedInv
<1>4. CASE WriteRegisterFails
  BY <1>0, <1>4, OneCallLess DEF WriteRegisterFails, AskedInv, Pending
<1>5. ASSUME NEW power_failed \in BOOLEAN, RestartBoard(power_failed)
      PROVE  AskedInv'
  BY <1>5, InitAsks, AskedOperation DEF RestartBoard
<1>6. CASE UNCHANGED expanderVars
  BY <1>6 DEF expanderVars, AskedInv, Pending
<1>. QED  BY <1>1, <1>2, <1>3, <1>4, <1>5, <1>6 DEF ExpanderNext

\* An operation whose own writes succeed leaves the chip as it asks, whatever
\* was lost before.
THEOREM CallsHold == ExpanderSpec => []LastCallHolds
<1>1. ASSUME ExpanderInit PROVE AskedInv
  <2>1. Pending = asked /\ asked = WritesOf(InitExpander)
    BY <1>1 DEF ExpanderInit, Pending
  <2>2. Agree(WritesOf(InitExpander))
    BY InitAsks
  <2>3. Agree(asked)
    BY <2>1, <2>2 DEF Agree
  <2>. QED  BY <2>1, <2>3 DEF AskedInv
<1>2. ExpanderSpec => []AskedInv
  BY <1>1, AskedStep, ExpanderTyping, PTL DEF ExpanderSpec
<1>3. AskedInv => LastCallHolds
  BY DEF AskedInv, LastCallHolds, Pending, WritesOf
<1>. QED  BY <1>2, <1>3, PTL

-----------------------------------------------------------------------------
(* The flash memory.                                                       *)

-----------------------------------------------------------------------------
(* Quotients and remainders.                                               *)

\* What a division leaves.
LEMMA Division ==
  ASSUME NEW a \in Nat, NEW b \in Nat \ {0}
  PROVE  /\ a \div b \in Nat /\ a % b \in 0..(b - 1)
         /\ b * (a \div b) \in Nat /\ a = b * (a \div b) + (a % b)
<1>1. a % b = a - b * (a \div b) /\ a \div b \in Nat /\ a % b \in 0..(b - 1)
  OBVIOUS
<1>. DEFINE p == b * (a \div b)
<1>2. p \in Nat
  BY <1>1
<1>3. a % b = a - p
  BY <1>1
<1>. HIDE DEF p
<1>4. a = p + (a % b)
  BY <1>1, <1>2, <1>3
<1>. QED  BY <1>1, <1>2, <1>4 DEF p

\* Quotient and remainder are determined.
LEMMA Quotient ==
  ASSUME NEW b \in Nat \ {0}, NEW q \in Nat, NEW r \in 0..(b - 1), NEW a, a = b * q + r
  PROVE  a \div b = q /\ a % b = r
OBVIOUS

\* A quotient grows with what is divided.
LEMMA QuotientLess ==
  ASSUME NEW b \in Nat \ {0}, NEW n \in Nat, NEW a \in Nat, a < n * b
  PROVE  a \div b < n
<1>. DEFINE q == a \div b
            p == b * q
<1>1. q \in Nat /\ p \in Nat /\ a = p + (a % b) /\ a % b \in 0..(b - 1)
  BY Division
<1>2. p <= a
  BY <1>1
<1>. HIDE DEF p
<1>3. p < n * b
  BY <1>1, <1>2
<1>. HIDE DEF q
<1>4. ASSUME q >= n PROVE FALSE
  <2>1. b * q >= b * n
    BY <1>1, <1>4
  <2>. QED  BY <1>1, <1>3, <2>1 DEF p
<1>. QED  BY <1>1, <1>4 DEF q

\* A sector is a whole number of pages, so the address of a datum splits into its
\* page and its place in the page the way the block device computes them.
LEMMA PageOfAddress ==
  ASSUME NEW address \in Nat
  PROVE  LET sector == SectorOf(address)
             sector_offset == address % SectorSize
             page_number == ((sector * SectorSize) \div PageSize) + (sector_offset \div PageSize)
             page_offset == sector_offset % PageSize
         IN  /\ page_number \in Nat /\ page_offset \in 0..(PageSize - 1)
             /\ page_number * PageSize + page_offset = address
<1>. DEFINE sector == SectorOf(address)
            sector_offset == address % SectorSize
            pages == SectorSize \div PageSize
            place == sector_offset \div PageSize
            page_offset == sector_offset % PageSize
            base == sector * SectorSize
            before == sector * pages
<1>0. SectorSize \in Nat \ {0} /\ PageSize \in Nat \ {0} /\ SectorSize % PageSize = 0
  BY GeometryAssumption
<1>1. sector \in Nat /\ sector_offset \in Nat /\ address = SectorSize * sector + sector_offset
  BY <1>0, Division DEF SectorOf
<1>2. pages \in Nat /\ SectorSize = PageSize * pages
  BY <1>0, Division
<1>. HIDE DEF sector, pages
<1>3. before \in Nat /\ base = PageSize * before + 0 /\ base = SectorSize * sector
  BY <1>0, <1>1, <1>2
<1>. HIDE DEF base, before
<1>4. base \div PageSize = before
  <2>1. 0 \in 0..(PageSize - 1)
    BY <1>0
  <2>. QED  BY <1>0, <1>3, <2>1, Quotient
<1>. HIDE DEF sector_offset
<1>5. /\ place \in Nat /\ page_offset \in 0..(PageSize - 1)
      /\ sector_offset = PageSize * place + page_offset
  BY <1>0, <1>1, Division
<1>. HIDE DEF place, page_offset
<1>6. ((base \div PageSize) + place) * PageSize + page_offset = address
  <2>1. (before + place) * PageSize = PageSize * before + PageSize * place
    BY <1>0, <1>3, <1>5
  <2>. DEFINE p == PageSize * before
              q == PageSize * place
              r == SectorSize * sector
  <2>2. p \in Nat /\ q \in Nat /\ r \in Nat /\ p = r
    BY <1>0, <1>1, <1>3, <1>5
  <2>3. /\ (before + place) * PageSize = p + q /\ address = r + sector_offset
        /\ sector_offset = q + page_offset
    BY <1>1, <1>5, <2>1
  <2>. HIDE DEF p, q, r
  <2>. QED  BY <1>1, <1>4, <1>5, <2>2, <2>3
<1>7. (base \div PageSize) + place \in Nat
  BY <1>3, <1>4, <1>5
<1>. QED  BY <1>5, <1>6, <1>7 DEF base, place, page_offset, sector_offset, sector

\* A block littlefs programs lies in the memory and fits in a page, a sector that
\* it erases begins in the memory, and every address is in a sector.
LEMMA SectorRange ==
  ASSUME NEW a \in Addresses
  PROVE  a \in Nat /\ SectorOf(a) \in 0..(SectorCount - 1)
<1>1. /\ a \in Nat /\ a < SectorCount * SectorSize
      /\ SectorSize \in Nat \ {0} /\ SectorCount \in Nat \ {0}
  BY GeometryAssumption DEF Addresses
<1>2. a \div SectorSize < SectorCount /\ a \div SectorSize \in Nat
  BY <1>1, Division, QuotientLess
<1>. QED  BY <1>1, <1>2 DEF SectorOf

\* A sector begins on the chip.
LEMMA SectorStart ==
  ASSUME NEW sector \in 0..(SectorCount - 1)
  PROVE  sector * SectorSize \in Addresses
<1>1. SectorSize \in Nat \ {0} /\ SectorCount \in Nat \ {0} /\ sector \in Nat /\ sector + 1 <= SectorCount
  BY GeometryAssumption
<1>2. sector * SectorSize + SectorSize = (sector + 1) * SectorSize
  BY <1>1
<1>3. (sector + 1) * SectorSize <= SectorCount * SectorSize
  BY <1>1
<1>. DEFINE start == sector * SectorSize
            end == SectorCount * SectorSize
<1>4. start \in Nat /\ end \in Nat /\ start + SectorSize <= end
  BY <1>1, <1>2, <1>3
<1>. HIDE DEF start, end
<1>5. start \in 0..(end - 1)
  BY <1>1, <1>4
<1>. QED  BY <1>5 DEF start, end, Addresses

\* A block of littlefs lies within one sector.
LEMMA BlockFits ==
  ASSUME NEW block \in Blocks
  PROVE  /\ block.first \in Addresses /\ block.size \in 1..CacheSize
         /\ block.size <= PageSize /\ block.size <= SectorSize
         /\ block.first + block.size <= SectorCount * SectorSize
<1>. DEFINE first == block.first
            sector == SectorOf(first)
            offset == first % SectorSize
            start == sector * SectorSize
            end == SectorCount * SectorSize
<1>0. /\ SectorSize \in Nat \ {0} /\ SectorCount \in Nat \ {0} /\ PageSize \in Nat \ {0}
      /\ CacheSize \in Nat \ {0} /\ CacheSize <= PageSize
  BY GeometryAssumption
<1>1. first \in Addresses /\ block.size \in 1..CacheSize /\ offset + block.size <= SectorSize
  BY DEF Blocks
<1>. HIDE DEF first
<1>2. sector \in 0..(SectorCount - 1) /\ first \in Nat
  BY <1>1, SectorRange
<1>3. offset \in Nat /\ first = SectorSize * sector + offset
  BY <1>0, <1>2, Division DEF SectorOf
<1>. HIDE DEF sector, offset
<1>4. sector + 1 <= SectorCount /\ sector \in Nat
  BY <1>0, <1>2
<1>5. start + SectorSize = (sector + 1) * SectorSize /\ start = SectorSize * sector
  BY <1>0, <1>4
<1>6. (sector + 1) * SectorSize <= end /\ start \in Nat /\ end \in Nat
  BY <1>0, <1>4
<1>. HIDE DEF start, end
<1>7. start + SectorSize <= end /\ first = start + offset
  BY <1>3, <1>5, <1>6
<1>8. first + block.size <= end
  BY <1>0, <1>1, <1>3, <1>6, <1>7
<1>. QED  BY <1>0, <1>1, <1>3, <1>8 DEF end, first

-----------------------------------------------------------------------------
(* Types, and where a datum goes.                                          *)

\* Where the driver is in programming a block: the place of the next byte is the
\* address of the next datum, and the page is full when there is a next page.
Placed(c) ==
  /\ c.page_number * PageSize + c.page_offset = c.first + c.data
  /\ c.data + c.data_size = c.size /\ c.size <= CacheSize
  /\ c.first + c.size <= SectorCount * SectorSize
  /\ c.size_to_write \in 1..c.data_size
  /\ c.page_offset + c.size_to_write <= PageSize
  /\ c.size_to_write < c.data_size => c.page_offset + c.size_to_write = PageSize

\* A call is well-formed; one that programs knows the place of its data.
CallOK(c) ==
  /\ c \in Calls
  /\ c.op = "none" => c.pc = "idle"
  /\ c.op = "prog" /\ c.pc # "idle" => Placed(c)

\* What the chip programs, it programs in place.
BusyInPlace == busy.kind = "prog" => \A d \in busy.data : d[1] = d[2]

PlaceInv ==
  /\ FlashTypeOK /\ InPlace /\ BusyInPlace
  /\ \A t \in FlashTasks : CallOK(call[t])

\* A call that begins to program.
LEMMA ProgBegins ==
  ASSUME NEW t \in FlashTasks, NEW block \in Blocks, BeginProg(t, block)
  PROVE  \E begun : Begin(t, begun) /\ CallOK(begun) /\ begun.pc = "enable" /\ begun.result = "failure"
                    /\ begun.op = "prog" /\ begun.data = 0
<1>. DEFINE sector == SectorOf(block.first)
            sector_offset == block.first % SectorSize
            page_number == ((sector * SectorSize) \div PageSize) + (sector_offset \div PageSize)
            page_offset == sector_offset % PageSize
            size_to_write == Smaller(block.size, PageSize - page_offset)
            begun == [pc |-> "enable", result |-> "failure", op |-> "prog",
                      first |-> block.first, size |-> block.size,
                      page_number |-> page_number, page_offset |-> page_offset,
                      data |-> 0, data_size |-> block.size, size_to_write |-> size_to_write]
<1>0. PageSize \in Nat \ {0} /\ CacheSize \in Nat \ {0} /\ SectorSize \in Nat \ {0}
  BY GeometryAssumption
<1>1. /\ block.first \in Addresses /\ block.size \in 1..CacheSize
      /\ block.size <= PageSize /\ block.size <= SectorSize
      /\ block.first + block.size <= SectorCount * SectorSize
  BY BlockFits
<1>2. block.first \in Nat
  BY <1>1, SectorRange
<1>3. /\ page_number \in Nat /\ page_offset \in 0..(PageSize - 1)
      /\ page_number * PageSize + page_offset = block.first
  BY <1>2, PageOfAddress
<1>4. Begin(t, begun)
  BY DEF BeginProg
<1>. HIDE DEF page_number, page_offset
<1>5. /\ size_to_write \in 1..block.size /\ page_offset + size_to_write <= PageSize
      /\ size_to_write < block.size => page_offset + size_to_write = PageSize
      /\ size_to_write \in 0..PageSize
  BY <1>0, <1>1, <1>3 DEF Smaller
<1>. HIDE DEF size_to_write
<1>6. begun \in Calls
  BY <1>0, <1>1, <1>3, <1>5 DEF Calls, Results
<1>7. Placed(begun)
  BY <1>0, <1>1, <1>2, <1>3, <1>5 DEF Placed
<1>. QED  BY <1>4, <1>6, <1>7 DEF CallOK

\* A call that begins to erase.
LEMMA EraseBegins ==
  ASSUME NEW t \in FlashTasks, NEW sector \in 0..(SectorCount - 1), BeginErase(t, sector)
  PROVE  \E begun : Begin(t, begun) /\ CallOK(begun) /\ begun.pc = "enable" /\ begun.result = "failure"
                    /\ begun.op = "erase" /\ begun.data = 0
<1>. DEFINE start == sector * SectorSize
            begun == [Idle EXCEPT !.pc = "enable", !.op = "erase", !.first = start, !.size = SectorSize]
<1>0. PageSize \in Nat \ {0} /\ CacheSize \in Nat \ {0} /\ SectorSize \in Nat \ {0}
  BY GeometryAssumption
<1>1. start \in Addresses /\ 0 \in Addresses
  <2>1. 0 \in 0..(SectorCount - 1) /\ 0 * SectorSize = 0
    BY GeometryAssumption
  <2>2. 0 * SectorSize \in Addresses
    BY <2>1, SectorStart
  <2>. QED  BY <2>1, <2>2, SectorStart
<1>2. Begin(t, begun)
  BY DEF BeginErase
<1>. HIDE DEF start
<1>3. Idle \in Calls /\ Idle.result = "failure" /\ Idle.data = 0
  BY <1>0, <1>1 DEF Calls, Results, Idle
<1>4. begun \in Calls
  <2>. DEFINE c1 == [Idle EXCEPT !.pc = "enable", !.op = "erase"]
              c2 == [c1 EXCEPT !.first = start]
              c3 == [c2 EXCEPT !.size = SectorSize]
  <2>1. c1 \in Calls
    BY <1>3 DEF Calls
  <2>2. c2 \in Calls
    <3>. HIDE DEF c1
    <3>. QED  BY <1>1, <2>1 DEF Calls
  <2>3. c3 \in Calls
    <3>1. SectorSize \in 0..SectorSize
      BY <1>0
    <3>. HIDE DEF c2
    <3>. QED  BY <2>2, <3>1 DEF Calls
  <2>4. c3 = begun
    OBVIOUS
  <2>. QED  BY <2>3, <2>4
<1>5. /\ begun.pc = "enable" /\ begun.result = "failure" /\ begun.op = "erase"
      /\ begun.data = 0
  BY <1>3 DEF Calls
<1>. HIDE DEF begun
<1>. QED  BY <1>2, <1>4, <1>5 DEF CallOK

\* A call goes on, returns, or turns to the next page.
LEMMA GoesOn ==
  ASSUME NEW c, CallOK(c), c.pc # "idle", NEW label \in {"enable", "command", "wait", "polling"}
  PROVE  CallOK([c EXCEPT !.pc = label])
BY DEF CallOK, Calls, Placed

\* A call that returns is in order.
LEMMA Returns ==
  ASSUME NEW c, CallOK(c), NEW result \in Results
  PROVE  CallOK([c EXCEPT !.pc = "idle", !.result = result])
BY DEF CallOK, Calls, Placed

\* The step of the data pointer is less than a page, so its cast to uint8_t loses
\* nothing; the rest of the block goes to the beginning of the next page.
LEMMA NextPagePlaced ==
  ASSUME FlashTypeOK, NEW t \in FlashTasks, CallOK(call[t]), At(t, "polling"), call[t].op = "prog",
         call[t].data_size > call[t].size_to_write, NextPage(t)
  PROVE  \E next : /\ call' = [call EXCEPT ![t] = next] /\ CallOK(next)
                   /\ next.pc = "enable" /\ next.result = call[t].result /\ next.op = "prog"
                   /\ next.first = call[t].first /\ next.size = call[t].size
                   /\ next.data = call[t].data + call[t].size_to_write
<1>. DEFINE c == call[t]
            remaining == c.data_size - c.size_to_write
            data == c.data + (c.size_to_write % PointerStep)
            least == Smaller(remaining, PageSize)
            number == c.page_number + 1
            next == [c EXCEPT !.pc = "enable", !.page_number = number, !.page_offset = 0,
                              !.data = data, !.data_size = remaining, !.size_to_write = least]
<1>0. /\ PageSize \in Nat \ {0} /\ CacheSize \in Nat /\ PointerStep \in Nat \ {0}
      /\ CacheSize <= PageSize /\ PageSize <= PointerStep
  BY GeometryAssumption
<1>1. c \in Calls /\ Placed(c)
  BY DEF CallOK, At
<1>2. call' = [call EXCEPT ![t] = next]
  BY DEF NextPage
<1>. HIDE DEF c
<1>3. /\ c.first \in Nat /\ c.size \in Nat /\ c.page_number \in Nat /\ c.page_offset \in Nat
      /\ c.data \in Nat /\ c.data_size \in Nat /\ c.size_to_write \in Nat
  BY <1>0, <1>1, SectorRange DEF Calls
<1>4. c.size_to_write < c.data_size /\ c.data_size <= c.size /\ c.size <= CacheSize
  BY <1>1, <1>3 DEF Placed, c
<1>5. c.size_to_write % PointerStep = c.size_to_write
  <2>1. c.size_to_write < PointerStep
    BY <1>0, <1>3, <1>4
  <2>. QED  BY <1>0, <1>3, <2>1
<1>6. data = c.data + c.size_to_write /\ data \in 0..CacheSize
  BY <1>0, <1>1, <1>3, <1>4, <1>5 DEF Placed
<1>7. remaining \in 1..CacheSize /\ data + remaining = c.size
  BY <1>0, <1>1, <1>3, <1>4, <1>6 DEF Placed
<1>8. /\ least \in 1..remaining /\ least <= PageSize /\ (least < remaining => least = PageSize)
      /\ least \in 0..PageSize
  BY <1>0, <1>7 DEF Smaller
<1>9. c.page_offset + c.size_to_write = PageSize
  BY <1>1, <1>4 DEF Placed
<1>10. number * PageSize + 0 = c.first + data /\ number \in Nat
  <2>. DEFINE p == c.page_number * PageSize
  <2>1. number * PageSize = p + PageSize /\ p \in Nat
    BY <1>0, <1>3
  <2>2. p + c.page_offset = c.first + c.data
    BY <1>1 DEF Placed
  <2>. HIDE DEF p
  <2>. QED  BY <1>0, <1>3, <1>6, <1>9, <2>1, <2>2
<1>. HIDE DEF remaining, data, least, number
<1>11. next \in Calls
  <2>1. 0 \in 0..(PageSize - 1) /\ remaining \in 0..CacheSize
    BY <1>0, <1>7
  <2>. DEFINE c1 == [c EXCEPT !.pc = "enable", !.page_number = number]
              c2 == [c1 EXCEPT !.page_offset = 0, !.data = data]
              c3 == [c2 EXCEPT !.data_size = remaining, !.size_to_write = least]
  <2>2. c1 \in Calls
    BY <1>1, <1>10 DEF Calls
  <2>3. c2 \in Calls
    <3>. HIDE DEF c1
    <3>. QED  BY <1>6, <2>1, <2>2 DEF Calls
  <2>4. c3 \in Calls
    <3>. HIDE DEF c2
    <3>. QED  BY <1>8, <2>1, <2>3 DEF Calls
  <2>. QED  BY <2>4
<1>12. /\ next.pc = "enable" /\ next.op = c.op /\ next.first = c.first /\ next.size = c.size
       /\ next.page_number = number /\ next.page_offset = 0 /\ next.data = data
       /\ next.data_size = remaining /\ next.size_to_write = least /\ next.result = c.result
  BY <1>1 DEF Calls
<1>. HIDE DEF next
<1>13. Placed(next)
  BY <1>0, <1>1, <1>3, <1>6, <1>7, <1>8, <1>10, <1>12 DEF Placed
<1>14. CallOK(next)
  BY <1>11, <1>12, <1>13 DEF CallOK, c
<1>. QED  BY <1>2, <1>6, <1>12, <1>14 DEF c

\* What the chip programs of a page: data at the addresses they are meant for.
LEMMA ProgrammedPlaces ==
  ASSUME NEW t \in FlashTasks, CallOK(call[t]), call[t].op = "prog", call[t].pc # "idle",
         NEW n \in 1..call[t].size_to_write
  PROVE  LET start == call[t].first + call[t].data IN
         /\ Programming(t, n).kind = "prog"
         /\ Programming(t, n).data = {<<a, a>> : a \in start..(start + n - 1)}
         /\ start..(start + n - 1) \subseteq Addresses
<1>. DEFINE c == call[t]
            start == c.first + c.data
            page == c.page_number * PageSize
            address(i) == page + ((c.page_offset + i) % PageSize)
<1>0. PageSize \in Nat \ {0} /\ CacheSize \in Nat
  BY GeometryAssumption
<1>1. c \in Calls /\ Placed(c) /\ n \in 1..c.size_to_write
  BY DEF CallOK
<1>2. Programming(t, n).kind = "prog"
      /\ Programming(t, n).data = {<<address(i), c.first + c.data + i>> : i \in 0..(n - 1)}
  BY DEF Programming
<1>. HIDE DEF c
<1>3. /\ c.first \in Nat /\ c.size \in Nat /\ c.page_number \in Nat /\ c.page_offset \in Nat
      /\ c.data \in Nat /\ c.data_size \in Nat /\ c.size_to_write \in Nat
  BY <1>0, <1>1, SectorRange DEF Calls
<1>4. /\ page \in Nat /\ page + c.page_offset = start /\ start \in Nat
      /\ c.page_offset + c.size_to_write <= PageSize
  BY <1>0, <1>1, <1>3 DEF Placed
<1>. HIDE DEF page
<1>5. ASSUME NEW i \in 0..(n - 1)
      PROVE  address(i) = start + i
  <2>1. c.page_offset + i \in Nat /\ c.page_offset + i < PageSize
    BY <1>0, <1>1, <1>3, <1>4
  <2>2. (c.page_offset + i) % PageSize = c.page_offset + i
    BY <1>0, <2>1
  <2>. QED  BY <1>3, <1>4, <2>2
<1>. HIDE DEF address
<1>6. {<<address(i), c.first + c.data + i>> : i \in 0..(n - 1)} = {<<start + i, start + i>> : i \in 0..(n - 1)}
  BY <1>5
<1>7. n \in Nat \ {0}
  BY <1>1, <1>3
<1>. HIDE DEF start
<1>8. {<<start + i, start + i>> : i \in 0..(n - 1)} = {<<a, a>> : a \in start..(start + n - 1)}
  <2>1. ASSUME NEW i \in 0..(n - 1) PROVE start + i \in start..(start + n - 1)
    BY <1>4, <1>7
  <2>2. ASSUME NEW a \in start..(start + n - 1)
        PROVE  a - start \in 0..(n - 1) /\ start + (a - start) = a
    BY <1>4, <1>7
  <2>. QED  BY <2>1, <2>2
<1>9. start..(start + n - 1) \subseteq Addresses
  <2>. DEFINE end == SectorCount * SectorSize
  <2>1. start + c.size_to_write <= end /\ end \in Nat
    <3>1. end \in Nat
      BY GeometryAssumption
    <3>2. c.first + c.size <= end
      BY <1>1 DEF Placed
    <3>. HIDE DEF end
    <3>. QED  BY <1>1, <1>3, <3>1, <3>2 DEF Placed, start
  <2>. HIDE DEF end
  <2>2. start..(start + n - 1) \subseteq 0..(end - 1)
    BY <1>1, <1>3, <1>4, <1>7, <2>1
  <2>. QED  BY <2>2 DEF Addresses, end
<1>. QED  BY <1>2, <1>6, <1>8, <1>9 DEF start, c

\* A step that replaces one call by a good one.
LEMMA OneCall ==
  ASSUME FlashTypeOK, \A t \in FlashTasks : CallOK(call[t]),
         NEW t \in FlashTasks, NEW next, CallOK(next), call' = [call EXCEPT ![t] = next]
  PROVE  /\ call' \in [FlashTasks -> Calls] /\ call'[t] = next
         /\ \A other \in FlashTasks \ {t} : call'[other] = call[other]
         /\ \A other \in FlashTasks : CallOK(call'[other])
<1>1. call \in [FlashTasks -> Calls] /\ next \in Calls
  BY DEF FlashTypeOK, CallOK
<1>2. /\ call' \in [FlashTasks -> Calls] /\ call'[t] = next
      /\ \A other \in FlashTasks \ {t} : call'[other] = call[other]
  BY <1>1
<1>. QED  BY <1>2

\* A call that takes a step is at a place in it.
LEMMA StepOfCall ==
  ASSUME FlashTypeOK, \A t \in FlashTasks : CallOK(call[t]), NEW t \in FlashTasks
  PROVE  /\ \A label \in {"enable", "command", "wait", "polling"} :
              call[t].pc # "idle" /\ Goto(t, label) =>
                /\ call' = [call EXCEPT ![t] = [call[t] EXCEPT !.pc = label]]
                /\ CallOK([call[t] EXCEPT !.pc = label])
         /\ \A result \in Results :
              Return(t, result) =>
                /\ call' = [call EXCEPT ![t] = [call[t] EXCEPT !.pc = "idle", !.result = result]]
                /\ CallOK([call[t] EXCEPT !.pc = "idle", !.result = result])
<1>1. call \in [FlashTasks -> Calls]
  BY DEF FlashTypeOK
<1>2. ASSUME NEW label \in {"enable", "command", "wait", "polling"}, call[t].pc # "idle", Goto(t, label)
      PROVE  /\ call' = [call EXCEPT ![t] = [call[t] EXCEPT !.pc = label]]
             /\ CallOK([call[t] EXCEPT !.pc = label])
  BY <1>1, <1>2, GoesOn DEF Goto
<1>3. ASSUME NEW result \in Results, Return(t, result)
      PROVE  /\ call' = [call EXCEPT ![t] = [call[t] EXCEPT !.pc = "idle", !.result = result]]
             /\ CallOK([call[t] EXCEPT !.pc = "idle", !.result = result])
  BY <1>1, <1>3, Returns DEF Return
<1>. QED  BY <1>2, <1>3

\* Whatever a task does to its call, the call stays well-formed.
CallStep(t) ==
  \E next : /\ call' = [call EXCEPT ![t] = next] /\ CallOK(next)

\* Every step of a call leaves it in order.
LEMMA CallSteps ==
  ASSUME PlaceInv, NEW t \in FlashTasks,
         \/ \E block \in Blocks : BeginProg(t, block)
         \/ \E sector \in 0..(SectorCount - 1) : BeginErase(t, sector)
         \/ WriteEnable(t) \/ WriteEnableFails(t) \/ WritePage(t) \/ WritePageFails(t)
         \/ EraseSector(t) \/ EraseSectorFails(t) \/ ReadStatus(t) \/ WaitFails(t) \/ WaitEnds(t)
  PROVE  CallStep(t)
<1>0. FlashTypeOK /\ \A other \in FlashTasks : CallOK(call[other])
  BY DEF PlaceInv
<1>. DEFINE Replaced(next) == call' = [call EXCEPT ![t] = next] /\ CallOK(next)
<1>1. CASE (\E block \in Blocks : BeginProg(t, block))
           \/ \E sector \in 0..(SectorCount - 1) : BeginErase(t, sector)
  <2>1. \E begun : Begin(t, begun) /\ CallOK(begun)
    BY <1>1, ProgBegins, EraseBegins
  <2>. QED  BY <2>1 DEF Begin, CallStep
<1>2. CASE WriteEnable(t) \/ WritePage(t) \/ EraseSector(t) \/ ReadStatus(t)
  <2>1. PICK label \in {"enable", "command", "wait", "polling"} : Goto(t, label) /\ call[t].pc # "idle"
    BY <1>2 DEF WriteEnable, WritePage, EraseSector, ReadStatus, At
  <2>2. Replaced([call[t] EXCEPT !.pc = label])
    BY <1>0, <2>1, StepOfCall
  <2>. QED  BY <2>2 DEF CallStep
<1>3. CASE WriteEnableFails(t) \/ WritePageFails(t) \/ EraseSectorFails(t) \/ WaitFails(t)
           \/ (WaitEnds(t) /\ ~NextPage(t))
  <2>1. PICK result \in Results : Return(t, result)
    BY <1>3 DEF WriteEnableFails, WritePageFails, EraseSectorFails, WaitFails, WaitEnds, Results
  <2>2. Replaced([call[t] EXCEPT !.pc = "idle", !.result = result])
    BY <1>0, <2>1, StepOfCall
  <2>. QED  BY <2>2 DEF CallStep
<1>4. CASE WaitEnds(t) /\ NextPage(t)
  <2>1. CASE call[t].op = "prog" /\ call[t].data_size > call[t].size_to_write
    <3>1. \E next : call' = [call EXCEPT ![t] = next] /\ CallOK(next)
      BY <1>0, <1>4, <2>1, NextPagePlaced DEF WaitEnds, Waited
    <3>. QED  BY <3>1 DEF CallStep
  <2>2. CASE ~(call[t].op = "prog" /\ call[t].data_size > call[t].size_to_write)
    <3>1. Return(t, "success") /\ "success" \in Results
      BY <1>4, <2>2 DEF WaitEnds, Results
    <3>2. Replaced([call[t] EXCEPT !.pc = "idle", !.result = "success"])
      BY <1>0, <3>1, StepOfCall
    <3>. QED  BY <3>2 DEF CallStep
  <2>. QED  BY <2>1, <2>2
<1>. QED  BY <1>1, <1>2, <1>3, <1>4

\* What the chip may be doing.
BusyType ==
  \/ busy = Ready
  \/ busy \in [kind : {"erase"}, sector : 0..(SectorCount - 1)]
  \/ busy.kind = "prog" /\ busy.data \subseteq Addresses \X Addresses

\* A command the chip understands makes it do that, or nothing.
LEMMA CommandEffect ==
  ASSUME BusyType, BusyInPlace, write_enabled \in BOOLEAN,
         NEW t \in FlashTasks, CallOK(call[t]), At(t, "command"),
         \/ UNCHANGED <<busy, write_enabled>>
         \/ call[t].op = "prog" /\ \E n \in 1..call[t].size_to_write : Starts(Programming(t, n))
         \/ call[t].op = "erase" /\ Starts(Erasing(t))
  PROVE  BusyType' /\ BusyInPlace' /\ write_enabled' \in BOOLEAN
<1>0. call[t].pc # "idle"
  BY DEF At
<1>1. CASE UNCHANGED <<busy, write_enabled>>
  BY <1>1 DEF BusyType, BusyInPlace
<1>2. ASSUME call[t].op = "prog", NEW n \in 1..call[t].size_to_write, Starts(Programming(t, n))
      PROVE  BusyType' /\ BusyInPlace' /\ write_enabled' \in BOOLEAN
  <2>. DEFINE page == Programming(t, n)
              places == (call[t].first + call[t].data)..(call[t].first + call[t].data + n - 1)
  <2>1. page.kind = "prog" /\ page.data = {<<a, a>> : a \in places} /\ places \subseteq Addresses
    BY <1>0, <1>2, ProgrammedPlaces
  <2>2. UNCHANGED <<busy, write_enabled>> \/ (busy' = page /\ write_enabled' = FALSE)
    BY <1>2 DEF Starts
  <2>. HIDE DEF page, places
  <2>3. page.data \subseteq Addresses \X Addresses /\ \A d \in page.data : d[1] = d[2]
    BY <2>1
  <2>. QED  BY <1>1, <2>1, <2>2, <2>3 DEF BusyType, BusyInPlace
<1>3. ASSUME call[t].op = "erase", Starts(Erasing(t))
      PROVE  BusyType' /\ BusyInPlace' /\ write_enabled' \in BOOLEAN
  <2>1. call[t].first \in Addresses
    BY DEF CallOK, Calls
  <2>2. Erasing(t) \in [kind : {"erase"}, sector : 0..(SectorCount - 1)] /\ Erasing(t).kind = "erase"
    BY <2>1, SectorRange DEF Erasing
  <2>3. UNCHANGED <<busy, write_enabled>> \/ (busy' = Erasing(t) /\ write_enabled' = FALSE)
    BY <1>3 DEF Starts
  <2>4. CASE busy' = Erasing(t) /\ write_enabled' = FALSE
    BY <2>2, <2>4 DEF BusyType, BusyInPlace
  <2>. QED  BY <1>1, <2>3, <2>4
<1>. QED  BY <1>1, <1>2, <1>3

\* Nothing is under way at the start.
LEMMA FlashInitPlaced == FlashInit => PlaceInv
<1>. SUFFICES ASSUME FlashInit PROVE PlaceInv
  OBVIOUS
<1>1. Idle \in Calls
  <2>1. 0 \in 0..(SectorCount - 1) /\ 0 * SectorSize = 0
    BY GeometryAssumption
  <2>2. 0 \in Addresses
    BY <2>1, SectorStart
  <2>. QED  BY <2>2, GeometryAssumption DEF Idle, Calls, Results
<1>2. \A t \in FlashTasks : CallOK(call[t])
  BY <1>1 DEF FlashInit, CallOK, Idle
<1>3. call \in [FlashTasks -> Calls]
  BY <1>1 DEF FlashInit
<1>4. Ready.kind # "prog"
  BY DEF Ready
<1>. QED
  BY <1>2, <1>3, <1>4, FlashLimitAssumption DEF FlashInit, PlaceInv, FlashTypeOK, InPlace, BusyInPlace

\* Events that happen are counted down.
LEMMA FlashCounted ==
  ASSUME flash_left \in [FlashEvents -> Nat], NEW event \in FlashEvents, FlashHappens(event)
  PROVE  flash_left' \in [FlashEvents -> Nat]
BY DEF FlashHappens

\* Everything but the calls and what the chip is doing.
RestType ==
  /\ cells \in [Addresses -> SUBSET Addresses]
  /\ write_enabled \in BOOLEAN /\ asleep \in BOOLEAN
  /\ spi_owner \in FlashTasks \cup {NoTask}
  /\ alone \subseteq FlashTasks
  /\ flash_left \in [FlashEvents -> Nat]

\* The parts of the invariant, which steps change one at a time.
LEMMA PlaceParts ==
  PlaceInv <=> /\ RestType /\ BusyType /\ InPlace /\ BusyInPlace
               /\ call \in [FlashTasks -> Calls] /\ \A t \in FlashTasks : CallOK(call[t])
BY DEF PlaceInv, FlashTypeOK, RestType, BusyType

\* Every step of the flash driver and the chip keeps the invariant.
LEMMA PlaceStep ==
  ASSUME PlaceInv, [FlashNext]_flashVars
  PROVE  PlaceInv'
<1>0. /\ RestType /\ BusyType /\ InPlace /\ BusyInPlace /\ FlashTypeOK
      /\ call \in [FlashTasks -> Calls] /\ \A t \in FlashTasks : CallOK(call[t])
  BY PlaceParts DEF PlaceInv
<1>1. SUFFICES /\ RestType' /\ BusyType' /\ InPlace' /\ BusyInPlace'
               /\ call' \in [FlashTasks -> Calls] /\ \A t \in FlashTasks : CallOK(call'[t])
  BY DEF PlaceInv, FlashTypeOK, RestType, BusyType
<1>. DEFINE CallsGood == call' \in [FlashTasks -> Calls] /\ \A t \in FlashTasks : CallOK(call'[t])
<1>2. ASSUME NEW t \in FlashTasks, CallStep(t)
      PROVE  CallsGood
  BY <1>0, <1>2, OneCall DEF CallStep
<1>3. ASSUME NEW t \in FlashTasks,
             \/ \E block \in Blocks : BeginProg(t, block)
             \/ \E sector \in 0..(SectorCount - 1) : BeginErase(t, sector)
      PROVE  RestType' /\ BusyType' /\ InPlace' /\ BusyInPlace' /\ CallsGood
  <2>1. CallStep(t)
    BY <1>3, CallSteps
  <2>2. \E begun : Begin(t, begun)
    BY <1>3, ProgBegins, EraseBegins
  <2>3. UNCHANGED <<cells, busy, write_enabled, asleep, spi_owner>> /\ alone' \subseteq FlashTasks
        /\ FlashHappens("call")
    BY <2>2 DEF Begin
  <2>4. flash_left' \in [FlashEvents -> Nat]
    BY <1>0, <2>3, FlashCounted DEF RestType, FlashEvents
  <2>. QED  BY <1>0, <1>2, <2>1, <2>3, <2>4 DEF RestType, BusyType, InPlace, BusyInPlace
<1>4. ASSUME NEW t \in FlashTasks,
             \/ WriteEnable(t) \/ WriteEnableFails(t) \/ ReadStatus(t) \/ WaitFails(t) \/ WaitEnds(t)
      PROVE  RestType' /\ BusyType' /\ InPlace' /\ BusyInPlace' /\ CallsGood
  <2>1. CallStep(t)
    BY <1>4, CallSteps
  <2>2. UNCHANGED <<cells, busy, asleep, alone>>
    BY <1>4 DEF WriteEnable, WriteEnableFails, ReadStatus, WaitFails, WaitEnds
  <2>3. write_enabled' \in BOOLEAN
    BY <1>0, <1>4 DEF WriteEnable, WriteEnableFails, ReadStatus, WaitFails, WaitEnds, RestType, Listens
  <2>4. spi_owner' \in FlashTasks \cup {NoTask}
    BY <1>0, <1>4 DEF WriteEnable, WriteEnableFails, ReadStatus, WaitFails, WaitEnds, RestType
  <2>5. UNCHANGED flash_left \/ FlashHappens("fault")
    BY <1>4 DEF WriteEnable, WriteEnableFails, ReadStatus, WaitFails, WaitEnds
  <2>6. flash_left' \in [FlashEvents -> Nat]
    BY <1>0, <2>5, FlashCounted DEF RestType, FlashEvents
  <2>. QED
    BY <1>0, <1>2, <2>1, <2>2, <2>3, <2>4, <2>6 DEF RestType, BusyType, InPlace, BusyInPlace
<1>5. ASSUME NEW t \in FlashTasks,
             WritePage(t) \/ WritePageFails(t) \/ EraseSector(t) \/ EraseSectorFails(t)
      PROVE  RestType' /\ BusyType' /\ InPlace' /\ BusyInPlace' /\ CallsGood
  <2>1. CallStep(t)
    BY <1>5, CallSteps
  <2>2. UNCHANGED <<cells, asleep, spi_owner, alone>> /\ At(t, "command")
    BY <1>5 DEF WritePage, WritePageFails, EraseSector, EraseSectorFails
  <2>3. CallOK(call[t]) /\ write_enabled \in BOOLEAN
    BY <1>0 DEF RestType
  <2>4. call[t].size_to_write \in Nat
    BY <2>3, GeometryAssumption DEF CallOK, Calls
  <2>5. \/ UNCHANGED <<busy, write_enabled>>
        \/ call[t].op = "prog" /\ \E n \in 1..call[t].size_to_write : Starts(Programming(t, n))
        \/ call[t].op = "erase" /\ Starts(Erasing(t))
    <3>1. CASE WritePage(t)
      <4>1. call[t].size_to_write \in 1..call[t].size_to_write
        BY <2>4, <3>1 DEF WritePage, ValidPage
      <4>. QED  BY <3>1, <4>1 DEF WritePage
    <3>2. CASE WritePageFails(t) \/ EraseSector(t) \/ EraseSectorFails(t)
      BY <3>2 DEF WritePageFails, EraseSector, EraseSectorFails
    <3>. QED  BY <1>5, <3>1, <3>2
  <2>6. BusyType' /\ BusyInPlace' /\ write_enabled' \in BOOLEAN
    BY <1>0, <2>2, <2>3, <2>5, CommandEffect
  <2>7. UNCHANGED flash_left \/ FlashHappens("fault")
    BY <1>5 DEF WritePage, WritePageFails, EraseSector, EraseSectorFails
  <2>8. flash_left' \in [FlashEvents -> Nat]
    BY <1>0, <2>7, FlashCounted DEF RestType, FlashEvents
  <2>. QED
    BY <1>0, <1>2, <2>1, <2>2, <2>6, <2>8 DEF RestType, InPlace
<1>6. ASSUME NEW t \in FlashTasks, NEW on \in BOOLEAN, NEW transferred \in BOOLEAN,
             SetPower(t, on, transferred)
      PROVE  RestType' /\ BusyType' /\ InPlace' /\ BusyInPlace' /\ CallsGood
  <2>1. UNCHANGED <<cells, busy, spi_owner, call>> /\ alone' \subseteq FlashTasks
        /\ FlashHappens("power")
    BY <1>6 DEF SetPower
  <2>2. asleep' \in BOOLEAN /\ write_enabled' \in BOOLEAN
    BY <1>0, <1>6 DEF SetPower, RestType
  <2>3. flash_left' \in [FlashEvents -> Nat]
    BY <1>0, <2>1, FlashCounted DEF RestType, FlashEvents
  <2>. QED  BY <1>0, <2>1, <2>2, <2>3 DEF RestType, BusyType, InPlace, BusyInPlace
<1>7. CASE Finish
  <2>1. UNCHANGED <<write_enabled, asleep, spi_owner, call, alone, flash_left>> /\ busy' = Ready
        /\ busy # Ready
    BY <1>7 DEF Finish
  <2>2. BusyType' /\ BusyInPlace'
    BY <2>1 DEF BusyType, BusyInPlace, Ready
  <2>3. CASE busy.kind = "erase"
    <3>1. cells' = [a \in Addresses |-> IF SectorOf(a) = busy.sector THEN {} ELSE cells[a]]
      BY <1>7, <2>3 DEF Finish
    <3>2. cells' \in [Addresses -> SUBSET Addresses] /\ InPlace'
      BY <1>0, <3>1 DEF RestType, InPlace
    <3>. QED  BY <1>0, <2>1, <2>2, <3>2 DEF RestType
  <2>4. CASE busy.kind # "erase"
    <3>1. cells' = [a \in Addresses |->
                      cells[a] \cup {datum[2] : datum \in {d \in busy.data : d[1] = a}}]
      BY <1>7, <2>4 DEF Finish
    <3>2. busy.kind = "prog" /\ busy.data \subseteq Addresses \X Addresses
          /\ \A d \in busy.data : d[1] = d[2]
      BY <1>0, <2>1, <2>4 DEF BusyType, BusyInPlace
    <3>3. ASSUME NEW a \in Addresses
          PROVE  {datum[2] : datum \in {d \in busy.data : d[1] = a}} \subseteq {a}
      BY <3>2
    <3>4. cells' \in [Addresses -> SUBSET Addresses] /\ InPlace'
      BY <1>0, <3>1, <3>3 DEF RestType, InPlace
    <3>. QED  BY <1>0, <2>1, <2>2, <3>4 DEF RestType
  <2>. QED  BY <2>3, <2>4
<1>8. CASE UNCHANGED flashVars
  BY <1>0, <1>8 DEF flashVars, RestType, BusyType, InPlace, BusyInPlace
<1>. QED
  BY <1>3, <1>4, <1>5, <1>6, <1>7, <1>8 DEF FlashNext

\* The variables of the driver and the chip keep their types.
THEOREM FlashTyping == FlashSpec => []FlashTypeOK
<1>1. PlaceInv => FlashTypeOK
  BY DEF PlaceInv
<1>. QED  BY <1>1, FlashInitPlaced, PlaceStep, PTL DEF FlashSpec

\* A datum is only programmed at the address it is meant for: across the end of a
\* page, when transfers break off, and whatever calls interleave.
THEOREM DataInPlace == FlashSpec => []InPlace
<1>1. PlaceInv => InPlace
  BY DEF PlaceInv
<1>. QED  BY <1>1, FlashInitPlaced, PlaceStep, PTL DEF FlashSpec

-----------------------------------------------------------------------------
(* A call nobody disturbs.                                                 *)

\* Where a block is written already, where the page in hand goes, and the block.
Behind(c) == c.first..(c.first + c.data - 1)
InHand(c) == (c.first + c.data)..(c.first + c.data + c.size_to_write - 1)
Whole(c)  == c.first..(c.first + c.size - 1)

Programmed == {a \in Addresses : a \in cells[a]}
Erased(c)  == \A a \in Addresses : SectorOf(a) = SectorOf(c.first) => cells[a] = {}

\* The chip has done what the call has told it, or is doing it.
PageUnderWay(c) ==
  \/ busy = Ready /\ InHand(c) \subseteq Programmed
  \/ busy.kind = "prog" /\ busy.data = {<<a, a>> : a \in InHand(c)}
EraseUnderWay(c) ==
  \/ busy = Ready /\ Erased(c)
  \/ busy.kind = "erase" /\ busy.sector = SectorOf(c.first)

\* What a call that has the driver and the chip for itself relies on: the chip is
\* awake, ready for its commands, and does what they say.
Progress(c) ==
  /\ c.pc # "idle" => ~asleep
  /\ c.pc = "enable" => busy = Ready
  /\ c.pc = "command" => busy = Ready /\ write_enabled
  /\ c.op = "prog" /\ c.pc # "idle" => Behind(c) \subseteq Programmed
  /\ c.op = "prog" /\ c.pc \in {"wait", "polling"} => PageUnderWay(c)
  /\ c.op = "erase" /\ c.pc \in {"wait", "polling"} => EraseUnderWay(c)
  /\ c.pc = "idle" /\ c.result = "success" =>
       /\ busy = Ready
       /\ c.op = "prog" => Whole(c) \subseteq Programmed
       /\ c.op = "erase" => Erased(c)

Undisturbed(t) ==
  Progress(call[t]) /\ \A other \in FlashTasks \ {t} : call[other].pc = "idle"

AloneInv == \A t \in alone : Undisturbed(t)

\* The numbers of a call that programs.
LEMMA CallNumbers ==
  ASSUME NEW c, CallOK(c)
  PROVE  /\ c.first \in Nat /\ c.size \in Nat /\ c.data \in Nat /\ c.data_size \in Nat
         /\ c.size_to_write \in Nat
         /\ c.op = "prog" /\ c.pc # "idle" =>
              /\ c.data + c.data_size = c.size
              /\ c.size_to_write >= 1 /\ c.size_to_write <= c.data_size
<1>1. c \in Calls /\ SectorSize \in Nat /\ CacheSize \in Nat /\ PageSize \in Nat
  BY GeometryAssumption DEF CallOK
<1>2. /\ c.first \in Nat /\ c.size \in Nat /\ c.data \in Nat /\ c.data_size \in Nat
      /\ c.size_to_write \in Nat
  BY <1>1, SectorRange DEF Calls
<1>. QED  BY <1>2 DEF CallOK, Placed

\* A call that begins has nothing behind it.
LEMMA NothingBehind ==
  ASSUME NEW c, CallOK(c), c.data = 0
  PROVE  Behind(c) = {}
<1>1. c.first \in Nat
  BY CallNumbers
<1>. QED  BY <1>1 DEF Behind

\* When a page is written, the next one begins where it ends.
LEMMA PageBehind ==
  ASSUME NEW c, CallOK(c), c.op = "prog", c.pc # "idle", NEW next,
         next.first = c.first, next.data = c.data + c.size_to_write
  PROVE  Behind(next) = Behind(c) \cup InHand(c)
<1>1. c.first \in Nat /\ c.data \in Nat /\ c.size_to_write \in Nat
  BY CallNumbers
<1>. QED  BY <1>1 DEF Behind, InHand

\* When no page remains, the whole block is written.
LEMMA WholeWritten ==
  ASSUME NEW c, CallOK(c), c.op = "prog", c.pc # "idle", ~(c.data_size > c.size_to_write)
  PROVE  Whole(c) = Behind(c) \cup InHand(c)
<1>1. /\ c.first \in Nat /\ c.data \in Nat /\ c.size_to_write \in Nat /\ c.data_size \in Nat
      /\ c.size = c.data + c.size_to_write
  BY CallNumbers
<1>. QED  BY <1>1 DEF Behind, InHand, Whole

\* The steps of the call itself.
LEMMA OwnStep ==
  ASSUME PlaceInv, NEW t \in FlashTasks, Undisturbed(t),
         \/ WriteEnable(t) \/ WriteEnableFails(t) \/ WritePage(t) \/ WritePageFails(t)
         \/ EraseSector(t) \/ EraseSectorFails(t) \/ ReadStatus(t) \/ WaitFails(t) \/ WaitEnds(t)
  PROVE  Progress(call[t])'
<1>. DEFINE c == call[t]
            d == call'[t]
<1>0. /\ CallOK(c) /\ c \in Calls /\ call \in [FlashTasks -> Calls] /\ Progress(c)
      /\ FlashTypeOK /\ \A other \in FlashTasks : CallOK(call[other])
  BY DEF PlaceInv, FlashTypeOK, Undisturbed
<1>1. ASSUME NEW label \in {"enable", "command", "wait", "polling"}, Goto(t, label)
      PROVE  /\ d.pc = label /\ d.op = c.op /\ d.first = c.first /\ d.size = c.size
             /\ d.data = c.data /\ d.size_to_write = c.size_to_write
  BY <1>0, <1>1 DEF Goto, Calls
<1>2. ASSUME NEW result \in Results, Return(t, result)
      PROVE  /\ d.pc = "idle" /\ d.result = result /\ d.op = c.op /\ d.first = c.first
             /\ d.size = c.size
  BY <1>0, <1>2 DEF Return, Calls
<1>3. CASE Return(t, "failure")
  <2>1. d.pc = "idle" /\ d.result = "failure"
    BY <1>2, <1>3 DEF Results
  <2>. QED  BY <2>1 DEF Progress
<1>4. CASE WriteEnable(t)
  <2>1. /\ d.pc = "command" /\ d.op = c.op /\ d.first = c.first /\ d.data = c.data
        /\ c.pc = "enable"
    BY <1>1, <1>4 DEF WriteEnable, At
  <2>2. ~asleep /\ busy = Ready /\ UNCHANGED <<cells, busy, asleep>> /\ write_enabled'
    BY <1>0, <1>4, <2>1 DEF WriteEnable, Progress, Listens
  <2>3. d.op = "prog" => Behind(d) \subseteq Programmed'
    BY <1>0, <2>1, <2>2 DEF Progress, Behind, Programmed
  <2>. QED  BY <2>1, <2>2, <2>3 DEF Progress, Behind
<1>5. CASE WritePage(t)
  <2>1. /\ d.pc = "wait" /\ d.op = c.op /\ d.first = c.first /\ d.data = c.data
        /\ d.size_to_write = c.size_to_write /\ c.pc = "command" /\ c.op = "prog"
    BY <1>1, <1>5 DEF WritePage, At
  <2>2. /\ ~asleep /\ UNCHANGED <<cells, asleep>> /\ busy' = Programming(t, c.size_to_write)
    BY <1>0, <1>5, <2>1 DEF WritePage, Progress, Listens, Starts
  <2>3. c.size_to_write \in 1..c.size_to_write
    BY <1>0, <2>1, CallNumbers
  <2>4. /\ Programming(t, c.size_to_write).kind = "prog"
        /\ Programming(t, c.size_to_write).data = {<<a, a>> : a \in InHand(c)}
    BY <1>0, <2>1, <2>3, ProgrammedPlaces DEF InHand
  <2>5. InHand(d) = InHand(c) /\ Behind(d) = Behind(c)
    BY <2>1 DEF InHand, Behind
  <2>6. PageUnderWay(call[t])'
    BY <2>2, <2>4, <2>5 DEF PageUnderWay, InHand
  <2>7. Behind(d) \subseteq Programmed'
    BY <1>0, <2>1, <2>2, <2>5 DEF Progress, Programmed
  <2>. QED  BY <2>1, <2>2, <2>6, <2>7 DEF Progress, Behind
<1>6. CASE EraseSector(t)
  <2>1. d.pc = "wait" /\ d.op = c.op /\ d.first = c.first /\ c.pc = "command" /\ c.op = "erase"
    BY <1>1, <1>6 DEF EraseSector, At
  <2>2. /\ ~asleep /\ UNCHANGED <<cells, asleep>> /\ busy' = Erasing(t)
    BY <1>0, <1>6, <2>1 DEF EraseSector, Progress, Listens, Starts
  <2>3. EraseUnderWay(call[t])'
    BY <2>1, <2>2 DEF EraseUnderWay, Erasing, SectorOf
  <2>. QED  BY <2>1, <2>2, <2>3 DEF Progress
<1>7. CASE ReadStatus(t)
  <2>1. /\ d.pc = "polling" /\ d.op = c.op /\ d.first = c.first /\ d.data = c.data
        /\ d.size_to_write = c.size_to_write /\ c.pc = "wait"
    BY <1>1, <1>7 DEF ReadStatus, At
  <2>2. ~asleep /\ UNCHANGED <<cells, busy, asleep>>
    BY <1>0, <1>7, <2>1 DEF ReadStatus, Progress
  <2>3. InHand(d) = InHand(c) /\ Behind(d) = Behind(c)
    BY <2>1 DEF InHand, Behind
  <2>4. d.op = "prog" => PageUnderWay(call[t])' /\ Behind(d) \subseteq Programmed'
    BY <1>0, <2>1, <2>2, <2>3 DEF Progress, PageUnderWay, Programmed, InHand
  <2>5. d.op = "erase" => EraseUnderWay(call[t])'
    BY <1>0, <2>1, <2>2 DEF Progress, EraseUnderWay, Erased, SectorOf
  <2>. QED  BY <2>1, <2>2, <2>4, <2>5 DEF Progress, Behind
<1>8. CASE WaitEnds(t)
  <2>1. c.pc = "polling" /\ ~asleep /\ busy = Ready /\ UNCHANGED <<cells, busy, asleep>>
    BY <1>0, <1>8 DEF WaitEnds, Waited, At, Progress
  <2>2. Ready.kind = "ready"
    BY DEF Ready
  <2>3. c.op = "prog" => Behind(c) \cup InHand(c) \subseteq Programmed
    BY <1>0, <2>1, <2>2 DEF Progress, PageUnderWay
  <2>4. c.op = "erase" => Erased(c)
    BY <1>0, <2>1, <2>2 DEF Progress, EraseUnderWay
  <2>5. CASE c.op = "prog" /\ c.data_size > c.size_to_write
    <3>1. PICK next : /\ call' = [call EXCEPT ![t] = next] /\ next.pc = "enable"
                      /\ next.op = "prog" /\ next.first = c.first
                      /\ next.data = c.data + c.size_to_write
      BY <1>0, <1>8, <2>1, <2>5, NextPagePlaced DEF WaitEnds, At
    <3>2. d = next
      BY <1>0, <3>1
    <3>3. Behind(d) \subseteq Programmed'
      BY <1>0, <2>1, <2>3, <2>5, <3>1, <3>2, PageBehind DEF Programmed
    <3>. QED  BY <2>1, <3>1, <3>2, <3>3 DEF Progress, Behind
  <2>6. CASE ~(c.op = "prog" /\ c.data_size > c.size_to_write)
    <3>1. d.pc = "idle" /\ d.op = c.op /\ d.first = c.first /\ d.size = c.size
      BY <1>2, <1>8, <2>6 DEF WaitEnds, Results
    <3>2. d.op = "prog" => Whole(d) \subseteq Programmed'
      <4>1. d.op = "prog" => Whole(c) = Behind(c) \cup InHand(c)
        BY <1>0, <2>1, <2>6, <3>1, WholeWritten
      <4>2. Whole(d) = Whole(c)
        BY <3>1 DEF Whole
      <4>. QED  BY <2>1, <2>3, <3>1, <4>1, <4>2 DEF Programmed
    <3>3. d.op = "erase" => Erased(call[t])'
      BY <2>1, <2>4, <3>1 DEF Erased, SectorOf
    <3>. QED  BY <2>1, <3>1, <3>2, <3>3 DEF Progress, Whole
  <2>. QED  BY <2>5, <2>6
<1>9. CASE WriteEnableFails(t) \/ WritePageFails(t) \/ EraseSectorFails(t) \/ WaitFails(t)
  BY <1>3, <1>9 DEF WriteEnableFails, WritePageFails, EraseSectorFails, WaitFails
<1>. QED
  BY <1>4, <1>5, <1>6, <1>7, <1>8, <1>9

\* The chip finishes what the call told it to do.
LEMMA FinishProgress ==
  ASSUME PlaceInv, NEW t \in FlashTasks, Undisturbed(t), Finish
  PROVE  Progress(call[t])'
<1>. DEFINE c == call[t]
<1>0. /\ CallOK(c) /\ Progress(c) /\ cells \in [Addresses -> SUBSET Addresses] /\ BusyInPlace
      /\ BusyType
  BY DEF PlaceInv, FlashTypeOK, BusyType, Undisturbed
<1>1. busy # Ready /\ busy' = Ready /\ UNCHANGED <<call, asleep>>
  BY DEF Finish
<1>2. c.pc \notin {"enable", "command"} /\ ~(c.pc = "idle" /\ c.result = "success")
  BY <1>0, <1>1 DEF Progress
<1>3. CASE c.pc = "idle"
  BY <1>1, <1>2, <1>3 DEF Progress
<1>4. CASE c.pc \in {"wait", "polling"} /\ c.op = "prog"
  <2>1. busy.kind = "prog" /\ busy.data = {<<a, a>> : a \in InHand(c)}
    BY <1>0, <1>1, <1>4 DEF Progress, PageUnderWay
  <2>2. cells' = [a \in Addresses |-> cells[a] \cup {datum[2] : datum \in {d \in busy.data : d[1] = a}}]
    BY <2>1 DEF Finish
  <2>3. InHand(c) \subseteq Addresses
    <3>1. busy.data \subseteq Addresses \X Addresses
      BY <1>0, <1>1, <2>1 DEF BusyType
    <3>2. \A a \in InHand(c) : <<a, a>> \in busy.data
      BY <2>1
    <3>. QED  BY <3>1, <3>2
  <2>4. Programmed \subseteq Programmed'
    BY <1>0, <2>2 DEF Programmed
  <2>5. InHand(c) \subseteq Programmed'
    <3>. SUFFICES ASSUME NEW a \in InHand(c) PROVE a \in Programmed'
      OBVIOUS
    <3>1. <<a, a>> \in {d \in busy.data : d[1] = a}
      BY <2>1
    <3>2. a \in {datum[2] : datum \in {d \in busy.data : d[1] = a}}
      BY <3>1
    <3>. QED  BY <2>2, <2>3, <3>2 DEF Programmed
  <2>6. Behind(c) \subseteq Programmed'
    BY <1>0, <1>4, <2>4 DEF Progress
  <2>7. PageUnderWay(call[t])'
    BY <1>1, <2>5 DEF PageUnderWay, InHand
  <2>. QED  BY <1>0, <1>1, <1>4, <2>6, <2>7 DEF Progress, Behind
<1>5. CASE c.pc \in {"wait", "polling"} /\ c.op = "erase"
  <2>1. busy.kind = "erase" /\ busy.sector = SectorOf(c.first)
    BY <1>0, <1>1, <1>5 DEF Progress, EraseUnderWay
  <2>2. cells' = [a \in Addresses |-> IF SectorOf(a) = busy.sector THEN {} ELSE cells[a]]
    BY <2>1 DEF Finish
  <2>3. Erased(call[t])'
    BY <1>1, <2>1, <2>2 DEF Erased, SectorOf
  <2>4. EraseUnderWay(call[t])'
    BY <1>1, <2>3 DEF EraseUnderWay
  <2>. QED  BY <1>0, <1>1, <1>5, <2>4 DEF Progress
<1>. QED
  BY <1>0, <1>2, <1>3, <1>4, <1>5 DEF CallOK, Calls

\* A call that begins alone finds the chip awake and ready.
LEMMA BeginProgress ==
  ASSUME PlaceInv, NEW u \in FlashTasks, NEW t \in alone',
         \/ \E block \in Blocks : BeginProg(u, block)
         \/ \E sector \in 0..(SectorCount - 1) : BeginErase(u, sector)
  PROVE  Undisturbed(t)'
<1>1. PICK begun : /\ Begin(u, begun) /\ CallOK(begun) /\ begun.pc = "enable" /\ begun.data = 0
                   /\ begun.op \in {"prog", "erase"}
  BY ProgBegins, EraseBegins
<1>2. call \in [FlashTasks -> Calls]
  BY DEF PlaceInv, FlashTypeOK
<1>3. /\ t = u /\ Listens /\ \A other \in FlashTasks : call[other].pc = "idle"
      /\ call' = [call EXCEPT ![u] = begun] /\ UNCHANGED <<cells, busy, asleep>>
  BY <1>1 DEF Begin, At
<1>4. call'[t] = begun /\ \A other \in FlashTasks \ {t} : call'[other].pc = "idle"
  BY <1>2, <1>3
<1>5. Behind(begun) = {}
  BY <1>1, NothingBehind
<1>6. Progress(call[t])'
  BY <1>1, <1>3, <1>4, <1>5 DEF Progress, Listens, Behind
<1>. QED  BY <1>4, <1>6 DEF Undisturbed

\* Only the call's own task and the chip act while the call has the driver for
\* itself: a call of another task takes that away from it.
LEMMA AloneStep ==
  ASSUME PlaceInv, AloneInv, [FlashNext]_flashVars
  PROVE  AloneInv'
<1>. SUFFICES ASSUME NEW t \in alone' PROVE Undisturbed(t)'
  BY DEF AloneInv
<1>0. call \in [FlashTasks -> Calls] /\ alone \subseteq FlashTasks
  BY DEF PlaceInv, FlashTypeOK
<1>1. ASSUME t \in alone, UNCHANGED <<call, cells, busy>>, call[t].pc # "idle" => ~asleep', 
             call[t].pc = "command" => write_enabled'
      PROVE  Undisturbed(t)'
  <2>1. Progress(call[t]) /\ \A other \in FlashTasks \ {t} : call[other].pc = "idle"
    BY <1>1 DEF AloneInv, Undisturbed
  <2>2. Progress(call[t])'
    BY <1>1, <2>1 DEF Progress, PageUnderWay, EraseUnderWay, Programmed, Erased, Behind, InHand,
                      Whole, SectorOf
  <2>. QED  BY <1>1, <2>1, <2>2 DEF Undisturbed
<1>2. ASSUME NEW u \in FlashTasks,
             \/ WriteEnable(u) \/ WriteEnableFails(u) \/ WritePage(u) \/ WritePageFails(u)
             \/ EraseSector(u) \/ EraseSectorFails(u) \/ ReadStatus(u) \/ WaitFails(u) \/ WaitEnds(u)
      PROVE  Undisturbed(t)'
  <2>1. t \in alone /\ call[u].pc # "idle"
    BY <1>2 DEF WriteEnable, WriteEnableFails, WritePage, WritePageFails, EraseSector,
                EraseSectorFails, ReadStatus, WaitFails, WaitEnds, Waited, At
  <2>2. Undisturbed(t) /\ t \in FlashTasks
    BY <1>0, <2>1 DEF AloneInv
  <2>3. u = t
    BY <2>1, <2>2 DEF Undisturbed
  <2>4. Progress(call[t])'
    BY <1>2, <2>2, <2>3, OwnStep
  <2>5. CallStep(t)
    BY <1>2, <2>3, CallSteps
  <2>6. \A other \in FlashTasks \ {t} : call'[other] = call[other]
    BY <1>0, <2>5 DEF CallStep
  <2>. QED  BY <2>2, <2>4, <2>6 DEF Undisturbed
<1>3. ASSUME NEW u \in FlashTasks, NEW on \in BOOLEAN, NEW transferred \in BOOLEAN,
             SetPower(u, on, transferred)
      PROVE  Undisturbed(t)'
  <2>1. t \in alone /\ t = u /\ call[t].pc = "idle" /\ UNCHANGED <<call, cells, busy>>
    BY <1>3 DEF SetPower, At
  <2>. QED  BY <1>1, <2>1
<1>4. CASE Finish
  <2>1. t \in alone /\ t \in FlashTasks /\ call' = call
    BY <1>0, <1>4 DEF Finish
  <2>2. Undisturbed(t)
    BY <2>1 DEF AloneInv
  <2>3. Progress(call[t])'
    BY <1>4, <2>1, <2>2, FinishProgress
  <2>. QED  BY <2>1, <2>2, <2>3 DEF Undisturbed
<1>5. CASE UNCHANGED flashVars
  <2>1. t \in alone /\ Progress(call[t])
    BY <1>5 DEF flashVars, AloneInv, Undisturbed
  <2>. QED  BY <1>1, <1>5, <2>1 DEF flashVars, Progress
<1>. QED
  BY <1>2, <1>3, <1>4, <1>5, BeginProgress DEF FlashNext

\* A call that found the chip ready and had the driver for itself has done its
\* work when it reports success.
THEOREM ReportedDone == FlashSpec => []DoneWhenReported
<1>1. ASSUME PlaceInv, AloneInv PROVE DoneWhenReported
  <2>. SUFFICES ASSUME NEW t \in alone, call[t].pc = "idle", call[t].result = "success"
                PROVE  /\ call[t].op = "erase" => Erased(call[t])
                       /\ call[t].op = "prog" => Whole(call[t]) \subseteq Programmed
    BY DEF DoneWhenReported, At, Erased, Whole, Programmed
  <2>1. Progress(call[t])
    BY <1>1 DEF AloneInv, Undisturbed
  <2>. QED  BY <2>1 DEF Progress
<1>2. FlashInit => AloneInv
  BY DEF FlashInit, AloneInv
<1>3. FlashSpec => []PlaceInv
  BY FlashInitPlaced, PlaceStep, PTL DEF FlashSpec
<1>. QED  BY <1>1, <1>2, <1>3, AloneStep, PTL DEF FlashSpec

-----------------------------------------------------------------------------
(* The texts of the messages.                                              *)

\* What the dispatcher's buffer holds once a text was read into it.
LEMMA FilledType ==
  ASSUME MapperTypeOK, NEW t,
         t.src_id \in Nodes \cup {Missing}, t.dst_id \in Seq(Nodes) \cup {Missing},
         t.cmd_id \in Commands \cup {Missing}, t.value_id \in Values \cup {Missing}
  PROVE  Filled(t, node_msg) \in
           [source : Nodes, dest_array : Seq(Nodes), cmd_id : Commands, value_0 : Values]
BY DEF MapperTypeOK, Filled, DestinationsOf, Commands

\* The text of a message has the message's fields.
LEMMA SerializeType ==
  ASSUME NEW m \in Sendable
  PROVE  LET t == Serialize(m) IN
         /\ t.src_id = m.source /\ t.dst_id = m.dest_array /\ t.cmd_id = m.cmd_id
         /\ t.value_id = IF m.cmd_id \in {"SET_LIGHT", "SET_INTRUSION"} THEN m.value_0 ELSE Missing
         /\ t.data = DataSize[m.cmd_id] /\ t.data \in 1..3
         /\ t # Broken
<1>1. m.cmd_id \in SentCommands
  BY DEF Sendable
<1>2. m.cmd_id \in DOMAIN DataSize /\ DataSize[m.cmd_id] \in 1..3
  BY <1>1 DEF SentCommands, DataSize
<1>3. Serialize(m) = Text(m.source, m.dest_array, m.cmd_id,
                          IF m.cmd_id \in {"SET_LIGHT", "SET_INTRUSION"} THEN m.value_0 ELSE Missing,
                          DataSize[m.cmd_id])
  BY <1>2 DEF Serialize
<1>4. Serialize(m) # Broken
  BY TextAssumption
<1>. QED  BY <1>2, <1>3, <1>4 DEF Text

\* The array is emptied when a text is rejected.
LEMMA EmptyArray == <<>> \in Seq(Nodes) /\ Len(<<>>) = 0
OBVIOUS

\* What is read of a text leaves the types as they were.
LEMMA DeserializeType ==
  ASSUME MapperTypeOK, NEW t, Deserialize(t),
         t = Broken \/ /\ t.src_id \in Nodes \cup {Missing} /\ t.dst_id \in Seq(Nodes) \cup {Missing}
                       /\ t.cmd_id \in Commands \cup {Missing} /\ t.value_id \in Values \cup {Missing}
  PROVE  /\ text' = Broken \/ text'.cmd_id \in Commands \cup {Missing}
         /\ exit_code' \in {"STD_SUCCESS", "STD_FAILURE"}
         /\ node_msg' \in
              [source : Nodes, dest_array : Seq(Nodes), cmd_id : Commands, value_0 : Values]
<1>1. CASE Parses(t)
  BY <1>1, FilledType DEF Deserialize, Parses
<1>2. CASE ~Parses(t)
  <2>1. node_msg' = [node_msg EXCEPT !.dest_array = <<>>] /\ text' = t /\ exit_code' = "STD_FAILURE"
    BY <1>2 DEF Deserialize
  <2>2. node_msg' \in [source : Nodes, dest_array : Seq(Nodes), cmd_id : Commands, value_0 : Values]
    <3>. DEFINE other == <<>>
    <3>1. other \in Seq(Nodes)
      BY EmptyArray
    <3>2. node_msg' = [node_msg EXCEPT !.dest_array = other]
      BY <2>1
    <3>. HIDE DEF other
    <3>. QED  BY <3>1, <3>2 DEF MapperTypeOK
  <2>. QED  BY <2>1, <2>2
<1>. QED  BY <1>1, <1>2

\* A message of a node has the types of a text's fields.
LEMMA SendableType ==
  ASSUME NEW m \in Sendable
  PROVE  /\ m.source \in Nodes /\ m.dest_array \in OneDestination
         /\ m.dest_array \in Seq(Nodes) /\ Len(m.dest_array) = 1
         /\ m.cmd_id \in Commands /\ m.value_0 \in Values
<1>1. m.source \in Nodes /\ m.dest_array \in OneDestination /\ m.cmd_id \in SentCommands /\ m.value_0 \in Values
  BY DEF Sendable
<1>2. PICK n \in Nodes : m.dest_array = <<n>>
  BY <1>1 DEF OneDestination
<1>3. <<n>> \in Seq(Nodes) /\ Len(<<n>>) = 1
  OBVIOUS
<1>. QED  BY <1>1, <1>2, <1>3 DEF SentCommands, Commands

\* Every text that arrives has the types of its fields.
LEMMA TextsType ==
  ASSUME NEW t \in Texts(ServerCommands, DataSizes)
  PROVE  t = Broken \/ /\ t.src_id \in Nodes \cup {Missing} /\ t.dst_id \in Seq(Nodes) \cup {Missing}
                       /\ t.cmd_id \in Commands \cup {Missing} /\ t.value_id \in Values \cup {Missing}
                       /\ t.data \in Nat
BY TextAssumption DEF Texts

\* The conversions keep the types.
LEMMA MapperTypeStep == MapperTypeOK /\ [MapperNext]_mapperVars => MapperTypeOK'
<1>. SUFFICES ASSUME MapperTypeOK, [MapperNext]_mapperVars PROVE MapperTypeOK'
  OBVIOUS
<1>1. ASSUME NEW m \in Sendable, FromNode(m) PROVE MapperTypeOK'
  <2>1. Deserialize(Serialize(m)) /\ original' = m
    BY <1>1 DEF FromNode
  <2>2. Serialize(m).src_id \in Nodes /\ Serialize(m).dst_id \in Seq(Nodes)
    BY SerializeType, SendableType
  <2>3. Serialize(m).cmd_id \in Commands /\ Serialize(m).value_id \in Values \cup {Missing}
    BY SerializeType, SendableType
  <2>. QED  BY <2>1, <2>2, <2>3, DeserializeType DEF MapperTypeOK
<1>2. ASSUME NEW t \in Texts(ServerCommands, DataSizes), FromServer(t) PROVE MapperTypeOK'
  <2>1. Deserialize(t) /\ original' = Missing
    BY <1>2 DEF FromServer
  <2>. QED  BY <2>1, TextsType, DeserializeType DEF MapperTypeOK
<1>3. ASSUME UNCHANGED mapperVars PROVE MapperTypeOK'
  BY <1>3 DEF MapperTypeOK, mapperVars
<1>. QED  BY <1>1, <1>2, <1>3 DEF MapperNext

\* The dispatcher starts with its buffer cleared.
LEMMA MapperTypeInit == MapperInit => MapperTypeOK
<1>. SUFFICES ASSUME MapperInit PROVE MapperTypeOK
  OBVIOUS
<1>. DEFINE none == <<>>
<1>1. none \in Seq(Nodes)
  BY EmptyArray
<1>2. node_msg \in [source : Nodes, dest_array : {none}, cmd_id : {"DO_NOTHING"}, value_0 : Values]
  BY DEF MapperInit
<1>. HIDE DEF none
<1>3. node_msg \in [source : Nodes, dest_array : Seq(Nodes), cmd_id : Commands, value_0 : Values]
  BY <1>1, <1>2 DEF Commands
<1>. QED  BY <1>3 DEF MapperInit, MapperTypeOK

\* The text, the buffer and the exit code keep their types.
THEOREM MapperTyping == MapperSpec => []MapperTypeOK
BY MapperTypeInit, MapperTypeStep, PTL DEF MapperSpec

\* What is written into the array for one text takes fewer entries than the
\* parser has tokens.
LEMMA DestinationsFit ==
  ASSUME NEW t, Parses(t), t.dst_id \in Seq(Nodes) \cup {Missing}, t.data \in Nat, NEW buffer
  PROVE  Len(DestinationsOf(t, buffer)) < TokenCount
<1>1. CASE t.dst_id = Missing
  BY <1>1, TextAssumption DEF DestinationsOf
<1>2. CASE t.dst_id # Missing
  <2>. DEFINE n == Len(t.dst_id)
              values == IF t.data = 0 THEN 0 ELSE 1 + t.data
  <2>1. n \in Nat /\ values \in Nat
    BY <1>2
  <2>2. /\ Present(t.src_id) \in Nat /\ Present(t.cmd_id) \in Nat
        /\ Tokens(t) = Present(t.src_id) + (1 + n) + Present(t.cmd_id) + values
        /\ Tokens(t) <= TokenCount /\ TokenCount \in Nat
    BY <1>2, TextAssumption DEF Tokens, Present, Parses
  <2>3. DestinationsOf(t, buffer) = t.dst_id
    BY <1>2 DEF DestinationsOf
  <2>4. n < TokenCount
    <3>. HIDE DEF n, values
    <3>. QED  BY <2>1, <2>2
  <2>. QED  BY <2>3, <2>4
<1>. QED  BY <1>1, <1>2

\* However many texts were read before into the same buffer.
LEMMA BoundedStep ==
  MapperTypeOK /\ DestinationsBounded /\ [MapperNext]_mapperVars => DestinationsBounded'
<1>. SUFFICES ASSUME MapperTypeOK, DestinationsBounded, [MapperNext]_mapperVars PROVE DestinationsBounded'
  OBVIOUS
<1>1. ASSUME NEW t, Deserialize(t),
             t = Broken \/ (t.dst_id \in Seq(Nodes) \cup {Missing} /\ t.data \in Nat)
      PROVE  DestinationsBounded'
  <2>1. CASE Parses(t)
    <3>1. node_msg'.dest_array = DestinationsOf(t, node_msg)
      BY <1>1, <2>1 DEF Deserialize, Filled
    <3>2. t # Broken
      BY <2>1 DEF Parses
    <3>. QED  BY <1>1, <2>1, <3>1, <3>2, DestinationsFit DEF DestinationsBounded
  <2>2. CASE ~Parses(t)
    BY <1>1, <2>2, TextAssumption DEF Deserialize, DestinationsBounded, MapperTypeOK
  <2>. QED  BY <2>1, <2>2
<1>2. ASSUME NEW m \in Sendable, FromNode(m) PROVE DestinationsBounded'
  <2>1. Serialize(m).dst_id \in Seq(Nodes) /\ Serialize(m).data \in Nat
    BY SerializeType, SendableType
  <2>. QED  BY <1>1, <1>2, <2>1 DEF FromNode
<1>3. ASSUME NEW t \in Texts(ServerCommands, DataSizes), FromServer(t) PROVE DestinationsBounded'
  <2>1. Deserialize(t)
    BY <1>3 DEF FromServer
  <2>2. t = Broken \/ (t.dst_id \in Seq(Nodes) \cup {Missing} /\ t.data \in Nat)
    BY TextsType
  <2>. QED  BY <1>1, <2>1, <2>2
<1>4. CASE UNCHANGED mapperVars
  BY <1>4 DEF DestinationsBounded, mapperVars
<1>. QED  BY <1>2, <1>3, <1>4 DEF MapperNext

\* Whatever lists of nodes the texts name, and however many of them are read
\* into one buffer, the array never takes as many entries as the parser has
\* tokens.
THEOREM DestinationsStayBounded == MapperSpec => []DestinationsBounded
<1>1. MapperInit => DestinationsBounded
  BY TextAssumption DEF MapperInit, DestinationsBounded
<1>. QED  BY <1>1, MapperTyping, BoundedStep, PTL DEF MapperSpec

\* The text of a sendable message needs at most eight tokens.
LEMMA EightTokens ==
  ASSUME NEW m \in Sendable
  PROVE  Tokens(Serialize(m)) <= 8
<1>. DEFINE t == Serialize(m)
<1>1. t.data \in 1..3 /\ t.dst_id = m.dest_array /\ Len(m.dest_array) = 1
  BY SerializeType, SendableType
<1>2. \A field : Present(field) \in 0..1
  BY DEF Present
<1>3. (IF t.dst_id = Missing THEN 0 ELSE 1 + Len(t.dst_id)) <= 2
  BY <1>1
<1>4. (IF t.data = 0 THEN 0 ELSE 1 + t.data) <= 4
  BY <1>1
<1>5. /\ (IF t.dst_id = Missing THEN 0 ELSE 1 + Len(t.dst_id)) \in Nat
      /\ (IF t.data = 0 THEN 0 ELSE 1 + t.data) \in Nat
  BY <1>1
<1>. QED  BY <1>2, <1>3, <1>4, <1>5 DEF Tokens

\* A message made of a text is the message the text was made of.
LEMMA RoundTripStep ==
  ASSUME TokenCount \in Nat, TokenCount >= 8
  PROVE  MapperTypeOK /\ RoundTrip /\ [MapperNext]_mapperVars => RoundTrip'
<1>. SUFFICES ASSUME MapperTypeOK, RoundTrip, [MapperNext]_mapperVars PROVE RoundTrip'
  OBVIOUS
<1>1. ASSUME NEW m \in Sendable, FromNode(m) PROVE RoundTrip'
  <2>. DEFINE t == Serialize(m)
  <2>1. Deserialize(t) /\ original' = m
    BY <1>1 DEF FromNode
  <2>2. Tokens(t) \in Int /\ Tokens(t) <= 8 /\ t # Broken
    <3>1. t.data \in 1..3 /\ Len(t.dst_id) = 1 /\ t # Broken
      BY SerializeType, SendableType
    <3>. QED  BY <3>1, EightTokens DEF Tokens, Present
  <2>3. Parses(t)
    BY <2>2 DEF Parses
  <2>4. exit_code' = "STD_SUCCESS" /\ node_msg' = Filled(t, node_msg)
    BY <2>1, <2>3 DEF Deserialize
  <2>5. /\ t.src_id = m.source /\ t.src_id # Missing
        /\ t.dst_id = m.dest_array /\ t.dst_id # Missing
        /\ t.cmd_id = m.cmd_id /\ t.cmd_id # Missing
        /\ m.cmd_id \in {"SET_LIGHT", "SET_INTRUSION"} => t.value_id = m.value_0 /\ t.value_id # Missing
    BY SerializeType, SendableType, TextAssumption
  <2>. HIDE DEF t
  <2>6. node_msg'.source = m.source /\ node_msg'.dest_array = m.dest_array /\ node_msg'.cmd_id = m.cmd_id
    BY <2>4, <2>5 DEF Filled, DestinationsOf
  <2>7. m.cmd_id \in {"SET_LIGHT", "SET_INTRUSION"} => node_msg'.value_0 = m.value_0
    BY <2>4, <2>5 DEF Filled, CommandsWithValue
  <2>. QED  BY <2>1, <2>4, <2>6, <2>7 DEF RoundTrip
<1>2. ASSUME NEW t, FromServer(t) PROVE RoundTrip'
  BY <1>2 DEF FromServer, RoundTrip
<1>3. CASE UNCHANGED mapperVars
  BY <1>3 DEF RoundTrip, mapperVars
<1>. QED  BY <1>1, <1>2, <1>3 DEF MapperNext

\* With the eight tokens of the code every message that a node of this firmware
\* sends is accepted by another one and arrives as it was sent.
THEOREM MessagesArrive ==
  ASSUME TokenCount \in Nat, TokenCount >= 8
  PROVE  MapperSpec => []RoundTrip
<1>1. MapperInit => RoundTrip
  BY DEF MapperInit, RoundTrip
<1>. QED  BY <1>1, MapperTyping, RoundTripStep, PTL DEF MapperSpec

-----------------------------------------------------------------------------
(* The display.                                                            *)

\* A set of columns has a first one.
LEMMA FirstColumn ==
  ASSUME NEW S \in SUBSET Nat, S # {}
  PROVE  \E y \in S : \A z \in S : y <= z
<1>1. PICK y \in S : \A z \in S : ~ (<<z, y>> \in OpToRel(<, Nat))
  BY NatLessThanWellFounded, WFMin, Zenon
<1>2. \A z \in S : ~ (z < y)
  BY <1>1 DEF OpToRel
<1>. QED  BY <1>2

\* There is always a place for the next text.
LEMMA NextMarginType ==
  ASSUME NEW x \in Margins
  PROVE  NextMargin[x] \in Margins
<1>. DEFINE least(S)   == CHOOSE y \in S : \A z \in S : y <= z
            greater(y) == {z \in Margins : z > y}
            next(y)    == IF greater(y) = {} THEN least(Margins) ELSE least(greater(y))
            Next(m)    == \A y \in Margins : m[y] = next(y)
<1>1. Margins \subseteq Nat /\ Margins # {}
  BY ScreenAssumption
<1>2. ASSUME NEW S \in SUBSET Margins, S # {} PROVE least(S) \in S
  BY <1>1, <1>2, FirstColumn
<1>3. ASSUME NEW y \in Margins PROVE next(y) \in Margins
  <2>1. greater(y) \in SUBSET Margins /\ Margins \in SUBSET Margins
    OBVIOUS
  <2>. HIDE DEF least, greater
  <2>. QED  BY <1>1, <1>2, <2>1
<1>4. NextMargin = CHOOSE m \in [Margins -> Margins] : Next(m)
  BY DEF NextMargin
<1>5. [y \in Margins |-> next(y)] \in [Margins -> Margins] /\ Next([y \in Margins |-> next(y)])
  <2>. HIDE DEF next
  <2>. QED  BY <1>3
<1>. HIDE DEF Next
<1>6. NextMargin \in [Margins -> Margins]
  BY <1>4, <1>5
<1>. QED  BY <1>6

\* The memory has at least one cell.
LEMMA SizePositive == Size \in Nat \ {0}
<1>1. Width \in Nat \ {0} /\ Pages \in Nat \ {0}
  BY ScreenAssumption
<1>. QED  BY <1>1 DEF Size

\* The text lies within the memory.
LEMMA TextWithin ==
  ASSUME x_current \in Margins
  PROVE  TextCells \subseteq MemoryCells
<1>1. /\ Width \in Nat \ {0} /\ Pages \in Nat \ {0} /\ TextWidth \in Nat
      /\ TextPage \in Nat /\ TextPage <= Pages - 1 /\ x_current \in Nat
  BY ScreenAssumption
<1>. SUFFICES ASSUME NEW y \in x_current..(x_current + TextWidth - 1), y < Width
     PROVE TextPage * Width + y \in MemoryCells
  BY DEF TextCells
<1>2. TextPage * Width <= (Pages - 1) * Width
  BY <1>1
<1>3. (Pages - 1) * Width = Size - Width
  BY <1>1 DEF Size
<1>4. TextPage * Width \in Nat /\ y \in Nat /\ Size \in Nat
  BY <1>1, SizePositive
<1>. DEFINE line == TextPage * Width
<1>5. line <= Size - Width /\ line \in Nat
  BY <1>1, <1>2, <1>3, <1>4
<1>. HIDE DEF line
<1>6. line + y \in 0..(Size - 1)
  BY <1>1, <1>4, <1>5
<1>. QED  BY <1>6 DEF line, MemoryCells

\* A transfer keeps the types.
LEMMA TransferType ==
  ASSUME DisplayTypeOK, NEW inked \in SUBSET MemoryCells, NEW count \in 0..(Size - 1),
         Transfer(inked, count)
  PROVE  /\ pixels' \subseteq MemoryCells /\ pointer' \in MemoryCells
         /\ memory' \in [MemoryCells -> {"random", "blank", "ink"}]
<1>1. pointer \in Nat /\ count \in Nat /\ Size \in Nat \ {0}
  BY SizePositive DEF DisplayTypeOK, MemoryCells
<1>2. (pointer + count) % Size \in 0..(Size - 1)
  BY <1>1
<1>3. Sent(inked, count) \in [MemoryCells -> {"random", "blank", "ink"}]
  BY DEF Sent, DisplayTypeOK
<1>. QED  BY <1>2, <1>3 DEF Transfer, MemoryCells

\* What is sent is within the memory.
LEMMA PictureType == DisplayTypeOK => Picture \in SUBSET MemoryCells
BY TextWithin DEF DisplayTypeOK, Picture

\* An event of a kind that is left leaves one fewer.
LEMMA DisplayHappensType ==
  ASSUME display_left \in [DisplayEvents -> Nat], NEW event \in DisplayEvents, DisplayHappens(event)
  PROVE  display_left' \in [DisplayEvents -> Nat]
BY DEF DisplayHappens

\* Every step of a drawing keeps the types.
LEMMA DisplayTypeStep == DisplayTypeOK /\ [DisplayNext]_displayVars => DisplayTypeOK'
<1>. SUFFICES ASSUME DisplayTypeOK, [DisplayNext]_displayVars PROVE DisplayTypeOK'
  OBVIOUS
<1>. USE DEF Steps, DisplayTypeOK
<1>1. "draw" \in DisplayEvents /\ "fault" \in DisplayEvents /\ "block" \in DisplayEvents
  BY DEF DisplayEvents
<1>2. 0 \in MemoryCells
  BY SizePositive DEF MemoryCells
<1>a. CASE EnableDisplayPower
  BY <1>1, <1>2, <1>a, DisplayHappensType DEF EnableDisplayPower
<1>b. CASE DisableDisplayPower
  BY <1>b DEF DisableDisplayPower
<1>c. CASE PowerSwitchFails
  BY <1>1, <1>c, DisplayHappensType DEF PowerSwitchFails, Fault
<1>d. CASE BlockDisplay
  BY <1>1, <1>d, DisplayHappensType DEF BlockDisplay
<1>e. CASE BeginDrawing
  BY <1>e, NextMarginType DEF BeginDrawing
<1>f. CASE SetAddressing
  BY <1>f DEF SetAddressing
<1>g. CASE SetPanel
  BY <1>g DEF SetPanel
<1>h. CASE ResetBuffer
  BY <1>h DEF ResetBuffer
<1>i. CASE InitFails
  BY <1>1, <1>i, DisplayHappensType DEF InitFails, Fault
<1>j. CASE UpdateFullScreen
  <2>1. Size - 1 \in 0..(Size - 1)
    BY SizePositive
  <2>. QED  BY <1>j, <2>1, PictureType, TransferType DEF UpdateFullScreen, AfterUpdate
<1>k. CASE UpdateFails
  <2>1. PICK count \in 0..(Size - 1) : Transfer(Picture, count)
    BY <1>k DEF UpdateFails
  <2>2. display_left' \in [DisplayEvents -> Nat] /\ faultless' \in BOOLEAN
    BY <1>1, <1>k, DisplayHappensType DEF UpdateFails, Fault
  <2>. QED  BY <1>k, <2>1, <2>2, PictureType, TransferType DEF UpdateFails, AfterUpdate
<1>l. CASE UNCHANGED displayVars
  BY <1>l DEF displayVars
<1>. QED
  BY <1>a, <1>b, <1>c, <1>d, <1>e, <1>f, <1>g, <1>h, <1>i, <1>j, <1>k, <1>l DEF DisplayNext

\* The display starts without power and with any memory.
LEMMA DisplayTypeInit == DisplayInit => DisplayTypeOK
<1>1. 0 \in MemoryCells
  BY SizePositive DEF MemoryCells
<1>. QED  BY <1>1, DisplayLimitAssumption DEF DisplayInit, DisplayTypeOK, Steps

\* Memory, pointer, stage and picture keep their types.
THEOREM DisplayTyping == DisplaySpec => []DisplayTypeOK
BY DisplayTypeInit, DisplayTypeStep, PTL DEF DisplaySpec

\* How far a drawing without failures has come: the pointer is back where the
\* power-on left it until the blank picture is sent, which covers all cells but
\* the last; the display is lit from the end of its initialisation on.
Drawn ==
  powered /\ faultless =>
    /\ stage # "ENABLE_POWER"
    /\ stage \in {"DRAW_DATA", "address", "panel", "switch_on", "clear"} => pointer = 0
    /\ stage \in {"clear", "text", "DISABLE_POWER"} => lit
    /\ stage = "text" =>
         /\ pointer = Size - 1 /\ pixels = {}
         /\ \A c \in 0..(Size - 2) : memory[c] = "blank"

\* What PictureShown rests on.
PictureInv == Drawn /\ PictureShown

\* The blank picture leaves one cell to the next transfer.
LEMMA BlankSent ==
  ASSUME Size > 1, pointer = 0
  PROVE  /\ \A c \in 0..(Size - 2) : Sent({}, Size - 1)[c] = "blank"
         /\ (pointer + (Size - 1)) % Size = Size - 1
<1>1. Size \in Nat
  BY SizePositive
<1>2. (Size - 1) % Size = Size - 1
  BY <1>1
<1>3. ASSUME NEW c \in 0..(Size - 2) PROVE Sent({}, Size - 1)[c] = "blank"
  <2>1. c \in MemoryCells /\ c % Size = c /\ c < Size - 1
    BY <1>1 DEF MemoryCells
  <2>. QED  BY <2>1 DEF Sent
<1>. QED  BY <1>1, <1>2, <1>3

\* A place before the first is counted from the end.
LEMMA Wrapped ==
  ASSUME NEW b \in Nat \ {0}, NEW r \in 0..(b - 1), NEW a, a = r - b
  PROVE  a % b = r
OBVIOUS

\* The text's picture meets the blank one one cell before the end: what it inks
\* stands two cells before the cells of the text, and it fills the cell that the
\* blank picture left.
LEMMA TextSent ==
  ASSUME \A x \in Margins : x >= 2, x_current \in Margins, Size > 1, pointer = Size - 1,
         memory \in [MemoryCells -> {"random", "blank", "ink"}],
         \A c \in 0..(Size - 2) : memory[c] = "blank"
  PROVE  LET sent == Sent(TextCells, Size - 1) IN
         /\ \A c \in TextCells : c - 2 \in MemoryCells /\ (c - 2) \div Width = TextPage
         /\ \A c \in MemoryCells : sent[c] = IF c + 2 \in TextCells THEN "ink" ELSE "blank"
<1>. DEFINE sent == Sent(TextCells, Size - 1)
<1>1. /\ Size \in Nat /\ Width \in Nat \ {0} /\ TextPage \in Nat /\ TextWidth \in Nat
      /\ x_current \in Nat /\ x_current >= 2
  BY ScreenAssumption, SizePositive
<1>2. ASSUME NEW c \in TextCells PROVE c - 2 \in MemoryCells /\ (c - 2) \div Width = TextPage /\ c >= 2
  <2>1. PICK y \in x_current..(x_current + TextWidth - 1) : y < Width /\ c = TextPage * Width + y
    BY DEF TextCells
  <2>2. y \in Nat /\ y >= 2 /\ y - 2 \in 0..(Width - 1) /\ TextPage * Width \in Nat
    BY <1>1, <2>1
  <2>3. c - 2 = Width * TextPage + (y - 2)
    BY <1>1, <2>1, <2>2
  <2>4. (c - 2) \div Width = TextPage
    BY <1>1, <2>2, <2>3, Quotient
  <2>5. c \in 0..(Size - 1)
    BY TextWithin DEF MemoryCells
  <2>6. c >= 2
    <3>. DEFINE line == TextPage * Width
    <3>1. line \in Nat /\ c = line + y
      BY <2>1, <2>2
    <3>. HIDE DEF line
    <3>. QED  BY <2>2, <3>1
  <2>. QED  BY <1>1, <2>4, <2>5, <2>6 DEF MemoryCells
<1>3. ASSUME NEW c \in MemoryCells PROVE sent[c] = IF c + 2 \in TextCells THEN "ink" ELSE "blank"
  <2>. DEFINE offset == (c - pointer) % Size
  <2>1. c \in 0..(Size - 1)
    BY DEF MemoryCells
  <2>2. sent[c] = IF offset < Size - 1 THEN IF offset + 1 \in TextCells THEN "ink" ELSE "blank" ELSE memory[c]
    BY DEF Sent
  <2>3. CASE c = Size - 1
    <3>1. offset = 0
      BY <1>1, <2>3
    <3>2. 1 \notin TextCells /\ c + 2 \notin TextCells
      BY <1>1, <1>2, <2>3, TextWithin DEF MemoryCells
    <3>. QED  BY <1>1, <2>2, <3>1, <3>2
  <2>4. CASE c < Size - 1
    <3>1. c - pointer = (c + 1) - Size /\ c + 1 \in 0..(Size - 1)
      BY <1>1, <2>1, <2>4
    <3>2. offset = c + 1
      BY <1>1, <3>1, Wrapped
    <3>. HIDE DEF offset
    <3>3. CASE c + 1 < Size - 1
      <4>1. offset + 1 = c + 2
        BY <2>1, <3>2
      <4>. QED  BY <2>2, <3>2, <3>3, <4>1
    <3>4. CASE ~(c + 1 < Size - 1)
      <4>1. c = Size - 2 /\ memory[c] = "blank"
        BY <1>1, <2>1, <2>4, <3>4
      <4>2. c + 2 \notin TextCells
        BY <1>1, <4>1, TextWithin DEF MemoryCells
      <4>. QED  BY <2>2, <3>2, <3>4, <4>1, <4>2
    <3>. QED  BY <3>3, <3>4
  <2>. QED  BY <1>1, <2>1, <2>3, <2>4
<1>. QED  BY <1>2, <1>3

\* The drawing's progress is kept, and its end is the picture.
LEMMA PictureStep ==
  ASSUME \A x \in Margins : x >= 2
  PROVE  DisplayTypeOK /\ PictureInv /\ [DisplayNext]_displayVars => PictureInv'
<1>. SUFFICES ASSUME DisplayTypeOK, PictureInv, [DisplayNext]_displayVars PROVE PictureInv'
  OBVIOUS
<1>. USE DEF PictureInv, Drawn
<1>1. Size \in Nat /\ Size > 1
  <2>1. x_current \in Nat /\ x_current >= 2 /\ x_current <= Width - 1 /\ Pages \in Nat \ {0} /\ Width \in Nat
    BY ScreenAssumption DEF DisplayTypeOK
  <2>2. Width * Pages >= Width
    BY <2>1
  <2>. QED  BY <2>1, <2>2, SizePositive DEF Size
<1>a. CASE EnableDisplayPower
  BY <1>a DEF EnableDisplayPower, PictureShown
<1>b. CASE DisableDisplayPower
  BY <1>b DEF DisableDisplayPower, PictureShown
<1>c. CASE PowerSwitchFails
  BY <1>c DEF PowerSwitchFails, Fault, PictureShown
<1>d. CASE BlockDisplay
  BY <1>d DEF BlockDisplay, PictureShown
<1>e. CASE BeginDrawing
  BY <1>e DEF BeginDrawing, PictureShown
<1>f. CASE SetAddressing
  BY <1>f DEF SetAddressing, PictureShown
<1>g. CASE SetPanel
  BY <1>g DEF SetPanel, PictureShown
<1>h. CASE ResetBuffer
  BY <1>h DEF ResetBuffer, PictureShown
<1>i. CASE InitFails
  BY <1>i DEF InitFails, Fault, PictureShown
<1>j. CASE UpdateFullScreen /\ stage = "clear"
  <2>1. Picture = {} /\ stage' = "text" /\ Transfer({}, Size - 1)
    BY <1>j DEF UpdateFullScreen, Picture, AfterUpdate
  <2>2. ASSUME powered, faultless
        PROVE  pointer' = Size - 1 /\ pixels' = {} /\ \A c \in 0..(Size - 2) : memory'[c] = "blank"
    BY <1>1, <1>j, <2>1, <2>2, BlankSent DEF Transfer
  <2>. QED  BY <1>j, <2>1, <2>2 DEF UpdateFullScreen, PictureShown
<1>k. CASE UpdateFullScreen /\ stage = "text"
  <2>. SUFFICES ASSUME powered, faultless PROVE PictureInv'
    BY <1>k DEF UpdateFullScreen, PictureShown
  <2>1. Picture = TextCells /\ stage' = "DISABLE_POWER" /\ Transfer(TextCells, Size - 1)
    BY <1>k DEF UpdateFullScreen, Picture, AfterUpdate
  <2>2. lit' /\ x_current' = x_current /\ TextCells' = TextCells
    BY <1>k DEF UpdateFullScreen, TextCells
  <2>3. /\ \A c \in TextCells : c - 2 \in MemoryCells /\ (c - 2) \div Width = TextPage
        /\ \A c \in MemoryCells : memory'[c] = IF c + 2 \in TextCells THEN "ink" ELSE "blank"
    BY <1>1, <1>k, <2>1, TextSent DEF Transfer, DisplayTypeOK
  <2>4. \A c \in TextCells : c \in Int
    BY TextWithin DEF MemoryCells, DisplayTypeOK
  <2>5. {c \in MemoryCells : memory'[c] = "ink"} = {c - 2 : c \in TextCells}
    <3>1. ASSUME NEW c \in MemoryCells, memory'[c] = "ink" PROVE c \in {e - 2 : e \in TextCells}
      <4>1. c + 2 \in TextCells /\ (c + 2) - 2 = c
        BY <2>3, <3>1 DEF MemoryCells
      <4>. QED  BY <4>1
    <3>2. ASSUME NEW e \in TextCells PROVE e - 2 \in MemoryCells /\ memory'[e - 2] = "ink"
      <4>1. e - 2 \in MemoryCells /\ (e - 2) + 2 = e
        BY <2>3, <2>4
      <4>. QED  BY <2>3, <4>1
    <3>. QED  BY <3>1, <3>2
  <2>6. \A c \in MemoryCells : memory'[c] # "random"
    BY <2>3
  <2>. QED  BY <2>1, <2>2, <2>3, <2>5, <2>6 DEF PictureShown
<1>l. CASE UpdateFails
  BY <1>l DEF UpdateFails, Fault, PictureShown
<1>m. CASE UNCHANGED displayVars
  BY <1>m DEF displayVars, PictureShown, TextCells
<1>. QED
  BY <1>a, <1>b, <1>c, <1>d, <1>e, <1>f, <1>g, <1>h, <1>i, <1>j, <1>k, <1>l, <1>m
     DEF DisplayNext, UpdateFullScreen

\* Where the margins are at least the two columns that the pictures move, as on
\* both boards, a drawing without failures shows the text whole, in its own page,
\* and leaves no cell as the power-on left it.
THEOREM PictureComplete ==
  ASSUME \A x \in Margins : x >= 2
  PROVE  DisplaySpec => []PictureShown
<1>1. DisplayInit => PictureInv
  BY DEF DisplayInit, PictureInv, Drawn, PictureShown
<1>2. PictureInv => PictureShown
  BY DEF PictureInv
<1>. QED  BY <1>1, <1>2, DisplayTyping, PictureStep, PTL DEF DisplaySpec

-----------------------------------------------------------------------------
(* The composition.                                                        *)

\* Whichever driver a behaviour exercises, it is a behaviour of every part: what
\* is proved of a part holds where the parts are checked together.
THEOREM PartsKept ==
  DriversSpec => ExpanderSpec /\ FlashSpec /\ MapperSpec /\ DisplaySpec
<1>1. DriversInit => ExpanderInit /\ FlashInit /\ MapperInit /\ DisplayInit
  BY DEF DriversInit
<1>2. [DriversNext]_driversVars =>
        /\ [ExpanderNext]_expanderVars /\ [FlashNext]_flashVars
        /\ [MapperNext]_mapperVars /\ [DisplayNext]_displayVars
  BY DEF DriversNext, driversVars
<1>. QED
  BY <1>1, <1>2, PTL DEF DriversSpec, ExpanderSpec, FlashSpec, MapperSpec, DisplaySpec

\* Every part keeps its types, and so does the choice among them.
THEOREM DriversTyping == DriversSpec => []DriversTypeOK
<1>1. DriversInit => driver \in Exercised
  BY DEF DriversInit
<1>2. driver \in Exercised /\ [DriversNext]_driversVars => (driver \in Exercised)'
  BY DEF DriversNext, Only, driversVars
<1>3. DriversSpec => [](driver \in Exercised)
  BY <1>1, <1>2, PTL DEF DriversSpec
<1>. QED
  BY <1>3, PartsKept, ExpanderTyping, FlashTyping, MapperTyping, DisplayTyping, PTL DEF DriversTypeOK
=============================================================================

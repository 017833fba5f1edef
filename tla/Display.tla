------------------------------- MODULE Display -------------------------------
(***************************************************************************)
(* The display SSD1306: its power, its initialisation, and a drawing of    *)
(* the boards, which sends the picture twice: blank, then with the text.   *)
(*                                                                         *)
(* The first byte of the pixel buffer is overwritten by the command, so    *)
(* each picture is one byte shorter than the memory of the display, whose  *)
(* pointer goes round.  The memory is a row of cells, page after page; a   *)
(* line of text is the cells it covers.                                    *)
(***************************************************************************)
EXTENDS Integers, FiniteSets

CONSTANTS Width, Pages,     \* the size of the display
          TextPage,         \* the page of the text
          Margins,          \* where the text begins, in turn
          TextWidth,
          DisplayLimit      \* how often each event may happen

DisplayEvents == {"draw", "fault", "block"}

ASSUME ScreenAssumption ==
  /\ {Width, Pages, TextWidth} \subseteq Nat \ {0}
  /\ TextPage \in 0..(Pages - 1) /\ Margins \subseteq 0..(Width - 1)
ASSUME DisplayLimitAssumption == DisplayLimit \in [DisplayEvents -> Nat]

VARIABLES memory, pointer,  \* the display's
          lit,              \* whether it shows its memory
          powered,
          stage,            \* of board_B02_draw_display, or the step of the drawing
          pixels,           \* the cells of the buffer that are inked
          x_current,
          faultless,        \* no transfer has failed, and the drawing began after power-on
          display_left      \* events that may still happen

displayVars == <<memory, pointer, lit, powered, stage, pixels, x_current, faultless, display_left>>

Size == Width * Pages
MemoryCells == 0..(Size - 1)
Steps == {"ENABLE_POWER", "DRAW_DATA", "address", "panel", "switch_on", "clear", "text", "DISABLE_POWER"}

DisplayHappens(event) ==
  /\ display_left[event] > 0
  /\ display_left' = [display_left EXCEPT ![event] = @ - 1]

DisplayInit ==
  /\ memory = [c \in MemoryCells |-> "random"] /\ pointer = 0 /\ lit = FALSE
  /\ powered = FALSE /\ stage = "ENABLE_POWER"
  /\ pixels = {} /\ x_current \in Margins
  /\ faultless = TRUE /\ display_left = DisplayLimit

\* A failure ends the drawing or loses a transfer; it is only logged.
Fault == DisplayHappens("fault") /\ faultless' = FALSE

-----------------------------------------------------------------------------
(* The power, switched through the port expander.                          *)

\* A display that still has power keeps its memory and its pointer.
EnableDisplayPower ==
  /\ stage = "ENABLE_POWER"
  /\ DisplayHappens("draw")
  /\ stage' = "DRAW_DATA"
  /\ powered' = TRUE
  /\ faultless' = ~powered
  /\ IF powered THEN UNCHANGED <<memory, pointer, lit>>
     ELSE /\ memory' = [c \in MemoryCells |-> "random"]
          /\ pointer' = 0 /\ lit' = FALSE
  /\ UNCHANGED <<pixels, x_current>>

DisableDisplayPower ==
  /\ stage = "DISABLE_POWER"
  /\ stage' = "ENABLE_POWER"
  /\ powered' = FALSE /\ lit' = FALSE
  /\ UNCHANGED <<memory, pointer, pixels, x_current, faultless, display_left>>

\* The lights are blocked: the display loses its power and the stage remains, so
\* that the next drawing continues where the block found it.
BlockDisplay ==
  /\ stage \in {"ENABLE_POWER", "DRAW_DATA", "DISABLE_POWER"}
  /\ DisplayHappens("block")
  /\ powered' = FALSE /\ lit' = FALSE
  /\ UNCHANGED <<memory, pointer, stage, pixels, x_current, faultless>>

PowerSwitchFails ==
  /\ \/ stage = "ENABLE_POWER" /\ stage' = "DRAW_DATA"
     \/ stage = "DISABLE_POWER" /\ stage' = "ENABLE_POWER"
  /\ Fault
  /\ UNCHANGED <<memory, pointer, lit, powered, pixels, x_current>>

-----------------------------------------------------------------------------
(* board_B02_draw_blue_display, board_T01_draw_blue_display and            *)
(* board_T01_draw_yellow_display, which differ in what they write.         *)

\* The text moves to the next place, to spare the pixels.
NextMargin == CHOOSE margins \in [Margins -> Margins] :
  \A x \in Margins :
    LET greater == {y \in Margins : y > x}
        least(S) == CHOOSE y \in S : \A z \in S : y <= z
    IN  margins[x] = IF greater = {} THEN least(Margins) ELSE least(greater)

BeginDrawing ==
  /\ stage = "DRAW_DATA"
  /\ stage' = "address"
  /\ x_current' = NextMargin[x_current]
  /\ UNCHANGED <<memory, pointer, lit, powered, pixels, faultless, display_left>>

\* Display off, and the addressing mode: 0x10 means horizontal, in which the
\* commands for the page and the column that follow have no effect.
SetAddressing ==
  /\ stage = "address" /\ powered
  /\ stage' = "panel"
  /\ lit' = FALSE
  /\ UNCHANGED <<memory, pointer, powered, pixels, x_current, faultless, display_left>>

\* Start line, contrast, multiplexing, clock and voltages.
SetPanel ==
  /\ stage = "panel"
  /\ stage' = "switch_on"
  /\ UNCHANGED <<memory, pointer, lit, powered, pixels, x_current, faultless, display_left>>

MutantResetBuffer ==
  /\ stage = "switch_on"
  /\ stage' = "text"
  /\ lit' = TRUE
  /\ pixels' = {}
  /\ UNCHANGED <<memory, pointer, powered, x_current, faultless, display_left>>

\* Display on; ssd1306_display_reset_buffer.
ResetBuffer ==
  /\ stage = "switch_on"
  /\ stage' = "clear"
  /\ lit' = TRUE
  /\ pixels' = {}
  /\ UNCHANGED <<memory, pointer, powered, x_current, faultless, display_left>>

\* The initialisation fails at any command, and always without power: nothing is drawn.
InitFails ==
  /\ stage \in {"address", "panel", "switch_on"}
  /\ IF powered THEN Fault ELSE UNCHANGED <<display_left, faultless>>
  /\ stage' = "DISABLE_POWER"
  /\ lit' \in IF powered /\ stage = "address" THEN {lit, FALSE} ELSE {lit}
  /\ UNCHANGED <<memory, pointer, powered, pixels, x_current>>

\* The cells a line of text covers: what lies beyond the right edge is cut off.
TextCells == {TextPage * Width + x : x \in {y \in x_current..(x_current + TextWidth - 1) : y < Width}}

\* Byte 0 of the buffer is the command: the bytes from 1 on go to the memory, from the pointer on.
Sent(inked, count) ==
  [c \in MemoryCells |->
     LET offset == (c - pointer) % Size
     IN  IF offset < count THEN IF offset + 1 \in inked THEN "ink" ELSE "blank"
         ELSE memory[c]]

\* ssd1306_display_update_full_screen, for the first count bytes of the picture.
Transfer(inked, count) ==
  /\ pixels' = inked
  /\ memory' = Sent(inked, count)
  /\ pointer' = (pointer + count) % Size

Picture == IF stage = "clear" THEN {} ELSE pixels \cup TextCells
AfterUpdate == IF stage = "clear" THEN "text" ELSE "DISABLE_POWER"

UpdateFullScreen ==
  /\ stage \in {"clear", "text"}
  /\ Transfer(Picture, Size - 1)
  /\ stage' = AfterUpdate
  /\ UNCHANGED <<lit, powered, x_current, faultless, display_left>>

\* The transfer breaks off, and the drawing goes on.
UpdateFails ==
  /\ stage \in {"clear", "text"}
  /\ Fault
  /\ \E count \in 0..(Size - 1) : Transfer(Picture, count)
  /\ stage' = AfterUpdate
  /\ UNCHANGED <<lit, powered, x_current>>

DisplayNext ==
  \/ EnableDisplayPower \/ DisableDisplayPower \/ PowerSwitchFails \/ BlockDisplay
  \/ BeginDrawing \/ SetAddressing \/ SetPanel \/ ResetBuffer \/ InitFails
  \/ UpdateFullScreen \/ UpdateFails

DisplaySpec == DisplayInit /\ [][DisplayNext]_displayVars

-----------------------------------------------------------------------------
(* Properties.                                                             *)

DisplayTypeOK ==
  /\ memory \in [MemoryCells -> {"random", "blank", "ink"}]
  /\ pointer \in MemoryCells
  /\ lit \in BOOLEAN /\ powered \in BOOLEAN /\ faultless \in BOOLEAN
  /\ stage \in Steps
  /\ pixels \subseteq MemoryCells /\ x_current \in Margins
  /\ display_left \in [DisplayEvents -> Nat]

\* While the result of a drawing without failures stands, the display is on, no
\* cell of it is left from the power-on, and the text stands two columns left of
\* where it was drawn, whole and in its own page: the two columns by which the
\* two shortened pictures move it are the margin of the boards' texts.
PictureShown ==
  stage = "DISABLE_POWER" /\ powered /\ faultless =>
    /\ lit
    /\ {c \in MemoryCells : memory[c] = "ink"} = {c - 2 : c \in TextCells}
    /\ \A c \in MemoryCells : memory[c] # "random"
    /\ \A c \in TextCells : (c - 2) \div Width = TextPage
=============================================================================

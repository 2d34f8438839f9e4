------------------------------ MODULE Console ------------------------------
(***************************************************************************)
(* Devices/Graphics/console.cpp: putchar, one character at a time.  Every  *)
(* caller holds ttyLock, but a call may end inside an escape sequence and  *)
(* the next one goes on from there.  Each action is a character that the   *)
(* ANSI state accepts, or one that it does not (PrintChar).  Screen and    *)
(* integer sizes are parameters, colours are indices of ansiVGATable.      *)
(***************************************************************************)
EXTENDS Integers, Sequences

CONSTANTS
  Columns, Rows,  \* 80 and 25
  TabWidth,       \* TAB_WIDTH
  ByteMod,        \* 2^8: cursorX and cursorY are uint8_t
  WordMod,        \* 2^16: ansiVal is uint16_t
  Slots,          \* 8: size of ansiValues
  Digit,          \* the digits that occur
  MaxVal,         \* bound: no digit follows a larger ansiVal
  MaxStack,       \* bound: values given without a command; more than Slots
  AnsiBlack, BrightBlack, Background,  \* 30, 90 and 10: ansiColor
  Palette         \* colours given to reset(fore, back)

ASSUME ConsoleAssumption ==
  /\ {ByteMod, TabWidth, WordMod, Slots, MaxStack} \subseteq Nat \ {0} /\ WordMod >= 10
  /\ Columns \in 1..ByteMod /\ Rows \in 1..ByteMod
  /\ ByteMod % TabWidth = 0 /\ Digit \subseteq 0..9
  /\ {AnsiBlack, BrightBlack, Background} \subseteq Nat /\ Palette \subseteq 0..15

VARIABLES
  cursorX, cursorY, ansiCursorX, ansiCursorY,  \* cursor and saved cursor
  colorFore, colorBack, resetFore, resetBack,
  ansiState, ansiVal,
  ansiValues,    \* the first ansiValuesIdx values, in the array or behind its end
  below,         \* how far ansiValuesIdx is below 0, as a wrapped size_t
  faulted,       \* a page fault ended the kernel
  printed,       \* history: the last character was printed, not interpreted
  abandoned,     \* history: since the last command that empties the stack, a sequence
                 \* did not end the way it is meant to, or stored outside ansiValues
  ignored        \* history: some 'm' has not seen the value given right before it

cursor == <<cursorX, cursorY>>
saved == <<ansiCursorX, ansiCursorY>>
colors == <<colorFore, colorBack, resetFore, resetBack>>
values == <<ansiValues, below>>
history == <<abandoned, ignored>>
consoleVars == <<cursor, saved, colors, ansiState, ansiVal, values, faulted, printed, history>>

Black == 0
White == 15

ConsoleInit ==
  /\ cursorX = 0 /\ cursorY = 0 /\ ansiCursorX = 0 /\ ansiCursorY = 0
  /\ colorFore = White /\ colorBack = Black /\ resetFore = White /\ resetBack = Black
  /\ ansiState = "Normal" /\ ansiVal = 0 /\ ansiValues = <<>> /\ below = 0
  /\ faulted = FALSE /\ printed = FALSE /\ abandoned = FALSE /\ ignored = FALSE

(* goto end in state s with value v.                                        *)
Accept(s, v) ==
  /\ ~faulted
  /\ ansiState' = s /\ ansiVal' = v /\ printed' = FALSE

Normal == Accept("Normal", 0)

(***************************************************************************)
(* Characters that open a sequence or give it a value                      *)
(***************************************************************************)
Escape ==
  /\ ansiState = "Normal" /\ Accept("Esc", ansiVal)
  /\ UNCHANGED <<cursor, saved, colors, values, faulted, history>>

OpenBracket ==
  /\ ansiState = "Esc" /\ Accept("Bracket", ansiVal)
  /\ UNCHANGED <<cursor, saved, colors, values, faulted, history>>

FirstDigit(d) ==
  /\ ansiState = "Bracket" /\ Accept("Value", d)
  /\ UNCHANGED <<cursor, saved, colors, values, faulted, history>>

NextDigit(d) ==
  /\ ansiState = "Value" /\ ansiVal <= MaxVal
  /\ Accept("Value", (ansiVal * 10 + d) % WordMod)
  /\ UNCHANGED <<cursor, saved, colors, values, faulted, history>>

(* PUSH_VAL, which looks neither at the size of the array nor at a wrapped  *)
(* index: the value goes behind the array, or below it and is not seen      *)
(* again.  Assumed of the link: nothing the console uses lies there.        *)
Pushed == IF below > 0 THEN <<>> ELSE Append(ansiValues, ansiVal)
BelowPushed == IF below > 0 THEN below - 1 ELSE 0

CanPush == ansiState = "Value" /\ Len(ansiValues) < MaxStack
StoresOutside == below > 0 \/ Len(ansiValues) >= Slots

Separator ==
  /\ CanPush /\ ansiValues' = Pushed /\ below' = BelowPushed
  /\ Accept("Bracket", 0)
  /\ abandoned' = (abandoned \/ StoresOutside)
  /\ UNCHANGED <<cursor, saved, colors, faulted, ignored>>

(***************************************************************************)
(* Commands.  's' and 'u' leave values given before them on the stack.     *)
(***************************************************************************)
TakesNoValue == abandoned' = (abandoned \/ ansiValues # <<>> \/ below > 0)

SaveCursor ==
  /\ ansiState = "Bracket" /\ Normal
  /\ ansiCursorX' = cursorX /\ ansiCursorY' = cursorY
  /\ TakesNoValue
  /\ UNCHANGED <<cursor, colors, values, faulted, ignored>>

RestoreCursor ==
  /\ ansiState = "Bracket" /\ Normal
  /\ cursorX' = ansiCursorX /\ cursorY' = ansiCursorY
  /\ TakesNoValue
  /\ UNCHANGED <<saved, colors, values, faulted, ignored>>

Dark(v, base) == v \in base..(base + 7)
ForeCode(v) == Dark(v, AnsiBlack) \/ Dark(v, BrightBlack)
ColorOf(v) == IF Dark(v, AnsiBlack) THEN v - AnsiBlack ELSE v - BrightBlack + 8

SetsFore(v) == v = 0 \/ ForeCode(v)
ForeOf(v) == IF v = 0 THEN resetFore ELSE ColorOf(v)
SetsBack(v) == v = 0 \/ (~ForeCode(v) /\ ForeCode(v - Background))
BackOf(v) == IF v = 0 THEN resetBack ELSE ColorOf(v - Background)

(* The values are popped, so the first one given is applied last.           *)
Winner(s, Sets(_), Of(_), old) ==
  LET hits == {i \in DOMAIN s : Sets(s[i])}
  IN IF hits = {} THEN old ELSE Of(s[CHOOSE i \in hits : \A j \in hits : i <= j])

(* The command has emptied the stack.                                       *)
Empties == ansiValues' = <<>> /\ below' = 0 /\ abandoned' = FALSE

(* Fault: only the last value is popped.                                    *)
SetColorsOnce ==
  /\ CanPush /\ BelowPushed = 0 /\ Normal
  /\ ansiValues' = ansiValues /\ below' = 0 /\ abandoned' = FALSE
  /\ UNCHANGED <<cursor, saved, colors, faulted, ignored>>
SetColors ==
  /\ CanPush /\ BelowPushed = 0 /\ Normal
  /\ colorFore' = Winner(Pushed, SetsFore, ForeOf, colorFore)
  /\ colorBack' = Winner(Pushed, SetsBack, BackOf, colorBack)
  /\ Empties /\ ignored' = (ignored \/ below > 0)
  /\ UNCHANGED <<cursor, saved, resetFore, resetBack, faulted>>

(* From a wrapped index the loop of 'm' pops its way down through memory     *)
(* until it meets a page that is not there.                                 *)
PopThroughMemory ==
  /\ ~faulted /\ CanPush /\ BelowPushed > 0
  /\ faulted' = TRUE
  /\ UNCHANGED <<cursor, saved, colors, ansiState, ansiVal, values, printed, history>>

(* 'H' and 'f' with line and column.  The first POP_VAL finds the value just *)
(* pushed; one with no value left reads a cell below the array and leaves    *)
(* the index there.                                                         *)
Byte == 0..(ByteMod - 1)

SetCursor ==
  /\ CanPush /\ BelowPushed = 0 /\ Len(Pushed) <= 2 /\ Normal
  /\ cursorX' = ansiVal % ByteMod
  /\ cursorY' \in IF Len(Pushed) < 2 THEN Byte ELSE {Pushed[1] % ByteMod}
  /\ ansiValues' = <<>> /\ below' = 2 - Len(Pushed)
  /\ abandoned' = (Len(Pushed) < 2)
  /\ UNCHANGED <<saved, colors, faulted, ignored>>

(* error: three values or more, as a wrapped index also looks, or no ESC[2J *)
Reject ==
  /\ \/ CanPush /\ (Len(Pushed) > 2 \/ BelowPushed > 0)  \* 'H'
     \/ ansiState = "Value" /\ ansiVal # 2               \* 'J'
  /\ Normal /\ Empties
  /\ UNCHANGED <<cursor, saved, colors, faulted, ignored>>

(* ESC[2J clears the screen and leaves the sequence open.                   *)
ClearScreen ==
  /\ ansiState = "Value" /\ ansiVal = 2
  /\ Accept("Value", ansiVal)
  /\ abandoned' = TRUE
  /\ UNCHANGED <<cursor, saved, colors, values, faulted, ignored>>

(***************************************************************************)
(* Any other character is printed, whatever the state.                     *)
(***************************************************************************)
Column(kind) ==
  CASE kind = "backspace" -> IF cursorX > 0 THEN cursorX - 1 ELSE 0
    [] kind = "tab"       -> (((cursorX \div TabWidth) + 1) * TabWidth) % ByteMod
    [] kind = "glyph"     -> (cursorX + 1) % ByteMod
    [] OTHER              -> 0

Line(kind) == IF kind = "newline" THEN (cursorY + 1) % ByteMod ELSE cursorY

Placed(x, y) ==
  LET x1 == IF x >= Columns THEN 0 ELSE x
      y1 == IF x >= Columns THEN (y + 1) % ByteMod ELSE y
  IN IF y1 >= Rows THEN <<0, Rows - 1>> ELSE <<x1, y1>>

PrintChar(kind) ==
  /\ ~faulted
  /\ cursorX' = Placed(Column(kind), Line(kind))[1]
  /\ cursorY' = Placed(Column(kind), Line(kind))[2]
  /\ ansiState' = "Normal" /\ printed' = TRUE
  /\ abandoned' = (abandoned \/ ansiState # "Normal")
  /\ UNCHANGED <<saved, colors, ansiVal, values, faulted, ignored>>

(* reset(fore, back) and reset(), which take no lock.                       *)
ResetTo(fore, back) ==
  /\ ~faulted
  /\ cursorX' = 0 /\ cursorY' = 0
  /\ colorFore' = fore /\ resetFore' = fore /\ colorBack' = back /\ resetBack' = back
  /\ UNCHANGED <<saved, ansiState, ansiVal, values, faulted, printed, history>>

Reset == ResetTo(resetFore, resetBack)

ConsoleNext ==
  \/ Escape \/ OpenBracket \/ \E d \in Digit : FirstDigit(d) \/ NextDigit(d)
  \/ Separator \/ SaveCursor \/ RestoreCursor \/ SetColors \/ SetCursor
  \/ PopThroughMemory \/ Reject \/ ClearScreen
  \/ \E kind \in {"backspace", "newline", "tab", "return", "glyph"} : PrintChar(kind)
  \/ \E fore, back \in Palette : ResetTo(fore, back)
  \/ Reset

ConsoleSpec == ConsoleInit /\ [][ConsoleNext]_consoleVars

(***************************************************************************)
(* Properties.                                                             *)
(***************************************************************************)
(* After a printed character the cursor is on the screen, wherever cursor    *)
(* commands had put it and although the bytes that hold it wrap.            *)
PrintedOnScreen == printed => cursorX < Columns /\ cursorY < Rows

(* A command acts on its own values only: when the next sequence begins no   *)
(* value is left over and the index is in the array, unless, since a command *)
(* last emptied the stack, a sequence was cut short, gave a cursor command    *)
(* one value, or gave more values than the array holds.  One 'm' that does    *)
(* not fault, rejected command or complete 'H' is then enough to recover.     *)
NoValueLeftOver == (~abandoned /\ ansiState = "Normal") => ansiValues = <<>> /\ below = 0

(* The colours a sequence leaves behind are entries of ansiVGATable, whether *)
(* its codes were dark, bright, background or reset, and the index is at     *)
(* most two cells below the array.                                          *)
ConsoleTypeOK ==
  /\ cursorX \in Byte /\ cursorY \in Byte
  /\ {colorFore, colorBack} \subseteq 0..15
  /\ ansiVal \in 0..(WordMod - 1) /\ below \in 0..2

(* Whatever came before, text is printed on the screen; after sequences that *)
(* ended as they are meant to the next one starts from an empty stack, and   *)
(* no loop leaves the array.  What malformed ones do to the sequence after   *)
(* them is ColorsApplied's.                                                  *)
ConsoleRecovers ==
  /\ ConsoleTypeOK /\ PrintedOnScreen /\ NoValueLeftOver
  /\ faulted => abandoned

(* "iterate through all values": the loop of 'm' ends and has seen the value *)
(* given right before it.  After ESC[5H the index is -1: the value of the    *)
(* next ESC[31m goes below the array and the loop does not run; after two    *)
(* such commands it runs down through memory and faults.                     *)
ColorsApplied == ~ignored /\ ~faulted
=============================================================================

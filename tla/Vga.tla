-------------------------------- MODULE Vga ---------------------------------
(***************************************************************************)
(* The text display (devices/vga.c): the frame buffer fb, the cursor        *)
(* (cx, cy) and the hardware's copy of it, and how vga_putc changes them.   *)
(* The attribute byte, always GRAY_ON_BLACK, is left out, and so is the     *)
(* beep of '\a'.                                                            *)
(***************************************************************************)
EXTENDS Integers, Sequences

CONSTANTS
    ROW_CNT,            \* 25 in the code
    COL_CNT,            \* 80 in the code
    TabStop             \* 8 in the code

Letter == 1
Space == 0
Controls == {"newline", "formfeed", "backspace", "return", "tab", "letter"}

BlankRow == [x \in 0..(COL_CNT - 1) |-> Space]
clear_row(d, y) == [d EXCEPT !.fb[y] = BlankRow]
move_cursor(d) == [d EXCEPT !.cp = d.cx + COL_CNT * d.cy]
find_cursor(cp) == [x |-> cp % COL_CNT, y |-> cp \div COL_CNT]

\* The first call takes the cursor over from the hardware.
init(fb, cp) == [fb |-> fb, cx |-> find_cursor(cp).x, cy |-> find_cursor(cp).y, cp |-> cp]

cls(d) == move_cursor([d EXCEPT !.fb = [y \in 0..(ROW_CNT - 1) |-> BlankRow],
                                !.cx = 0, !.cy = 0])

newline(d) ==
    IF d.cy + 1 < ROW_CNT THEN [d EXCEPT !.cx = 0, !.cy = @ + 1]
    ELSE clear_row([d EXCEPT !.cx = 0, !.cy = ROW_CNT - 1,
                             !.fb = [y \in DOMAIN @ |-> IF y < ROW_CNT - 1 THEN @[y + 1] ELSE @[y]]],
                   ROW_CNT - 1)

RoundUpTab(x) == ((x + TabStop - 1) \div TabStop) * TabStop
Advance(d, x) == IF x >= COL_CNT THEN newline(d) ELSE [d EXCEPT !.cx = x]

vga_putc(d, c) ==
    move_cursor(CASE c = "newline" -> newline(d)
                  [] c = "formfeed" -> cls(d)
                  [] c = "backspace" -> [d EXCEPT !.cx = IF @ > 0 THEN @ - 1 ELSE @]
                  [] c = "return" -> [d EXCEPT !.cx = 0]
                  [] c = "tab" -> Advance(d, RoundUpTab(d.cx + 1))
                  [] c = "letter" -> Advance([d EXCEPT !.fb[d.cy][d.cx] = Letter], d.cx + 1))
-----------------------------------------------------------------------------
(* What it shows: the end of a text of any number of lines. *)

\* t is [lines, x]: all lines since the screen was cleared, and the column.
NewLine(t) == [lines |-> Append(t.lines, BlankRow), x |-> 0]
Column(t, x) == IF x >= COL_CNT THEN NewLine(t) ELSE [t EXCEPT !.x = x]
Typed(t, c) ==
    CASE c = "newline" -> NewLine(t)
      [] c = "formfeed" -> [lines |-> <<BlankRow>>, x |-> 0]
      [] c = "backspace" -> [t EXCEPT !.x = IF @ = 0 THEN 0 ELSE @ - 1]
      [] c = "return" -> [t EXCEPT !.x = 0]
      [] c = "tab" -> Column(t, CHOOSE s \in (t.x + 1)..(t.x + TabStop) : s % TabStop = 0)
      [] c = "letter" -> Column([t EXCEPT !.lines[Len(t.lines)][t.x] = Letter], t.x + 1)

\* The screen shows the last ROW_CNT lines, the cursor is on the last one, and
\* the hardware's cursor with it.
ScreenRight(d, t) ==
    LET hidden == IF Len(t.lines) > ROW_CNT THEN Len(t.lines) - ROW_CNT ELSE 0
    IN  /\ \A y \in 0..(ROW_CNT - 1) :
              d.fb[y] = IF hidden + y + 1 <= Len(t.lines) THEN t.lines[hidden + y + 1]
                        ELSE BlankRow
        /\ d.cx = t.x /\ d.cy = Len(t.lines) - hidden - 1
        /\ find_cursor(d.cp) = [x |-> d.cx, y |-> d.cy]
=============================================================================

-------------------------------- MODULE Vga --------------------------------
(***************************************************************************)
(* The console, src/vga.c.  Every function runs with interrupts off (its   *)
(* CLI_GUARD), so a call is one step; VGA_display_str is its characters.   *)
(* The attribute byte is left out.                                         *)
(***************************************************************************)
EXTENDS Integers, Sequences

CONSTANTS VGA_WIDTH, VGA_HEIGHT,
          Glyph, NL, CR,  \* characters that are shown, \n and \r
          Input,          \* the characters printed
          Blank,          \* a zero cell
          Cells           \* the cells VGA_display_attr_char is used for

ASSUME VgaAssumption ==
    /\ VGA_WIDTH \in Nat \ {0, 1} /\ VGA_HEIGHT \in Nat \ {0, 1}
    /\ Blank \notin Glyph /\ {NL, CR} \cap Glyph = {}
    /\ Input \subseteq Glyph \cup {NL, CR}

VARIABLES cleared, VGA_buf, VGA_cursor

vgaVars == <<cleared, VGA_buf, VGA_cursor>>

VGA_SIZE == VGA_WIDTH * VGA_HEIGHT
LINE(cursor) == cursor \div VGA_WIDTH
COLUMN(cursor) == cursor % VGA_WIDTH

\* The firmware leaves anything on the screen.
VgaInit ==
    /\ cleared = FALSE
    /\ VGA_buf \in {[i \in 0 .. VGA_SIZE - 1 |-> c] : c \in Glyph}
    /\ VGA_cursor = 0

-----------------------------------------------------------------------------
\* Called once, by kmain; the cursor stays.
VGA_clear == /\ ~cleared
             /\ cleared' = TRUE
             /\ VGA_buf' = [i \in 0 .. VGA_SIZE - 1 |-> Blank]
             /\ UNCHANGED VGA_cursor

\* Fault: the last row is not cleared.
ScrollKeepsLast(buf) ==
    [i \in 0 .. VGA_SIZE - 1 |-> IF i < VGA_SIZE - VGA_WIDTH
                                 THEN buf[i + VGA_WIDTH] ELSE buf[i]]

VGA_scroll(buf) ==
    [i \in 0 .. VGA_SIZE - 1 |-> IF i < VGA_SIZE - VGA_WIDTH
                                 THEN buf[i + VGA_WIDTH] ELSE Blank]

\* Fault: the screen scrolls one row late.
NewLineLate(buf) ==
    LET cursor == (LINE(VGA_cursor) + 1) * VGA_WIDTH
    IN  IF cursor > VGA_SIZE
        THEN /\ VGA_buf' = VGA_scroll(buf)
             /\ VGA_cursor' = (LINE(cursor) - 1) * VGA_WIDTH
        ELSE VGA_buf' = buf /\ VGA_cursor' = cursor

\* The branch for \n, on the buffer buf.
NewLine(buf) ==
    LET cursor == (LINE(VGA_cursor) + 1) * VGA_WIDTH
    IN  IF cursor >= VGA_SIZE
        THEN /\ VGA_buf' = VGA_scroll(buf)
             /\ VGA_cursor' = (LINE(cursor) - 1) * VGA_WIDTH
        ELSE VGA_buf' = buf /\ VGA_cursor' = cursor

\* A \r moves the cursor to the cell whose index is the line's number.
VGA_display_char(c) ==
    /\ cleared
    /\ \/ c = NL /\ NewLine(VGA_buf)
       \/ c = CR /\ VGA_cursor' = LINE(VGA_cursor) /\ UNCHANGED VGA_buf
       \/ /\ c \notin {NL, CR}
          /\ LET buf == [VGA_buf EXCEPT ![VGA_cursor] = c]
             IN  IF COLUMN(VGA_cursor) < VGA_WIDTH - 1
                 THEN VGA_buf' = buf /\ VGA_cursor' = VGA_cursor + 1
                 ELSE NewLine(buf)
    /\ UNCHANGED cleared

VGA_display_attr_char(i, c) ==
    /\ cleared
    /\ VGA_buf' = [VGA_buf EXCEPT ![i] = c]
    /\ UNCHANGED <<cleared, VGA_cursor>>

VgaNext ==
    \/ VGA_clear
    \/ \E c \in Input : VGA_display_char(c)
    \/ \E i \in Cells, c \in Glyph : VGA_display_attr_char(i, c)

VgaSpec == VgaInit /\ [][VgaNext]_vgaVars

-----------------------------------------------------------------------------
\* Whatever is printed, carriage returns included, the next character goes
\* to a cell of the screen and not to the memory behind it.
CursorOnScreen == VGA_cursor \in 0 .. VGA_SIZE - 1

\* The text on the screen: the rows down to the cursor's, without the blanks
\* that follow what was printed.
Shown(c) == c # Blank

Row(r) ==
    SelectSeq([i \in 1 .. IF r = LINE(VGA_cursor) THEN COLUMN(VGA_cursor)
                                                  ELSE VGA_WIDTH
                  |-> VGA_buf[r * VGA_WIDTH + i - 1]], Shown)

Rows == IF cleared THEN [r \in 1 .. LINE(VGA_cursor) + 1 |-> Row(r - 1)]
                   ELSE << <<>> >>

Text == INSTANCE ScreenText WITH
            WIDTH <- VGA_WIDTH, HEIGHT <- VGA_HEIGHT,
            Char <- Glyph, rows <- Rows

\* Printing characters and newlines shows the last rows of the text, wrapped
\* at the width of the screen: the driver implements ScreenText.
ShowsText == Text!Spec
=============================================================================

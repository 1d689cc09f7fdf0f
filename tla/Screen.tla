------------------------------- MODULE Screen -------------------------------
(***************************************************************************)
(* The text cursor of console.c: the pair (cursor_x, cursor_y) and the     *)
(* functions that move it.  The characters in video memory and their       *)
(* colours are left out; what is kept is where the next character goes.    *)
(* The hardware cursor (vga_set_cursor_pos) always follows the pair.       *)
(***************************************************************************)
LOCAL INSTANCE Integers

CONSTANTS
  Width,    \* console_width, 80
  Height    \* console_height, 25

ASSUME ScreenSize == Width \in Nat /\ Height \in Nat /\ 2 < Height /\ Height < Width

\* The cursor moved one column right, to the next row after the last column.
inc_x(c) ==
  IF c.x + 1 = Width THEN [x |-> 0, y |-> c.y + 1] ELSE [x |-> c.x + 1, y |-> c.y]

\* One column left.  From column 0 the code goes to column console_height - 1
\* of the row above, and does not look whether there is a row above.
dec_x(c) ==
  IF c.x = 0 THEN [x |-> Height - 1, y |-> c.y - 1] ELSE [x |-> c.x - 1, y |-> c.y]

\* Below the last row the screen scrolls and the cursor opens the last row.
scroll_if_below(c) ==
  IF c.y >= Height THEN [x |-> 0, y |-> Height - 1] ELSE c

\* put_char of a printable character, and put_char('\n').
put_char(c) == scroll_if_below(inc_x(c))
put_newline(c) == scroll_if_below([x |-> 0, y |-> c.y + 1])

\* Mutant: the cursor stays behind the space.
erase_char_once(c) == put_char(dec_x(c))

\* What a backspace draws: back, a space over the character, back again.
erase_char(c) == dec_x(put_char(dec_x(c)))

\* console_clear
TopLeft == [x |-> 0, y |-> 0]
=============================================================================

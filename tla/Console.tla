------------------------------- MODULE Console -------------------------------
(***************************************************************************)
(* The screen of io.c: characters appear at the cursor, from left to right *)
(* and from top to bottom, and after the last row comes the first.         *)
(***************************************************************************)
EXTENDS Integers, Sequences

CONSTANTS NUM_COLUMNS, NUM_ROWS

ASSUME ScreenAssumption == NUM_COLUMNS \in Nat \ {0} /\ NUM_ROWS \in Nat \ {0}

\* Characters are their codes.
NewLine == 10

Cell == (0 .. NUM_COLUMNS - 1) \X (0 .. NUM_ROWS - 1)

\* A mistake: go to the next line one column too late.
Wraps_Late(x) == x > NUM_COLUMNS

Wraps(x) == x >= NUM_COLUMNS

NextRow(c) == [c EXCEPT !.x = 0, !.y = (@ + 1) % NUM_ROWS]

\* printc, on a console c: its cursor (x, y) and its screen.
printc(c, ch) ==
  IF ch = NewLine THEN NextRow(c)
  ELSE LET shown == [c EXCEPT !.screen = [cell \in Cell |->
                                            IF cell = <<c.x, c.y>> THEN ch ELSE @[cell]],
                              !.x = @ + 1]
       IN  IF Wraps(shown.x) THEN NextRow(shown) ELSE shown

\* printc_xy: the cursor is where it was.
printc_xy(c, mx, my, ch) ==
  [printc([c EXCEPT !.x = mx, !.y = my], ch) EXCEPT !.x = c.x, !.y = c.y]

\* sys_write_console, and printk.
print(c, text) ==
  LET shown[i \in 0 .. Len(text)] == IF i = 0 THEN c ELSE printc(shown[i - 1], text[i])
  IN  shown[Len(text)]

-----------------------------------------------------------------------------
(* The same, with the cells numbered row by row. *)

Cells == NUM_COLUMNS * NUM_ROWS

Position(c) == c.y * NUM_COLUMNS + c.x
At(c, n)    == c.screen[<<n % NUM_COLUMNS, n \div NUM_COLUMNS>>]

\* Where the cursor is after each of the first i characters of a text that starts at position n.
Positions(n, text) ==
  LET after[i \in 0 .. Len(text)] ==
        IF i = 0 THEN n
        ELSE IF text[i] = NewLine
             THEN ((after[i - 1] \div NUM_COLUMNS + 1) * NUM_COLUMNS) % Cells
             ELSE (after[i - 1] + 1) % Cells
  IN  after

\* The console d shows what c did and, over it, the text: each cell the last character that
\* was written to it.
Shows(c, text, d) ==
  LET after == Positions(Position(c), text)
      hits(n) == {i \in 1 .. Len(text) : text[i] # NewLine /\ after[i - 1] = n}
  IN  /\ Position(d) = after[Len(text)]
      /\ \A n \in 0 .. Cells - 1 :
           At(d, n) = IF hits(n) = {} THEN At(c, n)
                      ELSE text[CHOOSE i \in hits(n) : \A j \in hits(n) : j <= i]
=============================================================================

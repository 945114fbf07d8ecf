------------------------------ MODULE Console ------------------------------
(***************************************************************************)
(* The text console, src/drivers/print/print.c: a ring of the last rows,   *)
(* the position of the cursor in it, the part of it that is on the screen, *)
(* and the video memory that update_screen fills.                          *)
(*                                                                         *)
(* Cells hold characters; colours are left out.  set_print_color, which    *)
(* does not mask interrupts, is two steps: it computes where the cell      *)
(* under the cursor is on the screen, and stores it there.                 *)
(***************************************************************************)
EXTENDS Integers, Sequences, SequencesExt

CONSTANTS
  MAX_ROW, MAX_COL,    \* rows and columns of the screen, 25 and 80
  HistoryRows,         \* rows of the dynamic history, 1000
  ScrollLines          \* lines a page key scrolls, 5

ASSUME ConsoleAssumption ==
  /\ {MAX_ROW, MAX_COL, ScrollLines} \subseteq Nat \ {0}
  /\ HistoryRows \in Nat /\ HistoryRows >= MAX_ROW

Blank == " "
NL == "LF"
BS == "BS"
ESC == "ESC"
Rows == 0 .. MAX_ROW - 1
Cols == 0 .. MAX_COL - 1
BlankRow == [x \in Cols |-> Blank]
Nowhere == <<>>

VARIABLES
  max_history_rows, line_buffer, line_lengths,
  absolute_write_row, write_col, view_start_row,
  ansi_state,
  video,        \* the screen
  iflag,        \* the interrupt flag of the task that prints
  located,      \* set_print_color: the cell of the screen it is to store to
  text,         \* history: all that was printed since the screen was cleared
  highest,      \* history: the last row written since then
  stray         \* history: the cell of the screen stored to after a scroll

buffer == <<max_history_rows, line_buffer, line_lengths>>
position == <<absolute_write_row, write_col>>
consoleVars == <<max_history_rows, line_buffer, line_lengths, absolute_write_row,
                 write_col, view_start_row, ansi_state, video, iflag, located,
                 text, highest, stray>>

\* The boot buffer has as many rows as the screen.
ConsoleInit ==
  /\ max_history_rows = MAX_ROW
  /\ line_buffer = [i \in 0 .. MAX_ROW - 1 |-> BlankRow]
  /\ line_lengths = [i \in 0 .. MAX_ROW - 1 |-> 0]
  /\ absolute_write_row = 0 /\ write_col = 0 /\ view_start_row = 0
  /\ ansi_state = 0
  /\ video = [y \in Rows |-> BlankRow]
  /\ iflag = TRUE
  /\ located = Nowhere
  /\ text = <<>> /\ highest = 0 /\ stray = Nowhere

-----------------------------------------------------------------------------
(* update_screen *)

Slot(r) == r % max_history_rows

\* The oldest row that a ring of n rows still holds when row is written.
oldest_row(row, n) == IF row >= n THEN row - n + 1 ELSE 0

\* The screen from row view on; blank beyond either end of the history.
Drawn(n, lines, row, view) ==
  [y \in Rows |-> IF view + y \in oldest_row(row, n) .. row
                  THEN lines[(view + y) % n]
                  ELSE BlankRow]

update_screen ==
  /\ video' = Drawn(max_history_rows', line_buffer', absolute_write_row',
                    view_start_row')
  /\ stray' = Nowhere

-----------------------------------------------------------------------------
(* print_char.  It runs with interrupts masked, hence in one step. *)

NextRowForgetful(lines, length) ==
  LET next == absolute_write_row + 1
  IN  /\ line_buffer' = [lines EXCEPT ![Slot(next)] = BlankRow]
      /\ absolute_write_row' = next /\ write_col' = 0
      /\ highest' = IF next > highest THEN next ELSE highest
      /\ UNCHANGED line_lengths

\* The cursor moves to the next row, which is wiped; the row it leaves is
\* length characters long.
NextRow(lines, length) ==
  LET next == absolute_write_row + 1
  IN  /\ line_lengths' = [line_lengths EXCEPT ![Slot(absolute_write_row)] = length]
      /\ line_buffer' = [lines EXCEPT ![Slot(next)] = BlankRow]
      /\ absolute_write_row' = next /\ write_col' = 0
      /\ highest' = IF next > highest THEN next ELSE highest

newline ==
  /\ NextRow(line_buffer, write_col)
  /\ text' = Append(text, NL)

\* The cell before the cursor, which for the first cell of a row is the end
\* of the row above; nothing before the first row.
CellBefore ==
  LET up == line_lengths[Slot(absolute_write_row - 1)]
  IN  CASE write_col > 0 -> <<absolute_write_row, write_col - 1>>
        [] write_col = 0 /\ absolute_write_row > 0 ->
             <<absolute_write_row - 1, IF up >= MAX_COL THEN MAX_COL - 1 ELSE up>>
        [] OTHER -> Nowhere

backspace ==
  /\ IF CellBefore = Nowhere
     THEN UNCHANGED <<line_buffer, absolute_write_row, write_col, text>>
     ELSE /\ absolute_write_row' = CellBefore[1] /\ write_col' = CellBefore[2]
          /\ line_buffer' = [line_buffer EXCEPT
                               ![Slot(CellBefore[1])][CellBefore[2]] = Blank]
          /\ text' = Front(text)
  /\ UNCHANGED <<line_lengths, highest>>

glyph(c) ==
  LET lines == [line_buffer EXCEPT ![Slot(absolute_write_row)][write_col] = c]
  IN  /\ IF write_col + 1 >= MAX_COL
         THEN NextRow(lines, MAX_COL)
         ELSE /\ line_buffer' = lines /\ write_col' = write_col + 1
              /\ UNCHANGED <<line_lengths, absolute_write_row, highest>>
      /\ text' = Append(text, c)

\* The view follows the row that is written.
AutoScroll ==
  view_start_row' = IF absolute_write_row' >= view_start_row + MAX_ROW
                    THEN absolute_write_row' - MAX_ROW + 1
                    ELSE view_start_row

\* Characters that belong to an escape sequence: ESC, [, digits and m.  The
\* first two return before irq_restore.
InSequence(c) ==
  \/ ansi_state = 0 /\ c = ESC
  \/ ansi_state = 1 /\ c = "["
  \/ ansi_state = 2 /\ c \in {"0", "m"}

ansi_sequence(c) ==
  /\ InSequence(c)
  /\ ansi_state' = CASE c = ESC -> 1 [] c = "[" -> 2 [] c = "0" -> 2 [] c = "m" -> 0
  /\ iflag' = IF ansi_state \in {0, 1} THEN FALSE ELSE iflag
  /\ UNCHANGED <<buffer, position, view_start_row, video, text, highest, stray>>

ansi_normal(c) ==
  /\ ~InSequence(c)
  /\ ansi_state' = 0
  /\ UNCHANGED <<max_history_rows, iflag>>
  /\ CASE c = NL -> newline [] c = BS -> backspace [] OTHER -> glyph(c)
  /\ AutoScroll
  /\ update_screen

print_char(c) == (ansi_sequence(c) \/ ansi_normal(c)) /\ UNCHANGED located

-----------------------------------------------------------------------------
(* The rest of the interface *)

ClearWith(rows) ==
  /\ max_history_rows' = rows
  /\ line_buffer' = [i \in 0 .. rows - 1 |-> BlankRow]
  /\ line_lengths' = [i \in 0 .. rows - 1 |-> 0]
  /\ absolute_write_row' = 0 /\ write_col' = 0 /\ view_start_row' = 0
  /\ text' = <<>> /\ highest' = 0
  /\ update_screen
  /\ UNCHANGED <<ansi_state, iflag, located>>

screen_clear == ClearWith(max_history_rows)

\* When one of the two allocations fails nothing changes.
enable_dynamic_history(total_rows) ==
  ClearWith(total_rows) \/ UNCHANGED consoleVars

\* Page Up and Page Down, called by the keyboard interrupt.
ScrollTo(row) ==
  /\ view_start_row' = row
  /\ UNCHANGED <<buffer, position, ansi_state, iflag, located, text, highest>>
  /\ update_screen

scroll_history_up(lines) ==
  LET up == IF view_start_row >= lines THEN view_start_row - lines ELSE 0
      oldest == oldest_row(absolute_write_row, max_history_rows)
  IN  ScrollTo(IF up < oldest THEN oldest ELSE up)

scroll_history_down(lines) ==
  LET max_view_start == IF absolute_write_row >= MAX_ROW - 1
                        THEN absolute_write_row - MAX_ROW + 1 ELSE 0
      down == view_start_row + lines
  IN  ScrollTo(IF down > max_view_start THEN max_view_start ELSE down)

\* screen_y is computed from the view ...
set_print_color_locate ==
  /\ located = Nowhere
  /\ located' = <<absolute_write_row - view_start_row, write_col>>
  /\ UNCHANGED <<buffer, position, view_start_row, ansi_state, video, iflag,
                 text, highest, stray>>

\* ... and the cell goes to video memory, if that is on the screen.
set_print_color_store ==
  LET y == located[1]
      x == located[2]
  IN  /\ located # Nowhere
      /\ IF y \in Rows
         THEN /\ video' = [video EXCEPT ![y][x] =
                             line_buffer[Slot(absolute_write_row)][write_col]]
              /\ stray' = IF y = absolute_write_row - view_start_row
                          THEN stray ELSE located
         ELSE UNCHANGED <<video, stray>>
      /\ located' = Nowhere
      /\ UNCHANGED <<buffer, position, view_start_row, ansi_state, iflag, text,
                     highest>>

-----------------------------------------------------------------------------
(* What the console should show: a backspace takes back the last character *)
(* printed, a newline included, and the screen shows the rows that the     *)
(* text fills when it is broken at newlines and at the last column.        *)

\* The rows of a text; the last one, not yet full, holds the cursor.
Layout(t) ==
  FoldLeft(LAMBDA rows, c :
             LET row == Append(Last(rows), c)
             IN  CASE c = NL -> Append(rows, <<>>)
                   [] c # NL /\ Len(row) = MAX_COL -> Front(rows) \o <<row, <<>>>>
                   [] OTHER -> Front(rows) \o <<row>>,
           <<(<<>>)>>, t)

Padded(row) == [x \in Cols |-> IF x < Len(row) THEN row[x + 1] ELSE Blank]

\* Rows the ring was long enough to keep.
Kept == {r \in 0 .. absolute_write_row : r > highest - max_history_rows}

Shown(y) ==
  LET r == view_start_row + y
  IN  IF r \in Kept THEN Padded(Layout(text)[r + 1]) ELSE BlankRow
=============================================================================

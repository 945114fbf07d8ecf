------------------------------- MODULE Shell -------------------------------
(***************************************************************************)
(* The command shell, src/shell/shell.c, on the console of module Console: *)
(* the line editor with its history, the tokenizer and the commands that   *)
(* act on the console.  Keys come from the keyboard queue one at a time    *)
(* (module Keyboard); the page keys scroll the console from the keyboard   *)
(* interrupt, between any two characters that the shell prints.            *)
(*                                                                         *)
(* Handling a key changes the shell's variables and leaves in `out' what   *)
(* the code prints meanwhile; nobody else reads those variables, so their  *)
(* change may come first.  A command's messages are one line, Message.     *)
(***************************************************************************)
EXTENDS Console

CONSTANTS
  Glyphs,                                \* the printable keys
  EchoName, ClearName,                   \* names of commands
  Prompt, Message,                       \* what the shell prints
  Files,                                 \* what cat may find in a file
  MAX_HISTORY, MAX_LINE_LENGTH, MAX_ARGS,    \* 256, 256 and 32
  MaxEntered,    \* bound: lines entered
  MaxRow,        \* bound: rows after which no key is read
  MaxWordsLine   \* bound: characters of a line to tokenize

ASSUME ShellAssumption ==
  /\ {MAX_HISTORY, MAX_LINE_LENGTH, MAX_ARGS} \subseteq Nat \ {0}
  /\ MAX_ARGS > 1
  /\ {MaxEntered, MaxRow, MaxWordsLine} \subseteq Nat

UP == "up"
DOWN == "down"
ETX == "ctrl-c"
Keys == Glyphs \cup {NL, BS, ESC, UP, DOWN, ETX}
AfterEsc == {"[", "0", "m"}   \* bound: the keys typed after Esc

\* Calls other than print_char in `out'.
COLOR == "set_print_color"
CLEAR == "screen_clear"
STI == "sti"
HALT == "halt"

VARIABLES
  running,             \* shell_run has been called
  halted,              \* shell_exit
  history,             \* newest first; its length is history_count
  history_pos,
  live_line_backup,
  key_buffer,          \* its length is buffer_idx
  out,                 \* what is still to be printed
  entered,             \* history: the lines entered
  escaped              \* history: Esc was typed and echoed

shellVars == <<running, halted, history, history_pos, live_line_backup,
               key_buffer, out, entered, escaped>>
vars == <<consoleVars, shellVars>>

Init ==
  /\ ConsoleInit
  /\ running = FALSE /\ halted = FALSE
  /\ history = <<>> /\ history_pos = -1
  /\ live_line_backup = <<>> /\ key_buffer = <<>>
  /\ out = <<>>
  /\ entered = <<>> /\ escaped = FALSE

FirstOf(s, n) == SubSeq(s, 1, IF Len(s) < n THEN Len(s) ELSE n)

PrintPrompt == <<COLOR>> \o Prompt \o <<COLOR>>

\* KernelMain enlarges the history; shell_run prints the first prompt.
shell_run ==
  /\ ~running
  /\ running' = TRUE
  /\ enable_dynamic_history(HistoryRows)
  /\ out' = PrintPrompt
  /\ UNCHANGED <<halted, history, history_pos, live_line_backup, key_buffer,
                 entered, escaped>>

-----------------------------------------------------------------------------
(* execute_command *)

IsBlank(c) == c = Blank

TokenizeOneMore(command) ==
  FoldLeft(LAMBDA s, i :
             CASE s.overflow -> s
               [] ~s.overflow /\ IsBlank(command[i]) -> [s EXCEPT !.in_word = FALSE]
               [] ~s.overflow /\ ~IsBlank(command[i]) /\ s.in_word -> s
               [] OTHER -> IF Len(s.argv) >= MAX_ARGS
                           THEN [s EXCEPT !.overflow = TRUE]
                           ELSE [s EXCEPT !.in_word = TRUE,
                                          !.argv = Append(@, i)],
           [in_word |-> FALSE, overflow |-> FALSE, argv |-> <<>>],
           [i \in 1 .. Len(command) |-> i])

\* The loop: in_word, and the positions argv points to; more words than
\* argv holds end it.
Tokenize(command) ==
  FoldLeft(LAMBDA s, i :
             CASE s.overflow -> s
               [] ~s.overflow /\ IsBlank(command[i]) -> [s EXCEPT !.in_word = FALSE]
               [] ~s.overflow /\ ~IsBlank(command[i]) /\ s.in_word -> s
               [] OTHER -> IF Len(s.argv) >= MAX_ARGS - 1
                           THEN [s EXCEPT !.overflow = TRUE]
                           ELSE [s EXCEPT !.in_word = TRUE,
                                          !.argv = Append(@, i)],
           [in_word |-> FALSE, overflow |-> FALSE, argv |-> <<>>],
           [i \in 1 .. Len(command) |-> i])

\* The string that begins at position i: blanks have become its end.
StringAt(command, i) ==
  LET ends == {j \in i .. Len(command) : IsBlank(command[j])} \cup {Len(command) + 1}
  IN  SubSeq(command, i, Min(ends) - 1)

Arguments(command) ==
  LET argv == Tokenize(command).argv
  IN  [n \in DOMAIN argv |-> StringAt(command, argv[n])]

\* The words with a blank between any two.
Joined(words) ==
  FlattenSeq([n \in DOMAIN words |->
                IF n < Len(words) THEN Append(words[n], Blank) ELSE words[n]])

\* The bytes of the file, as they are; an escape sequence among them acts as
\* one that is typed.
cat == {content \o <<NL>> : content \in Files}

\* The tests turn interrupts on.
test == <<STI>> \o Message

exit == Message \o <<HALT>>

\* What a command may print.  Of the other commands only what they print
\* matters here, a message or nothing.
execute_command(command) ==
  LET argv == Arguments(command)
      first == IF argv = <<>> THEN <<>> ELSE argv[1]
  IN  CASE Tokenize(command).overflow -> {Message}
        [] ~Tokenize(command).overflow /\ first = <<>> -> {<<>>}
        [] ~Tokenize(command).overflow /\ first = EchoName ->
             {Joined(Tail(argv)) \o <<NL>>}
        [] ~Tokenize(command).overflow /\ first = ClearName -> {<<CLEAR>>}
        [] OTHER -> cat \cup {test, exit, Message, <<>>}

-----------------------------------------------------------------------------
(* shell_keyboard.  Every call is followed by set_print_color. *)

\* Nothing is left to print and the shell calls kbd_getchar.
Ready == running /\ ~halted /\ out = <<>> /\ located = Nowhere

\* No key: task_yield.
no_key ==
  /\ Ready
  /\ out' = <<COLOR>>
  /\ UNCHANGED <<consoleVars, running, halted, history, history_pos,
                 live_line_backup, key_buffer, entered, escaped>>

Key(k) ==
  /\ Ready
  /\ absolute_write_row < MaxRow
  /\ IF escaped THEN k \in AfterEsc ELSE k \in Keys
  /\ escaped' = (escaped \/ (k = ESC /\ Len(key_buffer) < MAX_LINE_LENGTH - 1))
  /\ UNCHANGED <<consoleVars, running, halted>>

\* Back to an empty live line.
ResetLine ==
  /\ key_buffer' = <<>> /\ live_line_backup' = <<>> /\ history_pos' = -1

key_ctrl_c ==
  /\ Key(ETX)
  /\ ResetLine
  /\ out' = <<"^", "C", NL>> \o PrintPrompt \o <<COLOR>>
  /\ UNCHANGED <<history, entered>>

Erase == <<BS, Blank, BS>>

replace_line_short(new_line) ==
  LET line == FirstOf(new_line, MAX_LINE_LENGTH - 1)
  IN  /\ out' = (IF key_buffer = <<>> THEN <<>>
                 ELSE FlattenSeq([i \in DOMAIN Tail(key_buffer) |-> Erase]))
                \o line \o <<COLOR>>
      /\ key_buffer' = line

\* Takes every character of the line back, then prints the new line.
shell_replace_line(new_line) ==
  LET line == FirstOf(new_line, MAX_LINE_LENGTH - 1)
  IN  /\ out' = FlattenSeq([i \in DOMAIN key_buffer |-> Erase]) \o line \o <<COLOR>>
      /\ key_buffer' = line

key_up ==
  LET next == IF history_pos < 0 THEN 0 ELSE history_pos + 1
  IN  /\ Key(UP)
      /\ IF next < Len(history)
         THEN /\ live_line_backup' = IF history_pos < 0 THEN key_buffer
                                     ELSE live_line_backup
              /\ history_pos' = next
              /\ shell_replace_line(history[next + 1])
         ELSE /\ out' = <<COLOR>>
              /\ UNCHANGED <<history_pos, live_line_backup, key_buffer>>
      /\ UNCHANGED <<history, entered>>

key_down ==
  /\ Key(DOWN)
  /\ IF history_pos < 0
     THEN out' = <<COLOR>> /\ UNCHANGED <<history_pos, key_buffer>>
     ELSE /\ history_pos' = history_pos - 1
          /\ shell_replace_line(IF history_pos > 0 THEN history[history_pos]
                                ELSE live_line_backup)
  /\ UNCHANGED <<history, live_line_backup, entered>>

history_save_all(cmd) ==
  history' = IF cmd = <<>> THEN history ELSE FirstOf(<<cmd>> \o history, MAX_HISTORY)

history_save(cmd) ==
  history' = IF cmd = <<>> \/ (history # <<>> /\ history[1] = cmd)
             THEN history
             ELSE FirstOf(<<cmd>> \o history, MAX_HISTORY)

key_enter ==
  /\ Len(entered) < MaxEntered
  /\ Key(NL)
  /\ history_save(key_buffer)
  /\ ResetLine
  /\ \E printed \in execute_command(key_buffer) :
       out' = <<NL>> \o printed \o PrintPrompt \o <<COLOR>>
  /\ entered' = Append(entered, key_buffer)

key_backspace ==
  /\ Key(BS)
  /\ IF key_buffer # <<>>
     THEN key_buffer' = Front(key_buffer) /\ out' = Erase \o <<COLOR>>
     ELSE out' = <<COLOR>> /\ UNCHANGED key_buffer
  /\ UNCHANGED <<history, history_pos, live_line_backup, entered>>

\* Any other key, Esc included, goes into the line unless it is full.
key_char(k) ==
  /\ Key(k)
  /\ IF Len(key_buffer) < MAX_LINE_LENGTH - 1
     THEN key_buffer' = Append(key_buffer, k) /\ out' = <<k, COLOR>>
     ELSE out' = <<COLOR>> /\ UNCHANGED key_buffer
  /\ UNCHANGED <<history, history_pos, live_line_backup, entered>>

shell_keyboard ==
  \/ no_key
  \/ key_ctrl_c \/ key_up \/ key_down \/ key_enter \/ key_backspace
  \/ \E k \in Glyphs \cup {ESC} \cup AfterEsc : key_char(k)

-----------------------------------------------------------------------------
(* The output, call by call, and the keyboard interrupt *)

Rest == out' = Tail(out)

Output ==
  /\ out # <<>>
  /\ UNCHANGED <<running, history, history_pos, live_line_backup, key_buffer,
                 entered, escaped>>
  /\ CASE Head(out) = COLOR /\ located = Nowhere ->
            set_print_color_locate /\ UNCHANGED <<out, halted>>
       [] Head(out) = COLOR /\ located # Nowhere ->
            set_print_color_store /\ Rest /\ UNCHANGED halted
       [] Head(out) = CLEAR -> screen_clear /\ Rest /\ UNCHANGED halted
       [] Head(out) = STI ->
            /\ iflag' = TRUE /\ Rest
            /\ UNCHANGED <<buffer, position, view_start_row, ansi_state, video,
                           located, text, highest, stray, halted>>
       [] Head(out) = HALT ->
            halted' = TRUE /\ out' = <<>> /\ UNCHANGED consoleVars
       [] OTHER -> print_char(Head(out)) /\ Rest /\ UNCHANGED halted

\* Page Up and Page Down come while interrupts are on, or when the shell has
\* yielded to a task that has them on.
page_key ==
  /\ iflag \/ Ready
  /\ ~halted
  /\ scroll_history_up(ScrollLines) \/ scroll_history_down(ScrollLines)
  /\ UNCHANGED shellVars

Next == shell_run \/ shell_keyboard \/ Output \/ page_key

Spec == Init /\ [][Next]_vars
-----------------------------------------------------------------------------
(* Properties *)

\* The screen shows the text printed so far, from the row it is scrolled to
\* on, wherever lines wrap, are erased across rows, or leave the ring: every
\* cell, except one that set_print_color stored after a page key had moved
\* the view, until the screen is drawn again.
ScreenShowsText ==
  \A y \in Rows, x \in Cols :
    <<y, x>> # stray => video[y][x] = Shown(y)[x]

\* When the shell waits for a key, the text on the console ends with the
\* prompt and the line being edited: no key, history entry or erased row
\* leaves a character behind or takes one of the prompt.
ShowsLine ==
  Ready /\ ~escaped => IsSuffix(Prompt \o key_buffer, text)

\* The lines of a sequence that are not empty and differ from the one before.
WithoutRepeats(lines) ==
  LET nonempty == SelectSeq(lines, LAMBDA l : l # <<>>)
      new == {n \in DOMAIN nonempty : n = 1 \/ nonempty[n] # nonempty[n - 1]}
  IN  [n \in 1 .. Cardinality(new) |-> nonempty[SetToSortSeq(new, <)[n]]]

\* The history is the log of what was entered, newest first, without empty
\* lines and repetitions, as much of it as there is room for; browsing and
\* editing an entry never changes it.
HistoryIsLog ==
  history = FirstOf(Reverse(WithoutRepeats(entered)), MAX_HISTORY)

\* The reference for the tokenizer: maximal runs without blanks.
Words(line) ==
  LET gap(i) == i \in {0, Len(line) + 1} \/ IsBlank(line[i])
      starts == SetToSortSeq({i \in DOMAIN line : gap(i - 1) /\ ~gap(i)}, <)
      end(i) == CHOOSE j \in i .. Len(line) :
                  gap(j + 1) /\ \A k \in i .. j : ~gap(k)
  IN  [n \in DOMAIN starts |-> SubSeq(line, starts[n], end(starts[n]))]

\* The tokenizer splits every line into its words, and refuses exactly those
\* lines that have more than argv has room for, its final NULL included.  It
\* depends on the line alone, so it is enough to look before the shell runs.
SplitsWords ==
  ~running => \A line \in SeqOf(Glyphs, MaxWordsLine) :
    IF Len(Words(line)) <= MAX_ARGS - 1
    THEN ~Tokenize(line).overflow /\ Arguments(line) = Words(line)
    ELSE Tokenize(line).overflow
=============================================================================

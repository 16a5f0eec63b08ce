------------------------------ MODULE Console ------------------------------
(***************************************************************************)
(* kernel/console.c: the ring of log lines, wrapping, the viewport, and    *)
(* the drawing of the screen, with the page keys that scroll it from the   *)
(* keyboard interrupt.                                                     *)
(*                                                                         *)
(* console_putc is cut where an interrupt can make a difference: after     *)
(* log_newline has reset the viewport, after render_output has computed    *)
(* its first line, around the frame, between the rows it draws, and        *)
(* between the choice of the cursor's place and its move.  A key inside    *)
(* draw_frame ends as one right after it, one between the two reads of the *)
(* viewport for start_line as one before or after both, and the pieces of  *)
(* two lines that one inside a row leaves there count as torn.  The        *)
(* interrupt draws the screen to its end.  It never changes the log, so    *)
(* the other steps of the log are atomic; clearing and switching the mode  *)
(* overwrite whatever an interrupt between their assignments did.  A       *)
(* character is the number of the call that printed it, 0 the backslash of *)
(* a wrapped line.  Of the frame, with its colours and counters, only the  *)
(* READ indicator is kept, which names the viewport offset (and is shown   *)
(* in the dashboard only).                                                 *)
(***************************************************************************)
EXTENDS Integers, Sequences

CONSTANTS
  LogLines,                  \* LOG_LINES
  LineMax,                   \* LOG_LINE_MAX
  GuiWidth, GuiHeight,       \* the text window of the dashboard
  ScreenWidth, ScreenHeight, \* SCREEN_W, SCREEN_H
  Page,                      \* lines that a page key scrolls
  MaxPuts,                   \* bound on the characters printed
  MaxResets                  \* bound on console_clear and console_set_gui

ASSUME ConsoleAssumption ==
  /\ {LogLines, GuiHeight, ScreenHeight, Page} \subseteq Nat \ {0}
  /\ Page <= GuiHeight /\ Page <= ScreenHeight
  /\ {GuiWidth, ScreenWidth} \subseteq Nat /\ GuiWidth > 3 /\ ScreenWidth > 3
  /\ LineMax \in Nat /\ GuiWidth < LineMax /\ ScreenWidth < LineMax
  /\ MaxPuts \in Nat /\ MaxResets \in Nat

VARIABLES
  log_lines,         \* the lines of the ring, a line with its length
  log_start, log_count,
  viewport_offset,
  gui_mode,
  screen,            \* rows and cursor as drawn; read: the offset the frame shows
  pc, loc,           \* where console_putc stands; its local variables
  puts, resets,      \* what the bounds count
  torn               \* history: a page key came into the middle of a drawing

logVars == <<log_lines, log_start, log_count>>
vars == <<logVars, viewport_offset, gui_mode, screen, pc, loc, puts, resets, torn>>

Backslash == 0
NoChar == -1
\* Where the halves of two cursor positions make one that is neither.
Astray == <<-1, -1>>
\* put: the character still to store; start, view: start_line and the next
\* row; at: where the cursor may be left, one place unless a key interferes.
NoLocals == [put |-> NoChar, start |-> 0, view |-> 0, at |-> {}]

visible_width == IF gui_mode THEN GuiWidth ELSE ScreenWidth
visible_height == IF gui_mode THEN GuiHeight ELSE ScreenHeight
current_log_index == (log_start + log_count - 1) % LogLines
CurrentLine == log_lines[current_log_index]

\* Mutant: one line too few can be scrolled back.
max_viewport_offset_short ==
  IF log_count > visible_height + 1 THEN log_count - visible_height - 1 ELSE 0

max_viewport_offset == IF log_count > visible_height THEN log_count - visible_height ELSE 0

\* The i-th oldest line of the log.
LogLine(i) == log_lines[(log_start + i) % LogLines]

-----------------------------------------------------------------------------
(* render_output as a function of what it reads.                            *)

StartLine(offset) ==
  IF log_count > visible_height + offset THEN log_count - visible_height - offset ELSE 0

\* A line as far as the window is wide.
Clip(line) == IF Len(line) <= visible_width THEN line ELSE SubSeq(line, 1, visible_width)

\* Mutant: the start of the ring is forgotten.
RowTextUnrotated(start, view) ==
  IF start + view < log_count THEN Clip(log_lines[start + view]) ELSE <<>>

RowText(start, view) == IF start + view < log_count THEN Clip(LogLine(start + view)) ELSE <<>>

BlankRows == [v \in 0 .. visible_height - 1 |-> <<>>]

Cursor(offset) ==
  IF offset = 0
  THEN <<(IF log_count < visible_height THEN log_count ELSE visible_height) - 1,
         IF Len(CurrentLine) < visible_width THEN Len(CurrentLine) ELSE visible_width - 1>>
  ELSE <<visible_height - 1, 0>>

Rendering(offset) ==
  [rows |-> [v \in 0 .. visible_height - 1 |-> RowText(StartLine(offset), v)],
   cursor |-> Cursor(offset), read |-> offset]

-----------------------------------------------------------------------------
(* console_putc.                                                            *)

SetLine(line) == log_lines' = [log_lines EXCEPT ![current_log_index] = line]

\* The mark of a wrapped line takes the place of its last character.
Marked(line) == [line EXCEPT ![visible_width - 1] = Backslash]

\* log_newline begins by going back to the end.
LeaveLine(c) ==
  /\ viewport_offset' = 0
  /\ pc' = "grow"
  /\ loc' = [NoLocals EXCEPT !.put = c]

StartRender ==
  /\ pc' = "start"
  /\ loc' = NoLocals
  /\ UNCHANGED viewport_offset

CanPut == pc = "idle" /\ puts < MaxPuts
Counted == puts' = puts + 1 /\ UNCHANGED <<log_start, log_count, gui_mode, screen, resets, torn>>

PutNewline ==
  /\ CanPut
  /\ LeaveLine(NoChar)
  /\ UNCHANGED log_lines
  /\ Counted

PutReturn ==
  /\ CanPut
  /\ SetLine(<<>>)
  /\ StartRender
  /\ Counted

PutBackspace ==
  /\ CanPut
  /\ SetLine(IF CurrentLine = <<>> THEN <<>> ELSE SubSeq(CurrentLine, 1, Len(CurrentLine) - 1))
  /\ StartRender
  /\ Counted

\* log_put_char.  A line as long as the window, left from the wider mode, is
\* not marked.
PutChar ==
  /\ CanPut
  /\ \/ /\ Len(CurrentLine) >= visible_width
        /\ LeaveLine(puts + 1)
        /\ UNCHANGED log_lines
     \/ /\ Len(CurrentLine) = visible_width - 1
        /\ SetLine(Marked(CurrentLine))
        /\ LeaveLine(puts + 1)
     \/ /\ Len(CurrentLine) < visible_width - 1
        /\ SetLine(IF Len(CurrentLine) + 1 < LineMax THEN Append(CurrentLine, puts + 1)
                   ELSE CurrentLine)
        /\ StartRender
  /\ Counted

\* Mutant: the ring is taken for full one line too early.
NewStartEarly == IF log_count + 1 < LogLines THEN log_start ELSE (log_start + 1) % LogLines

\* Where the log starts once a line is added: a full ring loses its oldest.
NewStart == IF log_count < LogLines THEN log_start ELSE (log_start + 1) % LogLines

\* The rest of log_newline, and the character that did not fit before.
Grow ==
  /\ pc = "grow"
  /\ log_start' = NewStart
  /\ log_count' = IF log_count < LogLines THEN log_count + 1 ELSE log_count
  /\ log_lines' = [log_lines EXCEPT ![(log_start' + log_count' - 1) % LogLines] =
                     IF loc.put = NoChar THEN <<>> ELSE <<loc.put>>]
  /\ pc' = "start"
  /\ loc' = NoLocals
  /\ UNCHANGED <<viewport_offset, gui_mode, screen, puts, resets, torn>>

-----------------------------------------------------------------------------
(* render_output in a task.                                                 *)

\* start_line is computed.
RenderStart ==
  /\ pc = "start"
  /\ loc' = [NoLocals EXCEPT !.start = StartLine(viewport_offset)]
  /\ torn' = FALSE
  /\ pc' = "frame"
  /\ UNCHANGED <<logVars, viewport_offset, gui_mode, screen, puts, resets>>

\* draw_frame blanks the screen and writes the indicator.
DrawFrame ==
  /\ pc = "frame"
  /\ screen' = [screen EXCEPT !.rows = BlankRows, !.read = viewport_offset]
  /\ pc' = "rows"
  /\ UNCHANGED <<logVars, viewport_offset, gui_mode, loc, puts, resets, torn>>

RenderRow ==
  /\ pc = "rows" /\ loc.view < visible_height
  /\ screen' = [screen EXCEPT !.rows[loc.view] = RowText(loc.start, loc.view)]
  /\ loc' = [loc EXCEPT !.view = @ + 1]
  /\ UNCHANGED <<logVars, viewport_offset, gui_mode, pc, puts, resets, torn>>

\* The test of viewport_offset that decides on row and column.
RenderCursor ==
  /\ pc = "rows" /\ loc.view = visible_height
  /\ loc' = [loc EXCEPT !.at = {Cursor(viewport_offset)}]
  /\ pc' = "cursor"
  /\ UNCHANGED <<logVars, viewport_offset, gui_mode, screen, puts, resets, torn>>

move_cursor ==
  /\ pc = "cursor"
  /\ \E place \in loc.at : screen' = [screen EXCEPT !.cursor = place]
  /\ pc' = "idle"
  /\ loc' = NoLocals
  /\ UNCHANGED <<logVars, viewport_offset, gui_mode, puts, resets, torn>>

-----------------------------------------------------------------------------
CanReset == pc = "idle" /\ resets < MaxResets

console_clear ==
  /\ CanReset
  /\ log_lines' = [i \in 0 .. LogLines - 1 |-> <<>>]
  /\ log_start' = 0 /\ log_count' = 1
  /\ viewport_offset' = 0
  /\ pc' = "start"
  /\ resets' = resets + 1
  /\ UNCHANGED <<gui_mode, screen, loc, puts, torn>>

console_set_gui(enabled) ==
  /\ CanReset
  /\ gui_mode' = enabled
  /\ viewport_offset' = 0
  /\ pc' = "start"
  /\ resets' = resets + 1
  /\ UNCHANGED <<logVars, screen, loc, puts, torn>>

\* Where a page key leads: console_scroll, console_scroll_top and _bottom.
ScrollTo(key) ==
  CASE key = "pageup"   -> IF viewport_offset + Page > max_viewport_offset
                           THEN max_viewport_offset ELSE viewport_offset + Page
    [] key = "pagedown" -> IF Page > viewport_offset THEN 0 ELSE viewport_offset - Page
    [] key = "home"     -> max_viewport_offset
    [] key = "end"      -> 0

\* A drawing is under way that does not go by the viewport's new offset.
Drawing == pc \in {"frame", "cursor"} \/ (pc = "rows" /\ loc.view < visible_height)

\* The keyboard interrupt draws the whole screen.  Between the test and the
\* end of move_cursor it leaves the task's place, its own (row and col are
\* shared), or the high half of the one with the low half of the other.
PageKey(key) ==
  /\ viewport_offset' = ScrollTo(key)
  /\ screen' = Rendering(ScrollTo(key))
  /\ torn' = (torn \/ Drawing)
  /\ loc' = IF pc = "cursor"
            THEN [loc EXCEPT !.at = @ \cup {Cursor(ScrollTo(key)), Astray}] ELSE loc
  /\ UNCHANGED <<logVars, gui_mode, pc, puts, resets>>

\* console_init and the first console_clear of kernel_main.
Init ==
  /\ log_lines = [i \in 0 .. LogLines - 1 |-> <<>>]
  /\ log_start = 0 /\ log_count = 1
  /\ viewport_offset = 0
  /\ gui_mode = TRUE
  /\ screen = Rendering(0)
  /\ pc = "idle"
  /\ loc = NoLocals
  /\ puts = 0 /\ resets = 0
  /\ torn = FALSE

console_putc == PutNewline \/ PutReturn \/ PutBackspace \/ PutChar
Render == RenderStart \/ DrawFrame \/ RenderRow \/ RenderCursor \/ move_cursor
Interrupt == \E key \in {"pageup", "pagedown", "home", "end"} : PageKey(key)

Next ==
  \/ console_putc \/ Grow \/ Render \/ console_clear \/ Interrupt
  \/ \E enabled \in BOOLEAN : console_set_gui(enabled)

Spec == Init /\ [][Next]_vars
-----------------------------------------------------------------------------
(* Properties.                                                              *)

Char == Backslash .. MaxPuts

\* Types; in particular the viewport never goes beyond the oldest line.
TypeOK ==
  /\ log_lines \in [0 .. LogLines - 1 -> Seq(Char)]
  /\ \A i \in 0 .. LogLines - 1 : Len(log_lines[i]) < LineMax
  /\ log_start \in 0 .. LogLines - 1 /\ log_count \in 1 .. LogLines
  /\ viewport_offset \in 0 .. max_viewport_offset
  /\ gui_mode \in BOOLEAN /\ torn \in BOOLEAN
  /\ pc \in {"idle", "grow", "start", "frame", "rows", "cursor"}
  /\ loc \in [put : Char \cup {NoChar}, start : 0 .. LogLines, view : 0 .. visible_height,
              at : SUBSET (Int \X Int)]
  /\ puts \in 0 .. MaxPuts /\ resets \in 0 .. MaxResets

Log == [i \in 1 .. log_count |-> LogLine(i - 1)]

History ==
  INSTANCE Scrollback WITH
    MaxLines <- LogLines, offset <- viewport_offset,
    lines <- Log

\* The ring of lines implements a scrollback history: finished lines stay as
\* they are, the newest LOG_LINES of them are kept in order, and scrolling,
\* wrapping and page keys between any two steps do not disturb them.
KeepsHistory == History!Spec

\* At the end of the log the cursor stands in the row of the current line, the
\* last one in use, where its next character will appear (in the last column
\* of a line as long as the window); above the end it stands in the corner.
CursorFollows ==
  pc = "idle" /\ ~torn =>
    LET n == IF log_count < visible_height THEN log_count ELSE visible_height
        k == Len(CurrentLine)
    IN IF viewport_offset = 0
       THEN /\ screen.cursor = <<n - 1, IF k < visible_width THEN k ELSE visible_width - 1>>
            /\ screen.rows[n - 1] = Clip(CurrentLine)
       ELSE screen.cursor = <<visible_height - 1, 0>>

\* Once output has come to rest the screen shows consecutive lines of the log,
\* the last of them as far above its end as the viewport says, and the scroll
\* indicator and the cursor agree with it.  Only a page key in the middle of a
\* drawing, from its start line to its last row or between the choice of the
\* cursor's place and its move, leaves them mixed, and the next output repairs
\* that.
ScreenFaithful ==
  /\ TypeOK /\ CursorFollows
  /\ pc = "idle" /\ ~torn =>
       LET n == IF log_count < visible_height THEN log_count ELSE visible_height
           shown == SubSeq(Log, log_count - viewport_offset - n + 1, log_count - viewport_offset)
       IN /\ screen.read = viewport_offset
          /\ \A v \in 0 .. visible_height - 1 :
               screen.rows[v] = IF v < n THEN Clip(shown[v + 1]) ELSE <<>>

\* PageUp reaches every line that is kept: pressed often enough from the end
\* of the log, it brings each one into the window.
AllReachable ==
  \A i \in 0 .. log_count - 1 : \E presses \in 0 .. LogLines :
    LET up == presses * Page
        offset == IF up > max_viewport_offset THEN max_viewport_offset ELSE up
    IN StartLine(offset) <= i /\ i < StartLine(offset) + visible_height
=============================================================================

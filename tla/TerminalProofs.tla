--------------------------- MODULE TerminalProofs ---------------------------
(***************************************************************************)
(* Proofs about the two halves of the user's terminal.                     *)
(*                                                                         *)
(* Console, for every size of the ring, the lines and the windows,         *)
(* wherever page keys interrupt the output: the screen shows what the log  *)
(* holds, every kept line can be reached, and the ring of lines implements *)
(* Scrollback.                                                             *)
(*                                                                         *)
(* Keyboard, for rings, queues and counters of every size, every flush     *)
(* interval and any amount of typing: where each character that was        *)
(* pressed is.                                                             *)
(***************************************************************************)
EXTENDS Console, Keyboard, Lemmas

-----------------------------------------------------------------------------
(* The console: the inductive invariant.                                    *)

Line == Seq(Char)
Window == 0 .. visible_height - 1
Rows == [Window -> Line]
ScreenRecord == [rows : [0 .. GuiHeight - 1 -> Line] \cup [0 .. ScreenHeight - 1 -> Line],
                 cursor : Int \X Int, read : Nat]

\* The first n rows are what a drawing at the viewport's offset puts there.
Shown(n) == \A v \in 0 .. n - 1 : screen.rows[v] = RowText(StartLine(viewport_offset), v)

\* How far render_output has got.
Drawn ==
  /\ screen \in ScreenRecord
  /\ pc \in {"idle", "start"} => loc = NoLocals
  /\ pc = "rows" => screen.rows \in Rows
  /\ pc = "frame" => loc.view = 0 /\ (~torn => loc.start = StartLine(viewport_offset))
  /\ pc = "rows" /\ ~torn =>
       /\ screen.read = viewport_offset /\ Shown(loc.view)
       /\ loc.view < visible_height => loc.start = StartLine(viewport_offset)
  /\ pc = "cursor" /\ ~torn =>
       /\ screen.read = viewport_offset /\ Shown(visible_height)
       /\ loc.at = {Cursor(viewport_offset)}
  /\ pc = "idle" /\ ~torn =>
       /\ screen.read = viewport_offset /\ Shown(visible_height)
       /\ screen.cursor = Cursor(viewport_offset)

ConsoleInv == TypeOK /\ Drawn

-----------------------------------------------------------------------------
(* Types of the model's operators.                                          *)

LEMMA Sizes ==
  /\ LogLines \in Nat \ {0} /\ visible_height \in Nat \ {0} /\ Page \in Nat \ {0}
  /\ Page <= visible_height /\ visible_width \in Nat /\ visible_width > 3
  /\ LineMax \in Nat /\ visible_width < LineMax /\ MaxPuts \in Nat /\ MaxResets \in Nat
  BY ConsoleAssumption DEF visible_height, visible_width

LEMMA Numbers ==
  ASSUME TypeOK
  PROVE  /\ log_start \in 0 .. LogLines - 1 /\ log_count \in 1 .. LogLines
         /\ log_start \in Nat /\ log_count \in Nat \ {0} /\ log_count <= LogLines
         /\ max_viewport_offset \in Nat /\ max_viewport_offset < log_count
         /\ viewport_offset \in Nat /\ viewport_offset <= max_viewport_offset
         /\ puts \in Nat /\ puts <= MaxPuts
<1>1. log_start \in 0 .. LogLines - 1 /\ log_count \in 1 .. LogLines /\ puts \in 0 .. MaxPuts
      /\ viewport_offset \in 0 .. max_viewport_offset
  BY DEF TypeOK
<1>2. log_start \in Nat /\ log_count \in Nat \ {0} /\ log_count <= LogLines
      /\ puts \in Nat /\ puts <= MaxPuts
  BY <1>1, Sizes
<1>3. max_viewport_offset \in Nat /\ max_viewport_offset < log_count
  BY <1>2, Sizes DEF max_viewport_offset
<1> HIDE DEF max_viewport_offset
<1> QED
  BY <1>1, <1>2, <1>3

LEMMA LineAt ==
  ASSUME TypeOK, NEW i \in Int
  PROVE  /\ (log_start + i) % LogLines \in 0 .. LogLines - 1
         /\ LogLine(i) \in Line /\ Len(LogLine(i)) < LineMax
<1>1. log_start + i \in Int
  BY Numbers
<1>2. (log_start + i) % LogLines \in 0 .. LogLines - 1
  BY <1>1, Sizes, ModRange
<1> QED
  BY <1>2 DEF TypeOK, LogLine, Line

LEMMA Current ==
  ASSUME TypeOK
  PROVE  /\ current_log_index \in 0 .. LogLines - 1
         /\ current_log_index = (log_start + (log_count - 1)) % LogLines
         /\ CurrentLine = LogLine(log_count - 1)
         /\ CurrentLine \in Line /\ Len(CurrentLine) \in Nat /\ Len(CurrentLine) < LineMax
<1>1. log_count - 1 \in Int /\ log_start + log_count - 1 = log_start + (log_count - 1)
  BY Numbers
<1>2. current_log_index = (log_start + (log_count - 1)) % LogLines
  BY <1>1 DEF current_log_index
<1>3. CurrentLine = LogLine(log_count - 1)
  BY <1>2 DEF CurrentLine, LogLine
<1> QED
  BY <1>1, <1>2, <1>3, LineAt DEF Line

LEMMA ClipType ==
  ASSUME NEW line \in Line
  PROVE  Clip(line) \in Line
<1> USE DEF Line
<1>1. CASE Len(line) <= visible_width
  BY <1>1 DEF Clip
<1>2. CASE ~(Len(line) <= visible_width)
  <2> DEFINE w == visible_width
             n == Len(line)
  <2>1. w \in Nat /\ n \in Nat
    BY Sizes
  <2>2. ~(n <= w)
    BY <1>2
  <2> HIDE DEF w, n
  <2>3. w <= n /\ w \in 0 .. n
    BY <2>1, <2>2
  <2>4. \A i \in 1 .. w : i \in 1 .. n
    BY <2>1, <2>3
  <2>5. SubSeq(line, 1, w) \in Seq(Char)
    BY <2>1, <2>4, SubSeqProperties DEF n
  <2> QED
    BY <1>2, <2>5 DEF Clip, w
<1> QED
  BY <1>1, <1>2

LEMMA RowType ==
  ASSUME TypeOK, NEW start \in Nat, NEW view \in Nat
  PROVE  RowText(start, view) \in Line
<1>1. start + view \in Int /\ <<>> \in Line
  BY DEF Line
<1>2. Clip(LogLine(start + view)) \in Line
  BY <1>1, LineAt, ClipType
<1> QED
  BY <1>1, <1>2 DEF RowText

LEMMA StartRange ==
  ASSUME TypeOK, NEW offset \in Nat
  PROVE  StartLine(offset) \in 0 .. LogLines /\ StartLine(offset) \in Nat
<1>1. log_count \in Nat /\ log_count <= LogLines /\ visible_height \in Nat /\ LogLines \in Nat
  BY Numbers, Sizes
<1> QED
  BY <1>1 DEF StartLine

LEMMA CursorType ==
  ASSUME TypeOK, NEW offset \in Nat
  PROVE  Cursor(offset) \in Int \X Int
<1> DEFINE n == Len(CurrentLine)
<1>1. n \in Nat /\ log_count \in Nat /\ visible_height \in Nat /\ visible_width \in Nat
  BY Numbers, Sizes, Current
<1>2. Cursor(offset) = IF offset = 0
                       THEN <<(IF log_count < visible_height THEN log_count ELSE visible_height) - 1,
                              IF n < visible_width THEN n ELSE visible_width - 1>>
                       ELSE <<visible_height - 1, 0>>
  BY DEF Cursor
<1> HIDE DEF n
<1> QED
  BY <1>1, <1>2

LEMMA RowsType ==
  ASSUME NEW r \in Rows
  PROVE  r \in [0 .. GuiHeight - 1 -> Line] \cup [0 .. ScreenHeight - 1 -> Line]
  BY DEF Rows, Window, visible_height

LEMMA RenderingType ==
  ASSUME TypeOK, NEW offset \in Nat
  PROVE  /\ Rendering(offset) \in ScreenRecord
         /\ Rendering(offset).rows \in Rows
         /\ \A v \in Window : Rendering(offset).rows[v] = RowText(StartLine(offset), v)
         /\ Rendering(offset).cursor = Cursor(offset)
         /\ Rendering(offset).read = offset
<1> DEFINE r == [v \in Window |-> RowText(StartLine(offset), v)]
           c == Cursor(offset)
<1>1. \A v \in Window : v \in Nat
  BY Sizes DEF Window
<1>2. r \in Rows
  BY <1>1, StartRange, RowType DEF Rows
<1>3. r \in [0 .. GuiHeight - 1 -> Line] \cup [0 .. ScreenHeight - 1 -> Line]
  BY <1>2, RowsType
<1>4. c \in Int \X Int
  BY CursorType
<1>5. Rendering(offset) = [rows |-> r, cursor |-> c, read |-> offset]
  BY DEF Rendering, Window
<1>6. \A v \in Window : r[v] = RowText(StartLine(offset), v)
  OBVIOUS
<1> HIDE DEF r, c
<1> QED
  BY <1>2, <1>3, <1>4, <1>5, <1>6 DEF ScreenRecord, c

LEMMA ScrollRange ==
  ASSUME TypeOK, NEW key \in {"pageup", "pagedown", "home", "end"}
  PROVE  ScrollTo(key) \in 0 .. max_viewport_offset /\ ScrollTo(key) \in Nat
<1>1. max_viewport_offset \in Nat /\ viewport_offset \in Nat /\ Page \in Nat
      /\ viewport_offset <= max_viewport_offset
  BY Numbers, Sizes
<1> HIDE DEF max_viewport_offset
<1>2. CASE key = "pageup"
  BY <1>1, <1>2 DEF ScrollTo
<1>3. CASE key = "pagedown"
  BY <1>1, <1>3 DEF ScrollTo
<1>4. CASE key = "home"
  BY <1>1, <1>4 DEF ScrollTo
<1>5. CASE key = "end"
  BY <1>1, <1>5 DEF ScrollTo
<1> QED
  BY <1>2, <1>3, <1>4, <1>5

-----------------------------------------------------------------------------
(* console_putc.                                                            *)

Locals == [put : Char \cup {NoChar}, start : 0 .. LogLines, view : 0 .. visible_height,
           at : SUBSET (Int \X Int)]
CharOrNone == Char \cup {NoChar}

LEMMA LocalsType ==
  /\ NoLocals \in Locals /\ NoLocals.put = NoChar /\ NoLocals.view = 0
  /\ \A c \in CharOrNone : [NoLocals EXCEPT !.put = c] \in Locals
  BY Sizes DEF NoLocals, Locals, NoChar, CharOrNone

\* A step of console_putc that only edits the current line.
Edits(line) ==
  /\ line \in Line /\ Len(line) < LineMax
  /\ log_lines' = [log_lines EXCEPT ![current_log_index] = line]
  /\ UNCHANGED <<log_start, log_count, gui_mode, screen, torn>>
  /\ puts' \in 0 .. MaxPuts /\ resets' \in 0 .. MaxResets
  /\ \/ pc' = "grow" /\ viewport_offset' = 0
        /\ \E c \in CharOrNone : loc' = [NoLocals EXCEPT !.put = c]
     \/ pc' = "start" /\ viewport_offset' = viewport_offset /\ loc' = NoLocals

LEMMA EditKeeps ==
  ASSUME ConsoleInv, NEW line, Edits(line)
  PROVE  ConsoleInv'
<1>1. TypeOK /\ Drawn
  BY DEF ConsoleInv
<1>2. UNCHANGED <<log_start, log_count, gui_mode, screen, torn>> /\ pc' \in {"grow", "start"}
  BY DEF Edits
<1>3. max_viewport_offset' = max_viewport_offset /\ visible_height' = visible_height
  BY <1>2 DEF max_viewport_offset, visible_height
<1>4. viewport_offset' \in 0 .. max_viewport_offset
  BY <1>1, Numbers DEF Edits
<1>5. loc' \in Locals
  BY LocalsType DEF Edits
<1>6. /\ log_lines' \in [0 .. LogLines - 1 -> Line]
      /\ \A i \in 0 .. LogLines - 1 : Len(log_lines'[i]) < LineMax
  <2>1. log_lines \in [0 .. LogLines - 1 -> Line]
        /\ \A i \in 0 .. LogLines - 1 : Len(log_lines[i]) < LineMax
    BY <1>1 DEF TypeOK, Line
  <2>2. current_log_index \in 0 .. LogLines - 1
    BY <1>1, Current
  <2> QED
    BY <2>1, <2>2 DEF Edits
<1>7. TypeOK'
  BY <1>1, <1>2, <1>3, <1>4, <1>5, <1>6 DEF TypeOK, Edits, Locals, Line
<1>8. Drawn'
  BY <1>1, <1>2 DEF Drawn, Edits, ScreenRecord
<1> QED
  BY <1>7, <1>8 DEF ConsoleInv

\* The old line is a line; leaving it alone is an edit.
LEMMA SameLine ==
  ASSUME TypeOK
  PROVE  log_lines = [log_lines EXCEPT ![current_log_index] = CurrentLine]
  BY Current DEF TypeOK, CurrentLine

\* What each kind of output makes of the current line.
LEMMA PutNewlineEdits ==
  ASSUME ConsoleInv, PutNewline
  PROVE  Edits(CurrentLine)
<1>1. TypeOK
  BY DEF ConsoleInv
<1>2. puts + 1 \in 0 .. MaxPuts
  BY <1>1, Numbers, Sizes DEF PutNewline, CanPut
<1>3. NoChar \in CharOrNone
  BY DEF CharOrNone
<1> QED
  BY <1>1, <1>2, <1>3, SameLine, Current
     DEF PutNewline, LeaveLine, Counted, Edits, TypeOK

LEMMA PutReturnEdits ==
  ASSUME ConsoleInv, PutReturn
  PROVE  Edits(<<>>)
<1>1. TypeOK
  BY DEF ConsoleInv
<1>2. puts + 1 \in 0 .. MaxPuts
  BY <1>1, Numbers, Sizes DEF PutReturn, CanPut
<1>3. <<>> \in Line /\ Len(<<>>) < LineMax
  BY Sizes DEF Line
<1> QED
  BY <1>1, <1>2, <1>3 DEF PutReturn, StartRender, SetLine, Counted, Edits, TypeOK

\* A line without its last character.
LEMMA Shortened ==
  ASSUME NEW S, NEW line \in Seq(S), line # <<>>
  PROVE  /\ SubSeq(line, 1, Len(line) - 1) \in Seq(S)
         /\ Len(SubSeq(line, 1, Len(line) - 1)) = Len(line) - 1
         /\ \A i \in 1 .. Len(line) - 1 : SubSeq(line, 1, Len(line) - 1)[i] = line[i]
         /\ Len(line) \in Nat \ {0}
<1> DEFINE n == Len(line)
<1>1. n \in Nat /\ n # 0
  OBVIOUS
<1>2. n = Len(line)
  OBVIOUS
<1> HIDE DEF n
<1>3. n - 1 \in Nat /\ \A i \in 1 .. n - 1 : i \in 1 .. n
  BY <1>1
<1>4. /\ SubSeq(line, 1, n - 1) \in Seq(S) /\ Len(SubSeq(line, 1, n - 1)) = n - 1
      /\ \A i \in 1 .. n - 1 : SubSeq(line, 1, n - 1)[i] = line[i]
  <2>1. 1 \in Int /\ n - 1 \in Int /\ (n - 1) - 1 + 1 = n - 1 /\ \A i \in 1 .. n - 1 : 1 + i - 1 = i
    BY <1>1
  <2>2. IF 1 <= n - 1 THEN Len(SubSeq(line, 1, n - 1)) = (n - 1) - 1 + 1
        ELSE Len(SubSeq(line, 1, n - 1)) = 0
    BY <1>1, <1>2, <1>3
  <2> QED
    BY <1>1, <1>2, <1>3, <2>1, <2>2
<1> QED
  BY <1>1, <1>2, <1>4

LEMMA PutBackspaceEdits ==
  ASSUME ConsoleInv, PutBackspace
  PROVE  IF CurrentLine = <<>> THEN Edits(<<>>)
         ELSE Edits(SubSeq(CurrentLine, 1, Len(CurrentLine) - 1))
<1>1. TypeOK
  BY DEF ConsoleInv
<1>2. puts + 1 \in 0 .. MaxPuts
  BY <1>1, Numbers, Sizes DEF PutBackspace, CanPut
<1>3. CASE CurrentLine = <<>>
  <2>1. <<>> \in Line /\ Len(<<>>) < LineMax
    BY Sizes DEF Line
  <2> QED
    BY <1>1, <1>2, <1>3, <2>1 DEF PutBackspace, StartRender, SetLine, Counted, Edits, TypeOK
<1>4. CASE CurrentLine # <<>>
  <2> DEFINE s == SubSeq(CurrentLine, 1, Len(CurrentLine) - 1)
             n == Len(CurrentLine)
             m == Len(s)
  <2>1. s \in Line /\ m = n - 1 /\ n \in Nat /\ n < LineMax /\ LineMax \in Nat
    BY <1>1, <1>4, Current, Shortened, Sizes DEF Line
  <2>2. log_lines' = [log_lines EXCEPT ![current_log_index] = s]
    BY <1>4 DEF PutBackspace, SetLine
  <2> HIDE DEF n, m
  <2>3. m < LineMax
    BY <2>1
  <2> HIDE DEF s
  <2>4. Edits(s)
    BY <1>1, <1>2, <2>1, <2>2, <2>3 DEF PutBackspace, StartRender, Counted, Edits, TypeOK, m
  <2> QED
    BY <1>4, <2>4 DEF s
<1> QED
  BY <1>3, <1>4

\* The mark replaces the last character.
LEMMA MarkedLine ==
  ASSUME NEW line \in Line, Len(line) = visible_width - 1
  PROVE  /\ Marked(line) \in Line /\ Len(Marked(line)) = Len(line) /\ Len(line) \in Nat \ {0}
         /\ \A i \in 1 .. Len(line) - 1 : Marked(line)[i] = line[i]
<1> DEFINE w == visible_width - 1
<1>1. w \in Nat \ {0} /\ Len(line) = w /\ w \in 1 .. w /\ 0 \in Char
  BY Sizes DEF Char, Backslash
<1>2. Marked(line) = [line EXCEPT ![w] = 0]
  BY DEF Marked, Backslash
<1> HIDE DEF w
<1>3. line \in [1 .. w -> Char]
  BY <1>1 DEF Line
<1>4. Marked(line) \in [1 .. w -> Char] /\ \A i \in 1 .. w - 1 : Marked(line)[i] = line[i]
  BY <1>1, <1>2, <1>3
<1>5. Marked(line) \in Seq(Char) /\ Len(Marked(line)) = w
  BY <1>1, <1>4
<1> QED
  BY <1>1, <1>4, <1>5 DEF Line

LEMMA PutCharEdits ==
  ASSUME ConsoleInv, PutChar
  PROVE  \/ Edits(CurrentLine)
         \/ Len(CurrentLine) = visible_width - 1 /\ Edits(Marked(CurrentLine))
         \/ Edits(Append(CurrentLine, puts + 1))
<1>1. TypeOK
  BY DEF ConsoleInv
<1>2. puts + 1 \in 0 .. MaxPuts /\ puts + 1 \in Char /\ puts + 1 \in CharOrNone
  BY <1>1, Numbers, Sizes DEF PutChar, CanPut, Char, CharOrNone, Backslash
<1> DEFINE n == Len(CurrentLine)
           c == puts + 1
<1>3. CurrentLine \in Line /\ n \in Nat /\ n < LineMax
  BY <1>1, Current
<1>4. CASE n >= visible_width /\ LeaveLine(c) /\ UNCHANGED log_lines
  <2>1. Edits(CurrentLine)
    BY <1>1, <1>2, <1>3, <1>4, SameLine DEF PutChar, LeaveLine, Counted, Edits, TypeOK
  <2> QED
    BY <2>1
<1>5. CASE n = visible_width - 1 /\ SetLine(Marked(CurrentLine)) /\ LeaveLine(c)
  <2>1. Marked(CurrentLine) \in Line /\ Len(Marked(CurrentLine)) = n
    BY <1>3, <1>5, MarkedLine
  <2>2. Edits(Marked(CurrentLine))
    BY <1>1, <1>2, <1>3, <1>5, <2>1 DEF PutChar, LeaveLine, SetLine, Counted, Edits, TypeOK
  <2> QED
    BY <1>5, <2>2
<1>6. CASE n + 1 < LineMax /\ SetLine(Append(CurrentLine, c)) /\ StartRender
  <2> DEFINE s == Append(CurrentLine, c)
  <2>1. s \in Line /\ Len(s) = n + 1
    BY <1>2, <1>3 DEF Line
  <2>2. log_lines' = [log_lines EXCEPT ![current_log_index] = s]
    BY <1>6 DEF SetLine
  <2>3. Len(s) < LineMax
    BY <1>6, <2>1
  <2> HIDE DEF s
  <2>4. Edits(s)
    BY <1>1, <1>2, <1>6, <2>1, <2>2, <2>3 DEF PutChar, StartRender, Counted, Edits, TypeOK
  <2> QED
    BY <2>4 DEF s
<1>7. CASE ~(n + 1 < LineMax) /\ SetLine(CurrentLine) /\ StartRender
  <2>1. Edits(CurrentLine)
    BY <1>1, <1>2, <1>3, <1>7 DEF PutChar, StartRender, SetLine, Counted, Edits, TypeOK
  <2> QED
    BY <2>1
<1> QED
  BY <1>4, <1>5, <1>6, <1>7 DEF PutChar

-----------------------------------------------------------------------------
(* log_newline, the drawing, and the resets.                                *)

LEMMA StepGrow ==
  ASSUME ConsoleInv, Grow
  PROVE  ConsoleInv'
<1> DEFINE x == (log_start' + log_count' - 1) % LogLines
           line == IF loc.put = NoChar THEN <<>> ELSE <<loc.put>>
<1>1. TypeOK /\ Drawn /\ loc \in Locals
  BY DEF ConsoleInv, TypeOK, Locals
<1>2. /\ log_start' = NewStart /\ pc' = "start" /\ loc' = NoLocals
      /\ log_count' = IF log_count < LogLines THEN log_count + 1 ELSE log_count
      /\ log_lines' = [log_lines EXCEPT ![x] = line]
      /\ UNCHANGED <<viewport_offset, gui_mode, screen, puts, resets, torn>>
  BY DEF Grow
<1>3. log_start' \in 0 .. LogLines - 1 /\ log_count' \in 1 .. LogLines /\ log_count' >= log_count
  <2>1. log_start + 1 \in Int
    BY <1>1, Numbers
  <2>2. (log_start + 1) % LogLines \in 0 .. LogLines - 1
    BY <2>1, Sizes, ModRange
  <2> QED
    BY <1>1, <1>2, <2>2, Numbers, Sizes, SMTT(30) DEF NewStart
<1>4. x \in 0 .. LogLines - 1
  <2>1. log_start' + log_count' - 1 \in Int
    BY <1>3, Sizes
  <2> QED
    BY <2>1, Sizes, ModRange
<1>5. line \in Line /\ Len(line) < LineMax
  <2>1. loc.put \in Char \cup {NoChar}
    BY <1>1 DEF Locals
  <2>2. CASE loc.put = NoChar
    BY <2>2, Sizes DEF Line
  <2>3. CASE loc.put # NoChar
    <3>1. loc.put \in Char
      BY <2>1, <2>3
    <3> DEFINE c == loc.put
    <3>2. line = <<c>> /\ c \in Char
      BY <2>3, <3>1
    <3> HIDE DEF c, line
    <3>3. <<c>> \in Seq(Char) /\ Len(<<c>>) = 1
      BY <3>2
    <3> QED
      BY <3>2, <3>3, Sizes DEF Line
  <2> QED
    BY <2>2, <2>3
<1> HIDE DEF x, line
<1>6. /\ log_lines' \in [0 .. LogLines - 1 -> Line]
      /\ \A i \in 0 .. LogLines - 1 : Len(log_lines'[i]) < LineMax
  <2>1. log_lines \in [0 .. LogLines - 1 -> Line]
        /\ \A i \in 0 .. LogLines - 1 : Len(log_lines[i]) < LineMax
    BY <1>1 DEF TypeOK, Line
  <2> QED
    BY <1>2, <1>4, <1>5, <2>1
<1>7. viewport_offset' \in 0 .. max_viewport_offset'
  <2>1. visible_height' = visible_height
    BY <1>2 DEF visible_height
  <2> DEFINE h == visible_height
  <2>2. h \in Nat /\ log_count \in Nat /\ log_count' \in Nat /\ log_count' >= log_count
    BY <1>1, <1>3, Numbers, Sizes
  <2>3. viewport_offset \in 0 .. (IF log_count > h THEN log_count - h ELSE 0)
    BY <1>1 DEF TypeOK, max_viewport_offset
  <2>4. max_viewport_offset' = IF log_count' > h THEN log_count' - h ELSE 0
    BY <2>1 DEF max_viewport_offset
  <2> HIDE DEF h
  <2> QED
    BY <1>2, <2>2, <2>3, <2>4
<1>8. loc' \in Locals /\ visible_height' = visible_height
  BY <1>2, LocalsType DEF visible_height
<1>9. TypeOK'
  BY <1>1, <1>2, <1>3, <1>6, <1>7, <1>8 DEF TypeOK, Locals, Line
<1>10. Drawn'
  BY <1>1, <1>2 DEF Drawn, ScreenRecord
<1> QED
  BY <1>9, <1>10 DEF ConsoleInv

\* The log and the mode decide what a drawing shows.
LEMMA SameLog ==
  ASSUME UNCHANGED <<logVars, gui_mode>>
  PROVE  /\ visible_height' = visible_height /\ visible_width' = visible_width
         /\ Window' = Window /\ Rows' = Rows
         /\ max_viewport_offset' = max_viewport_offset
         /\ \A o : StartLine(o)' = StartLine(o) /\ Cursor(o)' = Cursor(o)
         /\ \A s, v : RowText(s, v)' = RowText(s, v)
<1>1. UNCHANGED <<log_lines, log_start, log_count, gui_mode>>
  BY DEF logVars
<1>2. visible_height' = visible_height /\ visible_width' = visible_width
  BY <1>1 DEF visible_height, visible_width
<1>3. Window' = Window
  BY <1>2 DEF Window
<1>4. Rows' = Rows
  BY <1>3 DEF Rows, Line
<1>5. max_viewport_offset' = max_viewport_offset
  BY <1>1, <1>2 DEF max_viewport_offset
<1>6. ASSUME NEW o
      PROVE  StartLine(o)' = StartLine(o) /\ Cursor(o)' = Cursor(o)
  BY <1>1, <1>2 DEF StartLine, Cursor, CurrentLine, current_log_index
<1>7. ASSUME NEW s, NEW v
      PROVE  RowText(s, v)' = RowText(s, v)
  BY <1>1, <1>2 DEF RowText, Clip, LogLine
<1> QED
  BY <1>2, <1>3, <1>4, <1>5, <1>6, <1>7

LEMMA StepRenderStart ==
  ASSUME ConsoleInv, RenderStart
  PROVE  ConsoleInv'
<1> DEFINE s == StartLine(viewport_offset)
<1>1. TypeOK /\ Drawn /\ viewport_offset \in Nat
  BY Numbers DEF ConsoleInv
<1>2. /\ loc' = [NoLocals EXCEPT !.start = s] /\ pc' = "frame" /\ torn' = FALSE
      /\ UNCHANGED <<logVars, viewport_offset, gui_mode, screen, puts, resets>>
  BY DEF RenderStart
<1>3. s \in 0 .. LogLines
  BY <1>1, StartRange
<1> HIDE DEF s
<1>4. loc' \in Locals /\ loc'.start = s /\ loc'.view = 0
  BY <1>2, <1>3, LocalsType DEF Locals, NoLocals
<1>5. /\ visible_height' = visible_height /\ max_viewport_offset' = max_viewport_offset
      /\ StartLine(viewport_offset)' = s
  BY <1>2, SameLog DEF s
<1>6. TypeOK'
  BY <1>1, <1>2, <1>4, <1>5 DEF TypeOK, Locals, logVars
<1>7. Drawn'
  BY <1>1, <1>2, <1>4, <1>5 DEF Drawn, ScreenRecord
<1> QED
  BY <1>6, <1>7 DEF ConsoleInv

LEMMA StepDrawFrame ==
  ASSUME ConsoleInv, DrawFrame
  PROVE  ConsoleInv'
<1> DEFINE b == BlankRows
           o == viewport_offset
<1>1. TypeOK /\ Drawn /\ screen \in ScreenRecord /\ o \in Nat /\ loc \in Locals
      /\ loc.view = 0 /\ (~torn => loc.start = StartLine(viewport_offset))
  BY Numbers DEF ConsoleInv, Drawn, DrawFrame, TypeOK, Locals
<1>2. /\ pc' = "rows" /\ screen' = [screen EXCEPT !.rows = b, !.read = o]
      /\ UNCHANGED <<logVars, viewport_offset, gui_mode, loc, puts, resets, torn>>
  BY DEF DrawFrame
<1>3. b \in Rows /\ b \in [0 .. GuiHeight - 1 -> Line] \cup [0 .. ScreenHeight - 1 -> Line]
  <2>1. b \in Rows
    BY DEF BlankRows, Rows, Window, Line
  <2> QED
    BY <2>1, RowsType
<1> HIDE DEF b, o
<1>4. screen' \in ScreenRecord /\ screen'.rows = b /\ screen'.read = o
  BY <1>1, <1>2, <1>3 DEF ScreenRecord
<1>5. /\ visible_height' = visible_height /\ Rows' = Rows /\ max_viewport_offset' = max_viewport_offset
      /\ StartLine(viewport_offset)' = StartLine(viewport_offset)
  BY <1>2, SameLog
<1>6. TypeOK'
  BY <1>1, <1>2, <1>5 DEF TypeOK, Locals, logVars
<1>7. Shown(loc.view)'
  BY <1>1, <1>2 DEF Shown
<1>8. Drawn'
  BY <1>1, <1>2, <1>3, <1>4, <1>5, <1>7 DEF Drawn, ScreenRecord, o
<1> QED
  BY <1>6, <1>8 DEF ConsoleInv

LEMMA StepRenderRow ==
  ASSUME ConsoleInv, RenderRow
  PROVE  ConsoleInv'
<1> DEFINE v == loc.view
           t == RowText(loc.start, v)
           r == [screen.rows EXCEPT ![v] = t]
           w == v + 1
<1>1. TypeOK /\ Drawn /\ screen \in ScreenRecord /\ loc \in Locals /\ screen.rows \in Rows
      /\ viewport_offset \in Nat /\ pc = "rows"
  BY Numbers DEF ConsoleInv, Drawn, TypeOK, Locals, RenderRow
<1>2. v \in Nat /\ v < visible_height /\ loc.start \in Nat /\ visible_height \in Nat
  BY <1>1, Sizes DEF RenderRow, Locals
<1>3. t \in Line /\ v \in Window
  BY <1>1, <1>2, RowType DEF Window
<1>4. r \in Rows /\ r[v] = t /\ \A u \in Window \ {v} : r[u] = screen.rows[u]
  <2> HIDE DEF t, v
  <2> QED
    BY <1>1, <1>3 DEF Rows
<1>5. r \in [0 .. GuiHeight - 1 -> Line] \cup [0 .. ScreenHeight - 1 -> Line]
  BY <1>4, RowsType
<1>6. /\ screen' = [screen EXCEPT !.rows = r] /\ loc' = [loc EXCEPT !.view = w]
      /\ UNCHANGED <<logVars, viewport_offset, gui_mode, pc, puts, resets, torn>>
  BY <1>1 DEF RenderRow, ScreenRecord
<1>7. w \in 0 .. visible_height /\ \A u \in 0 .. w - 1 : u \in Window /\ (u = v \/ u \in 0 .. v - 1)
  <2> DEFINE h == visible_height
  <2>1. v \in Nat /\ h \in Nat /\ v < h
    BY <1>2
  <2> HIDE DEF v, h
  <2>2. w \in 0 .. h /\ \A u \in 0 .. w - 1 : u \in 0 .. h - 1 /\ (u = v \/ u \in 0 .. v - 1)
    BY <2>1
  <2> QED
    BY <2>2 DEF h, Window
<1> HIDE DEF v, t, r, w
<1>8. screen' \in ScreenRecord /\ screen'.rows = r /\ screen'.read = screen.read
  BY <1>1, <1>5, <1>6 DEF ScreenRecord
<1>9. loc' \in Locals /\ loc'.start = loc.start /\ loc'.view = w
  BY <1>1, <1>6, <1>7 DEF Locals
<1>10. /\ visible_height' = visible_height /\ Rows' = Rows
       /\ max_viewport_offset' = max_viewport_offset
       /\ StartLine(viewport_offset)' = StartLine(viewport_offset)
       /\ \A u : RowText(StartLine(viewport_offset), u)' = RowText(StartLine(viewport_offset), u)
  <2>1. UNCHANGED viewport_offset /\ UNCHANGED <<logVars, gui_mode>>
    BY <1>6
  <2>2. StartLine(viewport_offset)' = StartLine(viewport_offset)
    BY <2>1, SameLog
  <2>3. \A s, u : RowText(s, u)' = RowText(s, u)
    BY <2>1, SameLog
  <2> QED
    BY <2>1, <2>2, <2>3, SameLog
<1>11. TypeOK'
  BY <1>1, <1>6, <1>9, <1>10 DEF TypeOK, Locals, logVars
<1>12. ASSUME ~torn
       PROVE  /\ screen.read = viewport_offset /\ loc.start = StartLine(viewport_offset)
              /\ Shown(loc.view)'
  <2>1. screen.read = viewport_offset /\ loc.start = StartLine(viewport_offset) /\ Shown(v)
    BY <1>1, <1>2, <1>12 DEF Drawn, v
  <2>2. \A u \in 0 .. w - 1 : r[u] = RowText(StartLine(viewport_offset), u)
    BY <1>4, <1>7, <2>1 DEF Shown, t
  <2>3. \A u \in 0 .. loc'.view - 1 : screen'.rows[u] = RowText(StartLine(viewport_offset), u)'
    BY <1>8, <1>9, <1>10, <2>2
  <2>4. Shown(loc.view)'
    BY <2>3 DEF Shown
  <2> QED
    BY <2>1, <2>4
<1>13. Drawn'
  BY <1>1, <1>4, <1>6, <1>8, <1>9, <1>10, <1>12 DEF Drawn, ScreenRecord
<1> QED
  BY <1>11, <1>13 DEF ConsoleInv

LEMMA StepRenderCursor ==
  ASSUME ConsoleInv, RenderCursor
  PROVE  ConsoleInv'
<1> DEFINE c == Cursor(viewport_offset)
<1>1. TypeOK /\ Drawn /\ viewport_offset \in Nat /\ loc \in Locals
      /\ pc = "rows" /\ loc.view = visible_height
  BY Numbers DEF ConsoleInv, Drawn, RenderCursor, TypeOK, Locals
<1>2. /\ loc' = [loc EXCEPT !.at = {c}] /\ pc' = "cursor"
      /\ UNCHANGED <<logVars, viewport_offset, gui_mode, screen, puts, resets, torn>>
  BY DEF RenderCursor
<1>3. c \in Int \X Int
  BY <1>1, CursorType
<1> HIDE DEF c
<1>4. loc' \in Locals /\ loc'.at = {c}
  BY <1>1, <1>2, <1>3 DEF Locals
<1>5. UNCHANGED viewport_offset /\ UNCHANGED <<logVars, gui_mode>>
  BY <1>2
<1>6. StartLine(viewport_offset)' = StartLine(viewport_offset) /\ Cursor(viewport_offset)' = c
      /\ visible_height' = visible_height /\ max_viewport_offset' = max_viewport_offset
      /\ \A s, v : RowText(s, v)' = RowText(s, v)
  BY <1>5, SameLog DEF c
<1>7. TypeOK'
  BY <1>1, <1>2, <1>4, <1>6 DEF TypeOK, Locals, logVars
<1>8. ASSUME ~torn
      PROVE  screen.read = viewport_offset /\ Shown(visible_height)'
  <2>1. screen.read = viewport_offset /\ Shown(visible_height)
    BY <1>1, <1>8 DEF Drawn
  <2>2. \A v \in 0 .. visible_height' - 1 :
          screen'.rows[v] = RowText(StartLine(viewport_offset), v)'
    BY <1>2, <1>6, <2>1 DEF Shown
  <2>3. Shown(visible_height)'
    BY <2>2 DEF Shown
  <2> QED
    BY <2>1, <2>3
<1>9. Drawn'
  BY <1>1, <1>2, <1>4, <1>6, <1>8 DEF Drawn, ScreenRecord
<1> QED
  BY <1>7, <1>9 DEF ConsoleInv

LEMMA StepMoveCursor ==
  ASSUME ConsoleInv, move_cursor
  PROVE  ConsoleInv'
<1>1. TypeOK /\ Drawn /\ screen \in ScreenRecord /\ loc \in Locals /\ pc = "cursor"
  BY DEF ConsoleInv, Drawn, move_cursor, TypeOK, Locals
<1>2. PICK c \in loc.at : screen' = [screen EXCEPT !.cursor = c]
  BY DEF move_cursor
<1>3. /\ pc' = "idle" /\ loc' = NoLocals
      /\ UNCHANGED <<logVars, viewport_offset, gui_mode, puts, resets, torn>>
  BY DEF move_cursor
<1>4. c \in Int \X Int
  BY <1>1, <1>2 DEF Locals
<1>5. screen' \in ScreenRecord /\ screen'.rows = screen.rows /\ screen'.read = screen.read
      /\ screen'.cursor = c
  BY <1>1, <1>2, <1>4 DEF ScreenRecord
<1>6. UNCHANGED viewport_offset /\ UNCHANGED <<logVars, gui_mode>>
  BY <1>3
<1>7. StartLine(viewport_offset)' = StartLine(viewport_offset)
      /\ Cursor(viewport_offset)' = Cursor(viewport_offset)
      /\ visible_height' = visible_height /\ max_viewport_offset' = max_viewport_offset
      /\ \A s, v : RowText(s, v)' = RowText(s, v)
  BY <1>6, SameLog
<1>8. TypeOK'
  BY <1>1, <1>3, <1>7, LocalsType DEF TypeOK, Locals, logVars
<1>9. ASSUME ~torn
      PROVE  screen.read = viewport_offset /\ Shown(visible_height)' /\ c = Cursor(viewport_offset)
  <2>1. screen.read = viewport_offset /\ Shown(visible_height) /\ loc.at = {Cursor(viewport_offset)}
    BY <1>1, <1>9 DEF Drawn
  <2>2. \A v \in 0 .. visible_height' - 1 :
          screen'.rows[v] = RowText(StartLine(viewport_offset), v)'
    BY <1>5, <1>7, <2>1 DEF Shown
  <2>3. Shown(visible_height)'
    BY <2>2 DEF Shown
  <2> QED
    BY <1>2, <2>1, <2>3
<1>10. Drawn'
  BY <1>3, <1>5, <1>7, <1>9 DEF Drawn, ScreenRecord
<1> QED
  BY <1>8, <1>10 DEF ConsoleInv

LEMMA StepClear ==
  ASSUME ConsoleInv, console_clear
  PROVE  ConsoleInv'
<1>1. TypeOK /\ Drawn /\ loc = NoLocals /\ resets \in 0 .. MaxResets /\ resets < MaxResets
  BY DEF ConsoleInv, Drawn, console_clear, CanReset, TypeOK
<1>2. /\ log_lines' = [i \in 0 .. LogLines - 1 |-> <<>>] /\ log_start' = 0 /\ log_count' = 1
      /\ viewport_offset' = 0 /\ pc' = "start" /\ resets' = resets + 1
      /\ UNCHANGED <<gui_mode, screen, loc, puts, torn>>
  BY DEF console_clear
<1>3. /\ log_lines' \in [0 .. LogLines - 1 -> Line]
      /\ \A i \in 0 .. LogLines - 1 : Len(log_lines'[i]) < LineMax
  BY <1>2, Sizes DEF Line
<1>4. resets' \in 0 .. MaxResets /\ log_start' \in 0 .. LogLines - 1 /\ log_count' \in 1 .. LogLines
  BY <1>1, <1>2, Sizes
<1>5. viewport_offset' \in 0 .. max_viewport_offset'
  <2>1. visible_height' = visible_height
    BY <1>2 DEF visible_height
  <2> DEFINE h == visible_height
  <2>2. h \in Nat /\ max_viewport_offset' = IF 1 > h THEN 1 - h ELSE 0
    BY <1>2, <2>1, Sizes DEF max_viewport_offset
  <2> HIDE DEF h
  <2> QED
    BY <1>2, <2>2
<1>6. visible_height' = visible_height
  BY <1>2 DEF visible_height
<1>7. TypeOK'
  BY <1>1, <1>2, <1>3, <1>4, <1>5, <1>6, LocalsType DEF TypeOK, Locals, Line
<1>8. Drawn'
  BY <1>1, <1>2 DEF Drawn, ScreenRecord
<1> QED
  BY <1>7, <1>8 DEF ConsoleInv

LEMMA StepSetGui ==
  ASSUME ConsoleInv, NEW enabled \in BOOLEAN, console_set_gui(enabled)
  PROVE  ConsoleInv'
<1>1. TypeOK /\ Drawn /\ loc = NoLocals /\ resets \in 0 .. MaxResets /\ resets < MaxResets
  BY DEF ConsoleInv, Drawn, console_set_gui, CanReset, TypeOK
<1>2. /\ UNCHANGED <<log_lines, log_start, log_count, screen, loc, puts, torn>>
      /\ gui_mode' = enabled /\ viewport_offset' = 0 /\ pc' = "start" /\ resets' = resets + 1
  BY DEF console_set_gui, logVars
<1>3. resets' \in 0 .. MaxResets
  BY <1>1, <1>2, Sizes
<1>4. visible_height' \in Nat
  BY ConsoleAssumption DEF visible_height
<1>5. viewport_offset' \in 0 .. max_viewport_offset'
  BY <1>1, <1>2, <1>4, Numbers DEF max_viewport_offset
<1>6. loc' \in [put : Char \cup {NoChar}, start : 0 .. LogLines, view : 0 .. visible_height',
                at : SUBSET (Int \X Int)]
  BY <1>1, <1>2, <1>4, Sizes DEF NoLocals, NoChar
<1>7. TypeOK'
  BY <1>1, <1>2, <1>3, <1>5, <1>6 DEF TypeOK
<1>8. Drawn'
  BY <1>1, <1>2 DEF Drawn, ScreenRecord
<1> QED
  BY <1>7, <1>8 DEF ConsoleInv

LEMMA StepPageKey ==
  ASSUME ConsoleInv, NEW key \in {"pageup", "pagedown", "home", "end"}, PageKey(key)
  PROVE  ConsoleInv'
<1> DEFINE o == ScrollTo(key)
           s == Rendering(o)
<1>1. TypeOK /\ Drawn
  BY DEF ConsoleInv
<1>2. o \in 0 .. max_viewport_offset /\ o \in Nat
  BY <1>1, ScrollRange
<1>3. /\ s \in ScreenRecord /\ s.rows \in Rows /\ s.cursor = Cursor(o) /\ s.read = o
      /\ \A v \in Window : s.rows[v] = RowText(StartLine(o), v)
  BY <1>1, <1>2, RenderingType
<1>4. /\ viewport_offset' = o /\ screen' = s
      /\ torn' = (torn \/ Drawing)
      /\ loc' = IF pc = "cursor" THEN [loc EXCEPT !.at = @ \cup {Cursor(o), Astray}] ELSE loc
      /\ UNCHANGED <<logVars, gui_mode>> /\ UNCHANGED <<pc, puts, resets>>
  BY DEF PageKey
<1>a. loc' \in Locals /\ loc'.view = loc.view /\ (pc # "cursor" => loc' = loc)
  <2> HIDE DEF o
  <2>1. loc \in Locals
    BY <1>1 DEF TypeOK, Locals
  <2>2. Cursor(o) \in Int \X Int
    BY <1>1, <1>2, CursorType
  <2>3. Astray \in Int \X Int
    BY DEF Astray
  <2> QED
    BY <1>4, <2>1, <2>2, <2>3 DEF Locals
<1> HIDE DEF o, s
<1>5. /\ visible_height' = visible_height /\ Rows' = Rows /\ max_viewport_offset' = max_viewport_offset
      /\ StartLine(viewport_offset)' = StartLine(o) /\ Cursor(viewport_offset)' = Cursor(o)
      /\ \A t, u : RowText(t, u)' = RowText(t, u)
  <2>1. StartLine(viewport_offset)' = StartLine(o) /\ Cursor(viewport_offset)' = Cursor(o)
    BY <1>4 DEF StartLine, Cursor, CurrentLine, current_log_index, visible_height, visible_width, logVars
  <2> QED
    BY <1>4, <2>1, SameLog
<1>6. torn' \in BOOLEAN
  BY <1>1, <1>4 DEF TypeOK, Drawing
<1>7. TypeOK'
  BY <1>1, <1>2, <1>4, <1>a, <1>5, <1>6 DEF TypeOK, Locals, logVars
<1>8. Shown(visible_height)'
  <2>1. \A v \in 0 .. visible_height' - 1 :
          screen'.rows[v] = RowText(StartLine(viewport_offset), v)'
    BY <1>3, <1>4, <1>5 DEF Window
  <2> QED
    BY <2>1 DEF Shown
<1>b. ~torn' => pc \notin {"frame", "cursor"}
  BY <1>4 DEF Drawing
<1>9. pc = "rows" /\ ~torn' => loc.view = visible_height
  <2> DEFINE n == loc.view
             h == visible_height
  <2>1. n \in 0 .. h /\ h \in Nat
    BY <1>1, Sizes DEF TypeOK
  <2>2. pc = "rows" /\ ~torn' => ~(n < h)
    BY <1>4 DEF Drawing
  <2> HIDE DEF n, h
  <2>3. ~(n < h) => n = h
    BY <2>1
  <2> QED
    BY <2>2, <2>3 DEF n, h
<1>10. Drawn'
  <2>1. pc = "rows" /\ ~torn' => Shown(loc.view)' /\ ~(loc.view < visible_height)
    <3> SUFFICES ASSUME pc = "rows", ~torn'
                 PROVE  Shown(loc.view)' /\ ~(loc.view < visible_height)
      OBVIOUS
    <3>1. loc'.view = visible_height' /\ loc.view = visible_height
      BY <1>a, <1>5, <1>9
    <3>2. ~(visible_height < visible_height)
      BY Sizes
    <3> QED
      BY <1>8, <3>1, <3>2 DEF Shown
  <2>2. screen' \in ScreenRecord'
    BY <1>3, <1>4 DEF ScreenRecord
  <2>3. pc' \in {"idle", "start"} => loc' = NoLocals
    BY <1>1, <1>4, <1>a DEF Drawn
  <2>4. screen'.rows \in Rows' /\ screen'.read = viewport_offset'
        /\ screen'.cursor = Cursor(viewport_offset)'
    BY <1>3, <1>4, <1>5
  <2>5. pc' = pc /\ loc'.view = loc.view /\ (pc = "frame" => loc'.view = 0)
    BY <1>1, <1>4, <1>a DEF Drawn
  <2> QED
    BY <1>5, <1>8, <1>b, <2>1, <2>2, <2>3, <2>4, <2>5 DEF Drawn
<1> QED
  BY <1>7, <1>10 DEF ConsoleInv

LEMMA ConsoleStarts == Init => ConsoleInv
<1> SUFFICES ASSUME Init
             PROVE  ConsoleInv
  OBVIOUS
<1>1. TypeOK
  <2>1. /\ log_lines \in [0 .. LogLines - 1 -> Line] /\ log_start = 0 /\ log_count = 1
        /\ \A i \in 0 .. LogLines - 1 : Len(log_lines[i]) < LineMax
    BY Sizes DEF Init, Line
  <2>2. 0 \in 0 .. max_viewport_offset
    BY <2>1, Sizes DEF max_viewport_offset
  <2>3. /\ log_start \in 0 .. LogLines - 1 /\ log_count \in 1 .. LogLines
        /\ 0 \in 0 .. MaxPuts /\ 0 \in 0 .. MaxResets
    BY <2>1, Sizes
  <2>4. viewport_offset = 0 /\ loc \in Locals /\ puts = 0 /\ resets = 0 /\ pc = "idle"
        /\ gui_mode = TRUE /\ torn = FALSE
    BY LocalsType DEF Init
  <2> QED
    BY <2>1, <2>2, <2>3, <2>4 DEF TypeOK, Line, Locals
<1>2. /\ Rendering(0) \in ScreenRecord /\ Rendering(0).rows \in Rows
      /\ Rendering(0).cursor = Cursor(0) /\ Rendering(0).read = 0
      /\ \A v \in Window : Rendering(0).rows[v] = RowText(StartLine(0), v)
  <2>1. 0 \in Nat
    OBVIOUS
  <2> QED
    BY <1>1, <2>1, RenderingType
<1>3. Drawn
  BY <1>2 DEF Init, Drawn, Shown, Window
<1> QED
  BY <1>1, <1>3 DEF ConsoleInv

LEMMA ConsoleKeeps ==
  ASSUME ConsoleInv, [Next]_vars
  PROVE  ConsoleInv'
<1>1. CASE console_putc
  BY <1>1, EditKeeps, PutNewlineEdits, PutReturnEdits, PutBackspaceEdits, PutCharEdits
     DEF console_putc
<1>2. CASE Render
  BY <1>2, StepRenderStart, StepDrawFrame, StepRenderRow, StepRenderCursor, StepMoveCursor DEF Render
<1>3. CASE Interrupt
  BY <1>3, StepPageKey DEF Interrupt
<1>4. CASE UNCHANGED vars
  <2>1. UNCHANGED <<logVars, gui_mode>> /\ UNCHANGED <<viewport_offset, screen, pc, loc, puts, resets, torn>>
    BY <1>4 DEF vars
  <2>2. TypeOK'
    BY <2>1 DEF ConsoleInv, TypeOK, logVars, max_viewport_offset, visible_height
  <2>3. Drawn'
    BY <2>1 DEF ConsoleInv, Drawn, ScreenRecord, Shown, Rows, Window, RowText, StartLine, Cursor, Clip,
                LogLine, CurrentLine, current_log_index, logVars, visible_height, visible_width
  <2> QED
    BY <2>2, <2>3 DEF ConsoleInv
<1> QED
  BY <1>1, <1>2, <1>3, <1>4, StepGrow, StepClear, StepSetGui DEF Next

LEMMA ConsoleInvariant == Spec => []ConsoleInv
  BY ConsoleStarts, ConsoleKeeps, PTL DEF Spec

-----------------------------------------------------------------------------
(* What the screen shows.                                                   *)

LEMMA LogType ==
  ASSUME TypeOK
  PROVE  /\ Log \in Seq(Line) /\ Len(Log) = log_count
         /\ \A i \in 1 .. log_count : Log[i] = LogLine(i - 1)
<1>1. \A i \in 1 .. log_count : LogLine(i - 1) \in Line
  <2> TAKE i \in 1 .. log_count
  <2>1. i - 1 \in Int
    BY Numbers
  <2> QED
    BY <2>1, LineAt
<1> QED
  BY <1>1, Numbers DEF Log

\* Where a drawing starts, for the offsets the viewport can have, and which
\* of the lines it takes: the last n of those above the viewport's end.
LEMMA ShownLines ==
  ASSUME TypeOK, NEW n, n = IF log_count < visible_height THEN log_count ELSE visible_height
  PROVE  /\ n \in Nat \ {0} /\ n <= visible_height
         /\ StartLine(viewport_offset) = log_count - viewport_offset - n
         /\ viewport_offset + n <= log_count
<1> DEFINE h == visible_height
           c == log_count
           o == viewport_offset
           s == StartLine(o)
<1>1. /\ h \in Nat \ {0} /\ c \in Nat \ {0} /\ o \in Nat
      /\ o <= IF c > h THEN c - h ELSE 0
      /\ s = IF c > h + o THEN c - h - o ELSE 0
      /\ n = IF c < h THEN c ELSE h
  BY Numbers, Sizes DEF StartLine, max_viewport_offset
<1> HIDE DEF h, c, o, s
<1>2. n \in Nat \ {0} /\ n <= h /\ s = c - o - n /\ o + n <= c
  BY ONLY <1>1
<1> QED
  BY <1>2 DEF h, c, o, s

\* The rows of a finished drawing, as lines of the log.
LEMMA RowsShown ==
  ASSUME TypeOK, NEW n, n = (IF log_count < visible_height THEN log_count ELSE visible_height),
         NEW v \in 0 .. visible_height - 1
  PROVE  LET shown == SubSeq(Log, log_count - viewport_offset - n + 1, log_count - viewport_offset)
         IN RowText(StartLine(viewport_offset), v) = IF v < n THEN Clip(shown[v + 1]) ELSE <<>>
<1> DEFINE c == log_count
           o == viewport_offset
           s == StartLine(o)
           a == c - o - n + 1
           b == c - o
           shown == SubSeq(Log, a, b)
           h == visible_height
<1>1. /\ n \in Nat \ {0} /\ n <= h /\ s = c - o - n /\ o + n <= c
      /\ c \in Nat \ {0} /\ o \in Nat /\ h \in Nat \ {0} /\ v \in 0 .. h - 1
      /\ n = IF c < h THEN c ELSE h
  BY ShownLines, Numbers, Sizes
<1>2. CASE v < n
  <2>1. /\ a \in 1 .. c + 1 /\ b \in 0 .. c /\ a <= b /\ v + 1 \in 1 .. b - a + 1
        /\ a + (v + 1) - 1 \in 1 .. c /\ a + (v + 1) - 1 = s + v + 1 /\ s + v < c
        /\ (s + v + 1) - 1 = s + v
    <3> HIDE DEF c, o, s, h
    <3> QED
      BY ONLY <1>1, <1>2
  <2>2. Log \in Seq(Line) /\ Len(Log) = c /\ Log[s + v + 1] = LogLine(s + v)
    <3>1. s + v + 1 \in 1 .. log_count /\ (s + v + 1) - 1 = s + v
      BY <2>1
    <3> HIDE DEF s
    <3> QED
      BY <3>1, LogType
  <2> HIDE DEF c, o, s, h, a, b
  <2>3. \A i \in a .. b : i \in 1 .. Len(Log)
    BY <1>1, <2>1, <2>2
  <2>4. shown[v + 1] = Log[a + (v + 1) - 1]
    BY <1>1, <2>1, <2>2, <2>3
  <2>5. RowText(s, v) = Clip(LogLine(s + v))
    BY <2>1 DEF RowText, c
  <2> HIDE DEF shown
  <2>6. RowText(s, v) = Clip(shown[v + 1])
    BY <2>1, <2>2, <2>4, <2>5
  <2> QED
    BY <1>2, <2>6 DEF shown, s, a, b, c, o
<1>3. CASE ~(v < n)
  <2>1. ~(s + v < c)
    <3> HIDE DEF c, o, s, h
    <3>1. n # h
      BY ONLY <1>1, <1>3
    <3>2. n = c
      BY ONLY <1>1, <3>1
    <3> QED
      BY ONLY <1>1, <1>3, <3>2
  <2>2. RowText(s, v) = <<>>
    BY <2>1 DEF RowText, c
  <2> QED
    BY <1>3, <2>2 DEF s, o
<1> QED
  BY <1>2, <1>3

\* Whenever output has come to rest and no page key tore the last drawing, the
\* screen shows consecutive lines of the log at the viewport's offset, with the
\* indicator of that offset and the cursor where the current line goes on (in
\* the corner above the end), whatever page keys came between the other steps
\* of the output and whatever the sizes.
THEOREM ScreenIsFaithful == Spec => []ScreenFaithful
<1>1. ConsoleInv => ScreenFaithful
  <2> SUFFICES ASSUME ConsoleInv
               PROVE  ScreenFaithful
    OBVIOUS
  <2>1. TypeOK /\ Drawn
    BY DEF ConsoleInv
  <2>2. ASSUME pc = "idle", ~torn, viewport_offset = 0
        PROVE  LET n == IF log_count < visible_height THEN log_count ELSE visible_height
                   k == Len(CurrentLine)
               IN /\ screen.cursor = <<n - 1, IF k < visible_width THEN k ELSE visible_width - 1>>
                  /\ screen.rows[n - 1] = Clip(CurrentLine)
    <3> DEFINE h == visible_height
               c == log_count
               r == (IF c < h THEN c ELSE h) - 1
               k == Len(CurrentLine)
               w == visible_width
               s == StartLine(0)
    <3>1. screen.cursor = <<r, IF k < w THEN k ELSE w - 1>> /\ Shown(h)
      BY <2>1, <2>2 DEF Drawn, Cursor
    <3>2. h \in Nat \ {0} /\ c \in Nat \ {0} /\ k \in Nat /\ w \in Nat /\ w > 3
          /\ s = (IF c > h + 0 THEN c - h - 0 ELSE 0)
          /\ r = (IF c < h THEN c ELSE h) - 1
      BY <2>1, Numbers, Sizes, Current DEF StartLine
    <3>4. screen.rows[r] = RowText(s, r)
      <4>1. r \in 0 .. h - 1
        <5> HIDE DEF h, c, r
        <5> QED
          BY <3>2
      <4> HIDE DEF r, h
      <4> QED
        BY <2>2, <3>1, <4>1 DEF Shown
    <3>5. s + r < c /\ s + r = c - 1
      <4> HIDE DEF h, c, r, k, w, s
      <4> QED
        BY <3>2
    <3>6. RowText(s, r) = Clip(LogLine(c - 1))
      <4> HIDE DEF s, r
      <4> QED
        BY <3>5 DEF RowText
    <3>7. LogLine(c - 1) = CurrentLine
      BY <2>1, Current
    <3> QED
      BY <3>1, <3>4, <3>6, <3>7
  <2>a. pc = "idle" /\ ~torn /\ viewport_offset # 0 => screen.cursor = <<visible_height - 1, 0>>
    BY <2>1 DEF Drawn, Cursor
  <2>3. ASSUME pc = "idle", ~torn,
               NEW n, n = (IF log_count < visible_height THEN log_count ELSE visible_height)
        PROVE  LET shown == SubSeq(Log, log_count - viewport_offset - n + 1,
                                   log_count - viewport_offset)
               IN /\ screen.read = viewport_offset
                  /\ \A v \in 0 .. visible_height - 1 :
                       screen.rows[v] = IF v < n THEN Clip(shown[v + 1]) ELSE <<>>
    BY <2>1, <2>3, RowsShown DEF Drawn, Shown
  <2> QED
    BY <2>1, <2>2, <2>a, <2>3 DEF ScreenFaithful, CursorFollows
<1> QED
  BY <1>1, ConsoleInvariant, PTL

\* PageUp by whole pages: the fewest presses that bring the line t lines above
\* the window into it overshoot by less than a page.
LEMMA Presses ==
  ASSUME NEW t \in Nat \ {0}, NEW p \in Nat \ {0}
  PROVE  \E k \in 1 .. t : k * p \in Int /\ k * p >= t /\ k * p <= t + p - 1
<1> DEFINE q == (t - 1) \div p
           r == (t - 1) % p
<1>1. t - 1 \in Int
  OBVIOUS
<1>2. t - 1 = p * q + r /\ q \in Int /\ r \in 0 .. p - 1
  BY <1>1, DivMod, ModRange
<1> HIDE DEF q, r
<1>3. p * q \in Int /\ (q <= -1 => p * q <= -p)
  BY <1>2, MulMonotone
<1>4. q >= 0
  BY <1>2, <1>3
<1>5. p * q >= q
  BY <1>2, <1>4
<1>6. (q + 1) * p = p * q + p
  BY <1>2
<1> DEFINE k == q + 1
<1>7. k \in 1 .. t /\ k * p \in Int /\ k * p >= t /\ k * p <= t + p - 1
  <2>1. k \in 1 .. t
    BY <1>2, <1>3, <1>4, <1>5
  <2> DEFINE m == p * q
             u == (q + 1) * p
  <2>2. m \in Int /\ u = m + p /\ t - 1 = m + r
    BY <1>2, <1>3, <1>6
  <2> HIDE DEF m, u
  <2>3. u \in Int /\ u >= t /\ u <= t + p - 1
    BY <1>2, <2>2
  <2> QED
    BY <2>1, <2>3 DEF u
<1> HIDE DEF k
<1> QED
  BY <1>7

\* Every line that is kept can be brought into the window with PageUp alone,
\* in either mode and however full the ring is: a page is no taller than the
\* window, so no line is stepped over, and the last press ends at the oldest.
THEOREM EveryLineReachable == Spec => []AllReachable
<1>1. ConsoleInv => AllReachable
  <2> SUFFICES ASSUME ConsoleInv, NEW i \in 0 .. log_count - 1
               PROVE  \E presses \in 0 .. LogLines :
                        LET up == presses * Page
                            offset == IF up > max_viewport_offset THEN max_viewport_offset ELSE up
                        IN StartLine(offset) <= i /\ i < StartLine(offset) + visible_height
    BY DEF AllReachable
  <2> DEFINE h == visible_height
             c == log_count
             p == Page
             m == max_viewport_offset
             Off(k) == IF k * p > m THEN m ELSE k * p
  <2>1. TypeOK
    BY DEF ConsoleInv
  <2>2. /\ h \in Nat \ {0} /\ c \in Nat \ {0} /\ p \in Nat \ {0} /\ p <= h
        /\ m = (IF c > h THEN c - h ELSE 0) /\ c <= LogLines /\ LogLines \in Nat
        /\ i \in 0 .. c - 1
    BY <2>1, Numbers, Sizes DEF max_viewport_offset
  <2>3. \A o : StartLine(o) = IF c > h + o THEN c - h - o ELSE 0
    BY DEF StartLine
  <2>4. SUFFICES \E k \in 0 .. LogLines : StartLine(Off(k)) <= i /\ i < StartLine(Off(k)) + h
    OBVIOUS
  <2> HIDE DEF h, c, p, m
  <2>5. CASE i >= c - h
    <3>1. 0 * p = 0 /\ 0 \in 0 .. LogLines
      BY <2>2
    <3>2. Off(0) = 0
      BY <2>2, <3>1
    <3>3. StartLine(0) <= i /\ i < StartLine(0) + h
      BY <2>2, <2>3, <2>5
    <3> QED
      BY <3>1, <3>2, <3>3
  <2>6. CASE i < c - h
    <3> DEFINE t == c - h - i
    <3>1. t \in Nat \ {0} /\ t <= LogLines /\ t = c - h - i
      BY <2>2, <2>6
    <3> HIDE DEF t
    <3>2. PICK k \in 1 .. t : k * p \in Int /\ k * p >= t /\ k * p <= t + p - 1
      BY <2>2, <3>1, Presses
    <3>3. k \in 0 .. LogLines
      BY <2>2, <3>1
    <3> DEFINE u == k * p
               o == Off(k)
    <3>4. u \in Int /\ u >= t /\ u <= t + p - 1 /\ o = IF u > m THEN m ELSE u
      BY <3>2
    <3> HIDE DEF u, o
    <3>5. /\ (IF c > h + o THEN c - h - o ELSE 0) <= i
          /\ i < (IF c > h + o THEN c - h - o ELSE 0) + h
      BY <2>2, <2>6, <3>1, <3>4
    <3>6. StartLine(o) <= i /\ i < StartLine(o) + h
      BY <2>3, <3>5
    <3> QED
      BY <3>3, <3>6 DEF o
  <2> QED
    BY <2>2, <2>5, <2>6
<1> QED
  BY <1>1, ConsoleInvariant, PTL

-----------------------------------------------------------------------------
(* The ring implements Scrollback.                                          *)

LogFacts ==
  /\ Log \in Seq(Line) /\ Len(Log) = log_count
  /\ \A i \in 1 .. log_count : Log[i] = log_lines[(log_start + (i - 1)) % LogLines]

LEMMA LogAlways == TypeOK => LogFacts
  BY LogType DEF LogFacts, LogLine

LEMMA LogBoth ==
  ASSUME TypeOK, TypeOK'
  PROVE  LogFacts /\ LogFacts'
<1>1. LogFacts
  BY LogAlways
<1>2. (TypeOK => LogFacts)'
  BY LogAlways, PTL
<1> QED
  BY <1>1, <1>2

\* Sequences that agree but for their last elements have equal fronts.
LEMMA SameFront ==
  ASSUME NEW S, NEW a \in Seq(S), NEW b \in Seq(S), Len(a) = Len(b), a # <<>>,
         \A i \in 1 .. Len(a) - 1 : a[i] = b[i]
  PROVE  SubSeq(a, 1, Len(a) - 1) = SubSeq(b, 1, Len(b) - 1)
<1> DEFINE x == SubSeq(a, 1, Len(a) - 1)
           y == SubSeq(b, 1, Len(b) - 1)
           n == Len(a) - 1
<1>1. b # <<>>
  OBVIOUS
<1>2. x \in Seq(S) /\ Len(x) = n /\ \A i \in 1 .. n : x[i] = a[i]
  BY Shortened
<1>3. y \in Seq(S) /\ Len(y) = n /\ \A i \in 1 .. n : y[i] = b[i]
  BY <1>1, Shortened
<1>4. \A i \in 1 .. n : a[i] = b[i]
  OBVIOUS
<1> HIDE DEF x, y, n
<1>5. x = y
  BY <1>2, <1>3, <1>4, SeqEqual
<1> QED
  BY <1>5 DEF x, y

\* Two places of the ring that hold different lines of the log differ.
LEMMA PlacesDiffer ==
  ASSUME NEW s \in Nat, NEW i \in 0 .. LogLines - 1, NEW j \in 0 .. LogLines - 1, i # j
  PROVE  (s + i) % LogLines # (s + j) % LogLines
  BY Sizes, ModApart

\* An edit changes the last line of the log only.
LEMMA LogEdited ==
  ASSUME ConsoleInv, NEW line, Edits(line)
  PROVE  /\ Log \in Seq(Line) /\ Log' \in Seq(Line) /\ Len(Log) \in Nat \ {0}
         /\ Len(Log') = Len(Log) /\ Log' # <<>>
         /\ History!Front(Log') = History!Front(Log)
         /\ Log[Len(Log)] = CurrentLine /\ Log'[Len(Log)] = line
<1>1. TypeOK /\ TypeOK'
  BY EditKeeps DEF ConsoleInv
<1>2. LogFacts /\ LogFacts'
  BY <1>1, LogBoth
<1>3. UNCHANGED <<log_start, log_count>> /\ log_lines' = [log_lines EXCEPT ![current_log_index] = line]
  BY DEF Edits
<1> DEFINE c == log_count
           s == log_start
           At(i) == (s + (i - 1)) % LogLines
<1>4. c \in 1 .. LogLines /\ s \in Nat /\ LogLines \in Nat \ {0} /\ current_log_index = At(c)
      /\ current_log_index \in 0 .. LogLines - 1
  BY <1>1, Numbers, Sizes, Current
<1>5. /\ Log \in Seq(Line) /\ Len(Log) = c /\ Log' \in Seq(Line) /\ Len(Log') = c
      /\ \A i \in 1 .. c : Log[i] = log_lines[At(i)] /\ Log'[i] = log_lines'[At(i)]
  BY <1>2, <1>3 DEF LogFacts
<1>6. log_lines \in [0 .. LogLines - 1 -> Line]
  BY <1>1 DEF TypeOK, Line
<1>7. CurrentLine = log_lines[At(c)] /\ c \in 1 .. c
  BY <1>4 DEF CurrentLine
<1>8. \A i \in 1 .. c - 1 : At(i) # At(c) /\ At(i) \in 0 .. LogLines - 1 /\ i \in 1 .. c
  <2> TAKE i \in 1 .. c - 1
  <2> HIDE DEF c, s
  <2>1. i - 1 \in 0 .. LogLines - 1 /\ c - 1 \in 0 .. LogLines - 1 /\ i - 1 # c - 1
        /\ s + (i - 1) \in Int /\ i \in 1 .. c
    BY <1>4
  <2> QED
    BY <1>4, <2>1, PlacesDiffer, ModRange
<1> HIDE DEF c, s, At
<1>9. \A i \in 1 .. c - 1 : Log'[i] = Log[i]
  BY <1>3, <1>4, <1>5, <1>6, <1>8
<1>10. Log'[c] = line /\ Log[c] = CurrentLine
  BY <1>3, <1>4, <1>5, <1>6, <1>7
<1>11. Log # <<>> /\ Log' # <<>> /\ c \in Nat \ {0}
  BY <1>4, <1>5
<1>12. SubSeq(Log', 1, Len(Log') - 1) = SubSeq(Log, 1, Len(Log) - 1)
  BY <1>5, <1>9, <1>11, SameFront
<1> QED
  BY <1>5, <1>10, <1>11, <1>12 DEF History!Front

\* Such an edit is one that Scrollback allows.
EditOf(line) ==
  \/ line = <<>>
  \/ line = History!Front(CurrentLine)
  \/ History!Front(line) \in {CurrentLine, History!Front(CurrentLine)}
  \/ line = CurrentLine

LEMMA EditIsEdit ==
  ASSUME ConsoleInv, NEW line, Edits(line), EditOf(line)
  PROVE  History!EditLast
<1>1. viewport_offset' \in {viewport_offset, 0}
  BY DEF Edits
<1> QED
  BY <1>1, LogEdited DEF History!EditLast, EditOf

LEMMA PutIsEdit ==
  ASSUME ConsoleInv, console_putc
  PROVE  History!EditLast
<1>1. TypeOK
  BY DEF ConsoleInv
<1>2. CASE PutNewline
  BY <1>2, PutNewlineEdits, EditIsEdit DEF EditOf
<1>3. CASE PutReturn
  BY <1>3, PutReturnEdits, EditIsEdit DEF EditOf
<1>4. CASE PutBackspace
  BY <1>4, PutBackspaceEdits, EditIsEdit DEF EditOf, History!Front
<1>5. CASE PutChar
  <2>1. CASE Edits(CurrentLine)
    BY <2>1, EditIsEdit DEF EditOf
  <2>2. CASE Len(CurrentLine) = visible_width - 1 /\ Edits(Marked(CurrentLine))
    <3> DEFINE a == CurrentLine
               b == Marked(CurrentLine)
    <3>1. a \in Line /\ b \in Line /\ Len(b) = Len(a) /\ Len(a) \in Nat \ {0}
          /\ \A i \in 1 .. Len(a) - 1 : b[i] = a[i]
      BY <1>1, <2>2, Current, MarkedLine
    <3>2. History!Front(b) = History!Front(a)
      <4> HIDE DEF a, b
      <4>1. a # <<>>
        BY <3>1 DEF Line
      <4> QED
        BY <3>1, <4>1, SameFront DEF History!Front, Line
    <3> QED
      BY <2>2, <3>2, EditIsEdit DEF EditOf
  <2>3. CASE Edits(Append(CurrentLine, puts + 1))
    <3> DEFINE a == CurrentLine
               d == puts + 1
               b == Append(a, d)
    <3>1. a \in Line /\ d \in Char
      <4>1. d \in Nat /\ d <= MaxPuts
        BY <1>1, <1>5, Numbers, Sizes DEF PutChar, CanPut
      <4> QED
        BY <1>1, <4>1, Current, Sizes DEF Char, Backslash
    <3> HIDE DEF a, d
    <3>2. History!Front(b) = a
      <4>1. b \in Seq(Char) /\ b # <<>> /\ a \in Seq(Char) /\ Len(b) - 1 = Len(a)
            /\ \A i \in 1 .. Len(a) : b[i] = a[i]
        <5>1. b \in Seq(Char) /\ a \in Seq(Char) /\ Len(a) \in Nat /\ Len(b) = Len(a) + 1
              /\ \A i \in 1 .. Len(a) : b[i] = a[i]
          BY <3>1 DEF Line
        <5> HIDE DEF b
        <5>2. b # <<>>
          <6>1. Len(b) # 0
            BY <5>1
          <6> QED
            BY <6>1
        <5> QED
          BY <5>1, <5>2
      <4> HIDE DEF b
      <4> DEFINE f == SubSeq(b, 1, Len(b) - 1)
      <4>2. f \in Seq(Char) /\ Len(f) = Len(a) /\ \A i \in 1 .. Len(a) : f[i] = a[i]
        BY <4>1, Shortened
      <4> HIDE DEF f
      <4>3. f = a
        BY <4>1, <4>2, SeqEqual
      <4> QED
        BY <4>3 DEF History!Front, f
    <3> QED
      BY <2>3, <3>2, EditIsEdit DEF EditOf, a, d
  <2> QED
    BY <1>5, <2>1, <2>2, <2>3, PutCharEdits
<1> QED
  BY <1>2, <1>3, <1>4, <1>5 DEF console_putc

LEMMA GrowIsNewLine ==
  ASSUME ConsoleInv, Grow
  PROVE  History!NewLine
<1>1. TypeOK /\ TypeOK'
  BY StepGrow DEF ConsoleInv
<1>2. LogFacts /\ LogFacts'
  BY <1>1, LogBoth
<1> DEFINE c == log_count
           s == log_start
           d == log_count'
           t == log_start'
           x == (t + (d - 1)) % LogLines
           line == IF loc.put = NoChar THEN <<>> ELSE <<loc.put>>
<1>3. /\ c \in 1 .. LogLines /\ s \in Nat /\ LogLines \in Nat \ {0} /\ d \in 1 .. LogLines
      /\ t \in 0 .. LogLines - 1 /\ t \in Nat
  <2>1. c \in 1 .. LogLines /\ s \in Nat /\ LogLines \in Nat \ {0}
    BY <1>1, Numbers, Sizes
  <2>2. d \in 1 .. LogLines /\ t \in 0 .. LogLines - 1
    BY <1>1 DEF TypeOK
  <2> QED
    BY <2>1, <2>2
<1>4. /\ t = NewStart /\ d = (IF c < LogLines THEN c + 1 ELSE c)
      /\ log_lines' = [log_lines EXCEPT ![x] = line] /\ UNCHANGED viewport_offset
  <2>1. log_start' + log_count' - 1 = t + (d - 1)
    BY <1>3
  <2> QED
    BY <2>1 DEF Grow
<1>5. log_lines \in [0 .. LogLines - 1 -> Line]
  BY <1>1 DEF TypeOK, Line
<1>6. /\ Log \in Seq(Line) /\ Len(Log) = c /\ Log' \in Seq(Line) /\ Len(Log') = d
      /\ \A i \in 1 .. c : Log[i] = log_lines[(s + (i - 1)) % LogLines]
      /\ \A i \in 1 .. d : Log'[i] = log_lines'[(t + (i - 1)) % LogLines]
  BY <1>2 DEF LogFacts
<1> DEFINE f == SubSeq(Log', 1, Len(Log') - 1)
<1>7. f \in Seq(Line) /\ Len(f) = d - 1 /\ \A i \in 1 .. d - 1 : f[i] = Log'[i]
  <2>1. Log' # <<>>
    BY <1>3, <1>6
  <2> QED
    BY <1>6, <2>1, Shortened
<1> HIDE DEF c, s, d, t, line, f
<1>8. \A i \in 1 .. d - 1 : f[i] = log_lines[(t + (i - 1)) % LogLines]
  <2> TAKE i \in 1 .. d - 1
  <2>1. i - 1 \in 0 .. LogLines - 1 /\ d - 1 \in 0 .. LogLines - 1 /\ i - 1 # d - 1
        /\ t + (i - 1) \in Int /\ t + (d - 1) \in Int /\ i \in 1 .. d
    BY <1>3
  <2>2. (t + (i - 1)) % LogLines # x /\ (t + (i - 1)) % LogLines \in 0 .. LogLines - 1
        /\ x \in 0 .. LogLines - 1
    BY <1>3, <2>1, PlacesDiffer, ModRange
  <2> HIDE DEF x
  <2> QED
    BY <1>4, <1>5, <1>6, <1>7, <2>1, <2>2
<1>9. CASE c < LogLines
  <2>1. d - 1 = c /\ t = s
    BY <1>3, <1>4, <1>9 DEF NewStart, c, s
  <2>2. Len(f) = Len(Log) /\ \A i \in 1 .. Len(Log) : f[i] = Log[i]
    BY <1>6, <1>7, <1>8, <2>1
  <2>3. f = Log
    BY ONLY <1>6, <1>7, <2>2, SeqEqual
  <2> QED
    BY <1>4, <1>6, <1>9, <2>3 DEF History!NewLine, History!Front, f
<1>10. CASE ~(c < LogLines)
  <2>1. c = LogLines /\ d = c /\ t = (s + 1) % LogLines
    BY <1>3, <1>4, <1>10 DEF NewStart, c, s
  <2>2. Tail(Log) \in Seq(Line) /\ Len(Tail(Log)) = c - 1
        /\ \A i \in 1 .. c - 1 : Tail(Log)[i] = Log[i + 1]
    <3>1. Log # <<>>
      BY <1>3, <1>6
    <3> QED
      BY <1>6, <3>1
  <2>3. \A i \in 1 .. c - 1 : Tail(Log)[i] = f[i]
    <3> TAKE i \in 1 .. c - 1
    <3>1. s + 1 \in Int /\ i - 1 \in Int /\ (s + 1) + (i - 1) = s + ((i + 1) - 1) /\ i + 1 \in 1 .. c
          /\ i \in 1 .. d - 1
      BY <1>3, <2>1
    <3>2. (t + (i - 1)) % LogLines = (s + ((i + 1) - 1)) % LogLines
      <4>1. (((s + 1) % LogLines) + (i - 1)) % LogLines = ((s + 1) + (i - 1)) % LogLines
        BY <1>3, <3>1, ModAdd
      <4> QED
        BY <2>1, <3>1, <4>1
    <3> QED
      BY <1>6, <1>8, <2>2, <3>1, <3>2
  <2>4. f = Tail(Log)
    BY <1>7, <2>1, <2>2, <2>3, SeqEqual
  <2> QED
    BY <1>4, <1>6, <1>10, <2>4 DEF History!NewLine, History!Front, f
<1> QED
  BY <1>9, <1>10

LEMMA LogUnchanged ==
  ASSUME UNCHANGED logVars
  PROVE  Log' = Log
  BY DEF Log, LogLine, logVars

LEMMA ClearIsClear ==
  ASSUME ConsoleInv, console_clear
  PROVE  History!Clear
<1>1. log_lines' = [i \in 0 .. LogLines - 1 |-> <<>>] /\ log_start' = 0 /\ log_count' = 1
      /\ viewport_offset' = 0
  BY DEF console_clear
<1>2. TypeOK /\ TypeOK'
  BY StepClear DEF ConsoleInv
<1>3. Log' \in Seq(Line) /\ Len(Log') = 1
      /\ \A i \in 1 .. 1 : Log'[i] = log_lines'[(0 + (i - 1)) % LogLines]
  BY <1>1, <1>2, LogBoth DEF LogFacts
<1>4. Log'[1] = <<>>
  <2>1. 1 \in 1 .. 1 /\ 0 + (1 - 1) \in Int
    OBVIOUS
  <2>2. (0 + (1 - 1)) % LogLines \in 0 .. LogLines - 1
    BY <2>1, Sizes, ModRange
  <2> QED
    BY <1>1, <1>3, <2>1, <2>2
<1> DEFINE e == << <<>> >>
           g == Log'
<1>5. e \in Seq(Line) /\ Len(e) = 1 /\ e[1] = <<>>
  BY DEF Line
<1>6. g \in Seq(Line) /\ Len(g) = 1 /\ g[1] = <<>>
  BY <1>3, <1>4
<1> HIDE DEF e, g
<1>7. g = e
  BY <1>5, <1>6, SeqEqual
<1> QED
  BY <1>1, <1>7 DEF History!Clear, e, g

\* The ring of lines, with its wrapping, its start index and page keys between
\* any two steps, implements the history of lines that Scrollback specifies:
\* every step of the console is one of the history's, or leaves it alone.
THEOREM ImplementsScrollback == Spec => KeepsHistory
<1>1. Init => History!Init
  <2> SUFFICES ASSUME Init
               PROVE  Log = << <<>> >> /\ viewport_offset = 0
    BY DEF History!Init
  <2>1. TypeOK
    BY ConsoleStarts DEF ConsoleInv
  <2>2. log_lines = [i \in 0 .. LogLines - 1 |-> <<>>] /\ log_start = 0 /\ log_count = 1
        /\ viewport_offset = 0
    BY DEF Init
  <2>3. Log \in Seq(Line) /\ Len(Log) = 1
        /\ \A i \in 1 .. 1 : Log[i] = log_lines[(0 + (i - 1)) % LogLines]
    BY <2>1, <2>2, LogAlways DEF LogFacts
  <2>4. Log[1] = <<>>
    <3>1. 1 \in 1 .. 1 /\ 0 + (1 - 1) \in Int
      OBVIOUS
    <3>2. (0 + (1 - 1)) % LogLines \in 0 .. LogLines - 1
      BY <3>1, Sizes, ModRange
    <3> QED
      BY <2>2, <2>3, <3>1, <3>2
  <2> DEFINE e == << <<>> >>
             g == Log
  <2>5. e \in Seq(Line) /\ Len(e) = 1 /\ e[1] = <<>>
    BY DEF Line
  <2>6. g \in Seq(Line) /\ Len(g) = 1 /\ g[1] = <<>>
    BY <2>3, <2>4
  <2> HIDE DEF e, g
  <2>7. g = e
    BY <2>5, <2>6, SeqEqual
  <2> QED
    BY <2>2, <2>7 DEF e, g
<1>2. ConsoleInv /\ [Next]_vars => [History!Next]_<<Log, viewport_offset>>
  <2> SUFFICES ASSUME ConsoleInv, [Next]_vars
               PROVE  History!Next \/ UNCHANGED <<Log, viewport_offset>>
    OBVIOUS
  <2>1. CASE console_putc
    BY <2>1, PutIsEdit DEF History!Next
  <2>2. CASE Grow
    BY <2>2, GrowIsNewLine DEF History!Next
  <2>3. CASE Render
    <3>1. UNCHANGED logVars /\ UNCHANGED viewport_offset
      BY <2>3 DEF Render, RenderStart, DrawFrame, RenderRow, RenderCursor, move_cursor
    <3> QED
      BY <3>1, LogUnchanged
  <2>4. CASE console_clear
    BY <2>4, ClearIsClear DEF History!Next
  <2>5. ASSUME NEW enabled \in BOOLEAN, console_set_gui(enabled)
        PROVE  History!Next
    <3>1. UNCHANGED logVars /\ viewport_offset' = 0
      BY <2>5 DEF console_set_gui
    <3>2. Log' = Log
      BY <3>1, LogUnchanged
    <3> QED
      BY <3>1, <3>2 DEF History!Next, History!EditLast
  <2>6. ASSUME NEW key \in {"pageup", "pagedown", "home", "end"}, PageKey(key)
        PROVE  History!Next
    <3>1. TypeOK
      BY DEF ConsoleInv
    <3>2. UNCHANGED logVars /\ viewport_offset' \in 0 .. max_viewport_offset
      BY <2>6, <3>1, ScrollRange DEF PageKey
    <3>3. Len(Log) = log_count
      BY <3>1, LogType
    <3>4. viewport_offset' \in 0 .. log_count - 1
      <4> DEFINE m == max_viewport_offset
                 c == log_count
      <4>1. m \in Nat /\ m < c /\ c \in Nat \ {0}
        BY <3>1, Numbers
      <4>2. viewport_offset' \in 0 .. m
        BY <3>2
      <4> HIDE DEF m, c
      <4>3. viewport_offset' \in 0 .. c - 1
        BY <4>1, <4>2
      <4> QED
        BY <4>3 DEF c
    <3> QED
      BY <3>2, <3>3, <3>4, LogUnchanged DEF History!Next, History!Look
  <2>7. CASE UNCHANGED vars
    BY <2>7, LogUnchanged DEF vars
  <2> QED
    BY <2>1, <2>2, <2>3, <2>4, <2>5, <2>6, <2>7 DEF Next, Interrupt
<1> QED
  BY <1>1, <1>2, ConsoleInvariant, PTL DEF Spec, KeepsHistory, History!Spec

-----------------------------------------------------------------------------
(* The keyboard.                                                            *)

Buffers == [ring : [0 .. RingSize - 1 -> Chars], head : 0 .. Wrap - 1, overrun : BOOLEAN]
Codes == [key : Sides \cup {"char", "prefix", "page"}, up : BOOLEAN, n : 0 .. MaxKeys]

-----------------------------------------------------------------------------
(* The inductive invariant, as relations between the values of variables.   *)

\* The i-th character out of the decoder: read (r), among the u in ring g,
\* or in queue q.
CharAt(r, g, u, q, i) ==
  IF i <= Len(r) THEN r[i]
  ELSE IF i <= Len(r) + u THEN g[(i - 1) % RingSize]
  ELSE q[i - (Len(r) + u)]

\* The characters have different numbers, none above n.
Once(r, g, u, q, n) ==
  /\ \A i \in 1 .. n : CharAt(r, g, u, q, i).n \in 1 .. n
  /\ \A i, j \in 1 .. n : CharAt(r, g, u, q, i).n = CharAt(r, g, u, q, j).n => i = j

\* They are the first n pressed.
InOrder(r, g, u, q, n, pr) == \A i \in 1 .. n : CharAt(r, g, u, q, i) = pr[i]

\* Port p holds the characters above the n-th of m, in order.
Waiting(p, n, m) ==
  /\ \A i \in 1 .. Len(p) : p[i].key = "char" => p[i].n \in n + 1 .. m
  /\ \A k \in n + 1 .. m : \E i \in 1 .. Len(p) : p[i].key = "char" /\ p[i].n = k
  /\ \A i, j \in 1 .. Len(p) : p[i].key = "char" /\ p[j].key = "char" /\ i < j => p[i].n < p[j].n

\* The shift keys after byte b, when they were s before it.
After(s, b) ==
  IF b.key \in Sides THEN (IF b.up THEN s \ {b.key} ELSE s \cup {b.key}) ELSE s

\* f is what the decoder's shift state will be along port p.
Along(f, p, sh, h, pr) ==
  /\ f[0] = sh /\ f[Len(p)] = h
  /\ \A i \in 1 .. Len(p) :
       /\ f[i] = After(f[i - 1], p[i])
       /\ p[i].key = "char" => p[i].n \in 1 .. Len(pr) /\ pr[p[i].n].shifted = (f[i - 1] # {})

Shifts(p, sh, h, pr) ==
  \E f \in [0 .. Len(p) -> SUBSET Sides] : Along(f, p, sh, h, pr)

Total == Len(read) + Unread(buf) + Len(queue)

Delivered ==
  /\ Oldest = Len(read) % Wrap
  /\ taking => Unread(buf) # 0
  /\ ~buf.overrun =>
       /\ Unread(buf) <= RingSize
       /\ Once(read, buf.ring, Unread(buf), queue, Total)
       /\ ~overtaken => InOrder(read, buf.ring, Unread(buf), queue, Total, pressed)

Typing ==
  /\ pressed \in Seq(Chars) /\ Len(pressed) <= MaxKeys
  /\ \A i \in 1 .. Len(pressed) : pressed[i].n = i
  /\ Total <= Len(pressed) /\ Len(pressed) - Len(read) <= MaxWaiting
  /\ Waiting(port, Total, Len(pressed))
  /\ Shifts(port, shift, held, pressed)
  /\ irq => port # <<>>
  /\ overtaken \in BOOLEAN

KeyInv == KeyTypeOK /\ Delivered /\ Typing

-----------------------------------------------------------------------------
(* The counters of the ring.                                                *)

LEMMA KeySizes ==
  /\ QCap \in Nat \ {0} /\ RingSize \in Nat \ {0} /\ Wrap \in Nat \ {0}
  /\ Wrap % RingSize = 0 /\ MaxWaiting \in Nat /\ MaxWaiting < Wrap
  /\ MaxKeys \in Nat
  BY KeyboardAssumption

\* A counter moved on by d, and the distance from one to another.
Ahead(c, d) == (c + d) % Wrap
Distance(h, t) == (h - t) % Wrap

LEMMA Counters ==
  ASSUME NEW h \in 0 .. Wrap - 1, NEW t \in 0 .. Wrap - 1
  PROVE  /\ Distance(h, t) \in 0 .. Wrap - 1
         /\ Ahead(t, Distance(h, t)) = h
         /\ Distance(h, t) = 0 <=> h = t
         /\ Ahead(h, 1) \in 0 .. Wrap - 1 /\ Ahead(t, 1) \in 0 .. Wrap - 1
         /\ Distance(h, t) + 1 < Wrap => Distance(Ahead(h, 1), t) = Distance(h, t) + 1
         /\ h # t => Distance(h, Ahead(t, 1)) = Distance(h, t) - 1
<1>0. Wrap \in Nat \ {0}
  BY KeySizes
<1>1. \A a \in 0 .. Wrap - 1, b \in 0 .. Wrap - 1 :
        Distance(a, b) = IF b <= a THEN a - b ELSE a - b + Wrap
  <2> TAKE a \in 0 .. Wrap - 1, b \in 0 .. Wrap - 1
  <2> DEFINE d == a - b
             r == IF b <= a THEN a - b ELSE a - b + Wrap
             q == IF b <= a THEN 0 ELSE -1
  <2>1. d \in Int /\ r \in 0 .. Wrap - 1 /\ q \in Int
    BY <1>0
  <2>2. d = Wrap * q + r
    BY <1>0
  <2> HIDE DEF d, r, q
  <2>3. d % Wrap = r
    BY ONLY <1>0, <2>1, <2>2, ModUnique
  <2> QED
    BY <2>3 DEF Distance, d, r
<1>2. \A a \in 0 .. Wrap - 1 : Ahead(a, 1) = IF a + 1 < Wrap THEN a + 1 ELSE 0
  <2> TAKE a \in 0 .. Wrap - 1
  <2> DEFINE c == a + 1
  <2>1. c \in 0 .. 2 * Wrap - 1 /\ c <= Wrap
    BY <1>0
  <2> HIDE DEF c
  <2>2. c % Wrap = IF c < Wrap THEN c ELSE c - Wrap
    BY ONLY <1>0, <2>1, ModStep
  <2>3. Ahead(a, 1) = IF c < Wrap THEN c ELSE c - Wrap
    BY <2>2 DEF Ahead, c
  <2> QED
    BY <1>0, <2>1, <2>3 DEF c
<1> DEFINE k == Ahead(h, 1)
           l == Ahead(t, 1)
           x == Distance(h, t)
           y == Distance(k, t)
           z == Distance(h, l)
<1>3. k = (IF h + 1 < Wrap THEN h + 1 ELSE 0) /\ l = (IF t + 1 < Wrap THEN t + 1 ELSE 0)
  BY <1>2
<1> HIDE DEF k, l
<1>4. k \in 0 .. Wrap - 1 /\ l \in 0 .. Wrap - 1
  BY <1>0, <1>3
<1>5. x = (IF t <= h THEN h - t ELSE h - t + Wrap) /\ y = (IF t <= k THEN k - t ELSE k - t + Wrap)
      /\ z = (IF l <= h THEN h - l ELSE h - l + Wrap)
  BY <1>0, <1>1, <1>4
<1> HIDE DEF x, y, z
<1>6. /\ x \in 0 .. Wrap - 1 /\ (x = 0 <=> h = t)
      /\ (x + 1 < Wrap => y = x + 1) /\ (h # t => z = x - 1)
  BY <1>0, <1>3, <1>5
<1>7. Ahead(t, x) = h
  <2> DEFINE a == t + x
  <2>1. a \in 0 .. 2 * Wrap - 1 /\ (IF a < Wrap THEN a ELSE a - Wrap) = h
    BY <1>0, <1>5
  <2> HIDE DEF a
  <2>2. a % Wrap = IF a < Wrap THEN a ELSE a - Wrap
    BY ONLY <1>0, <2>1, ModStep
  <2> QED
    BY <2>1, <2>2 DEF a, Ahead
<1> QED
  BY <1>4, <1>6, <1>7 DEF k, l, x, y, z

\* A counter that wraps still names the slot of what it counts.
LEMMA SlotOf ==
  ASSUME NEW c \in Nat, NEW j \in Nat
  PROVE  ((c % Wrap) + j) % RingSize = (c + j) % RingSize
<1> DEFINE w == Wrap
           n == RingSize
           t == c % w
           q == c \div w
           m == w \div n
           z == w % n
           k == m * q
<1>1. w \in Nat \ {0} /\ n \in Nat \ {0} /\ z = 0 /\ w \in Int /\ c \in Int
  BY KeySizes
<1>2. c = w * q + t /\ q \in Int /\ t \in 0 .. w - 1
  <2> HIDE DEF w
  <2> QED
    BY <1>1, DivMod, ModRange
<1>3. w = n * m + z /\ m \in Int
  <2> HIDE DEF w, n
  <2> QED
    BY <1>1, DivMod
<1> HIDE DEF t, q, m, z, w, n
<1>4. n * m = w /\ k \in Int
  BY <1>1, <1>2, <1>3
<1>5. w * q = n * (m * q)
  BY ONLY <1>1, <1>2, <1>3, <1>4
<1> DEFINE x == n * k
           a == t + j
<1>6. c + j = a + x /\ a \in Int
  BY ONLY <1>1, <1>2, <1>5, j \in Nat DEF x, a, k
<1> HIDE DEF k, a
<1>7. (a + n * k) % n = a % n
  BY ONLY <1>1, <1>4, <1>6, ModMultiple
<1>8. (c + j) % n = (t + j) % n
  BY ONLY <1>6, <1>7 DEF x, a
<1> QED
  BY <1>8 DEF t, n, w

-----------------------------------------------------------------------------
(* keyboard_buffer_put and keyboard_flush_now.                              *)

\* One character into the ring of r characters read.
LEMMA PutOne ==
  ASSUME NEW b \in Buffers, NEW ch \in Chars, NEW r \in Nat, Oldest = r % Wrap, Unread(b) + 1 < Wrap
  PROVE  LET c == keyboard_buffer_put(b, ch)
         IN /\ c \in Buffers /\ Unread(c) = Unread(b) + 1
            /\ c.overrun <=> b.overrun \/ Unread(b) >= RingSize
            /\ Unread(b) < RingSize =>
                 /\ c.ring[(r + Unread(b)) % RingSize] = ch
                 /\ \A i \in r + 1 .. r + Unread(b) :
                      c.ring[(i - 1) % RingSize] = b.ring[(i - 1) % RingSize]
<1> DEFINE c == keyboard_buffer_put(b, ch)
           u == Unread(b)
           h == b.head
           g == b.ring
           k == h % RingSize
           m == (h + 1) % Wrap
           o == (b.overrun \/ Unread(b) >= RingSize)
<1>1. c = [ring |-> [g EXCEPT ![k] = ch], head |-> m, overrun |-> o]
  BY DEF keyboard_buffer_put
<1>2. h \in 0 .. Wrap - 1 /\ g \in [0 .. RingSize - 1 -> Chars] /\ o \in BOOLEAN
  BY DEF Buffers
<1>3. Oldest \in 0 .. Wrap - 1 /\ k \in 0 .. RingSize - 1 /\ m \in 0 .. Wrap - 1
  <2>1. h \in Int /\ h + 1 \in Int /\ r \in Int
    BY <1>2, KeySizes
  <2> QED
    BY <2>1, ModRange, KeySizes
<1>4. u = Distance(h, Oldest) /\ m = Ahead(h, 1)
  BY DEF Unread, Distance, Ahead
<1> HIDE DEF u, h, g, k, m, o
<1>5. c \in Buffers /\ c.head = m /\ c.ring = [g EXCEPT ![k] = ch] /\ c.overrun = o
  <2>1. [g EXCEPT ![k] = ch] \in [0 .. RingSize - 1 -> Chars]
    BY <1>2, <1>3
  <2> QED
    BY <1>1, <1>2, <1>3, <2>1 DEF Buffers
<1>6. Unread(c) = u + 1 /\ u \in 0 .. Wrap - 1 /\ Ahead(Oldest, u) = h
  <2>1. u \in 0 .. Wrap - 1 /\ Ahead(Oldest, u) = h /\ (u + 1 < Wrap => Distance(m, Oldest) = u + 1)
    BY ONLY <1>2, <1>3, <1>4, Counters
  <2>2. u + 1 < Wrap
    BY DEF u
  <2>3. Unread(c) = Distance(m, Oldest)
    BY <1>5 DEF Unread, Distance
  <2> QED
    BY <2>1, <2>2, <2>3
<1>7. k = (r + u) % RingSize
  <2>1. h = (Oldest + u) % Wrap
    BY <1>6 DEF Ahead
  <2>2. h = (r + u) % Wrap
    <3>1. r \in Int /\ u \in Int
      BY <1>6, KeySizes
    <3> QED
      BY <2>1, <3>1, ModAdd, KeySizes
  <2>3. r + u \in Nat /\ 0 \in Nat
    BY <1>6, KeySizes
  <2>4. (h + 0) % RingSize = (r + u + 0) % RingSize
    BY <2>2, <2>3, SlotOf
  <2> QED
    BY <1>2, <2>3, <2>4, KeySizes DEF k
<1>8. ASSUME u < RingSize, NEW i \in r + 1 .. r + u
      PROVE  c.ring[(i - 1) % RingSize] = g[(i - 1) % RingSize]
  <2> DEFINE j == i - 1 - r
  <2>1. j \in 0 .. RingSize - 1 /\ u \in 0 .. RingSize - 1 /\ j # u /\ r + j = i - 1 /\ i - 1 \in Int
    BY <1>6, <1>8, KeySizes
  <2>2. (r + j) % RingSize # (r + u) % RingSize
    <3> HIDE DEF j
    <3> QED
      BY <2>1, ModApart, KeySizes
  <2>3. (i - 1) % RingSize \in 0 .. RingSize - 1 /\ (i - 1) % RingSize # k
    BY <1>7, <2>1, <2>2, ModRange, KeySizes
  <2> QED
    BY <1>2, <1>3, <1>5, <2>3
<1>9. c.ring[(r + u) % RingSize] = ch
  BY <1>2, <1>3, <1>5, <1>7
<1> QED
  BY <1>5, <1>6, <1>8, <1>9 DEF u, g, o

LEMMA PutType ==
  ASSUME NEW b \in Buffers, NEW ch \in Chars
  PROVE  keyboard_buffer_put(b, ch) \in Buffers
<1> DEFINE h == b.head
           g == b.ring
           k == h % RingSize
           m == (h + 1) % Wrap
           o == (b.overrun \/ Unread(b) >= RingSize)
<1>1. keyboard_buffer_put(b, ch) = [ring |-> [g EXCEPT ![k] = ch], head |-> m, overrun |-> o]
  BY DEF keyboard_buffer_put
<1>2. h \in 0 .. Wrap - 1 /\ g \in [0 .. RingSize - 1 -> Chars] /\ o \in BOOLEAN
  BY DEF Buffers
<1>3. k \in 0 .. RingSize - 1 /\ m \in 0 .. Wrap - 1
  <2>1. h \in Int /\ h + 1 \in Int
    BY <1>2, KeySizes
  <2> QED
    BY <2>1, ModRange, KeySizes
<1> HIDE DEF h, g, k, m, o
<1>4. [g EXCEPT ![k] = ch] \in [0 .. RingSize - 1 -> Chars]
  BY <1>2, <1>3
<1> QED
  BY <1>1, <1>2, <1>3, <1>4 DEF Buffers

\* The flush puts the queue into the ring character by character.
LEMMA FlushSteps ==
  ASSUME buf \in Buffers, queue \in Seq(Chars)
  PROVE  \E f \in [0 .. Len(queue) -> Buffers] :
           /\ f[0] = buf
           /\ \A i \in 1 .. Len(queue) : f[i] = keyboard_buffer_put(f[i - 1], queue[i])
           /\ keyboard_flush_now = f[Len(queue)]
<1> DEFINE k == Len(queue)
           h == [p \in Buffers \X (1 .. k) |-> keyboard_buffer_put(p[1], queue[p[2]])]
           Body(f) == [i \in 0 .. k |-> IF i = 0 THEN buf ELSE keyboard_buffer_put(f[i - 1], queue[i])]
           g == CHOOSE f : f = Body(f)
<1>1. k \in Nat /\ \A i \in 1 .. k : queue[i] \in Chars
  OBVIOUS
<1>2. h \in [Buffers \X (1 .. k) -> Buffers]
  <2>1. ASSUME NEW p \in Buffers \X (1 .. k)
        PROVE  keyboard_buffer_put(p[1], queue[p[2]]) \in Buffers
    <3>1. p[1] \in Buffers /\ p[2] \in 1 .. k
      OBVIOUS
    <3> QED
      BY <1>1, <3>1, PutType
  <2> QED
    BY <2>1
<1>3. PICK f \in [0 .. k -> Buffers] :
        f[0] = buf /\ \A i \in 1 .. k : f[i] = h[<<f[i - 1], i>>]
  <2> HIDE DEF k, h
  <2>1. \E f : IsRecursion(f, k, Buffers, buf, h)
    BY <1>1, <1>2, RecursionExists DEF Steps
  <2> QED
    BY <2>1 DEF IsRecursion
<1>4. \A i \in 1 .. k : f[i] = keyboard_buffer_put(f[i - 1], queue[i])
  <2> TAKE i \in 1 .. k
  <2>1. f[i - 1] \in Buffers
    BY <1>1, <1>3
  <2> QED
    BY <1>3, <2>1
<1>5. f = Body(f)
  <2> HIDE DEF k
  <2>1. \A i \in 0 .. k : f[i] = IF i = 0 THEN buf ELSE keyboard_buffer_put(f[i - 1], queue[i])
    BY <1>1, <1>3, <1>4
  <2> QED
    BY <1>3, <2>1
<1>6. g = Body(g)
  <2> HIDE DEF Body
  <2> QED
    BY <1>5
<1>7. keyboard_flush_now = g[k]
  BY DEF keyboard_flush_now
<1> HIDE DEF g, k, h
<1>8. g[0] = buf /\ \A i \in 1 .. k : g[i] = keyboard_buffer_put(g[i - 1], queue[i])
  BY <1>1, <1>6
<1>9. \A i \in 0 .. k : g[i] \in Buffers
  <2> DEFINE T == {i \in 0 .. k : g[i] \in Buffers}
  <2>1. 0 \in T
    BY <1>1, <1>8
  <2>2. ASSUME NEW n \in 0 .. k - 1, n \in T
        PROVE  n + 1 \in T
    <3>1. n + 1 \in 1 .. k /\ (n + 1) - 1 = n
      BY <1>1
    <3>2. g[n + 1] = keyboard_buffer_put(g[n], queue[n + 1])
      BY <1>8, <3>1
    <3> QED
      BY <1>1, <2>2, <3>1, <3>2, PutType
  <2> HIDE DEF T
  <2>3. 0 .. k \subseteq T
    BY <1>1, <2>1, <2>2, SetInduction
  <2> QED
    BY <2>3 DEF T
<1>10. g \in [0 .. k -> Buffers]
  BY <1>6, <1>9
<1> QED
  BY <1>7, <1>8, <1>10 DEF k

\* What ring c holds once the first n of queue are put into it after the u
\* that ring b held.
Holds(c, b, r, u, n) ==
  /\ Unread(c) = u + n
  /\ b.overrun => c.overrun
  /\ ~c.overrun /\ u <= RingSize =>
       /\ u + n <= RingSize
       /\ \A i \in r + 1 .. r + u : c.ring[(i - 1) % RingSize] = b.ring[(i - 1) % RingSize]
       /\ \A i \in r + u + 1 .. r + u + n : c.ring[(i - 1) % RingSize] = queue[i - (r + u)]

LEMMA FlushAll ==
  ASSUME buf \in Buffers, queue \in Seq(Chars), NEW r \in Nat, Oldest = r % Wrap,
         Unread(buf) \in Nat, Unread(buf) + Len(queue) < Wrap
  PROVE  /\ keyboard_flush_now \in Buffers
         /\ Holds(keyboard_flush_now, buf, r, Unread(buf), Len(queue))
<1> DEFINE k == Len(queue)
           u == Unread(buf)
<1>1. PICK f \in [0 .. k -> Buffers] :
        /\ f[0] = buf
        /\ \A i \in 1 .. k : f[i] = keyboard_buffer_put(f[i - 1], queue[i])
        /\ keyboard_flush_now = f[k]
  BY FlushSteps
<1>2. k \in Nat /\ u \in Nat /\ u + k < Wrap /\ \A i \in 1 .. k : queue[i] \in Chars
  OBVIOUS
<1> DEFINE T == {n \in 0 .. k : Holds(f[n], buf, r, u, n)}
<1>3. 0 \in T
  <2>1. Holds(buf, buf, r, u, 0)
    <3>1. Unread(buf) = u + 0
      BY <1>2
    <3>2. r + u + 1 .. r + u + 0 = {} /\ u + 0 = u
      BY <1>2
    <3> HIDE DEF u
    <3> QED
      BY <3>1, <3>2 DEF Holds
  <2> QED
    BY <1>1, <1>2, <2>1
<1> HIDE DEF k, u
<1>4. ASSUME NEW n \in 0 .. k - 1, n \in T
      PROVE  n + 1 \in T
  <2> DEFINE b == f[n]
             ch == queue[n + 1]
             c == f[n + 1]
             v == Unread(b)
  <2>1. /\ n + 1 \in 1 .. k /\ (n + 1) - 1 = n /\ n \in 0 .. k /\ n + 1 \in 0 .. k /\ n \in Nat
    BY <1>2
  <2>2. b \in Buffers /\ ch \in Chars /\ c = keyboard_buffer_put(b, ch) /\ Holds(b, buf, r, u, n)
    BY <1>1, <1>2, <1>4, <2>1
  <2>3. v = u + n /\ v + 1 < Wrap
    BY <1>2, <2>1, <2>2, KeySizes DEF Holds
  <2> HIDE DEF b, ch, c, T
  <2>4. /\ c \in Buffers /\ Unread(c) = v + 1
        /\ c.overrun <=> b.overrun \/ v >= RingSize
        /\ v < RingSize =>
             /\ c.ring[(r + v) % RingSize] = ch
             /\ \A i \in r + 1 .. r + v : c.ring[(i - 1) % RingSize] = b.ring[(i - 1) % RingSize]
    BY <2>2, <2>3, PutOne
  <2> HIDE DEF v
  <2>5. Unread(c) = u + (n + 1)
    <3>1. n \in Nat /\ u \in Nat /\ v = u + n /\ Unread(c) = v + 1
      BY <1>2, <2>1, <2>3, <2>4
    <3> QED
      BY ONLY <3>1
  <2>6. buf.overrun => c.overrun
    BY <2>2, <2>4 DEF Holds
  <2>7. ASSUME ~c.overrun, u <= RingSize
        PROVE  /\ u + (n + 1) <= RingSize
               /\ \A i \in r + 1 .. r + u : c.ring[(i - 1) % RingSize] = buf.ring[(i - 1) % RingSize]
               /\ \A i \in r + u + 1 .. r + u + (n + 1) : c.ring[(i - 1) % RingSize] = queue[i - (r + u)]
    <3>1. ~b.overrun /\ v < RingSize
      BY <1>2, <2>1, <2>3, <2>4, <2>7, KeySizes
    <3>2. /\ \A i \in r + 1 .. r + u : b.ring[(i - 1) % RingSize] = buf.ring[(i - 1) % RingSize]
          /\ \A i \in r + u + 1 .. r + u + n : b.ring[(i - 1) % RingSize] = queue[i - (r + u)]
      BY <2>2, <2>7, <3>1 DEF Holds
    <3>3. /\ c.ring[(r + v) % RingSize] = ch
          /\ \A i \in r + 1 .. r + v : c.ring[(i - 1) % RingSize] = b.ring[(i - 1) % RingSize]
      BY <2>4, <3>1
    <3>4. u + (n + 1) <= RingSize
      BY <1>2, <2>1, <2>3, <3>1, KeySizes
    <3>5. ASSUME NEW i \in r + 1 .. r + u
          PROVE  c.ring[(i - 1) % RingSize] = buf.ring[(i - 1) % RingSize]
      <4>1. i \in r + 1 .. r + v
        BY <1>2, <2>1, <2>3, <3>5
      <4> QED
        BY <3>2, <3>3, <4>1
    <3>6. ASSUME NEW i \in r + u + 1 .. r + u + (n + 1)
          PROVE  c.ring[(i - 1) % RingSize] = queue[i - (r + u)]
      <4>1. CASE i = r + v + 1
        <5>1. i - 1 = r + v /\ i - (r + u) = n + 1
          BY <1>2, <2>1, <2>3, <4>1
        <5> QED
          BY <3>3, <5>1 DEF ch
      <4>2. CASE i # r + v + 1
        <5>1. i \in r + 1 .. r + v /\ i \in r + u + 1 .. r + u + n
          BY <1>2, <2>1, <2>3, <3>6, <4>2
        <5> QED
          BY <3>2, <3>3, <5>1
      <4> QED
        BY <4>1, <4>2
    <3> QED
      BY <3>4, <3>5, <3>6
  <2>8. Holds(c, buf, r, u, n + 1)
    BY <2>5, <2>6, <2>7 DEF Holds
  <2> QED
    BY <2>1, <2>8 DEF T, c
<1> HIDE DEF T
<1>5. 0 .. k \subseteq T
  BY <1>2, <1>3, <1>4, SetInduction
<1>6. k \in T /\ f[k] \in Buffers
  BY <1>1, <1>2, <1>5
<1> QED
  BY <1>1, <1>6 DEF T, k, u

-----------------------------------------------------------------------------
(* Where the characters are after a step.                                   *)

\* The first n of F have different numbers, none above n.
Different(F, n) ==
  /\ \A i \in 1 .. n : F[i].n \in 1 .. n
  /\ \A i, j \in 1 .. n : F[i].n = F[j].n => i = j

\* G is the first n of F with ch at place m.
Inserted(F, G, m, n, ch) ==
  /\ \A i \in 1 .. m - 1 : G[i] = F[i]
  /\ G[m] = ch
  /\ \A i \in m + 1 .. n + 1 : G[i] = F[i - 1]

LEMMA OneMore ==
  ASSUME NEW n \in Nat, NEW m \in 1 .. n + 1, NEW F, NEW G, NEW ch, ch.n = n + 1,
         Different(F, n), Inserted(F, G, m, n, ch)
  PROVE  Different(G, n + 1)
<1> USE DEF Different, Inserted
<1> DEFINE Old(i) == IF i < m THEN i ELSE i - 1
<1>1. ASSUME NEW i \in 1 .. n + 1, i # m
      PROVE  Old(i) \in 1 .. n /\ G[i] = F[Old(i)] /\ G[i].n \in 1 .. n
  <2>1. Old(i) \in 1 .. n /\ (i < m => i \in 1 .. m - 1) /\ (~(i < m) => i \in m + 1 .. n + 1)
    BY <1>1
  <2>2. G[i] = F[Old(i)]
    BY <2>1
  <2> QED
    BY <2>1, <2>2
<1>2. ASSUME NEW i \in 1 .. n + 1
      PROVE  G[i].n \in 1 .. n + 1
  <2>1. CASE i = m
    BY <2>1
  <2>2. CASE i # m
    BY <1>1, <2>2
  <2> QED
    BY <2>1, <2>2
<1>3. ASSUME NEW i \in 1 .. n + 1, NEW j \in 1 .. n + 1, G[i].n = G[j].n
      PROVE  i = j
  <2>1. CASE i = m /\ j = m
    BY <2>1
  <2>2. CASE i = m /\ j # m
    <3>1. G[j].n \in 1 .. n /\ G[i].n = n + 1
      BY <1>1, <2>2
    <3> QED
      BY <1>3, <3>1
  <2>3. CASE i # m /\ j = m
    <3>1. G[i].n \in 1 .. n /\ G[j].n = n + 1
      BY <1>1, <2>3
    <3> QED
      BY <1>3, <3>1
  <2>4. CASE i # m /\ j # m
    <3>1. Old(i) \in 1 .. n /\ Old(j) \in 1 .. n /\ F[Old(i)].n = F[Old(j)].n
      BY <1>1, <1>3, <2>4
    <3>2. Old(i) = Old(j)
      <4> HIDE DEF Old
      <4> QED
        BY <3>1
    <3> QED
      BY <2>4, <3>2
  <2> QED
    BY <2>1, <2>2, <2>3, <2>4
<1> QED
  BY <1>2, <1>3

\* The same for characters spread over the read ones, the ring and the queue.
LEMMA OnceMore ==
  ASSUME NEW r, NEW g, NEW u, NEW q, NEW n \in Nat, NEW g2, NEW u2, NEW q2,
         NEW m \in 1 .. n + 1, NEW ch, ch.n = n + 1, Once(r, g, u, q, n),
         \A i \in 1 .. m - 1 : CharAt(r, g2, u2, q2, i) = CharAt(r, g, u, q, i),
         CharAt(r, g2, u2, q2, m) = ch,
         \A i \in m + 1 .. n + 1 : CharAt(r, g2, u2, q2, i) = CharAt(r, g, u, q, i - 1)
  PROVE  Once(r, g2, u2, q2, n + 1)
<1> DEFINE F == [i \in 1 .. n |-> CharAt(r, g, u, q, i)]
           G == [i \in 1 .. n + 1 |-> CharAt(r, g2, u2, q2, i)]
<1>1. \A i \in 1 .. n : F[i] = CharAt(r, g, u, q, i)
  OBVIOUS
<1>2. \A i \in 1 .. n + 1 : G[i] = CharAt(r, g2, u2, q2, i)
  OBVIOUS
<1> HIDE DEF F, G
<1>3. Different(F, n)
  BY <1>1 DEF Once, Different
<1>4. \A i \in 1 .. m - 1 : G[i] = F[i]
  <2> TAKE i \in 1 .. m - 1
  <2>1. i \in 1 .. n /\ i \in 1 .. n + 1
    OBVIOUS
  <2> QED
    BY <1>1, <1>2, <2>1
<1>5. G[m] = ch
  BY <1>2
<1>6. \A i \in m + 1 .. n + 1 : G[i] = F[i - 1]
  <2> TAKE i \in m + 1 .. n + 1
  <2>1. i - 1 \in 1 .. n /\ i \in 1 .. n + 1
    OBVIOUS
  <2>2. F[i - 1] = CharAt(r, g, u, q, i - 1)
    BY <1>1, <2>1
  <2> QED
    BY <1>2, <2>1, <2>2
<1>7. Inserted(F, G, m, n, ch)
  BY <1>4, <1>5, <1>6 DEF Inserted
<1>8. Different(G, n + 1)
  BY <1>3, <1>7, OneMore
<1> QED
  BY <1>2, <1>8 DEF Once, Different

\* Ring c is g with ch put behind the u characters that follow the read ones.
PutBehind(r, u, g, c, ch) ==
  /\ c[(Len(r) + u) % RingSize] = ch
  /\ \A i \in Len(r) + 1 .. Len(r) + u : c[(i - 1) % RingSize] = g[(i - 1) % RingSize]

\* All characters with ring c are those with g and ch behind the ring's.
Placed(r, u, g, c, q, ch) ==
  /\ \A i \in 1 .. Len(r) + u : CharAt(r, c, u + 1, q, i) = CharAt(r, g, u, q, i)
  /\ CharAt(r, c, u + 1, q, Len(r) + u + 1) = ch
  /\ \A i \in Len(r) + u + 2 .. Len(r) + u + Len(q) + 1 :
       CharAt(r, c, u + 1, q, i) = CharAt(r, g, u, q, i - 1)

\* A character put into the ring gets in behind the ones there.
LEMMA PutPlaces ==
  ASSUME NEW r \in Seq(Chars), NEW q \in Seq(Chars), NEW u \in Nat, NEW g, NEW c, NEW ch,
         PutBehind(r, u, g, c, ch)
  PROVE  Placed(r, u, g, c, q, ch)
<1> USE DEF PutBehind
<1> DEFINE l == Len(r)
           k == Len(q)
<1>1. l \in Nat /\ k \in Nat
  OBVIOUS
<1> HIDE DEF l, k
<1>2. ASSUME NEW i \in 1 .. l + u
      PROVE  CharAt(r, c, u + 1, q, i) = CharAt(r, g, u, q, i)
  <2>1. (i <= l) \/ (i \in l + 1 .. l + u /\ ~(i <= l) /\ i <= l + u /\ i <= l + (u + 1))
    BY <1>1
  <2>2. i \in l + 1 .. l + u => c[(i - 1) % RingSize] = g[(i - 1) % RingSize]
    BY DEF l
  <2> QED
    BY <2>1, <2>2 DEF CharAt, l
<1>3. CharAt(r, c, u + 1, q, l + u + 1) = ch
  <2>1. ~(l + u + 1 <= l) /\ l + u + 1 <= l + (u + 1) /\ (l + u + 1) - 1 = l + u
    BY <1>1
  <2>2. c[(l + u) % RingSize] = ch
    BY DEF l
  <2> QED
    BY <2>1, <2>2 DEF CharAt, l
<1>4. ASSUME NEW i \in l + u + 2 .. l + u + k + 1
      PROVE  CharAt(r, c, u + 1, q, i) = CharAt(r, g, u, q, i - 1)
  <2>1. /\ ~(i <= l) /\ ~(i <= l + (u + 1)) /\ ~(i - 1 <= l) /\ ~(i - 1 <= l + u)
        /\ i - (l + (u + 1)) = (i - 1) - (l + u)
    BY <1>1
  <2> QED
    BY <2>1 DEF CharAt, l
<1> QED
  BY <1>2, <1>3, <1>4 DEF Placed, l, k

\* A character queued gets in behind all.
LEMMA QueuePlaces ==
  ASSUME NEW r \in Seq(Chars), NEW q \in Seq(Chars), NEW u \in Nat, NEW g, NEW ch \in Chars
  PROVE  /\ \A i \in 1 .. Len(r) + u + Len(q) : CharAt(r, g, u, Append(q, ch), i) = CharAt(r, g, u, q, i)
         /\ CharAt(r, g, u, Append(q, ch), Len(r) + u + Len(q) + 1) = ch
<1> DEFINE l == Len(r)
           k == Len(q)
           p == Append(q, ch)
<1>1. l \in Nat /\ k \in Nat /\ (\A i \in 1 .. k : p[i] = q[i]) /\ p[k + 1] = ch
  OBVIOUS
<1> HIDE DEF l, k, p
<1>2. ASSUME NEW i \in 1 .. l + u + k
      PROVE  CharAt(r, g, u, p, i) = CharAt(r, g, u, q, i)
  <2>1. ~(i <= l) /\ ~(i <= l + u) => i - (l + u) \in 1 .. k
    BY <1>1
  <2>2. ~(i <= l) /\ ~(i <= l + u) => p[i - (l + u)] = q[i - (l + u)]
    BY <1>1, <2>1
  <2> QED
    BY <2>2 DEF CharAt, l
<1>3. CharAt(r, g, u, p, l + u + k + 1) = ch
  <2>1. ~(l + u + k + 1 <= l) /\ ~(l + u + k + 1 <= l + u) /\ (l + u + k + 1) - (l + u) = k + 1
    BY <1>1
  <2> QED
    BY <1>1, <2>1 DEF CharAt, l
<1> QED
  BY <1>2, <1>3 DEF l, k, p

\* The first n characters are the same, in other places.
SameChars(r, g, u, q, r2, g2, u2, q2, n) ==
  \A i \in 1 .. n : CharAt(r2, g2, u2, q2, i) = CharAt(r, g, u, q, i)

LEMMA SamePlaces ==
  ASSUME NEW r, NEW g, NEW u, NEW q, NEW n, NEW r2, NEW g2, NEW u2, NEW q2,
         SameChars(r, g, u, q, r2, g2, u2, q2, n)
  PROVE  /\ Once(r, g, u, q, n) => Once(r2, g2, u2, q2, n)
         /\ \A pr : InOrder(r, g, u, q, n, pr) => InOrder(r2, g2, u2, q2, n, pr)
  BY DEF SameChars, Once, InOrder

\* Reading takes the oldest of the ring and moves nothing else.
LEMMA ReadPlaces ==
  ASSUME NEW r \in Seq(Chars), NEW q \in Seq(Chars), NEW u \in Nat \ {0}, NEW g,
         g[Len(r) % RingSize] \in Chars
  PROVE  SameChars(r, g, u, q, Append(r, g[Len(r) % RingSize]), g, u - 1, q, Len(r) + u + Len(q))
<1> DEFINE l == Len(r)
           k == Len(q)
           s == Append(r, g[Len(r) % RingSize])
<1>1. /\ l \in Nat /\ k \in Nat /\ Len(s) = l + 1
      /\ (\A i \in 1 .. l : s[i] = r[i]) /\ s[l + 1] = g[l % RingSize]
  OBVIOUS
<1> HIDE DEF l, k, s
<1>2. ASSUME NEW i \in 1 .. l + u + k
      PROVE  CharAt(s, g, u - 1, q, i) = CharAt(r, g, u, q, i)
  <2>1. (l + 1) + (u - 1) = l + u
    BY <1>1
  <2>2. CASE i <= l
    <3>1. i \in 1 .. l /\ i <= l + 1
      BY <1>1, <2>2
    <3> QED
      BY <1>1, <2>2, <3>1 DEF CharAt, l
  <2>3. CASE i = l + 1
    <3>1. ~(i <= l) /\ i <= l + 1 /\ i <= l + u /\ i - 1 = l
      BY <1>1, <2>3
    <3> QED
      BY <1>1, <2>3, <3>1 DEF CharAt, l
  <2>4. CASE ~(i <= l) /\ i # l + 1
    <3>1. ~(i <= l + 1)
      BY <1>1, <2>4
    <3> QED
      BY <1>1, <2>1, <2>4, <3>1 DEF CharAt, l
  <2> QED
    BY <2>2, <2>3, <2>4
<1> QED
  BY <1>2 DEF SameChars, l, k, s

\* A flush moves nothing.
LEMMA FlushPlaces ==
  ASSUME NEW r \in Seq(Chars), queue \in Seq(Chars), NEW u \in Nat, NEW b, NEW c,
         Holds(c, b, Len(r), u, Len(queue)), ~c.overrun, u <= RingSize
  PROVE  SameChars(r, b.ring, u, queue, r, c.ring, u + Len(queue), <<>>, Len(r) + u + Len(queue))
<1> DEFINE l == Len(r)
           k == Len(queue)
           g == c.ring
           h == b.ring
<1>1. l \in Nat /\ k \in Nat
  OBVIOUS
<1>2. /\ \A i \in l + 1 .. l + u : g[(i - 1) % RingSize] = h[(i - 1) % RingSize]
      /\ \A i \in l + u + 1 .. l + u + k : g[(i - 1) % RingSize] = queue[i - (l + u)]
  BY DEF Holds
<1> HIDE DEF l, k, g, h
<1>3. ASSUME NEW i \in 1 .. l + u + k
      PROVE  CharAt(r, g, u + k, <<>>, i) = CharAt(r, h, u, queue, i)
  <2>1. i <= l + (u + k)
    BY <1>1
  <2>2. CASE i <= l
    BY <2>2 DEF CharAt, l
  <2>3. CASE ~(i <= l) /\ i <= l + u
    <3>1. i \in l + 1 .. l + u
      BY <1>1, <2>3
    <3> QED
      BY <1>2, <2>1, <2>3, <3>1 DEF CharAt, l
  <2>4. CASE ~(i <= l) /\ ~(i <= l + u)
    <3>1. i \in l + u + 1 .. l + u + k
      BY <1>1, <2>4
    <3> QED
      BY <1>2, <2>1, <2>4, <3>1 DEF CharAt, l
  <2> QED
    BY <2>2, <2>3, <2>4
<1> QED
  BY <1>3 DEF SameChars, l, k, g, h

-----------------------------------------------------------------------------
(* The bytes in the controller.                                             *)

LEMMA Appended ==
  ASSUME NEW S, NEW p \in Seq(S), NEW b \in S
  PROVE  /\ Append(p, b) \in Seq(S) /\ Len(p) \in Nat /\ Len(Append(p, b)) = Len(p) + 1
         /\ Append(p, b)[Len(p) + 1] = b /\ \A i \in 1 .. Len(p) : Append(p, b)[i] = p[i]
         /\ Append(p, b) # <<>>
  OBVIOUS

LEMMA FirstOf ==
  ASSUME NEW S, NEW p \in Seq(S), p # <<>>
  PROVE  /\ Head(p) = p[1] /\ p[1] \in S /\ Tail(p) \in Seq(S) /\ Len(p) \in Nat \ {0}
         /\ Len(Tail(p)) = Len(p) - 1 /\ \A i \in 1 .. Len(p) - 1 : Tail(p)[i] = p[i + 1]
  OBVIOUS

\* A byte without a character, or with the next one, is sent.
LEMMA WaitingSent ==
  ASSUME NEW p \in Seq(Codes), NEW b \in Codes, NEW n \in Nat, NEW m \in Nat, n <= m, Waiting(p, n, m)
  PROVE  /\ b.key # "char" => Waiting(Append(p, b), n, m)
         /\ b.key = "char" /\ b.n = m + 1 => Waiting(Append(p, b), n, m + 1)
<1> DEFINE l == Len(p)
           q == Append(p, b)
<1>1. l \in Nat /\ Len(q) = l + 1 /\ q[l + 1] = b /\ \A i \in 1 .. l : q[i] = p[i]
  BY Appended
<1>2. /\ \A i \in 1 .. l : p[i].key = "char" => p[i].n \in n + 1 .. m
      /\ \A k \in n + 1 .. m : \E i \in 1 .. l : p[i].key = "char" /\ p[i].n = k
      /\ \A i, j \in 1 .. l : p[i].key = "char" /\ p[j].key = "char" /\ i < j => p[i].n < p[j].n
  BY DEF Waiting
<1> HIDE DEF l, q
<1>3. \A i \in 1 .. l + 1 : i = l + 1 \/ i \in 1 .. l
  BY <1>1
<1>4. ASSUME b.key # "char"
      PROVE  Waiting(q, n, m)
  <2>1. \A i \in 1 .. l + 1 : q[i].key = "char" => i \in 1 .. l /\ q[i] = p[i]
    BY <1>1, <1>3, <1>4
  <2>2. \A k \in n + 1 .. m : \E i \in 1 .. l + 1 : q[i].key = "char" /\ q[i].n = k
    <3> TAKE k \in n + 1 .. m
    <3>1. PICK i \in 1 .. l : p[i].key = "char" /\ p[i].n = k
      BY <1>2
    <3>2. i \in 1 .. l + 1
      BY <1>1
    <3> QED
      BY <1>1, <3>1, <3>2
  <2> QED
    BY <1>1, <1>2, <2>1, <2>2 DEF Waiting
<1>5. ASSUME b.key = "char", b.n = m + 1
      PROVE  Waiting(q, n, m + 1)
  <2>1. ASSUME NEW i \in 1 .. l + 1, q[i].key = "char"
        PROVE  q[i].n \in n + 1 .. m + 1
    <3>1. CASE i = l + 1
      BY <1>1, <1>5, <3>1
    <3>2. CASE i \in 1 .. l
      <4>1. q[i] = p[i] /\ p[i].n \in n + 1 .. m
        BY <1>1, <1>2, <2>1, <3>2
      <4> QED
        BY <4>1
    <3> QED
      BY <1>3, <3>1, <3>2
  <2>2. \A k \in n + 1 .. m + 1 : \E i \in 1 .. l + 1 : q[i].key = "char" /\ q[i].n = k
    <3> TAKE k \in n + 1 .. m + 1
    <3>1. CASE k = m + 1
      <4>1. l + 1 \in 1 .. l + 1
        BY <1>1
      <4> QED
        BY <1>1, <1>5, <3>1, <4>1
    <3>2. CASE k # m + 1
      <4>1. k \in n + 1 .. m
        BY <3>2
      <4>2. PICK i \in 1 .. l : p[i].key = "char" /\ p[i].n = k
        BY <1>2, <4>1
      <4>3. i \in 1 .. l + 1
        BY <1>1
      <4> QED
        BY <1>1, <4>2, <4>3
    <3> QED
      BY <3>1, <3>2
  <2>3. ASSUME NEW i \in 1 .. l + 1, NEW j \in 1 .. l + 1, q[i].key = "char", q[j].key = "char", i < j
        PROVE  q[i].n < q[j].n
    <3>1. i \in 1 .. l
      BY <1>1, <2>3
    <3>2. CASE j = l + 1
      <4>1. p[i].n \in n + 1 .. m /\ q[i] = p[i] /\ q[j].n = m + 1
        BY <1>1, <1>2, <1>5, <2>3, <3>1, <3>2
      <4> QED
        BY <4>1
    <3>3. CASE j \in 1 .. l
      BY <1>1, <1>2, <2>3, <3>1, <3>3
    <3> QED
      BY <1>3, <3>2, <3>3
  <2> QED
    BY <1>1, <2>1, <2>2, <2>3 DEF Waiting
<1> QED
  BY <1>4, <1>5 DEF q

\* The first byte is taken; a character is the next one.
LEMMA WaitingTaken ==
  ASSUME NEW p \in Seq(Codes), p # <<>>, NEW n \in Nat, NEW m \in Nat, Waiting(p, n, m)
  PROVE  /\ p[1].key # "char" => Waiting(Tail(p), n, m)
         /\ p[1].key = "char" => p[1].n = n + 1 /\ n + 1 <= m /\ Waiting(Tail(p), n + 1, m)
<1> DEFINE l == Len(p)
           q == Tail(p)
<1>1. l \in Nat \ {0} /\ Len(q) = l - 1 /\ \A i \in 1 .. l - 1 : q[i] = p[i + 1]
  BY FirstOf
<1>2. /\ \A i \in 1 .. l : p[i].key = "char" => p[i].n \in n + 1 .. m
      /\ \A k \in n + 1 .. m : \E i \in 1 .. l : p[i].key = "char" /\ p[i].n = k
      /\ \A i, j \in 1 .. l : p[i].key = "char" /\ p[j].key = "char" /\ i < j => p[i].n < p[j].n
  BY DEF Waiting
<1> HIDE DEF l, q
<1>3. \A i \in 1 .. l - 1 : i + 1 \in 1 .. l /\ 1 < i + 1
  BY <1>1
<1>4. \A i \in 1 .. l : i = 1 \/ (i - 1 \in 1 .. l - 1 /\ (i - 1) + 1 = i)
  BY <1>1
<1>5. \A i, j \in 1 .. l - 1 : q[i].key = "char" /\ q[j].key = "char" /\ i < j => q[i].n < q[j].n
  <2> TAKE i, j \in 1 .. l - 1
  <2>1. i < j => i + 1 < j + 1
    OBVIOUS
  <2>2. i + 1 \in 1 .. l /\ j + 1 \in 1 .. l /\ q[i] = p[i + 1] /\ q[j] = p[j + 1]
    BY <1>1, <1>3
  <2> QED
    BY <1>2, <2>1, <2>2
<1>6. ASSUME p[1].key # "char"
      PROVE  Waiting(q, n, m)
  <2>1. \A i \in 1 .. l - 1 : q[i].key = "char" => q[i].n \in n + 1 .. m
    BY <1>1, <1>2, <1>3
  <2>2. \A k \in n + 1 .. m : \E i \in 1 .. l - 1 : q[i].key = "char" /\ q[i].n = k
    <3> TAKE k \in n + 1 .. m
    <3>1. PICK i \in 1 .. l : p[i].key = "char" /\ p[i].n = k
      BY <1>2
    <3>2. i - 1 \in 1 .. l - 1 /\ q[i - 1] = p[i]
      BY <1>1, <1>4, <1>6, <3>1
    <3> QED
      BY <3>1, <3>2
  <2> QED
    BY <1>1, <1>5, <2>1, <2>2 DEF Waiting
<1>7. ASSUME p[1].key = "char"
      PROVE  p[1].n = n + 1 /\ n + 1 <= m /\ Waiting(q, n + 1, m)
  <2>1. 1 \in 1 .. l /\ p[1].n \in n + 1 .. m
    BY <1>1, <1>2, <1>7
  <2>2. n + 1 <= m /\ n + 1 \in n + 1 .. m
    BY <2>1
  <2>3. p[1].n = n + 1
    <3>1. PICK i \in 1 .. l : p[i].key = "char" /\ p[i].n = n + 1
      BY <1>2, <2>2
    <3>2. i # 1 => 1 < i
      BY <1>1
    <3>3. i # 1 => p[1].n < p[i].n
      BY <1>2, <1>7, <2>1, <3>1, <3>2
    <3> QED
      BY <2>1, <3>1, <3>3
  <2>4. ASSUME NEW i \in 1 .. l - 1, q[i].key = "char"
        PROVE  q[i].n \in n + 1 + 1 .. m
    <3>1. i + 1 \in 1 .. l /\ 1 < i + 1 /\ q[i] = p[i + 1]
      BY <1>1, <1>3
    <3>2. p[i + 1].n \in n + 1 .. m /\ p[1].n < p[i + 1].n
      BY <1>2, <1>7, <2>1, <2>4, <3>1
    <3> QED
      BY <2>3, <3>1, <3>2
  <2>5. \A k \in n + 1 + 1 .. m : \E i \in 1 .. l - 1 : q[i].key = "char" /\ q[i].n = k
    <3> TAKE k \in n + 1 + 1 .. m
    <3>1. k \in n + 1 .. m /\ k # n + 1
      OBVIOUS
    <3>2. PICK i \in 1 .. l : p[i].key = "char" /\ p[i].n = k
      BY <1>2, <3>1
    <3>3. i - 1 \in 1 .. l - 1 /\ q[i - 1] = p[i]
      BY <1>1, <1>4, <2>3, <3>1, <3>2
    <3> QED
      BY <3>2, <3>3
  <2> QED
    BY <1>1, <1>5, <2>2, <2>3, <2>4, <2>5 DEF Waiting
<1> QED
  BY <1>6, <1>7 DEF q

LEMMA AfterType ==
  ASSUME NEW s \in SUBSET Sides, NEW b
  PROVE  After(s, b) \in SUBSET Sides
  BY DEF After

LEMMA ShiftsSent ==
  ASSUME NEW p \in Seq(Codes), NEW b \in Codes, NEW sh, NEW h \in SUBSET Sides, NEW pr,
         Shifts(p, sh, h, pr),
         b.key = "char" => b.n \in 1 .. Len(pr) /\ pr[b.n].shifted = (h # {})
  PROVE  Shifts(Append(p, b), sh, After(h, b), pr)
<1> DEFINE l == Len(p)
           q == Append(p, b)
           a == After(h, b)
<1>1. PICK f \in [0 .. l -> SUBSET Sides] : Along(f, p, sh, h, pr)
  BY DEF Shifts
<1>2. l \in Nat /\ Len(q) = l + 1 /\ q[l + 1] = b /\ \A i \in 1 .. l : q[i] = p[i]
  BY Appended
<1>3. /\ f[0] = sh /\ f[l] = h
      /\ \A i \in 1 .. l :
           /\ f[i] = After(f[i - 1], p[i])
           /\ p[i].key = "char" => p[i].n \in 1 .. Len(pr) /\ pr[p[i].n].shifted = (f[i - 1] # {})
  BY <1>1 DEF Along
<1>4. a \in SUBSET Sides
  BY AfterType
<1> DEFINE g == [i \in 0 .. l + 1 |-> IF i <= l THEN f[i] ELSE a]
<1> HIDE DEF l, q, a
<1>5. g \in [0 .. l + 1 -> SUBSET Sides] /\ g[l + 1] = a /\ \A i \in 0 .. l : g[i] = f[i]
  BY <1>1, <1>2, <1>4
<1> HIDE DEF g
<1>6. g[0] = sh
  BY <1>2, <1>3, <1>5
<1>7. ASSUME NEW i \in 1 .. l + 1
      PROVE  /\ g[i] = After(g[i - 1], q[i])
             /\ q[i].key = "char" => q[i].n \in 1 .. Len(pr) /\ pr[q[i].n].shifted = (g[i - 1] # {})
  <2>1. CASE i = l + 1
    <3>1. i - 1 = l /\ l \in 0 .. l
      BY <1>2, <2>1
    <3>2. g[i - 1] = h /\ q[i] = b /\ g[i] = a
      BY <1>2, <1>3, <1>5, <2>1, <3>1
    <3> QED
      BY <3>2 DEF a
  <2>2. CASE i # l + 1
    <3>1. i \in 1 .. l /\ i \in 0 .. l /\ i - 1 \in 0 .. l
      BY <1>2, <2>2
    <3>2. g[i - 1] = f[i - 1] /\ q[i] = p[i] /\ g[i] = f[i]
      BY <1>2, <1>5, <3>1
    <3> QED
      BY <1>3, <3>1, <3>2
  <2> QED
    BY <2>1, <2>2
<1>8. Along(g, q, sh, a, pr)
  BY <1>2, <1>5, <1>6, <1>7 DEF Along
<1> QED
  BY <1>2, <1>5, <1>8 DEF Shifts, q, a

LEMMA ShiftsPressed ==
  ASSUME NEW p \in Seq(Codes), NEW sh, NEW h, NEW pr \in Seq(Chars), NEW c \in Chars,
         Shifts(p, sh, h, pr)
  PROVE  Shifts(p, sh, h, Append(pr, c))
<1> DEFINE l == Len(p)
           m == Len(pr)
           s == Append(pr, c)
<1>1. PICK f \in [0 .. l -> SUBSET Sides] : Along(f, p, sh, h, pr)
  BY DEF Shifts
<1>2. m \in Nat /\ Len(s) = m + 1 /\ \A i \in 1 .. m : s[i] = pr[i]
  BY Appended
<1>3. 1 .. m \subseteq 1 .. m + 1
  BY <1>2
<1> HIDE DEF s, m, l
<1>4. Along(f, p, sh, h, s)
  BY <1>1, <1>2, <1>3 DEF Along, m
<1> QED
  BY <1>1, <1>4 DEF Shifts, l, s

LEMMA ShiftsTaken ==
  ASSUME NEW p \in Seq(Codes), p # <<>>, NEW sh, NEW h, NEW pr, Shifts(p, sh, h, pr)
  PROVE  /\ Shifts(Tail(p), After(sh, p[1]), h, pr)
         /\ p[1].key = "char" => p[1].n \in 1 .. Len(pr) /\ pr[p[1].n].shifted = (sh # {})
<1> DEFINE l == Len(p)
           q == Tail(p)
<1>1. PICK f \in [0 .. l -> SUBSET Sides] : Along(f, p, sh, h, pr)
  BY DEF Shifts
<1>2. l \in Nat \ {0} /\ Len(q) = l - 1 /\ \A i \in 1 .. l - 1 : q[i] = p[i + 1]
  BY FirstOf
<1>3. /\ f[0] = sh /\ f[l] = h
      /\ \A i \in 1 .. l :
           /\ f[i] = After(f[i - 1], p[i])
           /\ p[i].key = "char" => p[i].n \in 1 .. Len(pr) /\ pr[p[i].n].shifted = (f[i - 1] # {})
  BY <1>1 DEF Along
<1> DEFINE g == [i \in 0 .. l - 1 |-> f[i + 1]]
<1> HIDE DEF l, q
<1>4. g \in [0 .. l - 1 -> SUBSET Sides] /\ \A i \in 0 .. l - 1 : g[i] = f[i + 1]
  <2>1. \A i \in 0 .. l - 1 : i + 1 \in 0 .. l
    BY <1>2
  <2> QED
    BY <1>1, <2>1
<1> HIDE DEF g
<1>5. 1 \in 1 .. l /\ 1 - 1 = 0
  BY <1>2
<1>6. g[0] = After(sh, p[1]) /\ g[l - 1] = h
  <2>1. 0 \in 0 .. l - 1 /\ 0 + 1 = 1 /\ l - 1 \in 0 .. l - 1 /\ (l - 1) + 1 = l
    BY <1>2
  <2>2. g[0] = f[1] /\ g[l - 1] = f[l]
    BY <1>4, <2>1
  <2>3. f[1] = After(f[0], p[1])
    BY <1>3, <1>5
  <2> QED
    BY <1>3, <2>2, <2>3
<1>7. ASSUME NEW i \in 1 .. l - 1
      PROVE  /\ g[i] = After(g[i - 1], q[i])
             /\ q[i].key = "char" => q[i].n \in 1 .. Len(pr) /\ pr[q[i].n].shifted = (g[i - 1] # {})
  <2>1. i \in 0 .. l - 1 /\ i - 1 \in 0 .. l - 1 /\ i + 1 \in 1 .. l /\ (i - 1) + 1 = i /\ (i + 1) - 1 = i
    BY <1>2
  <2>2. g[i - 1] = f[i] /\ q[i] = p[i + 1] /\ g[i] = f[i + 1]
    BY <1>2, <1>4, <2>1
  <2>3. /\ f[i + 1] = After(f[i], p[i + 1])
        /\ p[i + 1].key = "char" => p[i + 1].n \in 1 .. Len(pr) /\ pr[p[i + 1].n].shifted = (f[i] # {})
    BY <1>3, <2>1
  <2> QED
    BY <2>2, <2>3
<1>8. Along(g, q, After(sh, p[1]), h, pr)
  BY <1>2, <1>6, <1>7 DEF Along
<1>9. p[1].key = "char" => p[1].n \in 1 .. Len(pr) /\ pr[p[1].n].shifted = (sh # {})
  BY <1>3, <1>5
<1> QED
  BY <1>2, <1>4, <1>8, <1>9 DEF Shifts, q

-----------------------------------------------------------------------------
(* The steps.                                                               *)

LEMMA Facts ==
  ASSUME KeyInv
  PROVE  /\ held \in SUBSET Sides /\ shift \in SUBSET Sides /\ port \in Seq(Codes)
         /\ irq \in BOOLEAN /\ extended \in BOOLEAN /\ replay \in BOOLEAN /\ mode \in Modes
         /\ queue \in Seq(Chars) /\ buf \in Buffers /\ read \in Seq(Chars) /\ pressed \in Seq(Chars)
         /\ Len(read) \in Nat /\ Len(queue) \in 0 .. QCap /\ Len(pressed) \in 0 .. MaxKeys
         /\ Unread(buf) \in 0 .. Wrap - 1 /\ Total \in Nat
         /\ buf.head \in 0 .. Wrap - 1 /\ tail \in 0 .. Wrap - 1 /\ taking \in BOOLEAN
         /\ Oldest \in 0 .. Wrap - 1 /\ Oldest = Len(read) % Wrap /\ (taking => Unread(buf) # 0)
<1>1. /\ held \in SUBSET Sides /\ shift \in SUBSET Sides /\ port \in Seq(Codes)
      /\ irq \in BOOLEAN /\ extended \in BOOLEAN /\ replay \in BOOLEAN /\ mode \in Modes
      /\ queue \in Seq(Chars) /\ buf \in Buffers /\ read \in Seq(Chars) /\ pressed \in Seq(Chars)
      /\ Len(queue) <= QCap /\ Len(pressed) <= MaxKeys
      /\ tail \in 0 .. Wrap - 1 /\ taking \in BOOLEAN
      /\ Oldest = Len(read) % Wrap /\ (taking => Unread(buf) # 0)
  BY DEF KeyInv, KeyTypeOK, Codes, Buffers, Typing, Delivered
<1>2. Len(read) \in Nat /\ Len(queue) \in 0 .. QCap /\ Len(pressed) \in 0 .. MaxKeys
  <2> DEFINE k == Len(queue)
             m == Len(pressed)
  <2>1. Len(read) \in Nat /\ k \in Nat /\ m \in Nat /\ k <= QCap /\ m <= MaxKeys
    BY <1>1
  <2> HIDE DEF k, m
  <2>2. k \in 0 .. QCap /\ m \in 0 .. MaxKeys
    BY <2>1, KeySizes
  <2> QED
    BY <2>1, <2>2 DEF k, m
<1>3. buf.head \in 0 .. Wrap - 1 /\ Oldest \in 0 .. Wrap - 1
  <2> DEFINE l == Len(read)
             w == Wrap
  <2>1. l \in Int /\ w \in Nat \ {0} /\ Oldest = l % w
    BY <1>1, <1>2, KeySizes
  <2> HIDE DEF l, w
  <2>2. l % w \in 0 .. w - 1
    BY ONLY <2>1, ModRange
  <2> QED
    BY <1>1, <2>1, <2>2 DEF Buffers, w
<1>4. Unread(buf) \in 0 .. Wrap - 1
  BY <1>1, <1>3, Counters DEF Unread, Distance
<1>5. Total \in Nat
  <2> DEFINE u == Unread(buf)
             l == Len(read)
             k == Len(queue)
  <2>1. u \in 0 .. Wrap - 1 /\ l \in Nat /\ k \in 0 .. QCap
    BY <1>2, <1>4
  <2> HIDE DEF u, l, k
  <2>2. l + u + k \in Nat
    BY <2>1, KeySizes
  <2> QED
    BY <2>2 DEF Total, u, l, k
<1> QED
  BY <1>1, <1>2, <1>3, <1>4, <1>5

\* Nothing is delivered, and more may have been pressed.
LEMMA SameDelivery ==
  ASSUME KeyInv, UNCHANGED <<read, buf, queue, tail, taking, overtaken>>,
         \A i \in 1 .. Len(pressed) : pressed'[i] = pressed[i]
  PROVE  Delivered' /\ Total' = Total
<1>1. Oldest' = Oldest /\ Unread(buf)' = Unread(buf) /\ Total' = Total
  BY DEF Oldest, Unread, Total
<1>2. InOrder(read, buf.ring, Unread(buf), queue, Total, pressed)
        => InOrder(read, buf.ring, Unread(buf), queue, Total, pressed')
  <2>1. \A i \in 1 .. Total : i \in 1 .. Len(pressed)
    BY Facts DEF KeyInv, Typing
  <2> QED
    BY <2>1 DEF InOrder
<1>3. Delivered
  BY DEF KeyInv
<1>4. taking' = taking /\ read' = read /\ buf' = buf /\ queue' = queue /\ overtaken' = overtaken
  OBVIOUS
<1> QED
  BY <1>1, <1>2, <1>3, <1>4 DEF Delivered

\* A character leaves the decoder.
LEMMA CharKeeps ==
  ASSUME KeyInv, NEW ch \in Chars, ch.n = Total + 1, ch = pressed[Total + 1],
         Total + 1 <= Len(pressed), power_keyboard_char(ch), UNCHANGED <<tail, taking, read, pressed>>
  PROVE  /\ Delivered' /\ Total' = Total + 1 /\ buf' \in Buffers
         /\ queue' \in Seq(Chars) /\ Len(queue') <= QCap /\ overtaken' \in BOOLEAN
<1> DEFINE l == Len(read)
           k == Len(queue)
           u == Unread(buf)
           n == l + u + k
<1>1. /\ l \in Nat /\ k \in 0 .. QCap /\ u \in 0 .. Wrap - 1 /\ u \in Nat /\ Total = n /\ n \in Nat
      /\ Oldest = l % Wrap /\ Oldest' = Oldest
  BY Facts, KeySizes DEF Total, Oldest
<1>2. u + 1 < Wrap
  <2>1. n + 1 <= Len(pressed) /\ Len(pressed) - l <= MaxWaiting /\ Len(pressed) \in Nat
    BY <1>1, Facts DEF KeyInv, Typing
  <2> DEFINE m == Len(pressed)
  <2>2. m \in Nat /\ n + 1 <= m /\ m - l <= MaxWaiting /\ n = l + u + k
    BY <2>1
  <2> HIDE DEF l, u, k, n, m
  <2> QED
    BY <1>1, <2>2, KeySizes
<1>3. /\ queue \in Seq(Chars) /\ buf \in Buffers /\ read \in Seq(Chars) /\ overtaken \in BOOLEAN
  BY Facts DEF KeyInv, Typing
<1>4. ~buf.overrun => u <= RingSize /\ Once(read, buf.ring, u, queue, n)
                      /\ (~overtaken => InOrder(read, buf.ring, u, queue, n, pressed))
  BY <1>1 DEF KeyInv, Delivered
<1>5. CASE mode # "performance" /\ QueueRoom
  <2>1. queue' = Append(queue, ch) /\ UNCHANGED <<buf, overtaken>>
    BY <1>5 DEF power_keyboard_char
  <2>2. queue' \in Seq(Chars) /\ Len(queue') = k + 1 /\ Len(queue') <= QCap
    BY <1>1, <1>3, <1>5, <2>1, KeySizes DEF QueueRoom
  <2>3. Unread(buf)' = u
    BY <1>1, <2>1 DEF Unread
  <2>4. Total' = n + 1
    <3> HIDE DEF u, k
    <3> QED
      BY <1>1, <2>2, <2>3 DEF Total
  <2>5. /\ \A i \in 1 .. n : CharAt(read, buf.ring, u, queue', i) = CharAt(read, buf.ring, u, queue, i)
        /\ CharAt(read, buf.ring, u, queue', n + 1) = ch
    BY <1>1, <1>3, <2>1, QueuePlaces
  <2>6. Once(read, buf.ring, u, queue, n) => Once(read, buf.ring, u, queue', n + 1)
    <3> HIDE DEF l, u, k, n
    <3>1. n + 1 \in 1 .. n + 1 /\ n + 1 - 1 = n /\ n + 1 + 1 .. n + 1 = {}
      BY <1>1
    <3>2. \A i \in n + 1 + 1 .. n + 1 :
            CharAt(read, buf.ring, u, queue', i) = CharAt(read, buf.ring, u, queue, i - 1)
      BY <3>1
    <3>3. ch.n = n + 1
      BY <1>1
    <3> QED
      BY <1>1, <2>5, <3>1, <3>2, <3>3, OnceMore
  <2>7. InOrder(read, buf.ring, u, queue, n, pressed) => InOrder(read, buf.ring, u, queue', n + 1, pressed)
    <3> HIDE DEF l, u, k, n
    <3>1. \A i \in 1 .. n + 1 : i \in 1 .. n \/ i = n + 1
      BY <1>1
    <3>2. ch = pressed[n + 1]
      BY <1>1
    <3> QED
      BY <2>5, <3>1, <3>2 DEF InOrder
  <2>8. Delivered'
    <3> HIDE DEF l, u, k, n
    <3>1. read' = read /\ pressed' = pressed /\ buf' = buf /\ overtaken' = overtaken
      BY <2>1
    <3>2. Oldest = Len(read) % Wrap /\ Oldest' = Oldest /\ taking' = taking /\ (taking => u # 0)
      BY <1>1, Facts DEF u
    <3>3. Oldest' = Len(read') % Wrap /\ (taking' => Unread(buf)' # 0)
      BY <2>3, <3>1, <3>2
    <3>4. ~buf'.overrun => /\ Unread(buf)' <= RingSize
                           /\ Once(read', buf'.ring, Unread(buf)', queue', Total')
                           /\ ~overtaken' => InOrder(read', buf'.ring, Unread(buf)', queue', Total', pressed')
      BY <1>4, <2>3, <2>4, <2>6, <2>7, <3>1, Zenon
    <3> QED
      BY <3>3, <3>4, Zenon DEF Delivered
  <2> QED
    BY <1>1, <1>3, <2>1, <2>2, <2>4, <2>8
<1>6. CASE ~(mode # "performance" /\ QueueRoom)
  <2>1. buf' = keyboard_buffer_put(buf, ch) /\ overtaken' = (overtaken \/ queue # <<>>) /\ queue' = queue
    BY <1>6 DEF power_keyboard_char
  <2>2. /\ buf' \in Buffers /\ (buf'.head - Oldest) % Wrap = u + 1
        /\ buf'.overrun <=> buf.overrun \/ u >= RingSize
        /\ u < RingSize =>
             /\ buf'.ring[(l + u) % RingSize] = ch
             /\ \A i \in l + 1 .. l + u : buf'.ring[(i - 1) % RingSize] = buf.ring[(i - 1) % RingSize]
    BY <1>1, <1>2, <1>3, <2>1, PutOne DEF Unread
  <2>3. Unread(buf)' = u + 1
    BY <1>1, <2>2 DEF Unread
  <2>4. Total' = n + 1
    <3> HIDE DEF u, k
    <3>1. Len(read)' = l /\ Len(queue)' = k
      BY <2>1 DEF k
    <3> QED
      BY <1>1, <2>3, <3>1 DEF Total
  <2>5. ASSUME ~buf'.overrun
        PROVE  /\ u + 1 <= RingSize /\ Once(read, buf'.ring, u + 1, queue, n + 1)
               /\ ~overtaken' => InOrder(read, buf'.ring, u + 1, queue, n + 1, pressed)
    <3> DEFINE m == l + u + 1
               c == buf'.ring
               g == buf.ring
    <3>1. ~buf.overrun /\ u < RingSize
      <4>1. u \in Nat /\ RingSize \in Nat /\ ~(buf.overrun \/ u >= RingSize)
        BY <1>1, <2>2, <2>5, KeySizes
      <4> HIDE DEF u
      <4> QED
        BY ONLY <4>1
    <3>2. /\ \A i \in 1 .. l + u : CharAt(read, c, u + 1, queue, i) = CharAt(read, g, u, queue, i)
          /\ CharAt(read, c, u + 1, queue, m) = ch
          /\ \A i \in l + u + 2 .. n + 1 : CharAt(read, c, u + 1, queue, i) = CharAt(read, g, u, queue, i - 1)
      <4> HIDE DEF u, c, g
      <4>1. PutBehind(read, u, g, c, ch)
        BY <2>2, <3>1 DEF PutBehind, c, g
      <4>2. u \in Nat /\ read \in Seq(Chars) /\ queue \in Seq(Chars)
        BY <1>1, <1>3
      <4>3. Placed(read, u, g, c, queue, ch)
        BY <4>1, <4>2, PutPlaces
      <4>4. n + 1 = Len(read) + u + Len(queue) + 1
        OBVIOUS
      <4> QED
        BY <4>3, <4>4 DEF Placed
    <3>3. Once(read, g, u, queue, n) /\ (~overtaken => InOrder(read, g, u, queue, n, pressed))
      BY <1>4, <3>1
    <3>4. n = l + u + k /\ ch.n = n + 1 /\ ch = pressed[n + 1] /\ (queue = <<>> => k = 0)
      BY <1>1
    <3>5. ~overtaken' => ~overtaken /\ queue = <<>>
      BY <2>1
    <3> HIDE DEF l, u, k, n, c, g
    <3>6. m \in 1 .. n + 1 /\ m - 1 = l + u /\ m + 1 = l + u + 2
      BY <1>1, <3>4
    <3>7. Once(read, c, u + 1, queue, n + 1)
      BY <1>1, <3>2, <3>3, <3>4, <3>6, OnceMore
    <3>8. ASSUME ~overtaken'
          PROVE  InOrder(read, c, u + 1, queue, n + 1, pressed)
      <4>1. n = l + u /\ m = n + 1
        BY <1>1, <3>4, <3>5, <3>8
      <4>2. \A i \in 1 .. n + 1 : i \in 1 .. n \/ i = n + 1
        BY <1>1
      <4>3. InOrder(read, g, u, queue, n, pressed)
        BY <3>3, <3>5, <3>8
      <4> QED
        BY <3>2, <3>4, <4>1, <4>2, <4>3 DEF InOrder
    <3>9. u + 1 <= RingSize
      <4>1. u \in Nat /\ RingSize \in Nat /\ u < RingSize
        BY <1>1, <3>1, KeySizes
      <4> QED
        BY ONLY <4>1
    <3> QED
      BY <3>7, <3>8, <3>9 DEF c
  <2>6. Delivered'
    <3> HIDE DEF l, u, k, n
    <3>1. read' = read /\ pressed' = pressed /\ queue' = queue
      BY <2>1
    <3>2. Oldest' = Len(read) % Wrap
      BY <1>1, Facts
    <3>3. u + 1 # 0
      BY ONLY <1>1
    <3> QED
      BY <2>3, <2>4, <2>5, <3>1, <3>2, <3>3 DEF Delivered
  <2> QED
    BY <1>1, <1>3, <2>1, <2>2, <2>4, <2>6, Facts
<1> QED
  BY <1>5, <1>6

\* A byte without a character is at most a move of a shift key.
LEMMA Codewords ==
  /\ Byte("prefix", FALSE) \in Codes /\ Byte("page", FALSE) \in Codes
  /\ \A side \in Sides, up \in BOOLEAN : Byte(side, up) \in Codes /\ Byte(side, up).key # "char"
  /\ Byte("prefix", FALSE).key # "char" /\ Byte("page", FALSE).key # "char"
  /\ \A s : After(s, Byte("prefix", FALSE)) = s /\ After(s, Byte("page", FALSE)) = s
<1>1. 0 \in 0 .. MaxKeys
  BY KeySizes
<1> QED
  BY <1>1 DEF Byte, Codes, Sides, After

LEMMA PressCharKeeps ==
  ASSUME KeyInv, NEW keypad \in BOOLEAN, PressChar(keypad)
  PROVE  KeyInv'
<1> DEFINE m == Len(pressed)
           code == [Byte("char", FALSE) EXCEPT !.n = m + 1]
           prefix == Byte("prefix", FALSE)
           c == [n |-> m + 1, shifted |-> held # {}]
           mid == IF keypad THEN Append(port, prefix) ELSE port
<1>1. /\ m \in Nat /\ m < MaxKeys /\ m - Len(read) < MaxWaiting /\ pressed' = Append(pressed, c)
      /\ UNCHANGED <<held, others, decoder, delivery, user>>
  BY Facts DEF PressChar
<1>2. m + 1 \in 0 .. MaxKeys
  BY <1>1, KeySizes
<1>3. code \in Codes /\ code.key = "char" /\ code.n = m + 1 /\ After(held, code) = held /\ c \in Chars
  BY <1>2 DEF Codes, Chars, Byte, After, Sides
<1>4. port' = Append(mid, code)
  <2>1. port \in Seq(Codes) /\ prefix \in Codes
    BY Facts, Codewords
  <2> HIDE DEF prefix, code
  <2>2. port \o <<prefix, code>> = Append(Append(port, prefix), code) /\ port \o <<code>> = Append(port, code)
    BY <1>3, <2>1
  <2> QED
    BY <2>2 DEF PressChar, Send, prefix, code
<1>5. Delivered' /\ Total' = Total
  <2>1. \A i \in 1 .. Len(pressed) : pressed'[i] = pressed[i]
    BY <1>1, <1>3, Facts
  <2>2. UNCHANGED <<read, buf, queue, tail, taking, overtaken>>
    BY <1>1 DEF delivery, user
  <2> QED
    BY <2>1, <2>2, SameDelivery
<1>6. /\ Total \in Nat /\ Total <= m /\ Waiting(port, Total, m) /\ Shifts(port, shift, held, pressed)
      /\ port \in Seq(Codes) /\ held \in SUBSET Sides /\ pressed \in Seq(Chars)
  BY Facts DEF KeyInv, Typing
<1>7. mid \in Seq(Codes) /\ Waiting(mid, Total, m) /\ Shifts(mid, shift, held, pressed)
  <2>1. prefix \in Codes /\ prefix.key # "char" /\ After(held, prefix) = held
    BY Codewords
  <2>2. /\ Append(port, prefix) \in Seq(Codes) /\ Waiting(Append(port, prefix), Total, m)
        /\ Shifts(Append(port, prefix), shift, held, pressed)
    <3> HIDE DEF prefix, m
    <3>1. Append(port, prefix) \in Seq(Codes)
      BY <1>6, <2>1, Appended
    <3>2. Waiting(Append(port, prefix), Total, m)
      BY <1>1, <1>6, <2>1, WaitingSent
    <3>3. Shifts(Append(port, prefix), shift, After(held, prefix), pressed)
      BY <1>6, <2>1, ShiftsSent
    <3> QED
      BY <2>1, <3>1, <3>2, <3>3
  <2> QED
    BY <1>6, <2>2
<1> HIDE DEF mid
<1>8. /\ pressed' \in Seq(Chars) /\ Len(pressed') = m + 1 /\ pressed'[m + 1] = c
      /\ \A i \in 1 .. m : pressed'[i] = pressed[i]
  BY <1>1, <1>3, <1>6, Appended
<1>9. port' \in Seq(Codes) /\ port' # <<>>
  BY <1>3, <1>4, <1>7, Appended
<1>10. Waiting(port', Total, m + 1)
  <2> HIDE DEF m, code
  <2> QED
    BY <1>1, <1>3, <1>4, <1>6, <1>7, WaitingSent
<1>11. Shifts(port', shift, held, pressed')
  <2>1. code.key = "char" => code.n \in 1 .. Len(pressed') /\ pressed'[code.n].shifted = (held # {})
    <3>1. m + 1 \in 1 .. m + 1 /\ c.shifted = (held # {})
      BY <1>1
    <3> QED
      BY <1>3, <1>8, <3>1
  <2> HIDE DEF code, c, m
  <2>2. Shifts(mid, shift, held, pressed')
    BY <1>1, <1>3, <1>6, <1>7, ShiftsPressed
  <2>3. Shifts(Append(mid, code), shift, After(held, code), pressed')
    BY <1>3, <1>6, <1>7, <2>1, <2>2, ShiftsSent
  <2> QED
    BY <1>3, <1>4, <2>3
<1>12. Typing'
  <2>1. \A i \in 1 .. m + 1 : pressed'[i].n = i
    <3>1. \A i \in 1 .. m + 1 : i \in 1 .. m \/ i = m + 1
      BY <1>1
    <3>2. \A i \in 1 .. m : pressed[i].n = i
      BY DEF KeyInv, Typing
    <3>3. c.n = m + 1
      OBVIOUS
    <3> HIDE DEF m, c
    <3> QED
      BY <1>8, <3>1, <3>2, <3>3
  <2>2. m + 1 <= MaxKeys /\ Total' <= m + 1 /\ m + 1 - Len(read) <= MaxWaiting
    <3>1. Len(read) \in Nat
      BY Facts
    <3> DEFINE l == Len(read)
    <3> HIDE DEF m, l
    <3>2. l \in Nat /\ m - l < MaxWaiting
      BY <1>1, <3>1 DEF l
    <3> QED
      BY <1>1, <1>5, <1>6, <3>2, KeySizes DEF l
  <2>3. read' = read /\ held' = held /\ shift' = shift /\ overtaken' = overtaken
    BY <1>1 DEF decoder, delivery, user
  <2> HIDE DEF m
  <2>4. overtaken \in BOOLEAN
    BY DEF KeyInv, Typing
  <2>5. Total' = Total /\ Len(pressed)' = m + 1 /\ Len(read)' = Len(read)
    BY <1>5, <1>8, <2>3
  <2>6. Waiting(port, Total, Len(pressed))' /\ Shifts(port, shift, held, pressed)'
    BY <1>10, <1>11, <2>3, <2>5
  <2>7. (pressed \in Seq(Chars) /\ Len(pressed) <= MaxKeys)'
    BY <1>8, <2>2, <2>5
  <2>8. (\A i \in 1 .. Len(pressed) : pressed[i].n = i)'
    BY <2>1, <2>5
  <2>9. (Total <= Len(pressed) /\ Len(pressed) - Len(read) <= MaxWaiting)'
    <3> DEFINE a == Len(pressed)'
               b == Len(read)'
               t == Total'
               l == Len(read)
    <3>1. a = m + 1 /\ b = l /\ t <= m + 1 /\ m + 1 - l <= MaxWaiting
      BY <2>2, <2>5
    <3>2. l \in Nat /\ m \in Nat /\ t \in Nat /\ MaxWaiting \in Nat
      BY <1>1, <1>6, <2>5, Facts, KeySizes
    <3> HIDE DEF a, b, t, l
    <3>3. t <= a /\ a - b <= MaxWaiting
      BY ONLY <3>1, <3>2
    <3> QED
      BY <3>3 DEF a, b, t
  <2>10. (irq => port # <<>>)' /\ overtaken' \in BOOLEAN
    BY <1>9, <2>3, <2>4
  <2> QED
    BY <2>6, <2>7, <2>8, <2>9, <2>10 DEF Typing
<1>13. KeyTypeOK'
  <2>1. irq' \in BOOLEAN
    BY DEF PressChar, Send
  <2>2. KeyTypeOK
    BY DEF KeyInv
  <2> QED
    BY <1>1, <1>9, <2>1, <2>2 DEF KeyTypeOK, Codes, decoder, delivery, user
<1> QED
  BY <1>5, <1>12, <1>13 DEF KeyInv

\* Bytes without a character are sent, and only shift keys move.
LEMMA OtherKeeps ==
  ASSUME KeyInv, NEW b \in Codes, b.key # "char", port' \in Seq(Codes), port' # <<>>,
         Waiting(port', Total, Len(pressed)), Shifts(port', shift, held', pressed),
         held' \in SUBSET Sides, irq' \in BOOLEAN, UNCHANGED <<pressed, decoder, delivery, user>>
  PROVE  KeyInv'
<1>1. /\ read' = read /\ shift' = shift /\ overtaken' = overtaken /\ pressed' = pressed
      /\ UNCHANGED <<read, buf, queue, tail, taking, overtaken>>
  BY DEF decoder, delivery, user
<1>2. Delivered' /\ Total' = Total
  BY <1>1, SameDelivery
<1>3. Typing'
  <2>1. Typing
    BY DEF KeyInv
  <2> QED
    BY <1>1, <1>2, <2>1 DEF Typing
<1>4. KeyTypeOK'
  <2>1. KeyTypeOK
    BY DEF KeyInv
  <2> QED
    BY <2>1 DEF KeyTypeOK, Codes, decoder, delivery, user
<1> QED
  BY <1>2, <1>3, <1>4 DEF KeyInv

LEMMA MoveShiftKeeps ==
  ASSUME KeyInv, NEW side \in Sides, MoveShift(side)
  PROVE  KeyInv'
<1> DEFINE b == Byte(side, side \in held)
<1>1. b \in Codes /\ b.key # "char" /\ b.key = side /\ b.up = (side \in held)
  <2>1. (side \in held) \in BOOLEAN
    OBVIOUS
  <2> QED
    BY <2>1, Codewords DEF Byte
<1>2. held' = After(held, b)
  BY <1>1 DEF MoveShift, After
<1> HIDE DEF b
<1>3. /\ Total \in Nat /\ Len(pressed) \in Nat /\ Total <= Len(pressed) /\ port \in Seq(Codes)
      /\ Waiting(port, Total, Len(pressed)) /\ Shifts(port, shift, held, pressed)
      /\ held \in SUBSET Sides /\ pressed \in Seq(Chars)
  BY Facts DEF KeyInv, Typing
<1>4. port' = Append(port, b)
  BY <1>1, <1>3 DEF MoveShift, Send, b
<1>5. port' \in Seq(Codes) /\ port' # <<>>
  BY <1>1, <1>3, <1>4, Appended
<1>6. Waiting(port', Total, Len(pressed))
  BY <1>1, <1>3, <1>4, WaitingSent
<1>7. Shifts(port', shift, held', pressed)
  BY <1>1, <1>2, <1>3, <1>4, ShiftsSent
<1>8. held' \in SUBSET Sides
  BY <1>2, <1>3, AfterType
<1>9. irq' \in BOOLEAN /\ UNCHANGED <<pressed, decoder, delivery, user>>
  BY DEF MoveShift, Send
<1> QED
  BY <1>1, <1>5, <1>6, <1>7, <1>8, <1>9, OtherKeeps

LEMMA PressPageKeeps ==
  ASSUME KeyInv, PressPage
  PROVE  KeyInv'
<1> DEFINE a == Byte("prefix", FALSE)
           b == Byte("page", FALSE)
           mid == Append(port, a)
<1>1. /\ a \in Codes /\ a.key # "char" /\ b \in Codes /\ b.key # "char"
      /\ After(held, a) = held /\ After(held, b) = held
  BY Codewords
<1>2. /\ Total \in Nat /\ Len(pressed) \in Nat /\ Total <= Len(pressed) /\ port \in Seq(Codes)
      /\ Waiting(port, Total, Len(pressed)) /\ Shifts(port, shift, held, pressed)
      /\ held \in SUBSET Sides /\ pressed \in Seq(Chars)
  BY Facts DEF KeyInv, Typing
<1>3. port' = port \o <<a, b>> /\ held' = held
  BY DEF PressPage, Send
<1> HIDE DEF a, b
<1>4. port' = Append(mid, b)
  BY <1>1, <1>2, <1>3
<1>5. mid \in Seq(Codes) /\ Waiting(mid, Total, Len(pressed))
  BY <1>1, <1>2, Appended, WaitingSent
<1>6. Shifts(mid, shift, held, pressed)
  <2>1. Shifts(mid, shift, After(held, a), pressed)
    BY <1>1, <1>2, ShiftsSent
  <2> QED
    BY <1>1, <2>1
<1> HIDE DEF mid
<1>7. port' \in Seq(Codes) /\ port' # <<>> /\ Waiting(port', Total, Len(pressed))
  BY <1>1, <1>2, <1>4, <1>5, Appended, WaitingSent
<1>8. Shifts(port', shift, held', pressed)
  <2>1. Shifts(port', shift, After(held, b), pressed)
    BY <1>1, <1>2, <1>4, <1>5, <1>6, ShiftsSent
  <2> QED
    BY <1>1, <1>3, <2>1
<1>9. irq' \in BOOLEAN /\ UNCHANGED <<pressed, decoder, delivery, user>>
  BY DEF PressPage, Send
<1> QED
  BY <1>1, <1>2, <1>3, <1>7, <1>8, <1>9, OtherKeeps

\* A step that touches neither the keys, the port, the decoder's shift state
\* nor what is delivered.
LEMMA QuietKeeps ==
  ASSUME KeyInv, UNCHANGED <<held, pressed, port, shift, queue, buf, overtaken, tail, taking, read>>,
         irq' \in BOOLEAN, irq' => irq, extended' \in BOOLEAN, replay' \in BOOLEAN,
         mode' \in Modes, ticks' \in 0 .. Interval["saver"]
  PROVE  KeyInv'
<1>1. Delivered' /\ Total' = Total
  BY SameDelivery
<1>2. Typing'
  <2>1. Typing
    BY DEF KeyInv
  <2>2. Total' = Total /\ Len(pressed)' = Len(pressed) /\ Len(read)' = Len(read)
    BY <1>1
  <2> QED
    BY <2>1, <2>2 DEF Typing
<1>3. KeyTypeOK'
  <2>1. KeyTypeOK
    BY DEF KeyInv
  <2> QED
    BY <2>1 DEF KeyTypeOK
<1> QED
  BY <1>1, <1>2, <1>3 DEF KeyInv

LEMMA KeyboardIrqKeeps ==
  ASSUME KeyInv, KeyboardIrq
  PROVE  KeyInv'
<1>1. CASE replay
  <2>1. /\ UNCHANGED <<held, pressed, port, shift, queue, buf, overtaken, tail, taking, read>>
        /\ irq' = FALSE /\ extended' = extended /\ replay' = replay /\ mode' = mode /\ ticks' = ticks
    BY <1>1 DEF KeyboardIrq, decoder, delivery, hardware, user
  <2>2. ticks \in 0 .. Interval["saver"]
    BY DEF KeyInv, KeyTypeOK
  <2> QED
    BY <2>1, <2>2, Facts, QuietKeeps
<1>2. CASE ~replay
  <2> DEFINE b == Head(port)
             m == Len(pressed)
             ch == [n |-> b.n, shifted |-> shift # {}]
  <2>1. irq /\ port # <<>> /\ port \in Seq(Codes)
    BY Facts DEF KeyboardIrq, KeyInv, Typing
  <2>2. b = port[1] /\ b \in Codes /\ Tail(port) \in Seq(Codes)
    BY <2>1, FirstOf
  <2>3. /\ port' = Tail(port) /\ irq' = (Len(port) > 1) /\ extended' = (b.key = "prefix")
        /\ shift' = After(shift, b)
        /\ UNCHANGED <<held, pressed, others, tail, taking, read, replay, mode, ticks>>
        /\ IF b.key = "char" THEN power_keyboard_char(ch) ELSE UNCHANGED <<queue, buf, overtaken>>
    BY <1>2 DEF KeyboardIrq, keyboard_handle_scancode, ShiftAfter, After, hardware, user
  <2>4. irq' \in BOOLEAN /\ (irq' => port' # <<>>)
    <3>1. Len(port) \in Nat \ {0} /\ Len(port') = Len(port) - 1
      BY <2>1, <2>3, FirstOf
    <3> DEFINE a == Len(port)
    <3>2. a \in Nat \ {0} /\ Len(port') = a - 1 /\ irq' = (a > 1)
      BY <2>3, <3>1
    <3> HIDE DEF a
    <3>3. irq' \in BOOLEAN /\ (irq' => a > 1)
      <4> DEFINE g == a > 1
      <4>1. g \in BOOLEAN /\ irq' = g /\ (g => a > 1)
        BY <3>2
      <4> HIDE DEF g
      <4> QED
        BY <4>1
    <3>4. a > 1 => Len(port') # 0
      BY <3>2
    <3>5. port' = <<>> => Len(port') = 0
      OBVIOUS
    <3> QED
      BY <3>3, <3>4, <3>5
  <2>5. /\ Total \in Nat /\ m \in Nat /\ Total <= m /\ Waiting(port, Total, m)
        /\ Shifts(port, shift, held, pressed) /\ pressed \in Seq(Chars) /\ shift \in SUBSET Sides
        /\ m - Len(read) <= MaxWaiting /\ m <= MaxKeys /\ \A i \in 1 .. m : pressed[i].n = i
    BY Facts DEF KeyInv, Typing
  <2>6. shift' \in SUBSET Sides
    BY <2>3, <2>5, AfterType
  <2>7. Shifts(port', shift', held, pressed)
    BY <2>1, <2>2, <2>3, <2>5, ShiftsTaken
  <2>8. overtaken \in BOOLEAN
    BY DEF KeyInv, Typing
  <2>9. CASE b.key # "char"
    <3> HIDE DEF b, ch, m
    <3>1. UNCHANGED <<read, buf, queue, tail, taking, overtaken, pressed>>
      BY <2>3, <2>9
    <3>2. Delivered' /\ Total' = Total
      BY <3>1, SameDelivery
    <3>3. Waiting(port', Total, m)
      BY <2>1, <2>2, <2>3, <2>5, <2>9, WaitingTaken
    <3>4. Typing'
      <4>1. Typing
        BY DEF KeyInv
      <4>2. Total' = Total /\ Len(pressed)' = Len(pressed) /\ Len(read)' = Len(read)
        BY <3>1, <3>2
      <4>3. Waiting(port, Total, Len(pressed))' /\ Shifts(port, shift, held, pressed)'
        BY <2>3, <2>7, <3>1, <3>3, <4>2 DEF m
      <4> QED
        BY <2>3, <2>4, <3>1, <4>1, <4>2, <4>3 DEF Typing
    <3>5. KeyTypeOK'
      <4>1. KeyTypeOK
        BY DEF KeyInv
      <4> QED
        BY <2>2, <2>3, <2>4, <2>6, <3>1, <4>1 DEF KeyTypeOK, Codes
    <3> QED
      BY <3>2, <3>4, <3>5 DEF KeyInv
  <2>10. CASE b.key = "char"
    <3>1. b.n = Total + 1 /\ Total + 1 <= m /\ Waiting(port', Total + 1, m)
      <4> HIDE DEF b, m
      <4> QED
        BY <2>1, <2>2, <2>3, <2>5, <2>10, WaitingTaken
    <3>2. pressed[b.n].shifted = (shift # {})
      BY <2>1, <2>2, <2>5, <2>10, ShiftsTaken
    <3>3. Total + 1 \in 1 .. m
      <4> HIDE DEF b, m
      <4> QED
        BY <2>5, <3>1
    <3>4. pressed[b.n] \in Chars /\ pressed[b.n].n = b.n
      BY <2>5, <3>1, <3>3
    <3>5. ch = pressed[Total + 1] /\ ch \in Chars /\ ch.n = Total + 1
      <4>1. ch = pressed[b.n]
        BY <3>2, <3>4 DEF Chars
      <4> QED
        BY <3>1, <3>4, <4>1
    <3> HIDE DEF b, ch
    <3>6. power_keyboard_char(ch) /\ UNCHANGED <<tail, taking, read, pressed>> /\ Total + 1 <= Len(pressed)
      BY <2>3, <2>10, <3>1
    <3>7. /\ Delivered' /\ Total' = Total + 1 /\ buf' \in Buffers
          /\ queue' \in Seq(Chars) /\ Len(queue') <= QCap /\ overtaken' \in BOOLEAN
      BY <3>5, <3>6, CharKeeps
    <3>8. Typing'
      <4>1. Typing
        BY DEF KeyInv
      <4>2. Total' = Total + 1 /\ Len(pressed)' = Len(pressed) /\ Len(read)' = Len(read)
        BY <2>3, <3>7
      <4>3. Waiting(port, Total, Len(pressed))' /\ Shifts(port, shift, held, pressed)'
        BY <2>3, <2>7, <3>1, <4>2
      <4>4. (Total <= Len(pressed))'
        BY <3>6, <4>2
      <4> QED
        BY <2>3, <2>4, <3>7, <4>1, <4>2, <4>3, <4>4 DEF Typing
    <3>9. KeyTypeOK'
      <4>1. KeyTypeOK
        BY DEF KeyInv
      <4> QED
        BY <2>2, <2>3, <2>4, <2>6, <3>7, <4>1 DEF KeyTypeOK, Codes, Buffers
    <3> QED
      BY <3>7, <3>8, <3>9 DEF KeyInv
  <2> QED
    BY <2>9, <2>10
<1> QED
  BY <1>1, <1>2

LEMMA TimerIrqKeeps ==
  ASSUME KeyInv, TimerIrq
  PROVE  KeyInv'
<1>0. /\ mode \in Modes /\ ticks \in 0 .. Interval["saver"] /\ Interval[mode] \in Nat
      /\ Interval["saver"] \in Nat /\ Interval[mode] <= Interval["saver"]
  <2>1. "saver" \in Modes
    BY DEF Modes
  <2> QED
    BY <2>1, KeyboardAssumption DEF KeyInv, KeyTypeOK
<1>a. /\ UNCHANGED <<held, pressed, port, shift, extended, irq, mode, overtaken, tail, taking, read, replay>>
      /\ Oldest' = Oldest
  BY DEF TimerIrq, hardware, decoder, user, Oldest
<1>1. CASE ~(ticks + 1 >= Interval[mode])
  <2>1. ticks' = ticks + 1 /\ UNCHANGED <<queue, buf>>
    BY <1>1 DEF TimerIrq
  <2>2. ticks' \in 0 .. Interval["saver"]
    <3> DEFINE a == Interval[mode]
               z == Interval["saver"]
    <3> HIDE DEF a, z
    <3>1. a \in Nat /\ z \in Nat /\ a <= z /\ ticks \in 0 .. z /\ ~(ticks + 1 >= a)
      BY <1>0, <1>1 DEF a, z
    <3> QED
      BY <2>1, <3>1 DEF z
  <2> QED
    BY <1>a, <2>1, <2>2, Facts, QuietKeeps
<1>2. CASE ticks + 1 >= Interval[mode]
  <2>1. ticks' = 0 /\ queue' = <<>> /\ buf' = keyboard_flush_now
    BY <1>2 DEF TimerIrq
  <2> DEFINE l == Len(read)
             u == Unread(buf)
             k == Len(queue)
             n == l + u + k
             m == Len(pressed)
  <2>2. /\ l \in Nat /\ u \in Nat /\ k \in Nat /\ m \in Nat /\ Total = n /\ n \in Nat
        /\ n <= m /\ m - l <= MaxWaiting /\ Oldest = l % Wrap /\ (taking => u # 0)
    BY Facts, KeySizes DEF KeyInv, Typing, Total
  <2>3. u + k < Wrap
    <3> HIDE DEF l, u, k, m
    <3> QED
      BY <2>2, KeySizes
  <2>4. buf' \in Buffers /\ Holds(buf', buf, l, u, k)
    BY <2>1, <2>2, <2>3, Facts, FlushAll
  <2>5. Unread(buf)' = u + k
    BY <1>a, <2>4 DEF Holds, Unread
  <2>6. Len(queue)' = 0 /\ Len(read)' = l /\ read' = read /\ Oldest' = Oldest /\ pressed' = pressed
    BY <1>a, <2>1
  <2>7. Total' = Total
    <3> HIDE DEF l, u, k
    <3> QED
      BY <2>2, <2>5, <2>6 DEF Total
  <2>8. ASSUME ~buf'.overrun
        PROVE  /\ u + k <= RingSize /\ Once(read, buf'.ring, u + k, <<>>, n)
               /\ ~overtaken => InOrder(read, buf'.ring, u + k, <<>>, n, pressed)
    <3>1. ~buf.overrun
      BY <2>4, <2>8 DEF Holds
    <3>2. /\ u <= RingSize /\ Once(read, buf.ring, u, queue, n)
          /\ ~overtaken => InOrder(read, buf.ring, u, queue, n, pressed)
      BY <2>2, <3>1 DEF KeyInv, Delivered
    <3>3. u + k <= RingSize
      BY <2>4, <2>8, <3>2 DEF Holds
    <3>4. SameChars(read, buf.ring, u, queue, read, buf'.ring, u + k, <<>>, n)
      <4> DEFINE c == buf'
      <4> HIDE DEF c, u
      <4>1. Holds(c, buf, Len(read), u, Len(queue)) /\ ~c.overrun /\ u <= RingSize /\ u \in Nat
        BY <2>2, <2>4, <2>8, <3>2 DEF c
      <4>2. SameChars(read, buf.ring, u, queue, read, c.ring, u + Len(queue), <<>>,
                      Len(read) + u + Len(queue))
        BY <4>1, Facts, FlushPlaces
      <4> QED
        BY <4>2 DEF c
    <3> HIDE DEF l, u, k, n
    <3> QED
      BY <3>2, <3>3, <3>4, SamePlaces
  <2>9. Delivered'
    <3> HIDE DEF l, u, k, n
    <3>1. Oldest' = Len(read)' % Wrap /\ (taking' => u + k # 0)
      BY <1>a, <2>2, <2>6 DEF l
    <3>2. Total' = n
      BY <2>2, <2>7
    <3> QED
      BY <1>a, <2>1, <2>5, <2>6, <2>8, <3>1, <3>2 DEF Delivered
  <2>10. Typing'
    <3>1. Typing
      BY DEF KeyInv
    <3>2. Total' = Total /\ Len(pressed)' = Len(pressed) /\ Len(read)' = Len(read)
      BY <2>6, <2>7
    <3> QED
      BY <1>a, <3>1, <3>2 DEF Typing
  <2>11. KeyTypeOK'
    <3>1. KeyTypeOK
      BY DEF KeyInv
    <3>2. ticks' \in 0 .. Interval["saver"]
      BY <1>0, <2>1
    <3>3. queue' \in Seq(Chars) /\ Len(queue') <= QCap
      <4>1. 0 <= QCap
        BY KeySizes
      <4> QED
        BY <2>1, <4>1
    <3> QED
      BY <1>a, <2>4, <3>1, <3>2, <3>3 DEF KeyTypeOK, Buffers
  <2> QED
    BY <2>9, <2>10, <2>11 DEF KeyInv
<1> QED
  BY <1>1, <1>2

\* The shell has moved tail on: the oldest character is the same as before.
LEMMA GetcharKeeps ==
  ASSUME KeyInv, keyboard_getchar
  PROVE  KeyInv'
<1>1. /\ ~taking /\ taking' = TRUE /\ tail' = (tail + 1) % Wrap /\ buf.head # tail
      /\ UNCHANGED <<held, pressed, port, shift, extended, irq, mode, queue, ticks, buf, overtaken,
                     read, replay>>
  BY DEF keyboard_getchar, HasChar, hardware, decoder, delivery
<1>2. Oldest = tail /\ tail \in 0 .. Wrap - 1 /\ buf.head \in 0 .. Wrap - 1
  BY <1>1, Facts DEF Oldest
<1>3. Oldest' = Oldest /\ tail' \in 0 .. Wrap - 1
  <2> DEFINE t == tail
             w == Wrap
  <2>1. t \in Int /\ t + 1 \in Int /\ -1 \in Int /\ w \in Nat \ {0} /\ t \in 0 .. w - 1
    BY <1>2, KeySizes
  <2>2. Oldest' = (((t + 1) % w) - 1) % w /\ tail' = (t + 1) % w
    BY <1>1 DEF Oldest
  <2> HIDE DEF t, w
  <2>3. (((t + 1) % w) + (-1)) % w = ((t + 1) + (-1)) % w
    BY ONLY <2>1, ModAdd
  <2>4. (t + 1) % w \in 0 .. w - 1 /\ t % w = t
    BY ONLY <2>1, ModRange, ModSmall
  <2>5. ((t + 1) % w) - 1 = ((t + 1) % w) + (-1) /\ (t + 1) + (-1) = t
    BY ONLY <2>1, <2>4
  <2>6. Oldest' = t /\ tail' \in 0 .. w - 1
    BY <2>2, <2>3, <2>4, <2>5
  <2> QED
    BY <1>2, <2>6 DEF t, w
<1>4. Unread(buf) # 0
  <2>1. Distance(buf.head, tail) = 0 <=> buf.head = tail
    BY <1>2, Counters
  <2> QED
    BY <1>1, <1>2, <2>1 DEF Unread, Distance
<1>5. Unread(buf)' = Unread(buf) /\ Total' = Total
  BY <1>1, <1>3 DEF Unread, Total
<1>6. Delivered'
  <2>1. Delivered
    BY DEF KeyInv
  <2> QED
    BY <1>1, <1>3, <1>4, <1>5, <2>1 DEF Delivered
<1>7. Typing'
  <2>1. Typing
    BY DEF KeyInv
  <2>2. Total' = Total /\ Len(pressed)' = Len(pressed) /\ Len(read)' = Len(read)
    BY <1>1, <1>5
  <2> QED
    BY <1>1, <2>1, <2>2 DEF Typing
<1>8. KeyTypeOK'
  <2>1. KeyTypeOK
    BY DEF KeyInv
  <2> QED
    BY <1>1, <1>3, <2>1 DEF KeyTypeOK
<1> QED
  BY <1>6, <1>7, <1>8 DEF KeyInv

\* The shell loads the character: the oldest moves on.
LEMMA LoadKeeps ==
  ASSUME KeyInv, GetcharLoad
  PROVE  KeyInv'
<1> DEFINE l == Len(read)
           u == Unread(buf)
           k == Len(queue)
           n == l + u + k
           c == buf.ring[Oldest % RingSize]
<1>1. /\ read' = Append(read, c) /\ taking /\ taking' = FALSE /\ Oldest = (tail - 1) % Wrap
      /\ UNCHANGED <<held, pressed, port, shift, extended, irq, mode, queue, ticks, buf, overtaken,
                     tail, replay>>
  BY DEF GetcharLoad, Oldest, hardware, decoder, delivery
<1>2. /\ l \in Nat /\ u \in Nat /\ k \in Nat /\ Total = n /\ n \in Nat /\ Oldest = l % Wrap
      /\ Oldest \in 0 .. Wrap - 1 /\ tail \in 0 .. Wrap - 1 /\ u # 0 /\ buf.head \in 0 .. Wrap - 1
      /\ read \in Seq(Chars) /\ queue \in Seq(Chars) /\ buf \in Buffers
  BY <1>1, Facts, KeySizes DEF Total
<1>a. Oldest' = (Oldest + 1) % Wrap
  <2> DEFINE t == tail
             w == Wrap
  <2>1. t \in Int /\ t - 1 \in Int /\ 1 \in Int /\ w \in Nat \ {0} /\ t \in 0 .. w - 1
    BY <1>2, KeySizes
  <2>2. Oldest' = t /\ Oldest = (t - 1) % w
    BY <1>1 DEF Oldest
  <2> HIDE DEF t, w
  <2>3. (((t - 1) % w) + 1) % w = ((t - 1) + 1) % w
    BY ONLY <2>1, ModAdd
  <2>4. t % w = t /\ (t - 1) + 1 = t
    BY ONLY <2>1, ModSmall
  <2>5. Oldest' = (Oldest + 1) % w
    BY <2>2, <2>3, <2>4
  <2> QED
    BY <2>5 DEF w
<1>3. (buf.head - Oldest') % Wrap = u - 1
  <2>1. /\ Distance(buf.head, Oldest) = 0 <=> buf.head = Oldest
        /\ buf.head # Oldest => Distance(buf.head, Ahead(Oldest, 1)) = Distance(buf.head, Oldest) - 1
    BY <1>2, Counters, ZenonT(30)
  <2>2. Distance(buf.head, Oldest) = u /\ Ahead(Oldest, 1) = Oldest'
    BY <1>a DEF Distance, Ahead, Unread
  <2>3. Distance(buf.head, Oldest') = (buf.head - Oldest') % Wrap
    BY DEF Distance
  <2>4. u # 0
    BY <1>2
  <2> HIDE DEF u
  <2> QED
    BY <2>1, <2>2, <2>3, <2>4
<1>4. c = buf.ring[l % RingSize] /\ c \in Chars
  <2>1. ((l % Wrap) + 0) % RingSize = (l + 0) % RingSize
    BY <1>2, SlotOf
  <2>2. Oldest % RingSize = l % RingSize
    <3> DEFINE t == l % Wrap
    <3>1. t = Oldest /\ t + 0 = t /\ l + 0 = l
      BY <1>2
    <3> QED
      BY <1>2, <2>1, <3>1
  <2>3. l % RingSize \in 0 .. RingSize - 1
    BY <1>2, KeySizes, ModRange
  <2> QED
    BY <1>2, <2>2, <2>3 DEF Buffers
<1>5. read' \in Seq(Chars) /\ Len(read') = l + 1
  BY <1>1, <1>2, <1>4
<1>6. Unread(buf)' = u - 1 /\ queue' = queue
  BY <1>1, <1>3 DEF Unread
<1>7. Total' = Total
  <2> HIDE DEF l, u, k
  <2>1. Len(read)' = l + 1 /\ Len(queue)' = k
    BY <1>1, <1>5 DEF k
  <2> QED
    BY <1>2, <1>6, <2>1 DEF Total
<1>8. Oldest' = (l + 1) % Wrap
  <2> HIDE DEF l
  <2>1. l \in Int /\ 1 \in Int /\ Wrap \in Nat \ {0}
    BY <1>2, KeySizes
  <2>2. ((l % Wrap) + 1) % Wrap = (l + 1) % Wrap
    BY ONLY <2>1, ModAdd
  <2> QED
    BY <1>a, <1>2, <2>2
<1>9. SameChars(read, buf.ring, u, queue, read', buf.ring, u - 1, queue, n)
  <2> DEFINE g == buf.ring
  <2>1. u \in Nat \ {0} /\ g[Len(read) % RingSize] \in Chars /\ read' = Append(read, g[Len(read) % RingSize])
    BY <1>1, <1>2, <1>3, <1>4
  <2> HIDE DEF u, g
  <2>2. SameChars(read, g, u, queue, Append(read, g[Len(read) % RingSize]), g, u - 1, queue,
                  Len(read) + u + Len(queue))
    BY <1>2, <2>1, ReadPlaces
  <2> QED
    BY <2>1, <2>2 DEF g
<1>10. ~buf.overrun => /\ u - 1 <= RingSize /\ Once(read', buf.ring, u - 1, queue, n)
                       /\ ~overtaken => InOrder(read', buf.ring, u - 1, queue, n, pressed)
  <2>1. ~buf.overrun => /\ u <= RingSize /\ Once(read, buf.ring, u, queue, n)
                        /\ ~overtaken => InOrder(read, buf.ring, u, queue, n, pressed)
    BY <1>2 DEF KeyInv, Delivered
  <2> HIDE DEF l, u, k, n
  <2>2. u <= RingSize => u - 1 <= RingSize
    BY <1>2, KeySizes
  <2> QED
    BY <1>9, <2>1, <2>2, SamePlaces
<1>11. Delivered'
  <2>1. Oldest' = Len(read)' % Wrap
    BY <1>5, <1>8
  <2>2. Total' = n
    BY <1>2, <1>7
  <2> HIDE DEF l, u, k, n
  <2> QED
    BY <1>1, <1>6, <1>10, <2>1, <2>2 DEF Delivered
<1>12. Typing'
  <2>1. Typing
    BY DEF KeyInv
  <2>2. Total' = Total /\ Len(pressed)' = Len(pressed)
    BY <1>1, <1>7
  <2>3. (Len(pressed) - Len(read) <= MaxWaiting)'
    <3> DEFINE m == Len(pressed)
    <3>1. m \in Nat /\ m - l <= MaxWaiting /\ Len(pressed)' = m /\ Len(read)' = l + 1
      BY <1>1, <1>5, <2>1, Facts DEF Typing
    <3> HIDE DEF m, l
    <3>2. m - (l + 1) <= MaxWaiting
      BY <1>2, <3>1, KeySizes
    <3> QED
      BY <3>1, <3>2
  <2> QED
    BY <1>1, <2>1, <2>2, <2>3 DEF Typing
<1>13. KeyTypeOK'
  <2>1. KeyTypeOK
    BY DEF KeyInv
  <2> QED
    BY <1>1, <1>3, <1>5, <2>1 DEF KeyTypeOK
<1> QED
  BY <1>11, <1>12, <1>13 DEF KeyInv

-----------------------------------------------------------------------------
(* The invariant and what follows from it.                                  *)

LEMMA InitKeys ==
  ASSUME KeyInit
  PROVE  KeyInv
<1> DEFINE z == [n |-> 0, shifted |-> FALSE]
<1>1. 0 \in 0 .. MaxKeys /\ 0 \in 0 .. Wrap - 1 /\ 0 <= QCap /\ 0 <= RingSize /\ 0 <= MaxKeys /\ 0 - 0 <= MaxWaiting
  BY KeySizes
<1>2. z \in Chars
  BY <1>1 DEF Chars
<1>3. buf = [ring |-> [i \in 0 .. RingSize - 1 |-> z], head |-> 0, overrun |-> FALSE] /\ tail = 0
      /\ taking = FALSE /\ Oldest = 0
  BY DEF KeyInit, Oldest
<1>4. [i \in 0 .. RingSize - 1 |-> z] \in [0 .. RingSize - 1 -> Chars]
  BY <1>2
<1> HIDE DEF z
<1>5. buf \in Buffers
  BY <1>1, <1>3, <1>4 DEF Buffers
<1>6. /\ read = <<>> /\ queue = <<>> /\ pressed = <<>> /\ port = <<>> /\ Len(read) = 0 /\ Len(queue) = 0
      /\ Len(pressed) = 0 /\ Len(port) = 0
  BY DEF KeyInit
<1>7. Unread(buf) = 0
  <2>1. buf.head = 0
    BY <1>3
  <2>2. Distance(0, 0) = 0
    BY <1>1, Counters
  <2> QED
    BY <1>3, <2>1, <2>2 DEF Unread, Distance
<1>8. Total = 0
  BY <1>6, <1>7 DEF Total
<1>9. Delivered
  <2>1. 0 = 0 % Wrap
    BY <1>1, KeySizes, ModSmall
  <2>2. Once(read, buf.ring, 0, queue, 0) /\ InOrder(read, buf.ring, 0, queue, 0, pressed)
    BY DEF Once, InOrder
  <2> QED
    BY <1>1, <1>3, <1>6, <1>7, <1>8, <2>1, <2>2 DEF Delivered
<1>10. Typing
  <2>1. Waiting(port, 0, 0)
    BY <1>6 DEF Waiting
  <2>2. Shifts(port, {}, {}, pressed)
    <3> DEFINE f == [i \in 0 .. 0 |-> {}]
    <3>1. f \in [0 .. Len(port) -> SUBSET Sides] /\ f[0] = {}
      BY <1>6
    <3> HIDE DEF f
    <3>2. Along(f, port, {}, {}, pressed)
      BY <1>6, <3>1 DEF Along
    <3> QED
      BY <3>1, <3>2 DEF Shifts
  <2>3. shift = {} /\ held = {} /\ overtaken = FALSE /\ irq = FALSE
    BY DEF KeyInit
  <2>4. pressed \in Seq(Chars) /\ \A i \in 1 .. Len(pressed) : pressed[i].n = i
    BY <1>6
  <2>5. Total <= Len(pressed) /\ Len(pressed) <= MaxKeys /\ Len(pressed) - Len(read) <= MaxWaiting
    BY <1>1, <1>6, <1>8
  <2>6. Waiting(port, Total, Len(pressed))
    BY <1>6, <1>8, <2>1
  <2> QED
    BY <2>2, <2>3, <2>4, <2>5, <2>6 DEF Typing
<1>11. KeyTypeOK
  <2>1. 0 \in 0 .. Interval["saver"] /\ "balanced" \in Modes
    <3>1. "saver" \in Modes
      BY DEF Modes
    <3> QED
      BY <3>1, KeyboardAssumption DEF Modes
  <2>2. held = {} /\ shift = {} /\ irq = FALSE /\ extended = FALSE /\ replay = FALSE /\ mode = "balanced" /\ ticks = 0
    BY DEF KeyInit
  <2>3. port \in Seq(Codes) /\ queue \in Seq(Chars) /\ Len(queue) <= QCap /\ read \in Seq(Chars)
    BY <1>1, <1>6
  <2> QED
    BY <1>1, <1>3, <1>5, <2>1, <2>2, <2>3 DEF KeyTypeOK, Buffers, Codes
<1> QED
  BY <1>9, <1>10, <1>11 DEF KeyInv

LEMMA NextKeys ==
  ASSUME KeyInv, [KeyNext]_keyVars
  PROVE  KeyInv'
<1>0. ticks \in 0 .. Interval["saver"]
  BY DEF KeyInv, KeyTypeOK
<1>1. ASSUME NEW keypad \in BOOLEAN, PressChar(keypad)
      PROVE  KeyInv'
  BY <1>1, PressCharKeeps
<1>2. ASSUME NEW side \in Sides, MoveShift(side)
      PROVE  KeyInv'
  BY <1>2, MoveShiftKeeps
<1>3. CASE PressPage
  BY <1>3, PressPageKeeps
<1>4. CASE KeyboardIrq
  BY <1>4, KeyboardIrqKeeps
<1>5. CASE TimerIrq
  BY <1>5, TimerIrqKeeps
<1>6. CASE keyboard_getchar
  BY <1>6, GetcharKeeps
<1>a. CASE GetcharLoad
  BY <1>a, LoadKeeps
<1>7. ASSUME NEW m \in Modes, SetMode(m)
      PROVE  KeyInv'
  <2>1. /\ UNCHANGED <<held, pressed, port, shift, queue, buf, overtaken, tail, taking, read>>
        /\ irq' = irq /\ extended' = extended /\ replay' = replay /\ mode' = m /\ ticks' = ticks
    BY <1>7 DEF SetMode, hardware, decoder
  <2> QED
    BY <1>0, <2>1, Facts, QuietKeeps
<1>8. CASE ReplayBegin
  <2>1. /\ UNCHANGED <<held, pressed, port, shift, queue, buf, overtaken, tail, taking, read>>
        /\ irq' = irq /\ extended' = extended /\ replay' = TRUE /\ mode' = mode /\ ticks' = ticks
    BY <1>8 DEF ReplayBegin, hardware, decoder, delivery
  <2> QED
    BY <1>0, <2>1, Facts, QuietKeeps
<1>9. CASE ReplayEnd
  <2>1. /\ UNCHANGED <<held, pressed, port, shift, queue, buf, overtaken, tail, taking, read>>
        /\ irq' = irq /\ extended' = extended /\ replay' = FALSE /\ mode' = mode /\ ticks' = ticks
    BY <1>9 DEF ReplayEnd, hardware, decoder, delivery
  <2> QED
    BY <1>0, <2>1, Facts, QuietKeeps
<1>10. CASE UNCHANGED keyVars
  <2>1. /\ UNCHANGED <<held, pressed, port, shift, queue, buf, overtaken, tail, taking, read>>
        /\ irq' = irq /\ extended' = extended /\ replay' = replay /\ mode' = mode /\ ticks' = ticks
    BY <1>10 DEF keyVars
  <2> QED
    BY <1>0, <2>1, Facts, QuietKeeps
<1> QED
  BY <1>1, <1>2, <1>3, <1>4, <1>5, <1>6, <1>a, <1>7, <1>8, <1>9, <1>10 DEF KeyNext

\* The sequence of the characters out of the decoder, place by place.
LEMMA PastIs ==
  ASSUME KeyInv
  PROVE  /\ Past \in Seq(Chars) /\ Len(Past) = Total
         /\ \A i \in 1 .. Total : Past[i] = CharAt(read, buf.ring, Unread(buf), queue, i)
<1> DEFINE l == Len(read)
           u == Unread(buf)
           k == Len(queue)
           g == buf.ring
           s == InRing
           rs == read \o s
<1>1. /\ l \in Nat /\ u \in Nat /\ k \in Nat /\ Total = l + u + k /\ Oldest = l % Wrap
      /\ read \in Seq(Chars) /\ queue \in Seq(Chars) /\ g \in [0 .. RingSize - 1 -> Chars]
  BY Facts, KeySizes DEF Total, Buffers
<1>2. ASSUME NEW i \in 1 .. u
      PROVE  (Oldest + i - 1) % RingSize = (l + i - 1) % RingSize
             /\ (l + i - 1) % RingSize \in 0 .. RingSize - 1
  <2> HIDE DEF l, u
  <2> DEFINE t == l % Wrap
             j == i - 1
  <2>1. j \in Nat /\ t \in Nat /\ l + j \in Int /\ l + i - 1 = l + j
    BY <1>1, KeySizes, ModRange
  <2>2. t + i - 1 = t + j
    BY <2>1
  <2> HIDE DEF j
  <2>3. (t + j) % RingSize = (l + j) % RingSize
    BY <1>1, <2>1, SlotOf DEF t
  <2>4. (l + j) % RingSize \in 0 .. RingSize - 1
    BY <2>1, ModRange, KeySizes
  <2> QED
    BY <1>1, <2>1, <2>2, <2>3, <2>4 DEF t
<1>3. s = [i \in 1 .. u |-> g[(l + i - 1) % RingSize]]
  BY <1>2 DEF InRing
<1> HIDE DEF s
<1>4. s \in Seq(Chars) /\ Len(s) = u /\ \A i \in 1 .. u : s[i] = g[(l + i - 1) % RingSize]
  <2> HIDE DEF l, u, g
  <2>1. s \in [1 .. u -> Chars]
    BY <1>1, <1>2, <1>3
  <2>2. s \in Seq(Chars) /\ Len(s) = u
    BY <1>1, <2>1
  <2> QED
    BY <1>3, <2>2
<1>5. /\ rs \in Seq(Chars) /\ Len(rs) = l + u
      /\ \A i \in 1 .. l + u : rs[i] = IF i <= l THEN read[i] ELSE s[i - l]
  <2>1. rs \in Seq(Chars) /\ Len(rs) = l + u /\ \A i \in 1 .. Len(read) + Len(s) : rs[i] = IF i <= Len(read) THEN read[i] ELSE s[i - Len(read)]
    BY <1>1, <1>4, ConcatProperties
  <2> QED
    BY <1>4, <2>1
<1> HIDE DEF rs
<1>6. /\ Past \in Seq(Chars) /\ Len(Past) = l + u + k
      /\ \A i \in 1 .. l + u + k : Past[i] = IF i <= l + u THEN rs[i] ELSE queue[i - (l + u)]
  <2>1. Past = rs \o queue
    BY DEF Past, rs, s
  <2>2. /\ Past \in Seq(Chars) /\ Len(Past) = Len(rs) + Len(queue)
        /\ \A i \in 1 .. Len(rs) + Len(queue) : Past[i] = IF i <= Len(rs) THEN rs[i] ELSE queue[i - Len(rs)]
    BY <1>1, <1>5, <2>1, ConcatProperties
  <2> QED
    BY <1>5, <2>2
<1>7. ASSUME NEW i \in 1 .. l + u + k
      PROVE  Past[i] = CharAt(read, g, u, queue, i)
  <2> HIDE DEF l, u, k, g
  <2>1. CASE i <= l
    <3>1. i \in 1 .. l + u /\ i <= l + u
      BY <1>1, <2>1
    <3> QED
      BY <1>5, <1>6, <2>1, <3>1 DEF CharAt, l
  <2>2. CASE ~(i <= l) /\ i <= l + u
    <3>1. i \in 1 .. l + u /\ i - l \in 1 .. u /\ l + (i - l) - 1 = i - 1
      BY <1>1, <2>2
    <3>2. s[i - l] = g[(i - 1) % RingSize]
      BY <1>4, <3>1
    <3> QED
      BY <1>5, <1>6, <2>2, <3>1, <3>2 DEF CharAt, l
  <2>3. CASE ~(i <= l) /\ ~(i <= l + u)
    BY <1>6, <2>3 DEF CharAt, l
  <2> QED
    BY <2>1, <2>2, <2>3
<1> QED
  BY <1>1, <1>6, <1>7

LEMMA KeysFollow ==
  ASSUME KeyInv
  PROVE  KeysExact
<1> DEFINE n == Total
           m == Len(pressed)
           u == Unread(buf)
<1>1. /\ Past \in Seq(Chars) /\ Len(Past) = n /\ DOMAIN Past = 1 .. n
      /\ \A i \in 1 .. n : Past[i] = CharAt(read, buf.ring, u, queue, i)
  BY PastIs
<1>2. n \in Nat /\ m \in Nat /\ n <= m /\ port \in Seq(Codes) /\ pressed \in Seq(Chars)
  BY Facts DEF KeyInv, Typing
<1>3. ~buf.overrun => /\ Once(read, buf.ring, u, queue, n)
                      /\ ~overtaken => InOrder(read, buf.ring, u, queue, n, pressed)
  BY DEF KeyInv, Delivered
<1>4. KeysOnce
  <2> HIDE DEF n, u
  <2> QED
    BY <1>1, <1>3 DEF KeysOnce, Once
<1>5. /\ \A i \in 1 .. Len(port) : port[i].key = "char" => port[i].n \in n + 1 .. m
      /\ \A k \in n + 1 .. m : \E i \in 1 .. Len(port) : port[i].key = "char" /\ port[i].n = k
      /\ \A i, j \in 1 .. Len(port) :
           port[i].key = "char" /\ port[j].key = "char" /\ i < j => port[i].n < port[j].n
  BY DEF KeyInv, Typing, Waiting
<1>6. InPort = {i \in 1 .. Len(port) : port[i].key = "char"}
  BY <1>2 DEF InPort
<1> HIDE DEF n, m, u
<1>7. {port[i].n : i \in InPort} = n + 1 .. m
  BY <1>5, <1>6
<1>8. \A i, j \in InPort : i < j => port[i].n < port[j].n
  BY <1>5, <1>6
<1>9. ASSUME ~buf.overrun, ~overtaken
      PROVE  Past = SubSeq(pressed, 1, n)
  <2> DEFINE s == SubSeq(pressed, 1, n)
  <2>1. s \in Seq(Chars) /\ Len(s) = n /\ \A i \in 1 .. n : s[i] = pressed[i]
    <3> DEFINE t == pressed
    <3>1. \A i \in 1 .. n : i \in 1 .. Len(t)
      BY <1>2 DEF m
    <3>2. n = 0 => s = <<>>
      BY SubSeqProperties DEF m
    <3> QED
      BY <1>2, <3>1, <3>2, SubSeqProperties DEF m
  <2> HIDE DEF s
  <2>2. \A i \in 1 .. n : Past[i] = s[i]
    BY <1>1, <1>3, <1>9, <2>1 DEF InOrder
  <2>3. Past = s
    BY <1>1, <2>1, <2>2
  <2> QED
    BY <2>3 DEF s
<1>10. KeyTypeOK
  BY DEF KeyInv
<1> QED
  BY <1>1, <1>2, <1>4, <1>7, <1>8, <1>9, <1>10 DEF KeysExact, m

\* For every size of ring, queue and counters and however keys, interrupts,
\* mode switches, replays and reads interleave, each character pressed is in
\* one place: read, in the ring, in the coalescing queue or still in the
\* controller, also between the shell's move of tail and its load of the
\* character (whose slot counts as one of the ring's until then); in the order of the key presses and with the shift state of its
\* moment unless the ring overran or a character passed the queue.
THEOREM KeysAccounted == KeySpec => []KeysExact
<1>1. KeyInit => KeyInv
  BY InitKeys
<1>2. KeyInv /\ [KeyNext]_keyVars => KeyInv'
  BY NextKeys
<1>3. KeyInv => KeysExact
  BY KeysFollow
<1> QED
  BY <1>1, <1>2, <1>3, PTL DEF KeySpec
=============================================================================

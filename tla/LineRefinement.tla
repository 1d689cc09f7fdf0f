--------------------------- MODULE LineRefinement ---------------------------
(***************************************************************************)
(* LineInput implements what LineEditor promises: the initial states map   *)
(* to its initial state, and every statement of console_read_line and      *)
(* every interrupt to one of its steps or to none.                         *)
(***************************************************************************)
EXTENDS LineInputProofs, SequenceTheorems

(***************************************************************************)
(* The line on the screen, as a sequence of the characters drawn.          *)
(***************************************************************************)
Drawn == Chars \cup {NUL}
Drawing == [0 .. LineSize -> Drawn]
TextOf(e, n) == [i \in 1 .. n |-> e[i - 1]]

\* The first n characters drawn are a sequence of length n.
LEMMA TextIsSeq ==
  ASSUME NEW e \in Drawing, NEW n \in 0 .. LineSize + 1
  PROVE  TextOf(e, n) \in Seq(Drawn) /\ Len(TextOf(e, n)) = n
<1>1. n \in Nat /\ \A i \in 1 .. n : i - 1 \in 0 .. LineSize  BY Sizes, SMT
<1>2. \A i \in 1 .. n : e[i - 1] \in Drawn  BY <1>1 DEF Drawing
<1>3. TextOf(e, n) \in [1 .. n -> Drawn]  BY <1>2 DEF TextOf
<1> QED BY <1>1, <1>3, SMT

\* An empty line has no characters.
LEMMA TextEmpty == ASSUME NEW e PROVE TextOf(e, 0) = <<>>
BY SMT DEF TextOf

\* Drawing a character behind the line appends it.
LEMMA TextAppend ==
  ASSUME NEW e \in Drawing, NEW n \in 0 .. LineSize, NEW c \in Drawn
  PROVE  TextOf([e EXCEPT ![n] = c], n + 1) = Append(TextOf(e, n), c)
<1> DEFINE s == TextOf(e, n)
           t == TextOf([e EXCEPT ![n] = c], n + 1)
<1>1. s \in Seq(Drawn) /\ Len(s) = n  BY TextIsSeq, Sizes, SMT
<1>2. t \in Seq(Drawn) /\ Len(t) = n + 1
  <2>1. [e EXCEPT ![n] = c] \in Drawing /\ n + 1 \in 0 .. LineSize + 1  BY Sizes, SMT DEF Drawing
  <2> QED BY <2>1, TextIsSeq
<1>3. \A i \in 1 .. n : t[i] = s[i]  BY Sizes, SMT DEF TextOf, Drawing
<1>4. t[n + 1] = c  BY Sizes, SMT DEF TextOf, Drawing
<1> HIDE DEF s, t
<1>5. /\ Append(s, c) \in Seq(Drawn) /\ Len(Append(s, c)) = n + 1
      /\ \A i \in 1 .. n : Append(s, c)[i] = s[i]
      /\ Append(s, c)[n + 1] = c
  BY <1>1, AppendProperties
<1>6. \A i \in 1 .. n + 1 : t[i] = Append(s, c)[i]
  <2> SUFFICES ASSUME NEW i \in 1 .. n + 1 PROVE t[i] = Append(s, c)[i]  OBVIOUS
  <2>1. i \in 1 .. n \/ i = n + 1  BY SMT
  <2> QED BY <2>1, <1>3, <1>4, <1>5, Zenon
<1>7. t = Append(s, c)  BY <1>2, <1>5, <1>6, SeqEqual, Zenon
<1> QED BY <1>7 DEF s, t

\* Blanking the last character leaves the line before it.
LEMMA TextShorter ==
  ASSUME NEW e \in Drawing, NEW n \in 1 .. LineSize + 1
  PROVE  TextOf([e EXCEPT ![n - 1] = NUL], n - 1) = SubSeq(TextOf(e, n), 1, n - 1)
BY Sizes, TextIsSeq, SMT DEF TextOf, Drawing
-----------------------------------------------------------------------------
(***************************************************************************)
(* What the mapping needs besides the invariant of LineInputProofs: a line *)
(* that is returned holds what was drawn but for the early characters, and *)
(* has been cleared behind them; outside a line there are none.            *)
(***************************************************************************)
Kept ==
  /\ \A i \in 0 .. LineSize - 1 : i < loc => cmd[i] = IF i \in early THEN NUL ELSE echo[i]
  /\ \A i \in 0 .. LineSize - 1 : loc <= i => cmd[i] = NUL

RInv ==
  /\ pc \in {"wait", "return"} => pos >= LineSize
  /\ pc = "return" => ~reading_input /\ Kept
  /\ ~InLine => early = {}

\* Nothing is returned at the start.
LEMMA InitRInv == Init => RInv
BY DEF Init, RInv, InLine, Armed

\* The line waits for the shell as the loop left it.
LEMMA NextRInv == IInv /\ RInv /\ [Next]_vars => RInv'
<1> SUFFICES ASSUME IInv, RInv, [Next]_vars PROVE RInv'  OBVIOUS
<1> USE DEF Step, Then
<1>1. CASE Interrupt
  <2>1. UNCHANGED <<pc, pos>>
    BY <1>1 DEF Interrupt, KeyPress, KeyRelease, ShiftKey, kb_handler, console_on_key_down, pit_handler
  <2>2. ~(pc \in Armed) => ~reading_input
    BY DEF IInv, HandlerInsideReadLine
  <2>3. ~(pc \in Armed) => UNCHANGED <<reading_input, loc, cmd, echo, early>>
    BY <1>1, <2>2 DEF Interrupt, KeyPress, KeyRelease, ShiftKey, kb_handler, console_on_key_down,
       not_reading, pit_handler, line
  <2> QED BY <2>1, <2>3 DEF RInv, Kept, InLine, Armed
<1>2. CASE leave_loop
  <2>1. /\ pc = "wait" /\ pc' = "return" /\ ~reading_input
        /\ UNCHANGED <<reading_input, loc, cmd, echo, early, pos>>
    BY <1>2 DEF leave_loop, line
  <2>2. pos >= LineSize  BY <2>1 DEF RInv
  <2>3. Kept
    BY <2>1, <2>2, Sizes, SMT DEF Kept, IInv, TypeOK, BufferIsEcho, Armed
  <2> QED BY <2>1, <2>2, <2>3 DEF RInv, Kept, InLine
<1>3. CASE memset_done
  BY <1>3 DEF memset_done, RInv, InLine, Armed
<1>4. CASE set_reading \/ set_previous \/ set_time \/ memset_word
  BY <1>4 DEF set_reading, set_previous, set_time, memset_word, RInv, InLine, Armed
<1>5. CASE read_line_return
  BY <1>5 DEF read_line_return, RInv
<1>6. CASE wait_for_key \/ clear_bump \/ console_clear \/ print_prompt \/ set_loc \/ set_dest
             \/ set_repeating \/ parse_cmd
  <2>1. pc' \notin {"wait", "return"} /\ ~InLine /\ early' = early
    BY <1>6 DEF wait_for_key, clear_bump, console_clear, print_prompt, set_loc, set_dest,
       set_repeating, parse_cmd, line, InLine, Armed
  <2> QED BY <2>1 DEF RInv
<1>7. CASE UNCHANGED vars
  BY <1>7 DEF vars, line, RInv, Kept, InLine
<1> QED BY <1>1, <1>2, <1>3, <1>4, <1>5, <1>6, <1>7 DEF Next, MainThread

RefinementInv == IInv /\ RInv

\* Both invariants hold in every run.
LEMMA Both == Spec => []RefinementInv
<1> QED BY InitIInv, InitRInv, NextIInv, NextRInv, PTL DEF Spec, RefinementInv
-----------------------------------------------------------------------------
(***************************************************************************)
(* The steps.  Seen is what LineEditor's variables stand for.              *)
(***************************************************************************)
Text == IF InLine THEN TextOf(echo, loc) ELSE <<>>
Places(e) == {i \in 1 .. LineSize : i - 1 \in e}
Lost == IF InLine THEN Places(early) ELSE {}
Given == [i \in 1 .. LineSize |-> IF pc = "parse" THEN cmd[i - 1] ELSE NUL]

\* A step that leaves these alone is no step of the editor.
LEMMA Unseen == UNCHANGED <<Phase, Text, Lost, Given>> => UNCHANGED Editor!vars
BY Zenon DEF Text, Lost, Places, Given, TextOf, Editor!vars

\* The phases of the shell's loop.
LEMMA Phases ==
  ASSUME IInv, RInv
  PROVE  /\ pc \in {"anykey", "bump", "clear", "prompt", "loc", "dest", "repeating", "reading"}
              => Phase = "idle" /\ Text = <<>> /\ Lost = {} /\ Given = Editor!NoLine
         /\ pc \in {"previous", "time", "memset"}
              => Phase = (IF reading_input THEN "opening" ELSE "ended")
         /\ pc = "wait" => Phase = (IF reading_input THEN "reading" ELSE "ended")
         /\ pc = "return" => Phase = "ended"
         /\ pc = "parse" => Phase = "returned" /\ Text = <<>> /\ Lost = {}
         /\ pc \in Armed \cup {"return"}
              => Text = TextOf(echo, loc) /\ Lost = Places(early) /\ Given = Editor!NoLine
BY Zenon DEF IInv, RInv, TypeOK, HandlerInsideReadLine, Armed, Phase, InLine, Text, Lost, Given, Editor!NoLine
-----------------------------------------------------------------------------
(***************************************************************************)
(* A key, as the editor sees it.                                           *)
(***************************************************************************)
\* What the invariants say where the handler edits.
EditHere ==
  /\ RefinementInv /\ EditContext /\ UNCHANGED <<pc, pos>>
  /\ echo \in Drawing /\ loc \in 0 .. LineSize

LEMMA EditSeen ==
  ASSUME EditHere
  PROVE  /\ Phase \in {"opening", "reading"} /\ (Phase = "opening" \/ pos >= LineSize)
         /\ Text = TextOf(echo, loc) /\ Len(Text) = loc /\ Lost = Places(early)
         /\ Text' = TextOf(echo', loc') /\ Lost' = Places(early') /\ Given' = Given
         /\ Phase' = IF reading_input' THEN Phase ELSE "ended"
<1>1. pc \in Armed /\ reading_input  BY DEF EditHere, EditContext
<1>2. loc \in 0 .. LineSize + 1  BY Sizes, SMT DEF EditHere
<1>3. Len(TextOf(echo, loc)) = loc  BY <1>2, TextIsSeq DEF EditHere
<1>4. pc = "wait" => pos >= LineSize  BY DEF EditHere, RefinementInv, RInv
<1> QED BY <1>1, <1>3, <1>4, Zenon DEF EditHere, Armed, Phase, InLine, Text, Lost, Given

LEMMA TypeSeen ==
  ASSUME EditHere, NEW c \in Chars, type_char(c)
  PROVE  Editor!Type(c)
<1>1. /\ echo' = [echo EXCEPT ![loc] = c] /\ loc' = loc + 1
      /\ early' = IF pos <= loc THEN early \cup {loc} ELSE early \ {loc}
      /\ reading_input' = (loc # LineSize)
  BY DEF type_char, keeps_reading
<1>2. Text' = Append(Text, c)
  BY <1>1, EditSeen, TextAppend DEF EditHere, Drawn
<1>3. Phase' = IF Len(Text) = LineSize THEN "ended" ELSE Phase
  BY <1>1, EditSeen
<1>4. \/ Lost' = Lost \ {Len(Text) + 1}
      \/ Phase = "opening" /\ Lost' = Lost \cup {Len(Text) + 1}
  <2>1. /\ Lost = Places(early) /\ Lost' = Places(early') /\ Len(Text) = loc
        /\ Phase = "opening" \/ pos >= LineSize
    BY EditSeen
  <2>2. /\ loc \in Nat /\ pos \in Nat /\ LineSize \in Nat /\ loc <= LineSize
        /\ \A i \in 1 .. LineSize : i - 1 = loc <=> i = loc + 1
    BY Sizes, SMT DEF EditHere, EditContext
  <2>3. CASE ~(pos <= loc)
    <3>1. early' = early \ {loc}  BY <1>1, <2>3
    <3>2. Places(early') = Places(early) \ {loc + 1}  BY <2>2, <3>1 DEF Places
    <3> QED BY <2>1, <3>2
  <2>4. CASE pos <= loc /\ pos >= LineSize
    <3>1. early' = early \cup {loc} /\ ~(loc + 1 \in 1 .. LineSize)
      BY <1>1, <2>2, <2>4, SMT
    <3>2. Places(early') = Places(early) \ {loc + 1}  BY <2>2, <3>1 DEF Places
    <3> QED BY <2>1, <3>2
  <2>5. CASE pos <= loc /\ ~(pos >= LineSize)
    <3>1. early' = early \cup {loc}  BY <1>1, <2>5
    <3>2. loc + 1 \in 1 .. LineSize \/ loc = LineSize  BY <2>2, SMT
    <3>3. CASE loc = LineSize
      <4>1. ~(loc + 1 \in 1 .. LineSize)  BY <2>2, <3>3, SMT
      <4>2. Places(early') = Places(early) \ {loc + 1}  BY <2>2, <3>1, <4>1 DEF Places
      <4> QED BY <2>1, <4>2
    <3>4. CASE loc + 1 \in 1 .. LineSize
      <4>1. Places(early') = Places(early) \cup {loc + 1}  BY <2>2, <3>1, <3>4 DEF Places
      <4> QED BY <2>1, <2>5, <4>1
    <3> QED BY <3>2, <3>3, <3>4
  <2> QED BY <2>3, <2>4, <2>5
<1> QED
  BY <1>2, <1>3, <1>4, EditSeen, Zenon DEF Editor!Type, Editor!Accepting, Editor!AfterKey,
     Text, TextOf, Lost, Places, Given

LEMMA EraseSeen ==
  ASSUME EditHere, loc > 0, drop_char
  PROVE  Editor!Erase
<1>1. /\ echo' = [echo EXCEPT ![loc - 1] = NUL] /\ loc' = loc - 1 /\ early' = early \ {loc - 1}
      /\ reading_input' = (loc # LineSize)
  BY DEF drop_char, keeps_reading
<1>2. loc \in 1 .. LineSize + 1  BY Sizes, SMT DEF EditHere
<1>3. Text' = SubSeq(Text, 1, Len(Text) - 1)
  BY <1>1, <1>2, EditSeen, TextShorter DEF EditHere
<1>4. Text # <<>>
  <2>1. Len(Text) > 0  BY EditSeen
  <2> QED BY <2>1, SMT
<1>5. Phase' = IF Len(Text) = LineSize THEN "ended" ELSE Phase
  BY <1>1, EditSeen
<1>6. Lost' = Lost \ {Len(Text)}
  <2>1. /\ Lost = Places(early) /\ Lost' = Places(early') /\ Len(Text) = loc
    BY EditSeen
  <2>2. \A i \in 1 .. LineSize : i - 1 = loc - 1 <=> i = loc
    BY <1>2, Sizes, SMT
  <2>3. Places(early') = Places(early) \ {loc}  BY <1>1, <2>2 DEF Places
  <2> QED BY <2>1, <2>3
<1> QED
  BY <1>3, <1>4, <1>5, <1>6, EditSeen, Zenon DEF Editor!Erase, Editor!Accepting, Editor!AfterKey,
     Text, TextOf, Lost, Places, Given

\* Enter, or a key without a character: the line ends or stays open.
LEMMA EndSeen ==
  ASSUME EditHere, end_line \/ no_char
  PROVE  Editor!End \/ UNCHANGED Editor!vars
<1>1. UNCHANGED <<echo, loc, early>>  BY DEF end_line, no_char
<1>2. UNCHANGED <<Text, Lost, Given>>  BY <1>1, EditSeen
<1>3. CASE reading_input'
  <2>1. Phase' = Phase  BY <1>3, EditSeen
  <2> QED BY <1>2, <2>1, Unseen
<1>4. CASE ~reading_input'
  BY <1>2, <1>4, EditSeen, Zenon DEF Editor!End, Editor!Accepting, Text, TextOf, Lost, Places, Given
<1> QED BY <1>3, <1>4

LEMMA KeySeen ==
  ASSUME RefinementInv, NEW key \in KeyCodes \cup {NoKey}, NEW sh \in BOOLEAN,
         NEW held \in SUBSET KeyCodes, kb_handler(key, sh, held)
  PROVE  [Editor!Next]_(Editor!vars)
<1>1. UNCHANGED <<pc, pos>>  BY DEF kb_handler, console_on_key_down
<1>2. CASE ~reading_input /\ UNCHANGED line
  <2>1. UNCHANGED <<Phase, Text, Lost, Given>>
    BY <1>1, <1>2 DEF line, Phase, Text, TextOf, Lost, Places, Given, InLine
  <2> QED BY <2>1, Unseen
<1>3. CASE reading_input /\ (no_char \/ edit_line(key, sh))
  <2>1. EditHere
    <3>1. EditContext  BY <1>3, ReadingContext DEF RefinementInv
    <3> QED BY <1>1, <3>1 DEF EditHere, EditContext, Drawing, Drawn
  <2>2. ASSUME NEW c \in Chars, type_char(c) PROVE Editor!Next
    BY <2>1, <2>2, TypeSeen DEF Editor!Next
  <2>3. CASE loc > 0 /\ drop_char  BY <2>1, <2>3, EraseSeen DEF Editor!Next
  <2>4. CASE end_line \/ no_char  BY <2>1, <2>4, EndSeen DEF Editor!Next
  <2>5. key \in Typing \cup {Backspace} => char_of(key, sh) \in Chars  BY CharOf
  <2> QED BY <1>3, <2>2, <2>3, <2>4, <2>5 DEF edit_line
<1> QED BY <1>2, <1>3 DEF kb_handler, console_on_key_down, not_reading
-----------------------------------------------------------------------------
(***************************************************************************)
(* The main thread, as the editor sees it.                                 *)
(***************************************************************************)
\* Outside console_read_line nothing is seen.
LEMMA IdleSeen ==
  ASSUME RefinementInv, RefinementInv', MainThread,
         pc \in {"anykey", "bump", "clear", "prompt", "loc", "dest", "repeating"}
  PROVE  UNCHANGED Editor!vars
<1>1. pc' \in {"bump", "clear", "prompt", "loc", "dest", "repeating", "reading"}
  BY DEF MainThread, Step, Then, wait_for_key, clear_bump, console_clear, print_prompt, set_loc,
     set_dest, set_repeating, set_reading, set_previous, set_time, memset_word, memset_done,
     leave_loop, read_line_return, parse_cmd
<1>2. Phase = "idle" /\ Text = <<>> /\ Lost = {} /\ Given = Editor!NoLine
  BY Phases DEF RefinementInv
<1>3. ~reading_input'
  BY <1>1 DEF RefinementInv, IInv, HandlerInsideReadLine, Armed
<1>4. Phase' = "idle" /\ Text' = <<>> /\ Lost' = {} /\ Given' = Editor!NoLine
  BY <1>1, <1>3, Zenon DEF Phase, Text, Lost, Given, InLine, Armed, Editor!NoLine
<1> QED BY <1>2, <1>4, Unseen

\* reading_input = 1 opens the line.
LEMMA OpenSeen ==
  ASSUME RefinementInv, set_reading
  PROVE  Editor!Open
<1>1. /\ pc = "reading" /\ pc' = "previous" /\ reading_input' = TRUE /\ early' = {}
      /\ UNCHANGED <<loc, echo>>
  BY DEF set_reading, Step, Then, RefinementInv, RInv, InLine, Armed
<1>2. Phase = "idle" /\ Given = Editor!NoLine
  BY <1>1, Phases DEF RefinementInv
<1>3. loc = 0  BY <1>1 DEF RefinementInv, IInv, ReadyToRead
<1>4. Phase' = "opening" /\ Lost' = {} /\ Text' = TextOf(echo, 0) /\ Given' = Given
  <2>1. Places({}) = {}  BY DEF Places
  <2> QED
    BY <1>1, <1>2, <1>3, <2>1, Zenon DEF Phase, Lost, Text, InLine, Armed, Given, Editor!NoLine
<1>5. Text' = <<>>  BY <1>4, TextEmpty
<1> QED BY <1>2, <1>4, <1>5, Zenon DEF Editor!Open, Text, TextOf, Lost, Places, Given

\* The assignments that follow and memset are not seen; when memset has come to its
\* end the line is ready, unless it has ended before.
LEMMA ReadySeen ==
  ASSUME RefinementInv, set_previous \/ set_time \/ memset_word \/ memset_done \/ leave_loop
  PROVE  Editor!Ready \/ UNCHANGED Editor!vars
<1>1. UNCHANGED <<reading_input, loc, echo, early>>
  BY DEF set_previous, set_time, memset_word, memset_done, leave_loop, line
<1>2. /\ pc \in Armed /\ pc' \in Armed \cup {"return"}
      /\ pc = "wait" => ~reading_input
      /\ pc' \in {"wait", "return"} => pc \in {"memset", "wait"}
      /\ pc' = "return" => pc = "wait"
  BY DEF set_previous, set_time, memset_word, memset_done, leave_loop, Step, Then, Armed
<1>3. UNCHANGED <<Text, Lost, Given>>
  BY <1>1, <1>2, Zenon DEF Text, TextOf, Lost, Places, Given, InLine, Armed
<1>4. \/ Phase' = Phase
      \/ Phase = "opening" /\ Phase' = "reading"
  BY <1>1, <1>2 DEF Phase, Armed
<1> QED BY <1>3, <1>4, Unseen, Zenon DEF Editor!Ready, Text, TextOf, Lost, Places, Given

\* The shell is given the line, without what memset blanked of it.
LEMMA ReturnSeen ==
  ASSUME RefinementInv, read_line_return
  PROVE  Editor!Return
<1>1. pc = "return" /\ pc' = "parse" /\ UNCHANGED <<reading_input, cmd>>
  BY DEF read_line_return, Step, Then
<1>2. /\ ~reading_input /\ Kept /\ echo \in Drawing /\ loc \in 0 .. LineSize + 1
  BY <1>1 DEF RefinementInv, RInv, IInv, TypeOK, Drawing, Drawn
<1>3. Phase = "ended" /\ Text = TextOf(echo, loc) /\ Lost = Places(early)
  BY <1>1, Phases DEF RefinementInv
<1>4. Phase' = "returned" /\ Text' = <<>> /\ Lost' = {}
  BY <1>1, <1>2, Zenon DEF Phase, Text, Lost, InLine, Armed
<1>5. ASSUME NEW i \in 1 .. LineSize
      PROVE  cmd[i - 1] = IF i <= loc /\ i \notin Lost THEN Text[i] ELSE NUL
  <2>1. /\ i - 1 \in 0 .. LineSize - 1 /\ (i <= loc <=> i - 1 < loc)
        /\ (~(i <= loc) => loc <= i - 1)
    BY <1>2, Sizes, SMT
  <2>2. i <= loc => Text[i] = echo[i - 1]
    <3>1. i <= loc => i \in 1 .. loc  BY <1>2, Sizes, SMT
    <3> QED BY <1>3, <3>1 DEF TextOf
  <2>3. i \in Lost <=> i - 1 \in early  BY <1>3 DEF Places
  <2>4. CASE i <= loc  BY <1>2, <2>1, <2>2, <2>3, <2>4 DEF Kept
  <2>5. CASE ~(i <= loc)  BY <1>2, <2>1, <2>5 DEF Kept
  <2> QED BY <2>4, <2>5
<1>6. Len(Text) = loc  BY <1>2, <1>3, TextIsSeq
<1>7. Given' = [i \in 1 .. LineSize |->
                  IF i <= Len(Text) /\ i \notin Lost THEN Text[i] ELSE NUL]
  <2>1. Given' = [i \in 1 .. LineSize |-> cmd[i - 1]]  BY <1>1, Zenon DEF Given
  <2> QED BY <1>5, <1>6, <2>1, Zenon
<1> QED
  BY <1>3, <1>4, <1>7, Zenon DEF Editor!Return, Editor!Given, Text, TextOf, Lost, Places, Given

\* The next prompt forgets the line.
LEMMA ParseSeen ==
  ASSUME RefinementInv, parse_cmd
  PROVE  Editor!Parse
<1>1. pc = "parse" /\ pc' = "prompt" /\ UNCHANGED reading_input
  BY DEF parse_cmd, Step, Then
<1>2. ~reading_input  BY <1>1 DEF RefinementInv, IInv, HandlerInsideReadLine, Armed
<1>3. Phase = "returned" /\ Text = <<>> /\ Lost = {}  BY <1>1, Phases DEF RefinementInv
<1>4. Phase' = "idle" /\ Text' = <<>> /\ Lost' = {} /\ Given' = Editor!NoLine
  BY <1>1, <1>2, Zenon DEF Phase, Text, Lost, Given, InLine, Armed, Editor!NoLine
<1> QED BY <1>3, <1>4, Zenon DEF Editor!Parse, Text, TextOf, Lost, Places, Given
-----------------------------------------------------------------------------
\* A step of the kernel is a step of the editor, or the editor does not see it.
THEOREM StepSeen ==
  ASSUME RefinementInv, RefinementInv', [Next]_vars
  PROVE  [Editor!Next]_(Editor!vars)
<1>1. /\ key_map \subseteq KeyCodes /\ shift \in BOOLEAN /\ last_key \in KeyCodes \cup {NoKey}
  BY DEF RefinementInv, IInv, TypeOK
<1>2. ASSUME NEW k \in KeyCodes, KeyPress(k) \/ KeyRelease(k)
      PROVE  [Editor!Next]_(Editor!vars)
  BY <1>1, <1>2, KeySeen DEF KeyPress, KeyRelease, last_after_release
<1>3. ASSUME NEW down \in BOOLEAN, ShiftKey(down)
      PROVE  [Editor!Next]_(Editor!vars)
  BY <1>1, <1>3, KeySeen DEF ShiftKey
<1>4. CASE pit_handler \/ UNCHANGED vars
  <2>1. UNCHANGED <<pc, reading_input, loc, echo, early, cmd>>
    BY <1>4 DEF pit_handler, line, vars
  <2>2. UNCHANGED <<Phase, Text, Lost, Given>>
    BY <2>1 DEF Phase, Text, TextOf, Lost, Places, Given, InLine
  <2> QED BY <2>2, Unseen
<1>5. CASE MainThread
  <2>1. CASE set_reading  BY <2>1, OpenSeen DEF Editor!Next
  <2>2. CASE set_previous \/ set_time \/ memset_word \/ memset_done \/ leave_loop
    BY <2>2, ReadySeen DEF Editor!Next
  <2>3. CASE read_line_return  BY <2>3, ReturnSeen DEF Editor!Next
  <2>4. CASE parse_cmd  BY <2>4, ParseSeen DEF Editor!Next
  <2>5. CASE \/ wait_for_key \/ clear_bump \/ console_clear \/ print_prompt
             \/ set_loc \/ set_dest \/ set_repeating
    <3>1. pc \in {"anykey", "bump", "clear", "prompt", "loc", "dest", "repeating"}
      BY <2>5 DEF Step, wait_for_key, clear_bump, console_clear, print_prompt, set_loc, set_dest,
         set_repeating
    <3> QED BY <1>5, <3>1, IdleSeen
  <2> QED BY <1>5, <2>1, <2>2, <2>3, <2>4, <2>5 DEF MainThread
<1> QED BY <1>2, <1>3, <1>4, <1>5 DEF Next, Interrupt

\* For every keyboard, buffer, screen and clock, and wherever the interrupts come,
\* console_read_line and its handler do only what LineEditor allows: a line is edited
\* at its end, ends once, and is given to the shell character for character as the
\* user saw it, but for the places of characters typed while it was being opened.
THEOREM Implementation == Spec => Editor!Safety
<1>1. Init => Editor!Init
  BY Zenon DEF Init, Editor!Init, Phase, InLine, Armed, Editor!NoLine
<1>2. RefinementInv /\ RefinementInv' /\ [Next]_vars => [Editor!Next]_(Editor!vars)
  BY StepSeen
<1> QED BY <1>1, <1>2, Both, PTL DEF Spec, Editor!Safety
=============================================================================

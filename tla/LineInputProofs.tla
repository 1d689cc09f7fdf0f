--------------------------- MODULE LineInputProofs ---------------------------
(***************************************************************************)
(* The safety invariants of LineInput hold for every keyboard, buffer and  *)
(* screen.  They are proved together: each needs the others, and the three *)
(* strengthenings below, to be inductive.                                  *)
(***************************************************************************)
EXTENDS LineInput, TLAPS

\* What the statements before reading_input = 1 have established when the main
\* thread stands at pc.
ReadyToRead ==
  /\ pc = "prompt" => cursor.x = 0
  /\ pc \in {"loc", "dest", "repeating", "reading"} => cursor.x = PromptWidth
  /\ pc \in {"dest", "repeating", "reading"} => loc = 0
  /\ pc \in {"repeating", "reading", "return"} \cup Armed => dest = "cmd"

\* Until memset is done, the characters it is yet to pass over are the early ones.
EarlyMarked ==
  pc \in {"previous", "time", "memset"} =>
    \A i \in 0 .. LineSize : pos <= i /\ i < loc => i \in early

IInv ==
  /\ TypeOK /\ HandlerInsideReadLine /\ OneByteOverrun /\ BufferIsEcho
  /\ LastKeyHeld /\ CursorFollowsLine /\ ReadyToRead /\ EarlyMarked

Place(c) == c.x \in 0 .. Width - 1 /\ c.y \in Int /\ c.y < Height
-----------------------------------------------------------------------------
\* Printing a character keeps the cursor on the screen's columns, and moves it
\* one column unless it stood in the last.
LEMMA PutChar ==
  ASSUME NEW c, Place(c)
  PROVE  Place(put_char(c)) /\ (c.x + 1 # Width => put_char(c).x = c.x + 1)
BY ScreenSize, SMT DEF Place, put_char, inc_x, scroll_if_below

\* A newline leaves the cursor in the first column.
LEMMA PutNewline ==
  ASSUME NEW c, Place(c)
  PROVE  Place(put_newline(c)) /\ put_newline(c).x = 0
BY ScreenSize, SMT DEF Place, put_newline, scroll_if_below

\* Erasing keeps the cursor on the screen's columns; inside a row it goes one
\* column left.
LEMMA EraseChar ==
  ASSUME NEW c, Place(c)
  PROVE  Place(erase_char(c)) /\ (c.x > 0 => erase_char(c).x = c.x - 1)
<1>1. Place(dec_x(c)) /\ (c.x > 0 => dec_x(c).x = c.x - 1)
  BY ScreenSize, SMT DEF Place, dec_x
<1> DEFINE d == put_char(dec_x(c))
<1>2. Place(d) /\ (c.x > 0 => d.x = c.x)
  BY <1>1, PutChar, ScreenSize, SMT DEF Place
<1>3. Place(dec_x(d)) /\ (d.x > 0 => dec_x(d).x = d.x - 1)
  BY <1>2, ScreenSize, SMT DEF Place, dec_x
<1> QED BY <1>2, <1>3, SMT DEF erase_char, Place

\* The table lookup gives a character of the keyboard.
LEMMA CharOf ==
  ASSUME NEW key \in Typing \cup {Backspace}, NEW sh \in BOOLEAN
  PROVE  char_of(key, sh) \in Chars
<1>1. CASE key \in Letters \cup Symbols
  <2>1. (sh /\ key \in Letters \cup Symbols) \in BOOLEAN  OBVIOUS
  <2> QED BY <1>1, <2>1 DEF char_of, Chars
<1>2. CASE key \notin Letters \cup Symbols
  <2>1. (sh /\ key \in Letters \cup Symbols) = FALSE  BY <1>2
  <2>2. key \in Unshifted \cup {Backspace}  BY <1>2 DEF Typing
  <2> QED BY <2>1, <2>2 DEF char_of, Chars
<1> QED BY <1>1, <1>2

\* The conversion to int gives an integer.
LEMMA AsInt == ASSUME NEW t \in Int PROVE as_int(t) \in Int
<1>1. IntMax \in Nat  BY Sizes
<1>2. t % (2 * (IntMax + 1)) \in Int  BY <1>1, SMT
<1> QED BY <1>1, <1>2, SMT DEF as_int

\* In every initial state nothing is read and nothing typed.
LEMMA InitIInv == Init => IInv
<1> SUFFICES ASSUME Init PROVE IInv  OBVIOUS
<1>1. cursor.x \in 0 .. Width - 1 /\ cursor.y \in Int /\ cursor.y < Height
  BY ScreenSize, SMT DEF Init
<1>2. /\ cmd \in [0 .. LineSize -> Chars \cup {NUL}] /\ echo \in [0 .. LineSize -> Chars \cup {NUL}]
      /\ typed \in [key : KeyCodes \cup {NoKey}, at : 0 .. MaxTime]
  BY Sizes, SMT DEF Init, Untyped, Undrawn
<1>3. loc \in 0 .. LineSize + 1 /\ last_time \in Int /\ elapsed_time \in 0 .. MaxTime /\ pos \in Nat
  BY Sizes, SMT DEF Init
<1>4. TypeOK
  BY <1>1, <1>2, <1>3, Zenon DEF Init, TypeOK, Steps
<1>5. OneByteOverrun
  BY Sizes, SMT DEF Init, OneByteOverrun
<1>6. pc = "anykey" /\ pc \notin Armed /\ ~reading_input /\ last_key = NoKey
  BY DEF Init, Armed
<1>7. BufferIsEcho /\ HandlerInsideReadLine /\ LastKeyHeld /\ CursorFollowsLine
  BY <1>6 DEF BufferIsEcho, HandlerInsideReadLine, LastKeyHeld, CursorFollowsLine
<1>8. ReadyToRead /\ EarlyMarked
  BY <1>6 DEF ReadyToRead, EarlyMarked
<1> QED BY <1>4, <1>5, <1>7, <1>8 DEF IInv
-----------------------------------------------------------------------------
(***************************************************************************)
(* The keyboard interrupt.  A handler that edits the line does so inside   *)
(* console_read_line: EditContext is what the invariant says there.        *)
(***************************************************************************)
EditContext ==
  /\ reading_input /\ dest = "cmd" /\ pc \in Armed /\ loc \in 0 .. LineSize
  /\ Place(cursor) /\ (~wrapped => cursor.x = PromptWidth + loc)
  /\ cmd \in [0 .. LineSize -> Chars \cup {NUL}] /\ echo \in [0 .. LineSize -> Chars \cup {NUL}]
  /\ pos \in Nat /\ early \subseteq 0 .. LineSize /\ wrapped \in BOOLEAN
  /\ BufferIsEcho /\ EarlyMarked

\* What an edit must re-establish of the line.
EditDone ==
  /\ loc \in 0 .. LineSize + 1 /\ OneByteOverrun /\ reading_input \in BOOLEAN
  /\ Place(cursor) /\ CursorFollowsLine
  /\ cmd \in [0 .. LineSize -> Chars \cup {NUL}] /\ echo \in [0 .. LineSize -> Chars \cup {NUL}]
  /\ early \subseteq 0 .. LineSize /\ wrapped \in BOOLEAN
  /\ BufferIsEcho /\ EarlyMarked

\* The check for the full buffer leaves a Boolean, FALSE when the buffer is full.
LEMMA StillReading ==
  ASSUME reading_input' = keeps_reading
  PROVE  reading_input' \in BOOLEAN /\ (loc = LineSize => ~reading_input')
BY DEF keeps_reading

\* Typing stores the character that is drawn, at the place loc names.
LEMMA TypeChar ==
  ASSUME EditContext, NEW c \in Chars, type_char(c), UNCHANGED <<pc, pos>>
  PROVE  EditDone'
<1> USE Sizes DEF EditContext
<1>1. Place(cursor') /\ (cursor.x + 1 # Width => cursor'.x = cursor.x + 1)
  BY PutChar DEF type_char
<1>2. cmd' = [cmd EXCEPT ![loc] = c] /\ echo' = [echo EXCEPT ![loc] = c] /\ loc' = loc + 1
  BY DEF type_char, store
<1>3. OneByteOverrun' /\ loc' \in 0 .. LineSize + 1 /\ reading_input' \in BOOLEAN
  <2>1. reading_input' \in BOOLEAN /\ (loc = LineSize => ~reading_input')
    BY StillReading DEF type_char
  <2> QED BY <1>2, <2>1, SMT DEF OneByteOverrun
<1>4. CursorFollowsLine'
  <2>1. ~wrapped' => ~wrapped /\ cursor.x + 1 # Width
    BY DEF type_char
  <2> QED BY <1>1, <1>2, <2>1, SMT DEF CursorFollowsLine, PromptWidth
<1>5. early' \subseteq 0 .. LineSize /\ wrapped' \in BOOLEAN
  BY DEF type_char
<1>6. /\ loc \in early' => pos <= loc
      /\ pos <= loc => loc \in early'
      /\ \A i \in 0 .. LineSize : i # loc => (i \in early' <=> i \in early)
  BY DEF type_char
<1>7. BufferIsEcho'
  BY <1>2, <1>6, SMT DEF type_char, BufferIsEcho, Armed
<1>8. EarlyMarked'
  BY <1>2, <1>6, SMT DEF EarlyMarked
<1> QED BY <1>1, <1>2, <1>3, <1>4, <1>5, <1>7, <1>8, SMT DEF EditDone

\* A backspace blanks the last character of the buffer and of the screen.
LEMMA DropChar ==
  ASSUME EditContext, loc > 0, drop_char, UNCHANGED <<pc, pos>>
  PROVE  EditDone'
<1> USE Sizes DEF EditContext
<1>1. Place(cursor') /\ (cursor.x > 0 => cursor'.x = cursor.x - 1)
  BY EraseChar DEF drop_char
<1>2. /\ cmd' = [cmd EXCEPT ![loc - 1] = NUL] /\ echo' = [echo EXCEPT ![loc - 1] = NUL]
      /\ loc' = loc - 1 /\ wrapped' = wrapped
  BY DEF drop_char, store
<1>3. OneByteOverrun' /\ loc' \in 0 .. LineSize + 1 /\ reading_input' \in BOOLEAN
  <2>1. reading_input' \in BOOLEAN /\ (loc = LineSize => ~reading_input')
    BY StillReading DEF drop_char
  <2> QED BY <1>2, <2>1, SMT DEF OneByteOverrun
<1>4. CursorFollowsLine'
  BY <1>1, <1>2, SMT DEF CursorFollowsLine, PromptWidth
<1>5. early' \subseteq 0 .. LineSize /\ wrapped' \in BOOLEAN
  BY DEF drop_char
<1>6. \A i \in 0 .. LineSize : i # loc - 1 => (i \in early' <=> i \in early)
  BY DEF drop_char
<1>7. BufferIsEcho'
  BY <1>2, <1>6, SMT DEF drop_char, BufferIsEcho, Armed
<1>8. EarlyMarked'
  BY <1>2, <1>6, SMT DEF EarlyMarked
<1> QED BY <1>1, <1>2, <1>3, <1>4, <1>5, <1>7, <1>8, SMT DEF EditDone

\* Enter ends the string behind the last character, also behind byte 255.
LEMMA EndLine ==
  ASSUME EditContext, end_line, UNCHANGED <<pc, pos>>
  PROVE  EditDone'
<1> USE Sizes DEF EditContext
<1>1. Place(cursor')
  BY PutNewline DEF end_line
<1>2. /\ cmd' = [cmd EXCEPT ![loc] = NUL] /\ reading_input' = FALSE
      /\ UNCHANGED <<loc, echo, early, wrapped>>
  BY DEF end_line, store
<1>3. BufferIsEcho'
  BY <1>2, SMT DEF BufferIsEcho
<1>4. OneByteOverrun' /\ loc' \in 0 .. LineSize + 1 /\ reading_input' \in BOOLEAN
  <2>1. loc' \in 0 .. LineSize /\ ~(loc' > LineSize) /\ loc' \in 0 .. LineSize + 1
    BY <1>2, SMT
  <2> QED BY <1>2, <2>1, Zenon DEF OneByteOverrun
<1>5. CursorFollowsLine' /\ EarlyMarked'
  BY <1>2 DEF CursorFollowsLine, EarlyMarked
<1>6. cmd' \in [0 .. LineSize -> Chars \cup {NUL}]
  BY <1>2, SMT
<1> QED
  BY <1>1, <1>2, <1>3, <1>4, <1>5, <1>6, Zenon DEF EditDone

\* A key without a character changes nothing but, in a full buffer, the end of the read.
LEMMA NoChar ==
  ASSUME EditContext, no_char, UNCHANGED <<pc, pos>>
  PROVE  EditDone'
<1> QED
  BY Sizes, SMT DEF EditContext, no_char, keeps_reading, EditDone, OneByteOverrun,
     CursorFollowsLine, BufferIsEcho, EarlyMarked
-----------------------------------------------------------------------------
\* From the invariant, the handler finds the line in EditContext.
LEMMA ReadingContext == IInv /\ reading_input => EditContext
<1> SUFFICES ASSUME IInv, reading_input PROVE EditContext  OBVIOUS
<1>1. loc \in 0 .. LineSize
  <2>1. ~(loc > LineSize) /\ loc \in 0 .. LineSize + 1
    BY DEF IInv, OneByteOverrun, TypeOK
  <2> QED BY <2>1, Sizes, SMT
<1> QED
  BY <1>1 DEF IInv, TypeOK, HandlerInsideReadLine, CursorFollowsLine, EditContext, Place

\* Every key, in every place where it can interrupt the shell, leaves the line in
\* a state the invariant allows.
LEMMA EditLine ==
  ASSUME EditContext, NEW key \in KeyCodes \cup {NoKey}, NEW sh \in BOOLEAN,
         edit_line(key, sh), UNCHANGED <<pc, pos>>
  PROVE  EditDone'
<1>1. CASE key \in Typing /\ type_char(char_of(key, sh))
  BY <1>1, CharOf, TypeChar
<1>2. CASE key = Backspace /\ loc > 0 /\ drop_char
  BY <1>2, DropChar
<1>3. CASE key = Backspace /\ loc = 0 /\ type_char(char_of(key, sh))
  BY <1>3, CharOf, TypeChar
<1>4. CASE key = Enter /\ end_line
  BY <1>4, EndLine
<1>5. CASE key \in Dead \cup {NoKey} /\ no_char
  BY <1>5, NoChar
<1> QED BY <1>1, <1>2, <1>3, <1>4, <1>5 DEF edit_line

\* One keyboard interrupt preserves the invariant, for any key that is held.
LEMMA Handler ==
  ASSUME IInv, NEW key \in KeyCodes \cup {NoKey}, NEW sh \in BOOLEAN,
         NEW held \in SUBSET KeyCodes, key # NoKey => key \in held, kb_handler(key, sh, held)
  PROVE  IInv'
<1>1. /\ last_key' = key /\ shift' = sh /\ key_map' = held /\ bump' = TRUE
      /\ UNCHANGED <<dest, elapsed_time, pc, pos>>
  BY DEF kb_handler, console_on_key_down
<1>2. LastKeyHeld'
  BY <1>1 DEF LastKeyHeld
<1>3. CASE ~reading_input /\ UNCHANGED <<line, filter>>
  <2>1. TypeOK'
    BY <1>1, <1>3, Zenon DEF IInv, TypeOK, line, filter
  <2>2. HandlerInsideReadLine' /\ OneByteOverrun' /\ CursorFollowsLine'
    BY <1>1, <1>3 DEF IInv, line, HandlerInsideReadLine, OneByteOverrun, CursorFollowsLine
  <2>3. BufferIsEcho' /\ ReadyToRead' /\ EarlyMarked'
    BY <1>1, <1>3 DEF IInv, line, BufferIsEcho, ReadyToRead, EarlyMarked
  <2> QED BY <1>2, <2>1, <2>2, <2>3 DEF IInv
<1>4. CASE reading_input
  <2>1. EditContext  BY <1>4, ReadingContext
  <2>2. EditDone'
    <3>1. CASE no_char  BY <1>1, <2>1, <3>1, NoChar
    <3>2. CASE edit_line(key, sh)  BY <1>1, <2>1, <3>2, EditLine
    <3> QED BY <1>4, <3>1, <3>2 DEF kb_handler, console_on_key_down, not_reading
  <2>3. /\ previous_key' \in KeyCodes \cup {NoKey} /\ repeating' \in BOOLEAN /\ last_time' \in Int
        /\ typed' \in [key : KeyCodes \cup {NoKey}, at : 0 .. MaxTime]
    <3>1. CASE UNCHANGED filter  BY <3>1 DEF IInv, TypeOK, filter
    <3>2. CASE /\ repeating' = (key = previous_key) /\ previous_key' = key
               /\ last_time' = as_int(elapsed_time)
               /\ typed' = IF pc = "wait" THEN [key |-> key, at |-> elapsed_time] ELSE Untyped
      <4>1. elapsed_time \in 0 .. MaxTime /\ 0 \in 0 .. MaxTime /\ elapsed_time \in Int
        BY Sizes, SMT DEF IInv, TypeOK
      <4>2. typed' \in [key : KeyCodes \cup {NoKey}, at : 0 .. MaxTime]
        BY <3>2, <4>1 DEF Untyped
      <4>3. repeating' \in BOOLEAN  BY <3>2
      <4> QED BY <3>2, <4>1, <4>2, <4>3, AsInt
    <3> QED BY <1>4, <3>1, <3>2 DEF kb_handler, console_on_key_down, not_reading
  <2>4. TypeOK'
    BY <1>1, <2>2, <2>3, Zenon DEF IInv, TypeOK, EditDone, Place
  <2>5. HandlerInsideReadLine' /\ ReadyToRead'
    BY <1>1, <2>1 DEF EditContext, HandlerInsideReadLine, ReadyToRead, Armed
  <2> QED BY <1>2, <2>2, <2>4, <2>5 DEF IInv, EditDone
<1> QED BY <1>3, <1>4 DEF kb_handler, console_on_key_down, not_reading

\* No scan code and no timer tick leaves the invariant.
LEMMA InterruptStep == IInv /\ Interrupt => IInv'
<1> SUFFICES ASSUME IInv, Interrupt PROVE IInv'  OBVIOUS
<1>1. /\ key_map \subseteq KeyCodes /\ shift \in BOOLEAN /\ last_key \in KeyCodes \cup {NoKey}
      /\ (last_key # NoKey => last_key \in key_map)
  BY DEF IInv, TypeOK, LastKeyHeld
<1>2. ASSUME NEW k \in KeyCodes, KeyPress(k) PROVE IInv'
  BY <1>1, <1>2, Handler DEF KeyPress
<1>3. ASSUME NEW k \in KeyCodes, KeyRelease(k) PROVE IInv'
  <2>1. kb_handler(last_after_release(k), shift, key_map \ {k})
    BY <1>3 DEF KeyRelease
  <2>2. /\ last_after_release(k) \in KeyCodes \cup {NoKey}
        /\ last_after_release(k) # NoKey => last_after_release(k) \in key_map \ {k}
    BY <1>1 DEF last_after_release
  <2> QED BY <1>1, <2>1, <2>2, Handler
<1>4. ASSUME NEW down \in BOOLEAN, ShiftKey(down) PROVE IInv'
  BY <1>1, <1>4, Handler DEF ShiftKey
<1>5. CASE pit_handler
  <2>1. elapsed_time' \in 0 .. MaxTime
    BY <1>5, Sizes, SMT DEF IInv, TypeOK, pit_handler
  <2>2. UNCHANGED <<keyboard, line, filter, bump, dest, pc, pos>>
    BY <1>5 DEF pit_handler
  <2>3. TypeOK'
    BY <2>1, <2>2, Zenon DEF IInv, TypeOK, keyboard, line, filter
  <2> QED
    BY <2>2, <2>3 DEF IInv, keyboard, line, filter, HandlerInsideReadLine, OneByteOverrun,
       BufferIsEcho, LastKeyHeld, CursorFollowsLine, ReadyToRead, EarlyMarked
<1> QED BY <1>2, <1>3, <1>4, <1>5 DEF Interrupt
-----------------------------------------------------------------------------
(***************************************************************************)
(* The main thread's steps.                                                *)
(***************************************************************************)
\* Up to the prompt nothing is read, and the cursor ends up behind "> ".
LEMMA BeforeReading ==
  IInv /\ (wait_for_key \/ clear_bump \/ console_clear \/ print_prompt) => IInv'
<1> USE DEF Step, Then
<1>1. ASSUME IInv, wait_for_key \/ clear_bump PROVE IInv'
  <2>1. pc \in {"anykey", "bump"} /\ pc' \in {"bump", "clear"} /\ bump' \in BOOLEAN
    BY <1>1 DEF wait_for_key, clear_bump, IInv, TypeOK
  <2>2. UNCHANGED <<keyboard, line, filter, dest, elapsed_time, pos>>
    BY <1>1 DEF wait_for_key, clear_bump
  <2>3. TypeOK'
    BY <1>1, <2>1, <2>2, Zenon DEF IInv, TypeOK, keyboard, line, filter, Steps
  <2> QED
    BY <1>1, <2>1, <2>2, <2>3 DEF IInv, keyboard, line, filter, HandlerInsideReadLine,
       OneByteOverrun, BufferIsEcho, LastKeyHeld, CursorFollowsLine, ReadyToRead, EarlyMarked, Armed
<1>2. ASSUME IInv, console_clear \/ print_prompt PROVE IInv'
  <2>1. /\ UNCHANGED <<keyboard, reading_input, loc, cmd, echo, early, wrapped, filter, bump,
                       dest, elapsed_time, pos>>
        /\ pc \in {"clear", "prompt"} /\ pc' \in {"prompt", "loc"}
    BY <1>2 DEF console_clear, print_prompt
  <2>2. Place(cursor)
    BY <1>2 DEF IInv, TypeOK, Place
  <2>3. CASE console_clear
    <3>1. Place(cursor') /\ cursor'.x = 0 /\ pc' = "prompt"
      BY <2>3, ScreenSize, SMT DEF console_clear, TopLeft, Place
    <3> QED
      BY <1>2, <2>1, <3>1 DEF IInv, Place, TypeOK, keyboard, filter, Steps, HandlerInsideReadLine,
         OneByteOverrun, BufferIsEcho, LastKeyHeld, CursorFollowsLine, ReadyToRead, EarlyMarked, Armed
  <2>4. CASE print_prompt
    <3>1. Place(put_char(cursor)) /\ put_char(cursor).x = 1
      <4>1. cursor.x = 0 /\ cursor.x + 1 # Width
        BY <1>2, <2>4, ScreenSize, SMT DEF IInv, ReadyToRead, print_prompt
      <4> QED BY <2>2, <4>1, PutChar, SMT
    <3>2. Place(cursor') /\ cursor'.x = PromptWidth /\ pc' = "loc"
      <4>1. put_char(cursor).x + 1 # Width
        BY <3>1, ScreenSize, SMT
      <4>2. Place(put_char(put_char(cursor))) /\ put_char(put_char(cursor)).x = 1 + 1
        BY <3>1, <4>1, PutChar
      <4>3. 1 + 1 = PromptWidth  BY SMT DEF PromptWidth
      <4> QED BY <2>4, <4>2, <4>3 DEF print_prompt
    <3> QED
      BY <1>2, <2>1, <3>2 DEF IInv, Place, TypeOK, keyboard, filter, Steps, HandlerInsideReadLine,
         OneByteOverrun, BufferIsEcho, LastKeyHeld, CursorFollowsLine, ReadyToRead, EarlyMarked, Armed
  <2> QED BY <1>2, <2>3, <2>4
<1> QED BY <1>1, <1>2

\* The assignments of console_read_line up to memset: when reading_input is set,
\* the line is empty and dest points to the buffer.
LEMMA OpeningRead ==
  IInv /\ (set_loc \/ set_dest \/ set_repeating \/ set_reading \/ set_previous \/ set_time) => IInv'
<1> USE DEF Step, Then
<1>1. ASSUME IInv, set_loc PROVE IInv'
  <2>1. loc' = 0 /\ 0 \in 0 .. LineSize + 1 /\ ~(0 > LineSize) /\ ~(0 > 0)
    BY <1>1, Sizes, SMT DEF set_loc
  <2>2. pc = "loc" /\ pc' = "dest" /\ ~reading_input /\ reading_input' = reading_input
    BY <1>1 DEF set_loc, IInv, HandlerInsideReadLine, Armed
  <2> QED
    BY <1>1, <2>1, <2>2 DEF set_loc, IInv, TypeOK, keyboard, filter, Steps, HandlerInsideReadLine,
       OneByteOverrun, BufferIsEcho, LastKeyHeld, CursorFollowsLine, ReadyToRead, EarlyMarked, Armed
<1>2. ASSUME IInv, set_dest PROVE IInv'
  <2>1. pc = "dest" /\ pc' = "repeating" /\ dest' = "cmd" /\ ~reading_input
    BY <1>2 DEF set_dest, IInv, HandlerInsideReadLine, Armed
  <2> QED
    BY <1>2, <2>1 DEF set_dest, IInv, TypeOK, keyboard, line, filter, Steps, HandlerInsideReadLine,
       OneByteOverrun, BufferIsEcho, LastKeyHeld, CursorFollowsLine, ReadyToRead, EarlyMarked, Armed
<1>3. ASSUME IInv, set_repeating PROVE IInv'
  <2>1. pc = "repeating" /\ pc' = "reading" /\ repeating' \in BOOLEAN /\ ~reading_input
    BY <1>3 DEF set_repeating, IInv, HandlerInsideReadLine, Armed
  <2> QED
    BY <1>3, <2>1 DEF set_repeating, IInv, TypeOK, keyboard, line, Steps, HandlerInsideReadLine,
       OneByteOverrun, BufferIsEcho, LastKeyHeld, CursorFollowsLine, ReadyToRead, EarlyMarked, Armed
<1>4. ASSUME IInv, set_reading PROVE IInv'
  <2>1. /\ pc = "reading" /\ pc' = "previous" /\ reading_input' = TRUE /\ pos' = 0
        /\ UNCHANGED <<keyboard, loc, cmd, cursor, echo, early, wrapped, filter, bump, dest,
                       elapsed_time>>
    BY <1>4 DEF set_reading
  <2>2. loc' = 0 /\ dest' = "cmd" /\ cursor'.x = PromptWidth
    BY <1>4, <2>1 DEF IInv, ReadyToRead
  <2>3. pos' \in Nat
    BY <2>1, SMT
  <2>4. TypeOK'
    BY <1>4, <2>1, <2>3, Zenon DEF IInv, TypeOK, keyboard, filter, Steps
  <2>5. OneByteOverrun' /\ CursorFollowsLine' /\ EarlyMarked'
    BY <2>2, Sizes, SMT DEF OneByteOverrun, CursorFollowsLine, EarlyMarked, PromptWidth
  <2>6. BufferIsEcho'
    BY <2>1, <2>2, Sizes, SMT DEF BufferIsEcho
  <2>7. HandlerInsideReadLine' /\ ReadyToRead' /\ LastKeyHeld'
    BY <1>4, <2>1, <2>2 DEF IInv, HandlerInsideReadLine, ReadyToRead, LastKeyHeld, Armed, keyboard
  <2> QED BY <2>4, <2>5, <2>6, <2>7 DEF IInv
<1>5. ASSUME IInv, set_previous \/ set_time PROVE IInv'
  <2>1. /\ pc \in {"previous", "time"} /\ pc' \in {"time", "memset"}
        /\ UNCHANGED <<keyboard, line, repeating, typed, bump, dest, elapsed_time, pos>>
    BY <1>5 DEF set_previous, set_time
  <2>2. previous_key' \in KeyCodes \cup {NoKey} /\ last_time' \in Int
    <3>1. elapsed_time \in Int  BY <1>5, Sizes, SMT DEF IInv, TypeOK
    <3> QED BY <1>5, <3>1, AsInt DEF set_previous, set_time, IInv, TypeOK
  <2>3. TypeOK'
    BY <1>5, <2>1, <2>2, Zenon DEF IInv, TypeOK, keyboard, line, Steps
  <2> QED
    BY <1>5, <2>1, <2>3 DEF IInv, keyboard, line, HandlerInsideReadLine, OneByteOverrun,
       BufferIsEcho, LastKeyHeld, CursorFollowsLine, ReadyToRead, EarlyMarked, Armed
<1> QED BY <1>1, <1>2, <1>3, <1>4, <1>5

\* Clearing the buffer blanks only what was typed early.
LEMMA ClearingBuffer == IInv /\ (memset_word \/ memset_done) => IInv'
<1> USE DEF Step, Then
<1>1. ASSUME IInv, memset_word PROVE IInv'
  <2>1. /\ pc = "memset" /\ pos < LineSize /\ pos' = pos + WordSize
        /\ cmd' = [i \in 0 .. LineSize |-> IF i \in pos .. pos + WordSize - 1 THEN NUL ELSE cmd[i]]
        /\ UNCHANGED <<keyboard, reading_input, loc, cursor, echo, early, wrapped, filter, bump,
                       dest, elapsed_time, pc>>
    BY <1>1 DEF memset_word
  <2>2. cmd' \in [0 .. LineSize -> Chars \cup {NUL}] /\ pos' \in Nat
    BY <1>1, <2>1, Sizes, SMT DEF IInv, TypeOK
  <2>3. TypeOK'
    BY <1>1, <2>1, <2>2, Zenon DEF IInv, TypeOK, keyboard, filter
  <2>4. \A i \in 0 .. LineSize : pos <= i /\ i < loc => i \in early
    BY <1>1, <2>1 DEF IInv, EarlyMarked
  <2>5. BufferIsEcho'
    BY <1>1, <2>1, <2>4, Sizes, SMT DEF IInv, TypeOK, BufferIsEcho, Armed
  <2>6. EarlyMarked'
    BY <1>1, <2>1, <2>4, Sizes, SMT DEF IInv, TypeOK, EarlyMarked
  <2> QED
    BY <1>1, <2>1, <2>3, <2>5, <2>6 DEF IInv, keyboard, filter, HandlerInsideReadLine,
       OneByteOverrun, LastKeyHeld, CursorFollowsLine, ReadyToRead
<1>2. ASSUME IInv, memset_done PROVE IInv'
  <2>1. pc = "memset" /\ pc' = "wait"
        /\ UNCHANGED <<keyboard, line, filter, bump, dest, elapsed_time, pos>>
    BY <1>2 DEF memset_done
  <2> QED
    BY <1>2, <2>1 DEF IInv, TypeOK, keyboard, line, filter, Steps, HandlerInsideReadLine,
       OneByteOverrun, BufferIsEcho, LastKeyHeld, CursorFollowsLine, ReadyToRead, EarlyMarked, Armed
<1> QED BY <1>1, <1>2

\* A command leaves the cursor in the first column of a row of the screen.
LEMMA AfterCommand ==
  ASSUME NEW c, Place(c), NEW d \in after_command(c)
  PROVE  Place(d) /\ d.x = 0
<1>1. Place(fresh_row(c)) /\ fresh_row(c).x = 0
  <2>1. c.x = 0 \/ c.x # 0  OBVIOUS
  <2> QED BY <2>1, PutNewline DEF fresh_row
<1>2. Place(TopLeft) /\ TopLeft.x = 0
  BY ScreenSize, SMT DEF TopLeft, Place
<1>3. CASE d \in [x : {0}, y : c.y + 1 .. Height - 1]
  BY <1>3, ScreenSize, SMT DEF Place
<1> QED BY <1>1, <1>2, <1>3 DEF after_command

\* After the loop the line is no longer read, and the handler leaves it alone.
LEMMA EndingRead == IInv /\ (leave_loop \/ read_line_return \/ parse_cmd) => IInv'
<1> USE DEF Step, Then
<1>1. ASSUME IInv, leave_loop PROVE IInv'
  <2>1. pc = "wait" /\ pc' = "return" /\ ~reading_input
        /\ UNCHANGED <<keyboard, line, filter, bump, dest, elapsed_time, pos>>
    BY <1>1 DEF leave_loop
  <2> QED
    BY <1>1, <2>1 DEF IInv, TypeOK, keyboard, line, filter, Steps, HandlerInsideReadLine,
       OneByteOverrun, BufferIsEcho, LastKeyHeld, CursorFollowsLine, ReadyToRead, EarlyMarked, Armed
<1>2. ASSUME IInv, read_line_return PROVE IInv'
  <2>1. /\ pc = "return" /\ pc' = "parse" /\ ~reading_input
        /\ loc' = 0 /\ dest' = "null" /\ repeating' = FALSE /\ previous_key' = NoKey /\ last_time' = 0
        /\ echo' = Undrawn /\ early' = {} /\ wrapped' = FALSE /\ typed' = Untyped
        /\ UNCHANGED <<keyboard, reading_input, cmd, cursor, bump, elapsed_time, pos>>
    BY <1>2 DEF read_line_return, IInv, HandlerInsideReadLine, Armed
  <2>2. /\ 0 \in 0 .. LineSize + 1 /\ 0 \in Int /\ ~(0 > LineSize)
        /\ Undrawn \in [0 .. LineSize -> Chars \cup {NUL}]
        /\ Untyped \in [key : KeyCodes \cup {NoKey}, at : 0 .. MaxTime]
    BY Sizes, SMT DEF Undrawn, Untyped
  <2>3. TypeOK'
    BY <1>2, <2>1, <2>2, Zenon DEF IInv, TypeOK, keyboard, Steps
  <2> QED
    BY <1>2, <2>1, <2>2, <2>3 DEF IInv, keyboard, HandlerInsideReadLine, OneByteOverrun,
       BufferIsEcho, LastKeyHeld, CursorFollowsLine, ReadyToRead, EarlyMarked, Armed
<1>3. ASSUME IInv, parse_cmd PROVE IInv'
  <2>1. /\ pc = "parse" /\ pc' = "prompt" /\ cursor' \in after_command(cursor)
        /\ cmd' = [i \in 0 .. LineSize |-> IF i < LineSize THEN to_lower(cmd[i]) ELSE cmd[i]]
        /\ UNCHANGED <<keyboard, reading_input, loc, echo, early, wrapped, filter, bump,
                       dest, elapsed_time, pos>>
    BY <1>3 DEF parse_cmd
  <2>2. Place(cursor') /\ cursor'.x = 0
    BY <1>3, <2>1, AfterCommand DEF IInv, TypeOK, Place
  <2>3. ~reading_input
    BY <1>3, <2>1 DEF IInv, HandlerInsideReadLine, Armed
  <2>4. cmd' \in [0 .. LineSize -> Chars \cup {NUL}]
    <3>1. ASSUME NEW c \in Chars \cup {NUL} PROVE to_lower(c) \in Chars \cup {NUL}
      BY <3>1 DEF to_lower, Chars
    <3>2. ASSUME NEW i \in 0 .. LineSize PROVE cmd[i] \in Chars \cup {NUL}
      BY <1>3, <3>2 DEF IInv, TypeOK
    <3> QED BY <2>1, <3>1, <3>2
  <2>5. TypeOK'
    BY <1>3, <2>1, <2>2, <2>4, Zenon DEF IInv, TypeOK, Place, keyboard, filter, Steps
  <2> QED
    BY <1>3, <2>1, <2>2, <2>3, <2>5 DEF IInv, keyboard, filter, HandlerInsideReadLine,
       OneByteOverrun, BufferIsEcho, LastKeyHeld, CursorFollowsLine, ReadyToRead, EarlyMarked, Armed
<1> QED BY <1>1, <1>2, <1>3
-----------------------------------------------------------------------------
\* The conjunction of the invariants is inductive.
THEOREM NextIInv == IInv /\ [Next]_vars => IInv'
<1> SUFFICES ASSUME IInv, [Next]_vars PROVE IInv'  OBVIOUS
<1>1. CASE Interrupt  BY <1>1, InterruptStep
<1>2. CASE MainThread
  BY <1>2, BeforeReading, OpeningRead, ClearingBuffer, EndingRead DEF MainThread
<1>3. CASE UNCHANGED vars
  BY <1>3 DEF vars, IInv, TypeOK, keyboard, line, filter, HandlerInsideReadLine, OneByteOverrun,
     BufferIsEcho, LastKeyHeld, CursorFollowsLine, ReadyToRead, EarlyMarked
<1> QED BY <1>1, <1>2, <1>3 DEF Next

\* In every run of the shell, with any keys, buffer size and screen, the whole
\* invariant holds.
THEOREM Invariance == Spec => []IInv
<1> QED BY InitIInv, NextIInv, PTL DEF Spec

\* The variables keep their types; in particular loc never leaves the buffer by
\* more than one, and the cursor never leaves the columns of the screen.
THEOREM TypeCorrect == Spec => []TypeOK
<1>1. IInv => TypeOK  BY DEF IInv
<1> QED BY <1>1, Invariance, PTL

\* console_on_key_down edits the line only while console_read_line waits for it,
\* so it never stores through a null dest and never draws while the shell prints.
THEOREM HandlerConfined == Spec => []HandlerInsideReadLine
<1>1. IInv => HandlerInsideReadLine  BY DEF IInv
<1> QED BY <1>1, Invariance, PTL

\* A line of any length overruns cmd by at most one byte, with its last key.
THEOREM OverrunBounded == Spec => []OneByteOverrun
<1>1. IInv => OneByteOverrun  BY DEF IInv
<1> QED BY <1>1, Invariance, PTL

\* Whatever the order of keys, backspaces and main-thread steps, the buffer holds
\* character for character what the user sees, but for the characters typed before
\* memset passed over their places: those, and no others, are blank.
THEOREM BufferMatchesScreen == Spec => []BufferIsEcho
<1>1. IInv => BufferIsEcho  BY DEF IInv
<1> QED BY <1>1, Invariance, PTL

\* The key a scan code is taken for is held down.
THEOREM KeyIsHeld == Spec => []LastKeyHeld
<1>1. IInv => LastKeyHeld  BY DEF IInv
<1> QED BY <1>1, Invariance, PTL

\* On a line that did not wrap the cursor stands behind its last character.
THEOREM CursorBehindLine == Spec => []CursorFollowsLine
<1>1. IInv => CursorFollowsLine  BY DEF IInv
<1> QED BY <1>1, Invariance, PTL

\* The buffer and the screen of an ended line stay as they are until the shell
\* parses it.
THEOREM EndedLineStays == Spec => EndedLineFrozen
<1>1. [Next]_vars => (~reading_input /\ pc \in {"wait", "return"} => UNCHANGED <<cmd, cursor>>)
  <2> SUFFICES ASSUME [Next]_vars, ~reading_input, pc \in {"wait", "return"}
      PROVE  UNCHANGED <<cmd, cursor>>
    OBVIOUS
  <2> USE DEF Step, line, keyboard, filter
  <2>1. CASE Interrupt
    BY <2>1 DEF Interrupt, KeyPress, KeyRelease, ShiftKey, kb_handler, console_on_key_down,
       not_reading, pit_handler
  <2>2. CASE MainThread
    BY <2>2 DEF MainThread, wait_for_key, clear_bump, console_clear, print_prompt, set_loc, set_dest,
       set_repeating, set_reading, set_previous, set_time, memset_word, memset_done, leave_loop,
       read_line_return, parse_cmd
  <2>3. CASE UNCHANGED vars  BY <2>3 DEF vars
  <2> QED BY <2>1, <2>2, <2>3 DEF Next
<1> QED BY <1>1, PTL DEF Spec, EndedLineFrozen

\* No statement stays where it is, and what is left before the parser gets less.
LEMMA EachStatementNears ==
  ASSUME IInv, ended, MainThread
  PROVE  (ended' \/ pc' = "parse") /\ statements_left' < statements_left
<1> USE DEF Step, Then
<1>1. /\ ~reading_input /\ pc \in {"previous", "time", "memset", "wait", "return"}
      /\ LineSize \in Nat /\ LineSize > 0 /\ WordSize \in Nat /\ WordSize > 0 /\ pos \in Nat
  BY Sizes, SMT DEF ended, Armed, IInv, TypeOK
<1>2. CASE set_previous
  <2>1. pc = "previous" /\ pc' = "time" /\ ~reading_input'
    BY <1>1, <1>2 DEF set_previous, line
  <2> QED BY <1>1, <2>1, SMT DEF ended, Armed, statements_left
<1>3. CASE set_time
  <2>1. pc = "time" /\ pc' = "memset" /\ ~reading_input' /\ pos' = pos
    BY <1>1, <1>3 DEF set_time, line
  <2> QED BY <1>1, <2>1, SMT DEF ended, Armed, statements_left
<1>4. CASE memset_word
  <2>1. /\ pc = "memset" /\ pc' = "memset" /\ ~reading_input' /\ pos < LineSize
        /\ pos' = pos + WordSize
    BY <1>1, <1>4 DEF memset_word
  <2> QED BY <1>1, <2>1, SMT DEF ended, Armed, statements_left
<1>5. CASE memset_done
  <2>1. pc = "memset" /\ pc' = "wait" /\ ~reading_input'  BY <1>1, <1>5 DEF memset_done, line
  <2> QED BY <1>1, <2>1, SMT DEF ended, Armed, statements_left
<1>6. CASE leave_loop
  <2>1. pc = "wait" /\ pc' = "return" /\ ~reading_input'  BY <1>1, <1>6 DEF leave_loop, line
  <2> QED BY <1>1, <2>1, SMT DEF ended, Armed, statements_left
<1>7. CASE read_line_return
  <2>1. pc = "return" /\ pc' = "parse"  BY <1>1, <1>7 DEF read_line_return
  <2> QED BY <1>1, <2>1, SMT DEF ended, Armed, statements_left
<1> QED
  BY <1>1, <1>2, <1>3, <1>4, <1>5, <1>6, <1>7
  DEF MainThread, wait_for_key, clear_bump, console_clear, print_prompt, set_loc, set_dest,
      set_repeating, set_reading, parse_cmd

\* Once a line has ended, every statement of the main thread brings it nearer to the
\* parser, and no key and no tick reopens it.
THEOREM EndedLineComesNearer == Spec => EndedLineNears
<1> DEFINE Nears == ended =>
             IF UNCHANGED <<pc, pos>> THEN ended'
             ELSE (ended' \/ pc' = "parse") /\ statements_left' < statements_left
<1>1. IInv /\ [Next]_vars => [Nears]_vars
  <2> SUFFICES ASSUME IInv, Next, ended PROVE Nears  BY DEF vars
  <2>1. CASE Interrupt
    <3>1. ~reading_input  BY DEF ended
    <3>2. pc' = pc /\ pos' = pos /\ reading_input' = reading_input
      BY <2>1, <3>1 DEF Interrupt, KeyPress, KeyRelease, ShiftKey, kb_handler,
         console_on_key_down, not_reading, pit_handler, line
    <3> QED BY <3>2 DEF ended
  <2>2. CASE MainThread
    <3>1. (ended' \/ pc' = "parse") /\ statements_left' < statements_left
      BY <2>2, EachStatementNears
    <3>2. ~UNCHANGED <<pc, pos>>
      <4> SUFFICES ASSUME pc' = pc, pos' = pos PROVE FALSE  OBVIOUS
      <4>1. statements_left' = statements_left  BY DEF statements_left
      <4>2. statements_left \in Int
        <5>1. pc \in {"previous", "time", "memset", "wait", "return"}  BY DEF ended, Armed
        <5>2. pos \in Nat /\ LineSize \in Nat  BY Sizes DEF IInv, TypeOK
        <5> QED BY <5>1, <5>2, SMT DEF statements_left
      <4> QED BY <3>1, <4>1, <4>2, SMT
    <3> QED BY <3>1, <3>2
  <2> QED BY <2>1, <2>2 DEF Next
<1> QED BY Invariance, <1>1, PTL DEF Spec, EndedLineNears
-----------------------------------------------------------------------------
(***************************************************************************)
(* The key filter.  While the loop waits, its variables stand for the last *)
(* key taken and the time when it was taken.                               *)
(***************************************************************************)
FilterInv ==
  /\ pc \notin {"wait", "return"} => typed.key = NoKey
  /\ pc = "wait" /\ typed.key # NoKey =>
       previous_key = typed.key /\ last_time = as_int(typed.at) /\ typed.at <= elapsed_time

\* Nothing has been taken at the start.
LEMMA InitFilterInv == Init => FilterInv
BY DEF Init, FilterInv, Untyped

\* A key is noted in the filter as it is taken, and nothing else disturbs it.
LEMMA NextFilterInv == IInv /\ FilterInv /\ [Next]_vars => FilterInv'
<1> SUFFICES ASSUME IInv, FilterInv, [Next]_vars PROVE FilterInv'  OBVIOUS
<1> USE DEF Step, Then
<1>1. /\ elapsed_time \in Int /\ typed.at \in Int /\ elapsed_time <= elapsed_time
  BY Sizes, SMT DEF IInv, TypeOK
<1>2. ASSUME NEW key, NEW sh, console_on_key_down(key, sh)
      PROVE  FilterInv'
  <2>1. UNCHANGED <<pc, elapsed_time>>  BY <1>2 DEF console_on_key_down
  <2>2. CASE UNCHANGED filter  BY <2>1, <2>2 DEF filter, FilterInv, as_int
  <2>3. CASE /\ previous_key' = key /\ last_time' = as_int(elapsed_time)
             /\ typed' = IF pc = "wait" THEN [key |-> key, at |-> elapsed_time] ELSE Untyped
    BY <1>1, <2>1, <2>3 DEF FilterInv, Untyped, as_int
  <2> QED BY <1>2, <2>2, <2>3 DEF console_on_key_down
<1>3. CASE pit_handler
  <2>1. /\ UNCHANGED <<pc, typed, previous_key, last_time>>
        /\ elapsed_time' = elapsed_time + 1
    BY <1>3 DEF pit_handler, filter
  <2>2. typed.at <= elapsed_time => typed.at <= elapsed_time'  BY <1>1, <2>1, SMT
  <2> QED BY <2>1, <2>2 DEF FilterInv, as_int
<1>4. CASE set_reading
  BY <1>4 DEF set_reading, FilterInv, filter
<1>5. CASE set_previous \/ set_time \/ memset_word \/ memset_done
  BY <1>5 DEF set_previous, set_time, memset_word, memset_done, filter, FilterInv
<1>6. CASE wait_for_key \/ clear_bump \/ console_clear \/ print_prompt \/ set_loc \/ set_dest
             \/ set_repeating \/ parse_cmd
  BY <1>6 DEF wait_for_key, clear_bump, console_clear, print_prompt, set_loc, set_dest,
     set_repeating, parse_cmd, filter, FilterInv
<1>7. CASE leave_loop \/ read_line_return
  BY <1>7 DEF leave_loop, read_line_return, FilterInv, Untyped
<1>8. CASE UNCHANGED vars
  BY <1>8 DEF vars, filter, FilterInv, as_int
<1> QED BY <1>2, <1>3, <1>4, <1>5, <1>6, <1>7, <1>8
  DEF Next, MainThread, Interrupt, KeyPress, KeyRelease, ShiftKey, kb_handler

\* The invariant of the filter holds in every run.
LEMMA FilterInvariance == Spec => [](IInv /\ FilterInv)
<1> QED BY InitIInv, InitFilterInv, NextIInv, NextFilterInv, PTL DEF Spec

\* A remainder is the number itself when it is small.
LEMMA SmallRemainder ==
  ASSUME NEW t \in Nat, NEW m \in Nat \ {0}, t < m
  PROVE  t % m = t
<1>1. t % m \in 0 .. m - 1 /\ t = m * (t \div m) + (t % m) /\ t \div m \in Int  BY SMT
<1>2. t \div m = 0 BY <1>1, SMT
<1> QED BY <1>1, <1>2, SMT

\* A time that fits an int is kept as it is.
LEMMA AsIntFits ==
  ASSUME NEW t \in Nat, t <= IntMax
  PROVE  as_int(t) = t
<1>1. 2 * (IntMax + 1) \in Nat \ {0} /\ t < 2 * (IntMax + 1) /\ ~(t > IntMax)  BY Sizes, SMT
<1>2. t % (2 * (IntMax + 1)) = t  BY <1>1, SmallRemainder
<1> QED BY <1>1, <1>2, Zenon DEF as_int

\* As long as the clock fits, the deadline of the last key taken is where it should be.
LEMMA Deadline ==
  ASSUME IInv, FilterInv, pc = "wait", typed.key # NoKey, elapsed_time + RepeatDelay <= IntMax,
         NEW delay \in {RepeatDelay, RepeatRate}
  PROVE  too_soon(delay) <=> elapsed_time < typed.at + delay
<1>1. /\ elapsed_time \in Nat /\ typed.at \in Nat /\ typed.at <= elapsed_time
      /\ last_time = as_int(typed.at)
  BY Sizes, SMT DEF IInv, TypeOK, FilterInv
<1>2. delay \in Nat /\ delay <= RepeatDelay  BY Sizes, SMT
<1>3. typed.at <= IntMax /\ typed.at + delay \in Nat /\ typed.at + delay <= IntMax
  BY <1>1, <1>2, Sizes, SMT
<1>4. last_time = typed.at  BY <1>1, <1>3, AsIntFits
<1>5. as_int(last_time + delay) = typed.at + delay  BY <1>3, <1>4, AsIntFits
<1>6. ~(typed.at + delay < 0)  BY <1>3, SMT
<1> QED BY <1>5, <1>6, Zenon DEF too_soon

\* A key that is held RepeatDelay after it was taken is not filtered any more.
THEOREM HeldKeyComesBack == Spec => []HeldKeyRepeats
<1>1. IInv /\ FilterInv => HeldKeyRepeats
  <2> SUFFICES ASSUME IInv, FilterInv, pc = "wait", typed.key # NoKey,
                      elapsed_time >= typed.at + RepeatDelay,
                      elapsed_time + RepeatDelay <= IntMax
               PROVE  ~suppressed(typed.key)
    BY DEF HeldKeyRepeats
  <2>1. elapsed_time \in Nat /\ typed.at \in Nat  BY Sizes, SMT DEF IInv, TypeOK
  <2>2. ~(elapsed_time < typed.at + RepeatDelay) /\ ~(elapsed_time < typed.at + RepeatRate)
    BY <2>1, Sizes, SMT
  <2>3. ~too_soon(RepeatDelay) /\ ~too_soon(RepeatRate)  BY <2>2, Deadline
  <2> QED BY <2>3 DEF suppressed
<1> QED BY <1>1, FilterInvariance, PTL

\* The same key is not taken again before RepeatRate is over.
THEOREM SameKeyIsPaced == Spec => SameKeyPaced
<1> DEFINE Paced == filter' # filter /\ pc = "wait" /\ pc' = "wait"
                      /\ typed'.key = typed.key /\ typed.key # NoKey
                      /\ elapsed_time + RepeatDelay <= IntMax
                    => elapsed_time >= typed.at + RepeatRate
<1>1. IInv /\ FilterInv /\ [Next]_vars => [Paced]_vars
  <2> SUFFICES ASSUME IInv, FilterInv, Next, filter' # filter, pc = "wait", pc' = "wait",
                      typed'.key = typed.key, typed.key # NoKey,
                      elapsed_time + RepeatDelay <= IntMax
               PROVE  elapsed_time >= typed.at + RepeatRate
    BY DEF vars
  <2>1. PICK key, sh : console_on_key_down(key, sh)
    BY DEF Next, Interrupt, KeyPress, KeyRelease, ShiftKey, kb_handler, pit_handler, MainThread,
       Step, Then, wait_for_key, clear_bump, console_clear, print_prompt, set_loc, set_dest,
       set_repeating, set_reading, set_previous, set_time, memset_word, memset_done, leave_loop,
       read_line_return, parse_cmd
  <2>2. ~suppressed(key) /\ typed' = [key |-> key, at |-> elapsed_time]
    BY <2>1 DEF console_on_key_down
  <2>3. key = typed.key /\ previous_key = typed.key  BY <2>2 DEF FilterInv
  <2>4. ~too_soon(RepeatDelay) \/ ~too_soon(RepeatRate)  BY <2>2, <2>3 DEF suppressed
  <2>5. ~(elapsed_time < typed.at + RepeatDelay) \/ ~(elapsed_time < typed.at + RepeatRate)
    BY <2>4, Deadline
  <2>6. elapsed_time \in Nat /\ typed.at \in Nat  BY Sizes, SMT DEF IInv, TypeOK
  <2> QED BY <2>5, <2>6, Sizes, SMT
<1> QED BY <1>1, FilterInvariance, PTL DEF Spec, SameKeyPaced
=============================================================================

------------------------------ MODULE LineInput ------------------------------
(***************************************************************************)
(* The kernel shell reading a command line: the main thread runs           *)
(* kshell_start -> console_read_line -> parse_cmd, the keyboard interrupt  *)
(* runs kb_handler -> console_on_key_down, the timer interrupt advances    *)
(* the clock.  They share the line buffer, the key filter and the cursor,  *)
(* without locks.  A handler runs with interrupts off and is one action;   *)
(* the main thread is interrupted between any two of its statements.       *)
(***************************************************************************)
EXTENDS Integers, FiniteSets, Screen

CONSTANTS
  Letters, Symbols,   \* keys whose character depends on shift
  Unshifted,          \* keys whose character does not: space, tab
  Dead,               \* keys without a character: Esc, Ctrl, F-keys
  Enter, Backspace, NoKey, NUL,
  LineSize,           \* sizeof cmd, 256
  WordSize,           \* bytes one iteration of memset clears, 4
  RepeatDelay, RepeatRate,   \* 500 and 50 ms, in timer periods
  IntMax,             \* the largest int
  MaxTime, MaxHeld, LowestRow  \* bounds: clock, keys held at once, cursor row

KeyCodes == Letters \cup Symbols \cup Unshifted \cup Dead \cup {Enter, Backspace}
Typing == Letters \cup Symbols \cup Unshifted
Chars == ((Letters \cup Symbols) \X BOOLEAN) \cup ((Unshifted \cup {Backspace}) \X {FALSE})

ASSUME KeysDistinct ==
  /\ NoKey \notin KeyCodes /\ Enter # Backspace /\ NUL \notin Chars
  /\ Typing \cap (Dead \cup {Enter, Backspace}) = {}
  /\ Unshifted \cap (Letters \cup Symbols) = {}
  /\ Dead \cap {Enter, Backspace} = {}
ASSUME Sizes ==
  /\ LineSize \in Nat \ {0} /\ WordSize \in 1 .. LineSize
  /\ RepeatDelay \in Nat /\ RepeatRate \in 0 .. RepeatDelay /\ IntMax \in Nat
  /\ MaxTime \in Nat /\ MaxHeld \in Nat /\ LowestRow \in Int

VARIABLES
  \* ps2_kb.c
  shift, last_key, key_map,
  \* console.c; dest is NULL or points to the shell's cmd
  bump, reading_input, dest, loc, previous_key, repeating, last_time, cursor,
  cmd,            \* the 256 bytes of cmd, and at index LineSize the byte after them
  elapsed_time,   \* pit.c
  pc, pos,        \* the main thread's next statement; bytes cleared by memset
  echo,           \* history: the characters put on the screen for this line
  early,          \* history: the places of characters that memset is yet to pass over
  wrapped,        \* history: this line reached the end of its row
  typed           \* history: the last key accepted in the wait loop, and when

keyboard == <<shift, last_key, key_map>>
line     == <<reading_input, loc, cmd, cursor, echo, early, wrapped>>
filter   == <<previous_key, repeating, last_time, typed>>
vars == <<keyboard, line, filter, bump, dest, elapsed_time, pc, pos>>

Steps == {"anykey", "bump", "clear", "prompt", "loc", "dest", "repeating", "reading",
          "previous", "time", "memset", "wait", "return", "parse"}
\* The statements between reading_input = 1 and the end of the wait loop.
Armed == {"previous", "time", "memset", "wait"}

Untyped == [key |-> NoKey, at |-> 0]
Undrawn == [i \in 0 .. LineSize |-> NUL]

\* The columns of "> ".
PromptWidth == 2

Init ==
  /\ shift = FALSE /\ last_key = NoKey /\ key_map = {}
  /\ bump = FALSE /\ reading_input = FALSE /\ dest = "null" /\ loc = 0
  /\ previous_key = NoKey /\ repeating = FALSE /\ last_time = 0
  /\ cursor \in [x : {1}, y : 0 .. Height - 1]
  /\ cmd = Undrawn /\ elapsed_time = 0
  /\ pc = "anykey" /\ pos = 0
  /\ echo = Undrawn /\ early = {} /\ wrapped = FALSE
  /\ typed = Untyped
-----------------------------------------------------------------------------
(***************************************************************************)
(* The keyboard interrupt.                                                 *)
(***************************************************************************)
\* The character of a key in keys and keys_shift.
char_of(key, sh) == <<key, sh /\ key \in Letters \cup Symbols>>

\* last_time is an int: it wraps, and a negative deadline compared with the
\* unsigned clock is later than every time.
as_int(t) == LET u == t % (2 * (IntMax + 1)) IN IF u > IntMax THEN u - 2 * (IntMax + 1) ELSE u
too_soon(delay) ==
  LET deadline == as_int(last_time + delay) IN deadline < 0 \/ elapsed_time < deadline

\* Mutant: only repeats are filtered, not a key's first return.
suppressed_repeats(key) == repeating /\ key = previous_key /\ too_soon(RepeatRate)

suppressed(key) ==
  key = previous_key /\ too_soon(IF repeating THEN RepeatRate ELSE RepeatDelay)

\* Mutant: the buffer counts as full one byte too late.
keeps_reading_late == loc # LineSize + 1

\* A full buffer ends the line, but does not stop this key from being stored.
keeps_reading == loc # LineSize

\* dest[i] = c; through a null dest it does not reach the buffer.
store(i, c) == IF dest = "cmd" THEN [cmd EXCEPT ![i] = c] ELSE cmd

type_char(c) ==
  /\ cmd' = store(loc, c) /\ echo' = [echo EXCEPT ![loc] = c]
  /\ loc' = loc + 1
  /\ cursor' = put_char(cursor)
  /\ early' = IF pos <= loc THEN early \cup {loc} ELSE early \ {loc}
  /\ wrapped' = (wrapped \/ cursor.x + 1 = Width)
  /\ reading_input' = keeps_reading

\* Mutant: backspace leaves the character in the buffer.
drop_char_kept ==
  /\ cursor.x > 0 \/ cursor.y > LowestRow
  /\ echo' = [echo EXCEPT ![loc - 1] = NUL] /\ loc' = loc - 1
  /\ cursor' = erase_char(cursor)
  /\ early' = early \ {loc - 1}
  /\ reading_input' = keeps_reading
  /\ UNCHANGED <<wrapped, cmd>>

drop_char ==
  /\ cursor.x > 0 \/ cursor.y > LowestRow
  /\ cmd' = store(loc - 1, NUL) /\ echo' = [echo EXCEPT ![loc - 1] = NUL]
  /\ loc' = loc - 1
  /\ cursor' = erase_char(cursor)
  /\ early' = early \ {loc - 1}
  /\ reading_input' = keeps_reading
  /\ UNCHANGED wrapped

\* Mutant: the terminating NUL replaces the last character.
end_line_short ==
  /\ cmd' = IF loc = 0 THEN cmd ELSE store(loc - 1, NUL)
  /\ cursor' = put_newline(cursor)
  /\ reading_input' = FALSE
  /\ UNCHANGED <<loc, echo, early, wrapped>>

end_line ==
  /\ cmd' = store(loc, NUL)
  /\ cursor' = put_newline(cursor)
  /\ reading_input' = FALSE
  /\ UNCHANGED <<loc, echo, early, wrapped>>

no_char == reading_input' = keeps_reading /\ UNCHANGED <<loc, cmd, cursor, echo, early, wrapped>>

edit_line(key, sh) ==
  \/ key \in Typing /\ type_char(char_of(key, sh))
  \/ key = Backspace /\ loc > 0 /\ drop_char
  \/ key = Backspace /\ loc = 0 /\ type_char(char_of(key, sh))
  \/ key = Enter /\ end_line
  \/ key \in Dead \cup {NoKey} /\ no_char

\* Mutant: the handler edits the line whether or not it is read.
never_idle == FALSE

\* Outside a read the handler only notes that a key came.
not_reading == ~reading_input

\* Mutant: a suppressed key restarts the delay.
restarts_delay(key, sh) ==
  /\ bump' = TRUE
  /\ UNCHANGED <<dest, elapsed_time, pc, pos>>
  /\ \/ not_reading /\ UNCHANGED <<line, filter>>
     \/ /\ ~not_reading /\ suppressed(key) /\ no_char
        /\ last_time' = as_int(elapsed_time) /\ UNCHANGED <<previous_key, repeating, typed>>
     \/ /\ ~not_reading /\ ~suppressed(key)
        /\ repeating' = (key = previous_key) /\ previous_key' = key
        /\ last_time' = as_int(elapsed_time)
        /\ typed' = IF pc = "wait" THEN [key |-> key, at |-> elapsed_time] ELSE Untyped
        /\ edit_line(key, sh)

console_on_key_down(key, sh) ==
  /\ bump' = TRUE
  /\ UNCHANGED <<dest, elapsed_time, pc, pos>>
  /\ \/ not_reading /\ UNCHANGED <<line, filter>>
     \/ ~not_reading /\ suppressed(key) /\ no_char /\ UNCHANGED filter
     \/ /\ ~not_reading /\ ~suppressed(key)
        /\ repeating' = (key = previous_key)
        /\ previous_key' = key
        /\ last_time' = as_int(elapsed_time)
        /\ typed' = IF pc = "wait" THEN [key |-> key, at |-> elapsed_time] ELSE Untyped
        /\ edit_line(key, sh)

kb_handler(key, sh, held) ==
  /\ last_key' = key /\ shift' = sh /\ key_map' = held
  /\ console_on_key_down(key, sh)

\* Mutant: a released key stays the last key.
never_released(k) == last_key

last_after_release(k) == IF k = last_key THEN NoKey ELSE last_key

\* One scan code: press, release (also of a key that was down before the kernel ran)
\* or left shift; presses also as the keyboard's own repeats.
KeyPress(k) ==
  /\ Cardinality(key_map \cup {k}) <= MaxHeld
  /\ kb_handler(k, shift, key_map \cup {k})
KeyRelease(k) == kb_handler(last_after_release(k), shift, key_map \ {k})
ShiftKey(down) == kb_handler(last_key, down, key_map)

pit_handler ==
  /\ elapsed_time < MaxTime /\ elapsed_time' = elapsed_time + 1
  /\ UNCHANGED <<keyboard, line, filter, bump, dest, pc, pos>>

Interrupt ==
  \/ \E k \in KeyCodes : KeyPress(k) \/ KeyRelease(k)
  \/ \E down \in BOOLEAN : ShiftKey(down)
  \/ pit_handler
-----------------------------------------------------------------------------
(***************************************************************************)
(* The main thread, from console_wait_for_key in kernel_main on.  Then     *)
(* gives the order of the statements.                                      *)
(***************************************************************************)
\* Mutant: reading_input is set before dest.
Then_dest_late ==
  [anykey |-> "bump", bump |-> "clear", clear |-> "prompt", prompt |-> "loc",
   loc |-> "reading", reading |-> "dest", dest |-> "repeating", repeating |-> "previous",
   previous |-> "time", time |-> "memset", memset |-> "wait", wait |-> "return",
   return |-> "parse", parse |-> "prompt"]

Then == [anykey |-> "bump", bump |-> "clear", clear |-> "prompt", prompt |-> "loc",
         loc |-> "dest", dest |-> "repeating", repeating |-> "reading",
         reading |-> "previous", previous |-> "time", time |-> "memset",
         memset |-> "wait", wait |-> "return", return |-> "parse", parse |-> "prompt"]

Step(s) == pc = s /\ pc' = Then[s]

wait_for_key ==
  /\ Step("anykey") /\ bump
  /\ UNCHANGED <<keyboard, line, filter, bump, dest, elapsed_time, pos>>
clear_bump ==
  /\ Step("bump") /\ bump' = FALSE
  /\ UNCHANGED <<keyboard, line, filter, dest, elapsed_time, pos>>
console_clear ==
  /\ Step("clear") /\ cursor' = TopLeft
  /\ UNCHANGED <<keyboard, reading_input, loc, cmd, echo, early, wrapped, filter, bump,
                 dest, elapsed_time, pos>>
print_prompt ==
  /\ Step("prompt") /\ cursor' = put_char(put_char(cursor))
  /\ UNCHANGED <<keyboard, reading_input, loc, cmd, echo, early, wrapped, filter, bump,
                 dest, elapsed_time, pos>>

set_loc ==
  /\ Step("loc") /\ loc' = 0
  /\ UNCHANGED <<keyboard, reading_input, cmd, cursor, echo, early, wrapped, filter, bump,
                 dest, elapsed_time, pos>>
set_dest ==
  /\ Step("dest") /\ dest' = "cmd"
  /\ UNCHANGED <<keyboard, line, filter, bump, elapsed_time, pos>>
set_repeating ==
  /\ Step("repeating") /\ repeating' = FALSE
  /\ UNCHANGED <<keyboard, line, previous_key, last_time, typed, bump, dest, elapsed_time, pos>>
set_reading ==
  /\ Step("reading") /\ reading_input' = TRUE /\ pos' = 0
  /\ UNCHANGED <<keyboard, loc, cmd, cursor, echo, early, wrapped, filter, bump, dest,
                 elapsed_time>>
set_previous ==
  /\ Step("previous") /\ previous_key' = NoKey
  /\ UNCHANGED <<keyboard, line, repeating, last_time, typed, bump, dest, elapsed_time, pos>>
set_time ==
  /\ Step("time") /\ last_time' = as_int(elapsed_time)
  /\ UNCHANGED <<keyboard, line, previous_key, repeating, typed, bump, dest, elapsed_time, pos>>

\* memset(dest, 0, 256) is a rep stosl: an interrupt may come between two words.
memset_word ==
  /\ pc = "memset" /\ pos < LineSize
  /\ cmd' = [i \in 0 .. LineSize |-> IF i \in pos .. pos + WordSize - 1 THEN NUL ELSE cmd[i]]
  /\ pos' = pos + WordSize
  /\ UNCHANGED <<keyboard, reading_input, loc, cursor, echo, early, wrapped, filter, bump, dest,
                 elapsed_time, pc>>
memset_done ==
  /\ Step("memset") /\ pos >= LineSize
  /\ UNCHANGED <<keyboard, line, filter, bump, dest, elapsed_time, pos>>

\* Mutant: the loop does not end on an empty line.
leave_loop_nonempty ==
  /\ Step("wait") /\ ~reading_input /\ loc > 0
  /\ UNCHANGED <<keyboard, line, filter, bump, dest, elapsed_time, pos>>

leave_loop ==
  /\ Step("wait") /\ ~reading_input
  /\ UNCHANGED <<keyboard, line, filter, bump, dest, elapsed_time, pos>>

\* The five assignments after the loop; the handler looks at none of them.  The
\* history of the line ends here.
read_line_return ==
  /\ Step("return")
  /\ loc' = 0 /\ dest' = "null" /\ repeating' = FALSE /\ previous_key' = NoKey /\ last_time' = 0
  /\ echo' = Undrawn /\ early' = {} /\ wrapped' = FALSE /\ typed' = Untyped
  /\ UNCHANGED <<keyboard, reading_input, cmd, cursor, bump, elapsed_time, pos>>

to_lower(c) == IF c \in Letters \X {TRUE} THEN <<c[1], FALSE>> ELSE c

\* What a command leaves on the screen: nothing, a cleared screen, or lines of
\* text; then a newline unless the cursor is in column 0.
fresh_row(c) == IF c.x # 0 THEN put_newline(c) ELSE c
after_command(c) == {fresh_row(c), TopLeft} \cup [x : {0}, y : c.y + 1 .. Height - 1]

parse_cmd ==
  /\ Step("parse")
  /\ cmd' = [i \in 0 .. LineSize |-> IF i < LineSize THEN to_lower(cmd[i]) ELSE cmd[i]]
  /\ cursor' \in after_command(cursor)
  /\ UNCHANGED <<keyboard, reading_input, loc, echo, early, wrapped, filter, bump,
                 dest, elapsed_time, pos>>

MainThread ==
  \/ wait_for_key \/ clear_bump \/ console_clear \/ print_prompt
  \/ set_loc \/ set_dest \/ set_repeating \/ set_reading \/ set_previous \/ set_time
  \/ memset_word \/ memset_done \/ leave_loop \/ read_line_return \/ parse_cmd

Next == Interrupt \/ MainThread

\* A handler returns to the main thread, which then executes at least an instruction.
Spec == Init /\ [][Next]_vars /\ WF_vars(MainThread)
-----------------------------------------------------------------------------
TypeOK ==
  /\ shift \in BOOLEAN /\ last_key \in KeyCodes \cup {NoKey} /\ key_map \subseteq KeyCodes
  /\ bump \in BOOLEAN /\ reading_input \in BOOLEAN /\ dest \in {"null", "cmd"}
  /\ loc \in 0 .. LineSize + 1
  /\ previous_key \in KeyCodes \cup {NoKey} /\ repeating \in BOOLEAN /\ last_time \in Int
  /\ cursor.x \in 0 .. Width - 1 /\ cursor.y \in Int /\ cursor.y < Height
  /\ cmd \in [0 .. LineSize -> Chars \cup {NUL}] /\ echo \in [0 .. LineSize -> Chars \cup {NUL}]
  /\ elapsed_time \in 0 .. MaxTime /\ pc \in Steps /\ pos \in Nat
  /\ early \subseteq 0 .. LineSize /\ wrapped \in BOOLEAN
  /\ typed \in [key : KeyCodes \cup {NoKey}, at : 0 .. MaxTime]

\* While the handler may edit the line, dest points to the buffer and the main
\* thread is inside console_read_line: a key never writes through a null dest,
\* nor moves the cursor while the shell prints or parses.
HandlerInsideReadLine == reading_input => dest = "cmd" /\ pc \in Armed

\* A line may overrun the 256 bytes of cmd by one, not more, and only with the
\* key that ends the line.
OneByteOverrun == loc > LineSize => loc = LineSize + 1 /\ ~reading_input

\* While the line is read, the buffer holds what is on the screen and nothing after
\* it. A character typed before memset passed over its place is blank from then on,
\* and no other ever is: not one typed behind it, nor one that replaced it later.
BufferIsEcho ==
  pc \in Armed =>
    /\ \A i \in 0 .. LineSize :
         i < loc => cmd[i] = IF i \in early /\ i < pos THEN NUL ELSE echo[i]
    /\ \A i \in 0 .. LineSize - 1 : loc <= i /\ i < pos => cmd[i] = NUL

\* The key the handler works on is physically down: a scan code of another key
\* (a shift, a release) can repeat the last key only while it is held.
LastKeyHeld == last_key # NoKey => last_key \in key_map

\* While a line fits in its row, the cursor stands where the next character of
\* the line will be drawn, behind the prompt and the loc characters of the line.
CursorFollowsLine ==
  reading_input /\ ~wrapped => cursor.x = PromptWidth + loc

\* The same of every line, as the comment at dec_x ("decrement x") has it: after a
\* wrap the column is counted modulo the width.
CursorFollowsWrappedLine ==
  reading_input => cursor.x = (PromptWidth + loc) % Width

\* What console_on_key_down and memset may do to a line that has ended: nothing
\* until the shell has parsed it, unless memset itself is still running.
EndedLineFrozen ==
  [][~reading_input /\ pc \in {"wait", "return"} => UNCHANGED <<cmd, cursor>>]_vars

\* A line may end while console_read_line is still setting up.  From then on every
\* statement brings it nearer to the parser, and no key, release or tick takes it back:
\* it can neither be reopened nor be waited for once more.
ended == ~reading_input /\ pc \in Armed \cup {"return"}
statements_left ==
  [previous |-> LineSize + 5, time |-> LineSize + 4,
   memset |-> 3 + IF pos < LineSize THEN LineSize - pos ELSE 0,
   wait |-> 2, return |-> 1, parse |-> 0][pc]
EndedLineNears ==
  [][ended =>
       IF UNCHANGED <<pc, pos>> THEN ended'
       ELSE (ended' \/ pc' = "parse") /\ statements_left' < statements_left]_vars

\* The keyboard repeats the code of a held key faster than the shell wants it.
\* As long as the clock fits last_time, the key is taken again only RepeatRate
\* after it was last taken; only a key typed before the wait loop, when
\* previous_key is yet to be reset, can come twice.
SameKeyPaced ==
  [][filter' # filter /\ pc = "wait" /\ pc' = "wait"
       /\ typed'.key = typed.key /\ typed.key # NoKey
       /\ elapsed_time + RepeatDelay <= IntMax
     => elapsed_time >= typed.at + RepeatRate]_vars

\* A key still held RepeatDelay after it was taken is taken again, however many
\* of its codes came too soon meanwhile; later than IntMax - RepeatDelay the
\* deadline may be negative, and then no key ever repeats.
HeldKeyRepeats ==
  reading_input /\ pc = "wait" /\ typed.key # NoKey
    /\ elapsed_time >= typed.at + RepeatDelay /\ elapsed_time + RepeatDelay <= IntMax
  => ~suppressed(typed.key)

\* The refinement mapping: the line on the screen is the loc characters of echo, the
\* phase follows from pc and reading_input.
Phase ==
  IF reading_input THEN IF pc = "wait" THEN "reading" ELSE "opening"
  ELSE IF pc \in Armed \cup {"return"} THEN "ended"
  ELSE IF pc = "parse" THEN "returned" ELSE "idle"
InLine == pc \in Armed \cup {"return"}

Editor == INSTANCE LineEditor WITH
  phase <- Phase,
  text <- IF InLine THEN [i \in 1 .. loc |-> echo[i - 1]] ELSE <<>>,
  lost <- IF InLine THEN {i \in 1 .. LineSize : i - 1 \in early} ELSE {},
  line <- [i \in 1 .. LineSize |-> IF pc = "parse" THEN cmd[i - 1] ELSE NUL]

\* Statement by statement and key by key, console_read_line and its handler do what
\* LineEditor promises: the shell parses the line the user saw, each line once.
EditsAsPromised == Editor!Spec

\* A line that has ended (Enter, or a full buffer) reaches the command parser,
\* also when it ended while console_read_line was still setting up.
EndedLineIsParsed == (pc \in Armed /\ ~reading_input) ~> (pc = "parse")
=============================================================================

------------------------------ MODULE BootMenu ------------------------------
(***************************************************************************)
(* The boot menu of bootloader/uefi/src/boot_menu.rs: the main thread of   *)
(* BootMenu::menu_loop against the periodic timer notify function          *)
(* count_down_boot_timer, which the firmware runs at TPL_CALLBACK between  *)
(* any two steps of the main thread, and a user who may press keys at any  *)
(* time.                                                                   *)
(*                                                                         *)
(* A boot-service call is one step: the firmware raises the TPL inside it, *)
(* so the callback cannot run in the middle of one.  The callback itself   *)
(* is one step: nothing preempts TPL_CALLBACK here.  The first tick comes  *)
(* one second (10 000 000 x 100 ns) after set_timer, long after the main   *)
(* thread has gone from set_count_down to wait_for_event, so no tick is    *)
(* taken before the main thread first waits.                               *)
(*                                                                         *)
(* Before it arms the timer, menu_loop prints the menu and saves the       *)
(* cursor at the places it later writes to: the digit after "Press key:",  *)
(* the seconds after "Automatic boot in", and the two ends of that line.   *)
(* The console has Rows rows; a line feed on the last row scrolls the      *)
(* screen up one row and leaves the cursor on the last row.  Only rows are *)
(* kept: every saved cursor and every column menu_loop computes with is    *)
(* at column 0 or within one short line.                                   *)
(***************************************************************************)
EXTENDS Integers

CONSTANTS
  AutoBootSeconds,  \* BootMenu::new(auto_boot_seconds, ..): 1 in efi_main
  NumOptions,       \* options.len(): "Boot MonorsOS" and "Shutdown"
  Keys,             \* unicode_char values (u16) the user may type
  NoKey,
  Rows              \* rows of the console's text mode (query_mode)

ASSUME AutoBootSeconds \in 1 .. 9 /\ NumOptions \in 1 .. 9
ASSUME Rows >= 2

CR == 13          \* '\r'
LF == 10          \* '\n'
Zero == 48        \* '0'

VARIABLES
  mpc,           \* main thread: where menu_loop is
  count,         \* boot_menu.count, the seconds left
  timerEvent,    \* self.timer_event: "None" or "Armed" (a periodic timer)
  timeoutEvent,  \* self.timeout_event: "None", "Open", or "Closed" (Some, closed)
  signaled,      \* the timeout event has been signaled
  index,         \* what wait_for_event returned
  select,        \* select_option
  key,           \* the key waiting in the console input, or NoKey
  panicked,      \* a panic: the panic handler loops and nothing else runs
  row,           \* the console cursor's row
  saved          \* the cursor rows menu_loop saved: press_key, count_down,
                 \* start and end (automatic_boot_start/end_cursor)

layoutVars == <<row, saved>>
menuVars == <<count, timerEvent, timeoutEvent, signaled, index, select, key, panicked>>
vars == <<mpc, count, timerEvent, timeoutEvent, signaled, index, select, key, panicked, layoutVars>>

\* The cursor's row after n line feeds from row r: the screen scrolls at
\* the last row.
NewLines(r, n) == IF r + n <= Rows - 1 THEN r + n ELSE Rows - 1

\* uefi::init clears the screen, which puts the cursor at row 0, and
\* efi_main prints its welcome line: menu_loop starts on the row below.
WelcomeRow == NewLines(0, 1)

\* Geometry::default() for every saved cursor.
Unsaved == [c \in {"press_key", "count_down", "start", "end"} |-> 0]

Init ==
  /\ mpc = "print_options"
  /\ count = AutoBootSeconds
  /\ timerEvent = "None"
  /\ timeoutEvent = "None"
  /\ signaled = FALSE
  /\ index = 0
  /\ select = 1
  /\ key = NoKey
  /\ panicked = FALSE
  /\ row = WelcomeRow
  /\ saved = Unsaved

Step(from, to) == mpc = from /\ mpc' = to /\ ~panicked

Panic == panicked' = TRUE

(***************************************************************************)
(* Main thread.                                                            *)
(***************************************************************************)


\* print_options: "Select option: " and one line per option; then the
\* println!() of menu_loop.
PrintOptions ==
  /\ Step("print_options", "print_press_key")
  /\ row' = NewLines(row, NumOptions + 2)
  /\ UNCHANGED saved

\* print_press_key saves the cursor after "Press key: [ " and ends the line;
\* then menu_loop's println!("\n") adds two more.
PrintPressKey ==
  /\ Step("print_press_key", "print_automatic_boot")
  /\ saved' = [saved EXCEPT !.press_key = row]
  /\ row' = NewLines(row, 3)

\* print_automatic_boot saves the start of its line, the cursor after
\* "Automatic boot in ", then the cursor after the line's line feed.
PrintAutomaticBoot ==
  /\ Step("print_automatic_boot", "arm")
  /\ saved' = [saved EXCEPT !.start = row, !.count_down = row,
                             !.end = NewLines(row, 1)]
  /\ row' = NewLines(row, 1)

PrintMenu == (PrintOptions \/ PrintPressKey \/ PrintAutomaticBoot) /\ UNCHANGED menuVars

\* set_count_down: create_event(TIMER | NOTIFY_SIGNAL) and a periodic
\* set_timer; either failure is an expect panic the firmware never gives.
SetCountDown ==
  /\ Step("arm", "create_timeout")
  /\ timerEvent' = "Armed"
  /\ UNCHANGED <<count, timeoutEvent, signaled, index, select, key, panicked>>

\* wait_event: self.timeout_event = Some(create_timeout_event()).
CreateTimeoutEvent ==
  /\ Step("create_timeout", "wait")
  /\ timeoutEvent' = "Open"
  /\ UNCHANGED <<count, timerEvent, signaled, index, select, key, panicked>>

\* wait_for_event(&[wait_for_key, timeout_event]) blocks until one of the
\* events is signaled and returns its index.
WaitEvent ==
  /\ Step("wait", "close_timeout")
  /\ \/ key # NoKey /\ index' = 0
     \/ signaled /\ index' = 1
  /\ UNCHANGED <<count, timerEvent, timeoutEvent, signaled, select, key, panicked>>

\* close_event(self.timeout_event.unwrap())
CloseTimeoutEvent ==
  /\ Step("close_timeout", "forget_timeout")
  /\ timeoutEvent' = "Closed"
  /\ UNCHANGED <<count, timerEvent, signaled, index, select, key, panicked>>

\* Mutant: the keyboard path goes to the input loop without clear_timer.
ForgetTimeoutEventNoClear ==
  /\ Step("forget_timeout", IF index = 1 THEN "action" ELSE "input")
  /\ timeoutEvent' = "None"
  /\ UNCHANGED <<count, timerEvent, signaled, index, select, key, panicked>>

\* self.timeout_event = None; then match index: 0 is the keyboard, 1 the
\* timeout, which goes straight to the selected option.
ForgetTimeoutEvent ==
  /\ Step("forget_timeout", IF index = 1 THEN "action" ELSE "clear_timer")
  /\ timeoutEvent' = "None"
  /\ UNCHANGED <<count, timerEvent, signaled, index, select, key, panicked>>

\* clear_timer(): set_timer(self.timer_event.unwrap(), Cancel), close_event,
\* self.timer_event = None.
ClearTimer ==
  /\ Step("clear_timer", "clear_chars")
  /\ timerEvent = "Armed"
  /\ timerEvent' = "None"
  /\ UNCHANGED <<count, timeoutEvent, signaled, index, select, key, panicked>>

\* The unwrap in clear_timer panics when the callback has already cleared
\* the timer.
ClearTimerUnwrapsNone ==
  /\ mpc = "clear_timer"
  /\ ~panicked
  /\ timerEvent = "None"
  /\ Panic
  /\ UNCHANGED <<mpc, count, timerEvent, timeoutEvent, signaled, index, select, key>>

\* clear_characters(automatic_boot_start_cursor, automatic_boot_end_cursor):
\* assert! the end is on a later row, then overwrite the "Automatic boot"
\* line with spaces from the start cursor and put the cursor back.
ClearCharacters ==
  /\ mpc = "clear_chars"
  /\ ~panicked
  /\ IF saved.start < saved.end
     THEN mpc' = "input" /\ UNCHANGED panicked
     ELSE Panic /\ UNCHANGED mpc
  /\ UNCHANGED <<count, timerEvent, timeoutEvent, signaled, index, select, key>>

\* Mutant: the digit is checked against '1' only.
IsOptionKeyNoUpperBound(k) == k >= Zero + 1

\* input_char >= '1' && input_char <= '0' + options.len()
IsOptionKey(k) == k >= Zero + 1 /\ k <= Zero + NumOptions

\* wait_for_input_char() as u8: input_read_key's unicode_char, at once or,
\* when no key is waiting, after wait_for_event on wait_for_key; the u16
\* is cut to its low byte.
InputChar == key % 256

\* The loop body: a digit from '1' to the number of options selects that
\* option, '\r' or '\n' leaves the loop, any other character is ignored.
ReadInputChar ==
  LET c == InputChar
  IN  /\ mpc = "input"
      /\ ~panicked
      /\ key # NoKey
      /\ key' = NoKey
      /\ \/ c \in {CR, LF} /\ mpc' = "action" /\ UNCHANGED select
         \/ IsOptionKey(c) /\ select' = c - Zero /\ UNCHANGED mpc
         \/ c \notin {CR, LF} /\ ~IsOptionKey(c) /\ UNCHANGED <<mpc, select>>
      /\ UNCHANGED <<count, timerEvent, timeoutEvent, signaled, index, panicked>>

\* self.options[select_option - 1].action(): menu_loop returns and the
\* BootMenu is dropped, the timer's notify context pointing into it.
RunOption ==
  /\ Step("action", "done")
  /\ UNCHANGED <<count, timerEvent, timeoutEvent, signaled, index, select, key, panicked>>

(***************************************************************************)
(* The timer notify function count_down_boot_timer.                        *)
(***************************************************************************)

\* menu_loop has not yet waited: no tick has come.
BeforeWait == {"print_options", "print_press_key", "print_automatic_boot",
               "arm", "create_timeout"}

\* A tick that leaves seconds on the clock: count -= 1 and print it.
CountDown ==
  /\ timerEvent = "Armed"
  /\ mpc \notin BeforeWait
  /\ ~panicked
  /\ count > 1
  /\ count' = count - 1
  /\ UNCHANGED <<mpc, timerEvent, timeoutEvent, signaled, index, select, key, panicked>>

\* The last tick: count reaches 0, clear_timer() cancels and closes the
\* timer, and timeout_automatic_boot() signals self.timeout_event.
LastTick ==
  /\ timerEvent = "Armed"
  /\ mpc \notin BeforeWait
  /\ ~panicked
  /\ count = 1
  /\ count' = 0
  /\ timerEvent' = "None"

\* Mutant: the last tick clears the timer but does not signal the timeout.
TimeoutUnsignaled ==
  /\ LastTick
  /\ timeoutEvent = "Open"
  /\ UNCHANGED <<mpc, timeoutEvent, signaled, index, select, key, panicked>>

Timeout ==
  /\ LastTick
  /\ timeoutEvent = "Open"
  /\ signaled' = TRUE
  /\ UNCHANGED <<mpc, timeoutEvent, index, select, key, panicked>>

\* timeout_automatic_boot() panics: expect("timeout_event is not set") when
\* the main thread has set it to None, expect("Could not signal event")
\* when it is Some but already closed.
TimeoutPanics ==
  /\ LastTick
  /\ timeoutEvent # "Open"
  /\ Panic
  /\ UNCHANGED <<mpc, timeoutEvent, signaled, index, select, key>>

(***************************************************************************)
(* The user.                                                               *)
(***************************************************************************)

Press ==
  /\ key = NoKey
  /\ mpc # "done"
  /\ ~panicked
  /\ \E k \in Keys : key' = k
  /\ UNCHANGED <<mpc, count, timerEvent, timeoutEvent, signaled, index, select, panicked>>

Main ==
  \/ PrintMenu
  \/ /\ \/ SetCountDown \/ CreateTimeoutEvent \/ WaitEvent \/ CloseTimeoutEvent
        \/ ForgetTimeoutEvent \/ ClearTimer \/ ClearTimerUnwrapsNone
        \/ ClearCharacters \/ ReadInputChar \/ RunOption
     /\ UNCHANGED layoutVars

\* The callback prints the seconds at count_down_cursor and puts the
\* cursor back: no line feed.
Callback == (CountDown \/ Timeout \/ TimeoutPanics) /\ UNCHANGED layoutVars

Next == Main \/ Callback \/ (Press /\ UNCHANGED layoutVars)

\* The CPU runs the main thread whenever it can, and the periodic timer
\* keeps firing while it is armed.  The user owes nothing.
Spec == Init /\ [][Next]_vars /\ WF_vars(Main) /\ WF_vars(Callback)

(***************************************************************************)
(* Properties.                                                             *)
(***************************************************************************)

TypeOK ==
  /\ mpc \in BeforeWait \cup {"wait", "close_timeout", "forget_timeout",
                            "clear_timer", "clear_chars", "input", "action", "done"}
  /\ count \in 0 .. AutoBootSeconds
  /\ timerEvent \in {"None", "Armed"}
  /\ timeoutEvent \in {"None", "Open", "Closed"}
  /\ signaled \in BOOLEAN
  /\ index \in {0, 1}
  /\ select \in 1 .. NumOptions
  /\ key \in Keys \cup {NoKey}
  /\ panicked \in BOOLEAN
  /\ row \in 0 .. Rows - 1
  /\ saved \in [DOMAIN Unsaved -> 0 .. Rows - 1]

\* When menu_loop returns, both events are closed and None: the periodic
\* timer's notify context is a pointer to this BootMenu, which is dropped
\* as soon as menu_loop returns, so a tick after that would write through
\* a dangling pointer.  The keyboard path must cancel the timer itself;
\* the timeout path relies on the callback having done it.
EventsClosedWhenMenuReturns ==
  mpc \in {"action", "done"} => timerEvent = "None" /\ timeoutEvent = "None"

\* If nobody touches the keyboard, the countdown runs out and the menu
\* returns with the first option ("Boot MonorsOS") selected.
AutoBoot == [](key = NoKey) => <>(mpc = "done" /\ select = 1)

\* Nothing panics, whenever the user presses a key: the timer callback and
\* the main thread never find the other's event cleared under them.
NoPanic == ~panicked
====

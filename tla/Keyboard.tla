------------------------------ MODULE Keyboard ------------------------------
(***************************************************************************)
(* The PS/2 keyboard driver: handle_irq turns scan codes into modifier      *)
(* state and characters in a ring of N slots, and readers take them out.    *)
(* Nothing is locked.  A kernel reader runs with interrupts on, so the       *)
(* handler may run between its load of a slot and the advance of read_pos;  *)
(* sys_read runs behind an interrupt gate, with interrupts off.             *)
(*                                                                         *)
(* A scan code is named after its key; Backspace and Tab behave as Enter.   *)
(* Bytes from the mouse and interrupts without a byte change nothing.       *)
(***************************************************************************)
EXTENDS Integers, Sequences

CONSTANTS
    N,       \* INPUT_BUFFER_SIZE (256)
    Keys     \* the keys being pressed, of AllKeys

AllKeys == {"A", "Enter", "LeftShift", "RightShift", "LeftCtrl", "RightCtrl",
            "LeftAlt", "RightAlt", "CapsLock", "ArrowUp"}

ASSUME KeyboardAssumption == N \in Nat /\ N > 1 /\ Keys \subseteq AllKeys

VARIABLES
    data, read_pos, write_pos,   \* INPUT_BUFFER
    modifiers,                   \* MODIFIER_STATE: the flags that are true
    extended,                    \* EXTENDED_SCANCODE
    wire,                        \* bytes sent by the keyboard, one per interrupt
    held,                        \* the keys that are down
    call,                        \* the reader: "none", "read_char", "flush" or "sys_read"
    loaded,                      \* the slot a reader has loaded, before it advances
    out                          \* the character the last read returned

ring == <<data, read_pos, write_pos>>

keys == <<modifiers, extended, wire, held>>

reader == <<call, loaded, out>>

keyboardVars == <<ring, keys, reader>>

Chars == {"a", "A", "\n"}

NoChar == "none"

Modifiers == {"LeftShift", "RightShift", "LeftCtrl", "RightCtrl", "LeftAlt", "RightAlt",
              "CapsLock"}

KeyboardInit ==
    /\ data = [i \in 0 .. N - 1 |-> NoChar] /\ read_pos = 0 /\ write_pos = 0
    /\ modifiers = {} /\ extended = FALSE
    /\ wire = <<>> /\ held = {}
    /\ call = "none" /\ loaded = NoChar /\ out = NoChar

-----------------------------------------------------------------------------
(* The ring.                                                                *)

Succ(pos) == (pos + 1) % N

IsFull_Never == FALSE

IsFull == Succ(write_pos) = read_pos

write(c) ==
    IF IsFull
    THEN UNCHANGED ring
    ELSE /\ data' = [data EXCEPT ![write_pos] = c]
         /\ write_pos' = Succ(write_pos)
         /\ UNCHANGED read_pos

HasData == read_pos # write_pos

-----------------------------------------------------------------------------
(* scancode_to_keyevent.  Both Ctrl keys share a code, as do both Alts; the *)
(* right ones come after an E0 prefix, and their release gets bit 7.        *)

Code(key) ==
    CASE key \in {"LeftCtrl", "RightCtrl"} -> "Ctrl"
      [] key \in {"LeftAlt", "RightAlt"} -> "Alt"
      [] OTHER -> key

Prefixed(key) == key \in {"RightCtrl", "RightAlt", "ArrowUp"}

Sided(code, ext) ==
    CASE code = "Ctrl" -> IF ext THEN "RightCtrl" ELSE "LeftCtrl"
      [] code = "Alt" -> IF ext THEN "RightAlt" ELSE "LeftAlt"

Ascii(c) == [event |-> "Ascii", value |-> c]
Special(key) == [event |-> "Special", value |-> key]
Release(code) == [event |-> "Release", value |-> code]

Upper(mods) == ({"LeftShift", "RightShift"} \cap mods # {}) # ("CapsLock" \in mods)

scancode_to_keyevent(code, release, ext) ==
    CASE code \in {"LeftShift", "RightShift"} ->
             IF release THEN Release(code) ELSE Special(code)
      [] code \in {"Ctrl", "Alt"} ->
             IF ~release THEN Special(Sided(code, ext))
             ELSE IF ext THEN Release("0x80") ELSE Release(code)
      [] code \in {"CapsLock", "Enter"} -> Special(code)
      [] code \in {"A", "ArrowUp"} /\ ext -> Special("Other")
      [] code \in {"A", "ArrowUp"} /\ ~ext /\ release -> Release(code)
      [] code = "A" /\ ~ext /\ ~release -> Ascii(IF Upper(modifiers) THEN "A" ELSE "a")
      [] OTHER -> Special("Other")

(* The modifiers after an event.                                            *)
Modified_NoRelease(event, ext) ==
    IF event.event = "Special" /\ event.value \in Modifiers
    THEN modifiers \cup {event.value}
    ELSE modifiers

Modified(event, ext) ==
    CASE event = Special("CapsLock") ->
             IF "CapsLock" \in modifiers THEN modifiers \ {"CapsLock"}
             ELSE modifiers \cup {"CapsLock"}
      [] event.event = "Special" /\ event.value \in Modifiers \ {"CapsLock"} ->
             modifiers \cup {event.value}
      [] event.event = "Release" /\ event.value \in {"LeftShift", "RightShift"} ->
             modifiers \ {event.value}
      [] event.event = "Release" /\ event.value \in {"Ctrl", "Alt"} ->
             modifiers \ {Sided(event.value, ext)}
      [] OTHER -> modifiers

handle_irq ==
    /\ call # "sys_read"
    /\ wire # <<>>
    /\ wire' = Tail(wire)
    /\ IF Head(wire).code = "E0"
       THEN /\ extended' = TRUE
            /\ UNCHANGED <<modifiers, ring>>
       ELSE LET event == scancode_to_keyevent(Head(wire).code, Head(wire).release, extended) IN
            /\ extended' = FALSE
            /\ modifiers' = Modified(event, extended)
            /\ IF event.event = "Ascii" THEN write(event.value)
               ELSE IF event = Special("Enter") THEN write("\n")
               ELSE UNCHANGED ring
    /\ UNCHANGED <<held, reader>>

-----------------------------------------------------------------------------
(* The keyboard itself.  It sends the bytes of one key event at a time and  *)
(* repeats a held key's.                                                    *)
Send(key, release) ==
    /\ wire = <<>>
    /\ wire' = (IF Prefixed(key) THEN <<[code |-> "E0", release |-> FALSE]>> ELSE <<>>)
               \o <<[code |-> Code(key), release |-> release]>>
    /\ UNCHANGED <<modifiers, extended, ring, reader>>

press(key) ==
    /\ held' = held \cup {key}
    /\ Send(key, FALSE)

release(key) ==
    /\ key \in held
    /\ held' = held \ {key}
    /\ Send(key, TRUE)

-----------------------------------------------------------------------------
(* Readers.  read_char and flush are called by the kernel, sys_read on      *)
(* standard input by a process.                                             *)
read_begin(how) ==
    /\ call = "none"
    /\ call' = how
    /\ out' = NoChar
    /\ UNCHANGED <<ring, keys, loaded>>

read_empty ==
    /\ call \in {"read_char", "flush"} /\ loaded = NoChar
    /\ ~HasData
    /\ call' = "none"
    /\ UNCHANGED <<ring, keys, loaded, out>>

(* sys_read yields and tries again; interrupts stay off.                    *)
read_wait ==
    /\ call = "sys_read" /\ ~HasData
    /\ UNCHANGED keyboardVars

read_load ==
    /\ call # "none" /\ loaded = NoChar
    /\ HasData
    /\ loaded' = data[read_pos]
    /\ UNCHANGED <<ring, keys, call, out>>

read_advance ==
    /\ loaded # NoChar
    /\ read_pos' = Succ(read_pos)
    /\ out' = loaded
    /\ loaded' = NoChar
    /\ call' = IF call = "flush" THEN "flush" ELSE "none"
    /\ UNCHANGED <<data, write_pos, keys>>

read == read_empty \/ read_wait \/ read_load \/ read_advance

KeyboardNext ==
    \/ handle_irq
    \/ \E key \in Keys : press(key) \/ release(key)
    \/ \E how \in {"read_char", "flush", "sys_read"} : read_begin(how)
    \/ read

(* The interrupt is delivered when it is not masked, and the reader runs.   *)
KeyboardFairness == WF_keyboardVars(handle_irq) /\ WF_keyboardVars(read)

KeyboardSpec == KeyboardInit /\ [][KeyboardNext]_keyboardVars /\ KeyboardFairness

-----------------------------------------------------------------------------
(* Positions stay inside the ring, whatever is typed and read: the handler  *)
(* and the readers index it without a bounds check of their own.            *)
KeyboardTypeOK ==
    /\ data \in [0 .. N - 1 -> Chars \cup {NoChar}]
    /\ read_pos \in 0 .. N - 1 /\ write_pos \in 0 .. N - 1
    /\ modifiers \subseteq Modifiers /\ extended \in BOOLEAN /\ held \subseteq Keys
    /\ call \in {"none", "read_char", "flush", "sys_read"}
    /\ loaded \in Chars \cup {NoChar} /\ out \in Chars \cup {NoChar}

available ==
    IF write_pos >= read_pos THEN write_pos - read_pos ELSE N - read_pos + write_pos

(* The characters between read_pos and write_pos, oldest first.             *)
RingKeys == [i \in 1 .. available |-> data[(read_pos + i - 1) % N]]

Queue == INSTANCE KeyQueue WITH queue <- RingKeys, Capacity <- N - 1

(* The ring is a first-in first-out queue of N - 1 characters to its        *)
(* readers, with interrupts between any two of their steps.                 *)
ReadsInOrder == Queue!Spec

(* Once its codes have been handled, the state of a Shift, left Ctrl or     *)
(* left Alt is whether that key is down: no order of presses, repeats and   *)
(* releases, prefixed codes in between, leaves one stuck.                   *)
LeftModifiersTrackKeys ==
    wire = <<>> =>
        /\ ~extended
        /\ \A key \in Keys \cap {"LeftShift", "RightShift", "LeftCtrl", "LeftAlt"} :
              key \in modifiers <=> key \in held

-----------------------------------------------------------------------------
(* What the code's own comments say of it and the model refutes.            *)

(* syscall/mod.rs on sys_read: "For stdin (fd 0): Blocks waiting for        *)
(* keyboard input, returns one character at a time".  A waiting call        *)
(* returns once the keyboard has a key to deliver.                          *)
StdinReadReturns ==
    (call = "sys_read" /\ \E i \in DOMAIN wire : wire[i] = [code |-> "A", release |-> FALSE])
        ~> call = "none"

=============================================================================

------------------------------ MODULE Keyboard ------------------------------
(***************************************************************************)
(* The keyboard interrupt (devices/kbd.c): scan codes in, characters in    *)
(* the input buffer out.  A scan code is a number, 0xe000 added to those   *)
(* behind a prefix; characters are bytes.  The keys that are down are the  *)
(* hardware's: while one stays down the keyboard may send its code again.  *)
(***************************************************************************)
EXTENDS Integers, Sequences

CONSTANTS Plain,      \* the scan codes of the keys that are not in shift_keys
          BufSize     \* characters the input buffer holds

VARIABLES down,       \* the keys of shift_keys that are held down
          state_var,  \* left_shift, right_shift, ...: one for each of them
          caps_lock, buffer,
          typed,      \* what each character of buffer was typed with
          rebooted    \* the key that restarted the machine, or 0

vars == <<down, state_var, caps_lock, buffer, typed, rebooted>>

CAPS == 58
E0 == 57344
shift_keys == {42, 54, 56, E0 + 56, 29, E0 + 29}
Shift == {42, 54}
Alt == {56, E0 + 56}
Ctrl == {29, E0 + 29}
Delete == 83
DEL == 127

\* A keymap: rows of characters, each with the scan code of its first.
Row(first, chars) == [first_scancode |-> first, chars |-> chars]
InRow(r, code) == code \in r.first_scancode .. r.first_scancode + Len(r.chars) - 1

\* map_key (): whether a keymap has the key, and its character.
IsMapped(keymap, code) == \E r \in keymap : InRow(r, code)
map_key(keymap, code) ==
  LET r == CHOOSE r \in keymap : InRow(r, code)
  IN r.chars[code - r.first_scancode + 1]

invariant_keymap ==
  { Row(1, <<27>>), Row(14, <<8>>),
    Row(15, <<9, 81, 87, 69, 82, 84, 89, 85, 73, 79, 80>>),
    Row(28, <<13>>), Row(30, <<65, 83, 68, 70, 71, 72, 74, 75, 76>>),
    Row(44, <<90, 88, 67, 86, 66, 78, 77>>),
    Row(55, <<42>>), Row(57, <<32>>), Row(Delete, <<DEL>>) }

unshifted_keymap ==
  { Row(2, <<49, 50, 51, 52, 53, 54, 55, 56, 57, 48, 45, 61>>),
    Row(26, <<91, 93>>), Row(39, <<59, 39, 96>>), Row(43, <<92>>),
    Row(51, <<44, 46, 47>>) }

shifted_keymap ==
  { Row(2, <<33, 64, 35, 36, 37, 94, 38, 42, 40, 41, 95, 43>>),
    Row(26, <<123, 125>>), Row(39, <<58, 34, 126>>), Row(43, <<124>>),
    Row(51, <<60, 62, 63>>) }

Upper == 65 .. 90
tolower(c) == IF c \in Upper THEN c + 32 ELSE c

On(keys) == \E k \in keys : state_var[k]

\* The keymap that is searched behind invariant_keymap.
SecondMap == IF On(Shift) THEN shifted_keymap ELSE unshifted_keymap

\* The character c of the keymap under Ctrl, Shift, Caps Lock and Alt.
Modified(c) ==
  LET c1 == IF On(Ctrl) /\ c \in 64 .. 95 THEN c - 64
            ELSE IF On(Shift) = caps_lock THEN tolower(c)
            ELSE c
  IN IF On(Alt) THEN c1 + 128 ELSE c1

\* An ordinary character, of the key code: input_putc () unless the buffer is full.
Character(code, c, release) ==
  /\ UNCHANGED <<state_var, caps_lock>>
  /\ \/ release /\ UNCHANGED <<buffer, typed, rebooted>>
     \/ /\ ~release /\ c = DEL /\ On(Ctrl) /\ On(Alt)
        /\ rebooted' = code
        /\ UNCHANGED <<buffer, typed>>
     \/ /\ ~release /\ ~(c = DEL /\ On(Ctrl) /\ On(Alt))
        /\ IF Len(buffer) < BufSize
           THEN /\ buffer' = Append(buffer, Modified(c))
                /\ typed' = Append(typed, [cap |-> c, down |-> down, caps |-> caps_lock])
           ELSE UNCHANGED <<buffer, typed>>
        /\ UNCHANGED rebooted

\* Changed form, for the mutation runs: code & 0xff, so that the keys behind a
\* prefix share the entries of those without.
keyboard_interrupt_short(code, release) ==
  LET short == code % 256
  IN IF short = CAPS
     THEN /\ caps_lock' = IF release THEN caps_lock ELSE ~caps_lock
          /\ UNCHANGED <<state_var, buffer, typed, rebooted>>
     ELSE IF IsMapped(invariant_keymap, short)
     THEN Character(code, map_key(invariant_keymap, short), release)
     ELSE IF IsMapped(SecondMap, short)
     THEN Character(code, map_key(SecondMap, short), release)
     ELSE /\ state_var' = IF short \in shift_keys
                          THEN [state_var EXCEPT ![short] = ~release] ELSE state_var
          /\ UNCHANGED <<caps_lock, buffer, typed, rebooted>>

keyboard_interrupt(code, release) ==
  IF code = CAPS
  THEN /\ caps_lock' = IF release THEN caps_lock ELSE ~caps_lock
       /\ UNCHANGED <<state_var, buffer, typed, rebooted>>
  ELSE IF IsMapped(invariant_keymap, code)
     THEN Character(code, map_key(invariant_keymap, code), release)
  ELSE IF IsMapped(SecondMap, code)
     THEN Character(code, map_key(SecondMap, code), release)
  ELSE /\ state_var' = IF code \in shift_keys
                       THEN [state_var EXCEPT ![code] = ~release] ELSE state_var
       /\ UNCHANGED <<caps_lock, buffer, typed, rebooted>>

\* A key goes down, or is held and repeats; a key comes up.
Press(k) ==
  /\ rebooted = 0
  /\ down' = down \cup ({k} \cap shift_keys)
  /\ keyboard_interrupt(k, FALSE)

Release(k) ==
  /\ rebooted = 0
  /\ k \in shift_keys => k \in down
  /\ down' = down \ {k}
  /\ keyboard_interrupt(k, TRUE)

\* A thread takes a character (input_getc ()).
Read ==
  /\ rebooted = 0 /\ buffer # <<>>
  /\ buffer' = Tail(buffer) /\ typed' = Tail(typed)
  /\ UNCHANGED <<down, state_var, caps_lock, rebooted>>

Rebooted == rebooted # 0 /\ UNCHANGED vars

Init ==
  /\ down = {} /\ state_var = [k \in shift_keys |-> FALSE]
  /\ caps_lock = FALSE
  /\ buffer = <<>> /\ typed = <<>> /\ rebooted = 0

Next == \/ \E k \in Plain \cup shift_keys \cup {CAPS} : Press(k) \/ Release(k)
        \/ Read \/ Rebooted

Spec == Init /\ [][Next]_vars

-----------------------------------------------------------------------------
TypeOK ==
  /\ down \subseteq shift_keys /\ state_var \in [shift_keys -> BOOLEAN]
  /\ caps_lock \in BOOLEAN /\ rebooted \in {0} \cup Plain
  /\ Len(buffer) <= BufSize /\ \A n \in DOMAIN buffer : buffer[n] \in 0 .. 255

\* The state variables are those of the keys that are down, whatever was
\* pressed, repeated and released in between: with both keys of a pair down
\* the release of one leaves the other, and keys that share a code behind a
\* prefix do not disturb each other.
ModifiersFollowKeys == \A k \in shift_keys : state_var[k] <=> k \in down

\* Every character in the buffer is the one on the key for the keys that were
\* down when it was typed: Ctrl overrides Shift, Caps Lock turns letters only,
\* and Alt sets the high bit of what would have been typed without it.
CharactersMatchKeys ==
  \A n \in DOMAIN buffer :
    LET t == typed[n]
        held(keys) == t.down \cap keys # {}
        low == buffer[n] % 128
    IN /\ (buffer[n] >= 128) <=> held(Alt)
       /\ t.cap \in Upper =>
            \/ held(Ctrl) /\ low = t.cap - 64
            \/ ~held(Ctrl) /\ held(Shift) # t.caps /\ low = t.cap
            \/ ~held(Ctrl) /\ held(Shift) = t.caps /\ low = t.cap + 32
       /\ t.cap \notin Upper /\ ~held(Ctrl) => low = t.cap
       /\ t.cap \notin Upper /\ held(Ctrl) => low \in {t.cap, t.cap - 64}

\* Delete, pressed while Ctrl and Alt are down, restarts the machine and is not typed;
\* no other key restarts it, and Delete does not without both.
RebootsOnlyOnKeys ==
  /\ rebooted # 0 => rebooted = Delete /\ down \cap Ctrl # {} /\ down \cap Alt # {}
  /\ \A n \in DOMAIN typed :
       ~(typed[n].cap = DEL /\ typed[n].down \cap Ctrl # {} /\ typed[n].down \cap Alt # {})
=============================================================================

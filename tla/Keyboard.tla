------------------------------ MODULE Keyboard ------------------------------
(***************************************************************************)
(* x86::input::PS2Keyboard and the US key map: the user, the keyboard and  *)
(* its controller, and the kernel that polls.                              *)
(*                                                                         *)
(* A key sends groups of bytes, each group ending in the byte the driver   *)
(* makes an event of: a scan code, with 0x80 for a release, after 0xE0 for *)
(* an extended key.  Pause is sent as 0xE1 and the codes of LeftCtrl and   *)
(* NumLock, and the driver takes them for those keys.  The controller      *)
(* holds QueueSize bytes and drops what comes while it is full.            *)
(***************************************************************************)
EXTENDS Integers, Sequences, FiniteSets, TLC

CONSTANTS Keys,        \* the keys of the keyboard, as make codes of hal::Key
          Pause,       \* the key that is not one of hal::Key
          QueueSize,   \* external: bytes the controller holds
          MaxKeyEvents \* bound: presses, repetitions and releases

VARIABLES held,        \* the keys that are down
          sending,     \* groups of bytes the keyboard has still to send,
          sent,        \*   and how many of the first group it has sent
          queue,       \* the controller's bytes
          extended_prefix, mods,
          event,       \* what the last poll returned; the null event if none
          due,         \* ghost: events to come, and whether they must be right
          spoilt,      \* ghost: 2 or 1 while a lost byte is of this group or of the one before
          lost,        \* ghost: some byte was lost
          caps_presses, key_events

device_vars == <<held, sending, sent, queue>>
driver_vars == <<extended_prefix, mods, event>>
ghost_vars  == <<due, spoilt, lost, caps_presses, key_events>>
kb_vars == <<device_vars, driver_vars, ghost_vars>>

E0 == 224
E1 == 225
Extended == 256 * E0

LeftCtrl  == 29
LeftShift == 42
RightShift == 54
LeftAlt   == 56
CapsLock  == 58
NumLock   == 69
ScrollLock == 70
RightCtrl == Extended + 29
RightAlt  == Extended + 56
LeftGui   == Extended + 91
RightGui  == Extended + 92

\* hal::Key without Unknown.
KeyCode == 1 .. 83 \cup {87, 88}
           \cup {Extended + k : k \in {28, 29, 53, 55, 56} \cup 71 .. 73 \cup {75, 77}
                                     \cup 79 .. 83 \cup 91 .. 93}

ASSUME KeysAssumption == Keys \ {Pause} \subseteq KeyCode /\ Pause \notin KeyCode

modifier_for_key(key) ==
  CASE key \in {LeftShift, RightShift} -> "Shift"
    [] key \in {LeftCtrl, RightCtrl}   -> "Ctrl"
    [] key = LeftAlt                   -> "Alt"
    [] key = RightAlt                  -> "AltGr"
    [] key \in {LeftGui, RightGui}     -> "Super"
    [] key = CapsLock                  -> "CapsLock"
    [] key = NumLock                   -> "NumLock"
    [] key = ScrollLock                -> "ScrollLock"
    [] OTHER                           -> "None"

KeyMod == {"Shift", "Ctrl", "Alt", "AltGr", "Super", "CapsLock", "NumLock", "ScrollLock"}

ASSUME ModifiersAssumption ==
  \A key \in KeyCode : modifier_for_key(key) \in KeyMod \cup {"None"}

\* KeyMods are sets: ms |= bit, (ms & bits) != None.
with_mod(ms, bit) == ms \cup {bit}
any_mod(ms, bits) == ms \cap bits # {}

is_lock_key(key) == key \in {CapsLock, NumLock, ScrollLock}

NoEvent == [key |-> 0, release |-> FALSE]

-----------------------------------------------------------------------------
\* External: the bytes of an event of key, in groups, and the events they mean.
groups(key, release) ==
  LET r == IF release THEN 128 ELSE 0
  IN  IF key = Pause
        THEN IF release THEN <<>> ELSE <<<<E1, 29>>, <<69>>, <<E1, 29 + 128>>, <<69 + 128>>>>
        ELSE IF key >= Extended THEN <<<<E0, key - Extended + r>>>> ELSE <<<<key + r>>>>

meant(group) ==
  LET code == group[Len(group)]
  IN  [key |-> (code % 128) + (IF group[1] = E0 THEN Extended ELSE 0), release |-> code >= 128]

KeyboardInit ==
  /\ held = {} /\ sending = <<>> /\ sent = 0 /\ queue = <<>>
  /\ extended_prefix = FALSE /\ mods = {} /\ event = NoEvent
  /\ due = <<>> /\ spoilt = 0 /\ lost = FALSE /\ caps_presses = 0 /\ key_events = 0

\* The user: a press may repeat while the key is down.
use(key, release) ==
  /\ sending = <<>> /\ key_events < MaxKeyEvents
  /\ sending' = groups(key, release)
  /\ caps_presses' = caps_presses + (IF key = CapsLock /\ ~ release THEN 1 ELSE 0)
  /\ key_events' = key_events + 1
  /\ UNCHANGED <<sent, queue, driver_vars, due, spoilt, lost>>

Press(key)   == use(key, FALSE) /\ held' = held \cup {key}
Release(key) == key \in held /\ use(key, TRUE) /\ held' = held \ {key}

\* One byte to the controller, which drops it when it is full.  With the last
\* byte of a group an event is due; it must be right if no byte of its group
\* and none of the group before was lost.
SendByte ==
  LET group == Head(sending)
      kept  == Len(queue) < QueueSize
      last  == sent + 1 = Len(group)
  IN  /\ sending # <<>>
      /\ queue' = IF kept THEN Append(queue, group[sent + 1]) ELSE queue
      /\ sent' = IF last THEN 0 ELSE sent + 1
      /\ sending' = IF last THEN Tail(sending) ELSE sending
      /\ lost' = (lost \/ ~ kept)
      /\ due' = IF last /\ kept
                THEN Append(due, [key |-> meant(group).key, release |-> meant(group).release,
                                  sure |-> spoilt = 0])
                ELSE due
      /\ spoilt' = IF ~ kept THEN (IF last THEN 1 ELSE 2)
                   ELSE IF last /\ spoilt > 0 THEN spoilt - 1 ELSE spoilt
      /\ UNCHANGED <<held, driver_vars, caps_presses, key_events>>

\* PS2Keyboard::poll_raw and poll: one byte.  Mutant: the prefix stays for
\* the next code.
next_prefix_kept(sc) == sc = E0 \/ (extended_prefix /\ sc # E1)
next_prefix(sc) == sc = E0

key_of(sc) == (sc % 128) + (IF extended_prefix THEN Extended ELSE 0)

\* Mutant: a modifier stays like a lock.
next_mods_locked(key, release) ==
  IF modifier_for_key(key) = "None" \/ release THEN mods
  ELSE (mods \ {modifier_for_key(key)}) \cup ({modifier_for_key(key)} \ mods)

next_mods(key, release) ==
  LET bit == modifier_for_key(key)
  IN  IF bit = "None" THEN mods
      ELSE IF is_lock_key(key)
        THEN IF release THEN mods ELSE (mods \ {bit}) \cup ({bit} \ mods)
        ELSE IF release THEN mods \ {bit} ELSE with_mod(mods, bit)

poll ==
  LET sc  == Head(queue)
      key == key_of(sc)
  IN  /\ queue # <<>>
      /\ queue' = Tail(queue)
      /\ extended_prefix' = next_prefix(sc)
      /\ IF sc \in {E0, E1}
           THEN event' = NoEvent /\ UNCHANGED <<mods, due>>
           ELSE /\ event' = [key |-> key, release |-> sc >= 128]
                /\ mods' = next_mods(key, sc >= 128)
                /\ due' = Tail(due)
      /\ UNCHANGED <<held, sending, sent, spoilt, lost, caps_presses, key_events>>

KeyboardNext ==
  \/ \E key \in Keys : Press(key) \/ Release(key)
  \/ SendByte \/ poll

KeyboardSpec == KeyboardInit /\ [][KeyboardNext]_kb_vars

-----------------------------------------------------------------------------
\* KEYMAP in the order of the codes; the column for AltGr is empty throughout.
KEYMAP ==
  LET row(first, normal, shifted) ==
        [k \in first .. first + Len(normal) - 1 |->
           [normal |-> normal[k - first + 1], shifted |-> shifted[k - first + 1]]]
  IN  row(2, <<"1", "2", "3", "4", "5", "6", "7", "8", "9", "0", "-", "=">>,
             <<"!", "@", "#", "$", "%", "^", "&", "*", "(", ")", "_", "+">>)
   @@ row(16, <<"q", "w", "e", "r", "t", "y", "u", "i", "o", "p", "[", "]", "\n">>,
              <<"Q", "W", "E", "R", "T", "Y", "U", "I", "O", "P", "{", "}", "\n">>)
   @@ row(30, <<"a", "s", "d", "f", "g", "h", "j", "k", "l", ";", "'", "grave">>,
              <<"A", "S", "D", "F", "G", "H", "J", "K", "L", ":", "quote", "~">>)
   @@ row(43, <<"\\", "z", "x", "c", "v", "b", "n", "m", ",", ".", "/">>,
              <<"|", "Z", "X", "C", "V", "B", "N", "M", "<", ">", "?">>)
   @@ LET same(first, chars) == row(first, chars, chars)
      IN  same(57, <<" ">>) @@ same(55, <<"*">>) @@ same(Extended + 53, <<"/">>)
          @@ same(71, <<"7", "8", "9", "-", "4", "5", "6", "+", "1", "2", "3", "0", ".">>)

is_letter(ch) == ch \in {"a", "b", "c", "d", "e", "f", "g", "h", "i", "j", "k", "l", "m",
                        "n", "o", "p", "q", "r", "s", "t", "u", "v", "w", "x", "y", "z"}

\* key_event_to_char; "none" when the event is no character.
key_event_to_char(ev, ms) ==
  LET row == KEYMAP[ev.key]
      up  == IF is_letter(row.normal) THEN ("Shift" \in ms) # ("CapsLock" \in ms) ELSE "Shift" \in ms
  IN  IF ev.release \/ any_mod(ms, {"Ctrl", "Alt"}) \/ ev.key \notin DOMAIN KEYMAP THEN "none"
      ELSE IF up THEN row.shifted ELSE row.normal

-----------------------------------------------------------------------------
drained == queue = <<>> /\ sending = <<>>

\* poll: while no byte is lost, a modifier that is set once everything is read
\* is that of a key still down, Pause's stray LeftCtrl and the two keys of one
\* bit notwithstanding.  (The other direction fails: releasing one of two
\* Shift keys clears the bit they share.)  With every key up, the keys type
\* what Caps Lock says, the letters in capitals after an odd number of presses
\* and the others plain.
NoStuckModifier ==
  drained /\ ~ lost =>
    /\ \A bit \in mods : \/ bit \in {"CapsLock", "NumLock", "ScrollLock"}
                         \/ \E key \in held : modifier_for_key(key) = bit
    /\ held = {} => \A k \in DOMAIN KEYMAP :
         key_event_to_char([key |-> k, release |-> FALSE], mods) =
           IF is_letter(KEYMAP[k].normal) /\ caps_presses % 2 = 1
             THEN KEYMAP[k].shifted ELSE KEYMAP[k].normal

\* poll_raw: an event is that of the key whose code the byte is, its prefix
\* applied to it and to nothing else; a byte the controller drops spoils at
\* most the event it belongs to and the next one.
EventsAreKeys ==
  [][poll /\ event' # NoEvent /\ Head(due).sure =>
       event' = [key |-> Head(due).key, release |-> Head(due).release]]_kb_vars
=============================================================================

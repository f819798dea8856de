------------------------------ MODULE Keyboard ------------------------------
(***************************************************************************)
(* The keyboard driver, kernel/src/drivers/keyboard.rs: scan code bytes of *)
(* set 1 come in one interrupt at a time, encode_ps2_set_1 collects        *)
(* prefixes, decodes the key and keeps the list of pressed keys.           *)
(*                                                                         *)
(* The keyboard itself is modelled by what it sends: the bytes of a press, *)
(* a typematic repeat of the key pressed last, or a release.               *)
(***************************************************************************)
EXTENDS Integers, Sequences, SequencesExt

CONSTANTS KeyCode,    \* the keys of the keyboard
          Ctrl, Alt, Shift, CapsLock,
          Set1Key,    \* scan code of each key: sequence of bytes
          MAX_KEYS,
          MaxStrokes  \* bound: presses, repeats and releases

Bytes == 0 .. 255
Prefix == 224           \* 0xE0
BufferSize == 8         \* bytes of CURRENT_UNENCODED_KEY
NULL == "NULL"
Modifiers == {Ctrl, Alt, Shift, CapsLock}

\* Set1Key is a u64 enumeration: at most eight bytes, the last of them not the
\* prefix.  0x60 would be the prefix when released, and only CapsLock has its byte.
ASSUME KeyboardAssumption ==
  /\ Modifiers \subseteq KeyCode /\ NULL \notin KeyCode
  /\ Set1Key \in [KeyCode -> Seq((0 .. 127 \cup {Prefix}) \ {Prefix - 128})]
  /\ \A k, l \in KeyCode : Set1Key[k] = Set1Key[l] => k = l
  /\ \A k \in KeyCode :
       /\ Len(Set1Key[k]) \in 1 .. BufferSize
       /\ Set1Key[k][Len(Set1Key[k])] # Prefix
  /\ MAX_KEYS \in Nat \ {0} /\ MaxStrokes \in Nat
ASSUME CapsLockAssumption ==
  /\ Len(Set1Key[CapsLock]) = 1
  /\ \A k \in KeyCode \ {CapsLock} : \A i \in DOMAIN Set1Key[k] :
       Set1Key[k][i] # Set1Key[CapsLock][1]

\* No key has as its code a part of another's that the driver could decode by
\* itself: from a byte that starts anew to one that is not a prefix.
ASSUME PartsAssumption ==
  \A k, c \in KeyCode : \A i, j \in DOMAIN Set1Key[k] :
    /\ i <= j /\ Set1Key[k][j] # Prefix
    /\ i = 1 \/ Set1Key[k][i - 1] # Prefix
    /\ Set1Key[c] = SubSeq(Set1Key[k], i, j)
    => i = 1 /\ j = Len(Set1Key[k])
\* The modifiers are keys of one byte.
ASSUME ModifierAssumption ==
  /\ Ctrl # Alt /\ Ctrl # Shift /\ Ctrl # CapsLock
  /\ Alt # Shift /\ Alt # CapsLock /\ Shift # CapsLock
  /\ \A k \in Modifiers : Len(Set1Key[k]) = 1

VARIABLES unencoded,    \* bytes of CURRENT_UNENCODED_KEY before the latest
          current_keys, \* CURRENT_KEYS: code and flags
          event,        \* the key the latest byte gave to __navi_key_pressed
          panicked,     \* CURRENT_UNENCODED_KEY was indexed out of its bounds
          down,         \* keys held down on the keyboard
          latest,       \* the key pressed last, which repeats while held
          wire,         \* bytes sent and not yet read
          strokes,      \* presses, repeats and releases so far
          repeats,      \* keys that have repeated
          overflowed,   \* CURRENT_KEYS was full when a key was pressed
          caps_presses  \* presses and repeats of CapsLock sent, modulo 2

vars == <<unencoded, current_keys, event, panicked, down, latest, wire,
          strokes, repeats, overflowed, caps_presses>>

NoKey == [code |-> NULL, flags |-> {}]
Key == [code : KeyCode, flags : SUBSET Modifiers]
Codes(keys) == {keys[i].code : i \in DOMAIN keys}

Init ==
  /\ unencoded = <<>>
  /\ current_keys = <<>>
  /\ event = NoKey
  /\ panicked = FALSE
  /\ down = {} /\ latest = NULL /\ wire = <<>>
  /\ strokes = 0 /\ repeats = {} /\ overflowed = FALSE
  /\ caps_presses = 0
-----------------------------------------------------------------------------
(* The keyboard.  It waits for its bytes to be read before the next stroke.  *)

\* A break code is the make code with the top bit of every byte but the
\* prefixes set (PrintScr also swaps its halves; neither half is a key of its
\* own).
BreakCode(k) ==
  [i \in DOMAIN Set1Key[k] |->
     IF Set1Key[k][i] = Prefix THEN Prefix ELSE Set1Key[k][i] + 128]

Stroke(bytes) ==
  /\ ~panicked /\ wire = <<>> /\ strokes < MaxStrokes
  /\ wire' = bytes
  /\ strokes' = strokes + 1
  /\ event' = NoKey
  /\ UNCHANGED <<unencoded, current_keys, panicked, overflowed>>

Press(k) ==
  /\ k \notin down
  /\ down' = down \cup {k} /\ latest' = k
  /\ Stroke(Set1Key[k])
  /\ caps_presses' = IF k = CapsLock THEN 1 - caps_presses ELSE caps_presses
  /\ UNCHANGED repeats

Repeat(k) ==
  /\ k \in down /\ k = latest
  /\ repeats' = repeats \cup {k}
  /\ Stroke(Set1Key[k])
  /\ caps_presses' = IF k = CapsLock THEN 1 - caps_presses ELSE caps_presses
  /\ UNCHANGED <<down, latest>>

Release(k) ==
  /\ k \in down
  /\ down' = down \ {k}
  /\ Stroke(BreakCode(k))
  /\ UNCHANGED <<latest, repeats, caps_presses>>
-----------------------------------------------------------------------------
(* The driver *)

\* KeyCode::is_pressed.
is_pressed(code) == code \in Codes(current_keys)

\* Key::process_keycode: the modifiers pressed, the key itself excepted.
process_keycode(code) ==
  [code |-> code, flags |-> {m \in Modifiers \ {code} : is_pressed(m)}]

\* Mutants of WithoutFirst: the oldest key goes; none goes.
WithoutOldest(code) == IF is_pressed(code) THEN Tail(current_keys) ELSE current_keys
WithoutNone(code) == current_keys

\* remove_pressed_keycode removes the first entry of the key.
WithoutFirst(code) ==
  LET i == CHOOSE j \in DOMAIN current_keys :
             /\ current_keys[j].code = code
             /\ \A l \in 1 .. j - 1 : current_keys[l].code # code
  IN IF is_pressed(code) THEN RemoveAt(current_keys, i) ELSE current_keys

remove_pressed_keycode(code) ==
  /\ current_keys' = WithoutFirst(code)
  /\ event' = NoKey
  /\ UNCHANGED overflowed

\* The list with a key pushed: a full one loses its last key.
Full == Len(current_keys) = MAX_KEYS
Pushed(key) == IF Full THEN [current_keys EXCEPT ![MAX_KEYS] = key]
               ELSE Append(current_keys, key)

\* add_pressed_keycode: CapsLock toggles, other keys are pushed.
add_pressed_keycode(code) ==
  LET key == process_keycode(code) IN
  \/ code = NULL /\ event' = NoKey /\ UNCHANGED <<current_keys, overflowed>>
  \/ /\ code = CapsLock /\ is_pressed(code)
     /\ remove_pressed_keycode(code)
  \/ /\ code # NULL /\ ~(code = CapsLock /\ is_pressed(code))
     /\ current_keys' = Pushed(key)
     /\ overflowed' = (overflowed \/ Full)
     /\ event' = key

\* Set1Key::try_from of the bytes and encode.
Decode(bytes) ==
  IF \E k \in KeyCode : Set1Key[k] = bytes
  THEN CHOOSE k \in KeyCode : Set1Key[k] = bytes ELSE NULL

\* Releasing CapsLock does not remove it; with the mutant it does.
ReleaseRemovesAny(code) == TRUE
ReleaseRemoves(code) == code # CapsLock

\* reset_unencoded_buffer, and a mutant that forgets to.
reset_nothing == unencoded
reset_unencoded_buffer == <<>>

\* encode_ps2_set_1 on a byte.
encode_ps2_set_1(byte) ==
  LET break_code == byte >= 128
      code == Decode(Append(unencoded, IF break_code THEN byte - 128 ELSE byte))
  IN
  /\ panicked' = (Len(unencoded) = BufferSize)
  /\ IF panicked' \/ byte = Prefix
     THEN /\ unencoded' = IF panicked' THEN unencoded ELSE Append(unencoded, byte)
          /\ event' = NoKey
          /\ UNCHANGED <<current_keys, overflowed>>
     ELSE /\ IF ~break_code THEN add_pressed_keycode(code)
             ELSE IF ReleaseRemoves(code) THEN remove_pressed_keycode(code)
             ELSE event' = NoKey /\ UNCHANGED <<current_keys, overflowed>>
          /\ unencoded' = reset_unencoded_buffer

\* keyboard_interrupt_handler: a byte is read from port 0x60.
KeyboardInterrupt ==
  /\ ~panicked /\ wire # <<>>
  /\ encode_ps2_set_1(wire[1])
  /\ wire' = Tail(wire)
  /\ UNCHANGED <<down, latest, strokes, repeats, caps_presses>>

Next ==
  \/ \E k \in KeyCode : Press(k) \/ Repeat(k) \/ Release(k)
  \/ KeyboardInterrupt

Spec == Init /\ [][Next]_vars
-----------------------------------------------------------------------------
(* Properties *)

\* The state has its type.
TypeOK ==
  /\ unencoded \in Seq(Bytes) /\ Len(unencoded) <= BufferSize
  /\ current_keys \in Seq(Key) /\ Len(current_keys) <= MAX_KEYS
  /\ event \in Key \cup {NoKey}
  /\ panicked \in BOOLEAN
  /\ down \subseteq KeyCode /\ latest \in KeyCode \cup {NULL}
  /\ wire \in Seq(Bytes)

\* What the driver can know about.
Decodable == {k \in KeyCode : \A i \in DOMAIN Set1Key[k] :
                Set1Key[k][i] = Prefix <=> i < Len(Set1Key[k])}
Settled == wire = <<>> /\ ~overflowed

\* The state has its type, the list never more than MAX_KEYS keys among it.
\* Once its bytes are read, each key held down is in the list of pressed keys,
\* whatever the order of presses, repeats and releases of other keys, as long
\* as the list was never full (add_pressed_keycode, remove_pressed_keycode).
HeldArePressed ==
  TypeOK /\ (Settled => \A k \in (down \cap Decodable) \ {CapsLock} : is_pressed(k))

\* A key that never repeated is in the list only while it is held down: its
\* release takes the entry of its press away.
ReleasedAreNotPressed ==
  Settled => \A k \in KeyCode \ ({CapsLock} \cup repeats) :
               is_pressed(k) => k \in down

\* CapsLock is on after an odd number of its make codes, and releasing it
\* changes nothing.
CapsLockToggles == Settled => (is_pressed(CapsLock) <=> caps_presses = 1)

\* Prefixes do not pile up: a buffered prefix is followed by the byte it
\* belongs to, so the buffer is empty between strokes and never overrun.
PrefixesConsumed == ~panicked /\ (wire = <<>> => unencoded = <<>>)
=============================================================================

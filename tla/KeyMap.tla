------------------------------- MODULE KeyMap -------------------------------
(***************************************************************************)
(* From keys to characters: kernel/src/drivers/keymapper.rs.  A character  *)
(* is a key and its place among the characters of that key; the table is   *)
(* given by the flags that each kind of key has characters for.            *)
(***************************************************************************)
EXTENDS Keyboard

CONSTANTS Letters,   \* KeyQ .. KeyM
          Digits,    \* Key1 .. Key3, which have a third character
          Symbols,   \* Key4 .. Key0, Minus, Equals, LeftBrace .. Slash
          Controls   \* Backspace, Tab, Return, Space

ASSUME KeyMapAssumption ==
  /\ Letters \cup Digits \cup Symbols \cup Controls \subseteq KeyCode \ Modifiers
  /\ Letters \cap (Digits \cup Symbols \cup Controls) = {}
  /\ Digits \cap (Symbols \cup Controls) = {} /\ Symbols \cap Controls = {}

Slots == 16
NUL == <<NULL, 0>>
DefaultEntry == [flags |-> {}, result |-> NUL]

\* create_mapping!: an entry goes to the first slot of its key that is free.
create_mapping(code, flags) ==
  [i \in 1 .. Slots |-> IF i <= Len(flags) THEN [flags |-> flags[i], result |-> <<code, i>>]
                        ELSE DefaultEntry]

DEFAULT_MAPPING ==
  [code \in KeyCode |-> create_mapping(code,
     CASE code \in Letters  -> <<{}, {CapsLock}>>
       [] code \in Digits   -> <<{}, {Shift}, {Alt}>>
       [] code \in Symbols  -> <<{}, {Shift}>>
       [] code \in Controls -> <<{}>>
       [] OTHER             -> <<>>)]

\* Whether an entry is the one for a key; the mutant ignores additional flags.
MatchesLoosely(mapping, key) == mapping.flags \subseteq key.flags
Matches(mapping, key) == mapping.flags = key.flags

\* map_key: the first entry that matches, or '\0'.
map_key(key) ==
  LET mappings == DEFAULT_MAPPING[key.code]
      i == SelectInSeq(mappings, LAMBDA mapping : Matches(mapping, key))
  IN IF i = 0 THEN NUL ELSE mappings[i].result
-----------------------------------------------------------------------------
\* A key types what the keyboard's state at that moment says, whatever was
\* pressed and released before, as long as nothing repeated: a letter follows
\* CapsLock and types nothing with a modifier; other keys follow Shift or Alt
\* and, also Return, Backspace and Space, type nothing while CapsLock is on
\* (process_keycode, map_key).
TypesCharacter ==
  Settled /\ repeats = {} /\ event # NoKey =>
    LET code == event.code
        held == (down \cap {Ctrl, Alt, Shift}) \ {code}
        caps == caps_presses = 1
        level == IF code \in Letters /\ held = {} THEN IF caps THEN 2 ELSE 1
                 ELSE IF code \in Letters \/ caps THEN 0
                 ELSE IF code \in Digits \cup Symbols \cup Controls /\ held = {} THEN 1
                 ELSE IF code \in Digits \cup Symbols /\ held = {Shift} THEN 2
                 ELSE IF code \in Digits /\ held = {Alt} THEN 3
                 ELSE 0
    IN map_key(event) = IF level = 0 THEN NUL ELSE <<code, level>>
=============================================================================

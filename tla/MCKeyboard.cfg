CONSTANTS
  Ctrl = Ctrl
  Alt = Alt
  Shift = Shift
  CapsLock = CapsLock
  KeyC = KeyC
  Key1 = Key1
  Minus = Minus
  Return = Return
  PrintScr = PrintScr
  Up = Up
  KeyCode = {Ctrl, Alt, Shift, CapsLock, KeyC, Key1, Minus, Return, Up, PrintScr}
  Letters = {KeyC}
  Digits = {Key1}
  Symbols = {Minus}
  Controls = {Return}
  Set1Key <- MCSet1Key
  MAX_KEYS = 4
  MaxStrokes = 6
SPECIFICATION Spec
INVARIANTS HeldArePressed ReleasedAreNotPressed CapsLockToggles PrefixesConsumed TypesCharacter
CHECK_DEADLOCK FALSE

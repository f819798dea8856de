----------------------------- MODULE MCKeyboard -----------------------------
(* The keys that decide what driver and terminal do, with their scan codes:  *)
(* one of each kind, modifiers, a key with a prefix and the one with two.    *)
EXTENDS KeyMap, TLC

CONSTANTS KeyC, Key1, Minus, Return, Up, PrintScr

MCSet1Key ==
  Shift :> <<42>> @@ Ctrl :> <<29>> @@ Alt :> <<56>> @@ CapsLock :> <<58>> @@
  KeyC :> <<46>> @@ Key1 :> <<2>> @@ Minus :> <<12>> @@ Return :> <<28>> @@
  Up :> <<224, 72>> @@ PrintScr :> <<224, 42, 224, 55>>
=============================================================================

--------------------------- MODULE KeyboardProofs ---------------------------
(* Theorems about Keyboard, for every table of scan codes with the form of   *)
(* Set1Key and every length of the list of pressed keys.                     *)
EXTENDS KeyMap, SequenceTheorems, WellFoundedInduction, TLAPS

CapsByte == Set1Key[CapsLock][1]

\* The bytes under way fit in the buffer and end with the byte of a key; the
\* one of CapsLock comes alone.
WireInv ==
  /\ unencoded \in Seq(Bytes) /\ wire \in Seq(Bytes) /\ panicked = FALSE
  /\ Len(unencoded) + Len(wire) <= BufferSize
  /\ wire = <<>> => unencoded = <<>>
  /\ wire # <<>> => wire[Len(wire)] # Prefix
  /\ \A i \in 1 .. Len(wire) : wire[i] = CapsByte => Len(wire) = 1 /\ unencoded = <<>>

KeysInv == current_keys \in Seq(Key) /\ Len(current_keys) <= MAX_KEYS

\* A make code of CapsLock has been sent and not read.
CapsPending == wire # <<>> /\ wire[1] = CapsByte

\* CapsLock is in the list at most once; it is there after an odd number of the
\* make codes read.
Single(keys, c) == \A i, j \in DOMAIN keys : keys[i].code = c /\ keys[j].code = c => i = j
CapsInv ==
  /\ caps_presses \in {0, 1}
  /\ Single(current_keys, CapsLock)
  /\ ~overflowed => (is_pressed(CapsLock) <=> caps_presses = IF CapsPending THEN 0 ELSE 1)

Inv == WireInv /\ KeysInv /\ CapsInv

\* The wire holds the rest of the scan code C after its first n bytes, and the
\* buffer the last u of these, the prefixes read since the driver started anew.
SentAt(C, n, u) ==
  /\ u <= n
  /\ \A i \in 1 .. Len(wire) : wire[i] = C[n + i]
  /\ \A i \in 1 .. u : unencoded[i] = Prefix /\ C[n - u + i] = Prefix
  /\ n = u \/ C[n - u] # Prefix
Sent(C) == SentAt(C, Len(C) - Len(wire), Len(unencoded))

\* The list of pressed keys, with the press of a key in M and the release of a key
\* in B not read yet.  Only decodable keys get into the list.
Pressed(M, B) ==
  /\ Codes(current_keys) \subseteq Decodable
  /\ ~overflowed =>
       /\ (down \cap Decodable) \ {CapsLock} \subseteq Codes(current_keys) \cup M
       /\ \A k \in KeyCode \ ({CapsLock} \cup repeats) :
            /\ Single(current_keys, k)
            /\ k \in Codes(current_keys) => k \in down \cup B
            /\ k \in M => k \notin Codes(current_keys)

\* A key under way: its press or repeat, or its release.
Making(k) == Sent(Set1Key[k]) /\ k \in down /\ Pressed({k}, {})
Breaking(k) == Sent(BreakCode(k)) /\ k \notin down /\ Pressed({}, {k})

\* The key given to __navi_key_pressed has the modifiers of the list as flags.
EventInv ==
  /\ event \in Key \cup {NoKey}
  /\ event # NoKey /\ ~overflowed =>
       event.flags = {m \in Modifiers \ {event.code} : is_pressed(m)}

DriverInv ==
  /\ down \subseteq KeyCode /\ latest \in KeyCode \cup {NULL}
  /\ EventInv
  /\ wire = <<>> => Pressed({}, {})
  /\ wire # <<>> => \E k \in KeyCode : Making(k) \/ Breaking(k)
-----------------------------------------------------------------------------
CodeBytes == (0 .. 127 \cup {Prefix}) \ {Prefix - 128}
Broken(c) == IF c = Prefix THEN Prefix ELSE c + 128

\* Releasing sets the top bit of a byte: it is neither a prefix then nor a make
\* code.
LEMMA BrokenByte ==
  ASSUME NEW c \in CodeBytes
  PROVE  /\ c \in Bytes /\ Broken(c) \in Bytes /\ Broken(c) \notin 0 .. 127
         /\ c # Prefix => Broken(c) # Prefix
  <1>1. CASE c = Prefix
    BY <1>1 DEF Broken, Bytes, Prefix
  <1>2. CASE c # Prefix
    <2>1. c \in 0 .. 127 /\ c # 96
      BY <1>2 DEF CodeBytes, Prefix
    <2> QED
      BY <1>2, <2>1 DEF Broken, Bytes, Prefix
  <1> QED
    BY <1>1, <1>2

\* A scan code is a sequence of bytes that ends with the byte of a key, released
\* (BreakCode) or pressed.
LEMMA CodeFacts ==
  ASSUME NEW k \in KeyCode
  PROVE  /\ Set1Key[k] \in Seq(Bytes) /\ BreakCode(k) \in Seq(Bytes)
         /\ Len(Set1Key[k]) \in 1 .. BufferSize /\ Len(BreakCode(k)) = Len(Set1Key[k])
         /\ Set1Key[k][Len(Set1Key[k])] # Prefix /\ BreakCode(k)[Len(Set1Key[k])] # Prefix
  <1> DEFINE s == Set1Key[k]
  <1>1. s \in Seq(CodeBytes) /\ Len(s) \in 1 .. BufferSize /\ s[Len(s)] # Prefix
    BY KeyboardAssumption DEF CodeBytes
  <1>2. Len(s) \in Nat /\ DOMAIN s = 1 .. Len(s) /\ \A i \in 1 .. Len(s) : s[i] \in CodeBytes
    BY <1>1, LenProperties, ElementOfSeq
  <1>3. s \in Seq(Bytes)
    <2>1. CodeBytes \subseteq Bytes
      BY BrokenByte
    <2> QED
      BY <1>1, <2>1, SeqMonotonic
  <1>4. \A i \in 1 .. Len(s) : /\ Broken(s[i]) \in Bytes
                               /\ s[i] # Prefix => Broken(s[i]) # Prefix
    BY <1>2, BrokenByte
  <1>5. BreakCode(k) = [i \in 1 .. Len(s) |-> Broken(s[i])]
    BY <1>2 DEF BreakCode, Broken
  <1>6. BreakCode(k) \in Seq(Bytes) /\ Len(BreakCode(k)) = Len(s)
    <2>1. BreakCode(k) \in [1 .. Len(s) -> Bytes]
      BY <1>4, <1>5
    <2> QED
      BY <1>2, <2>1
  <1>7. BreakCode(k)[Len(s)] # Prefix
    BY <1>1, <1>4, <1>5
  <1> QED
    BY <1>1, <1>3, <1>6, <1>7

\* The byte of CapsLock is a make code, and no other byte on the wire is it.
LEMMA CapsByteFacts ==
  /\ CapsLock \in KeyCode /\ CapsByte \in 0 .. 127 /\ CapsByte # Prefix
  /\ Set1Key[CapsLock] = <<CapsByte>>
  /\ \A k \in KeyCode : \A i \in 1 .. Len(Set1Key[k]) :
       /\ BreakCode(k)[i] # CapsByte
       /\ Set1Key[k][i] = CapsByte => k = CapsLock
  <1>1. CapsLock \in KeyCode
    BY KeyboardAssumption DEF Modifiers
  <1>2. \A k \in KeyCode : /\ Set1Key[k] \in Seq(CodeBytes)
                           /\ DOMAIN Set1Key[k] = 1 .. Len(Set1Key[k])
                           /\ \A i \in 1 .. Len(Set1Key[k]) : Set1Key[k][i] \in CodeBytes
    BY KeyboardAssumption, LenProperties, ElementOfSeq DEF CodeBytes
  <1>3. Len(Set1Key[CapsLock]) = 1 /\ Set1Key[CapsLock][1] # Prefix
    BY <1>1, KeyboardAssumption, CapsLockAssumption
  <1>4. CapsByte \in 0 .. 127 /\ CapsByte # Prefix
    BY <1>1, <1>2, <1>3 DEF CapsByte, Prefix, CodeBytes
  <1>5. Set1Key[CapsLock] = <<CapsByte>>
    BY <1>1, <1>2, <1>3 DEF CapsByte
  <1>6. \A k \in KeyCode : \A i \in 1 .. Len(Set1Key[k]) : BreakCode(k)[i] # CapsByte
    <2>1. \A k \in KeyCode : \A i \in 1 .. Len(Set1Key[k]) :
            BreakCode(k)[i] = Broken(Set1Key[k][i])
      BY <1>2 DEF BreakCode, Broken
    <2> QED
      BY <1>2, <1>4, <2>1, BrokenByte
  <1> QED
    BY <1>1, <1>2, <1>4, <1>5, <1>6, CapsLockAssumption DEF CapsByte

\* A sequence with an element removed (Vec::remove).
LEMMA RemoveAtFacts ==
  ASSUME NEW S, NEW s \in Seq(S), NEW i \in 1 .. Len(s)
  PROVE  /\ RemoveAt(s, i) \in Seq(S) /\ Len(RemoveAt(s, i)) = Len(s) - 1
         /\ \A j \in 1 .. Len(s) - 1 : RemoveAt(s, i)[j] = IF j < i THEN s[j] ELSE s[j + 1]
  <1>1. Len(s) \in Nat /\ \A j \in 1 .. Len(s) : s[j] \in S
    BY LenProperties, ElementOfSeq
  <1> DEFINE a == SubSeq(s, 1, i - 1)
             b == SubSeq(s, i + 1, Len(s))
  <1>2. /\ a \in Seq(S) /\ Len(a) = i - 1
        /\ \A j \in 1 .. i - 1 : a[j] = s[j]
    BY <1>1, SubSeqProperties
  <1>3. /\ b \in Seq(S) /\ Len(b) = Len(s) - i
        /\ \A j \in 1 .. Len(s) - i : b[j] = s[i + j]
    BY <1>1, SubSeqProperties
  <1> HIDE DEF a, b
  <1>6. /\ a \o b \in Seq(S) /\ Len(a \o b) = Len(a) + Len(b)
        /\ \A j \in 1 .. Len(a) + Len(b) :
             (a \o b)[j] = IF j <= Len(a) THEN a[j] ELSE b[j - Len(a)]
    BY <1>2, <1>3, ConcatProperties
  <1>7. Len(a) + Len(b) = Len(s) - 1
    BY <1>1, <1>2, <1>3
  <1>4. /\ a \o b \in Seq(S) /\ Len(a \o b) = Len(s) - 1
        /\ \A j \in 1 .. Len(s) - 1 : (a \o b)[j] = IF j <= Len(a) THEN a[j] ELSE b[j - Len(a)]
    BY <1>6, <1>7
  <1>5. ASSUME NEW j \in 1 .. Len(s) - 1
        PROVE  (a \o b)[j] = IF j < i THEN s[j] ELSE s[j + 1]
    <2>1. CASE j < i
      BY <1>1, <1>2, <1>4, <2>1
    <2>2. CASE ~(j < i)
      <3>1. j - Len(a) \in 1 .. Len(s) - i /\ i + (j - Len(a)) = j + 1 /\ ~(j <= Len(a))
        BY <1>1, <1>2, <2>2
      <3>2. b[j - Len(a)] = s[j + 1]
        BY <1>3, <3>1
      <3> QED
        BY <1>1, <1>4, <2>2, <3>1, <3>2
    <2> QED
      BY <2>1, <2>2
  <1> QED
    BY <1>4, <1>5 DEF RemoveAt, a, b

\* The index that remove_pressed_keycode finds is one of the key.
LEMMA FirstExists ==
  ASSUME NEW keys \in Seq(Key), NEW code, code \in Codes(keys)
  PROVE  \E j \in DOMAIN keys : /\ keys[j].code = code
                                /\ \A l \in 1 .. j - 1 : keys[l].code # code
  <1>1. DOMAIN keys = 1 .. Len(keys) /\ Len(keys) \in Nat
    BY LenProperties
  <1> DEFINE J == {j \in DOMAIN keys : keys[j].code = code}
  <1>2. J \in SUBSET Nat /\ J # {}
    BY <1>1 DEF Codes
  <1>3. PICK x \in J : \A y \in J : ~(<<y, x>> \in OpToRel(<, Nat))
    BY <1>2, NatLessThanWellFounded, WFMin
  <1>4. \A y \in J : ~(y < x)
    BY <1>2, <1>3 DEF OpToRel
  <1>5. \A l \in 1 .. x - 1 : l \notin J
    BY <1>1, <1>4
  <1> QED
    BY <1>1, <1>5

\* The list r without the first entry of a key.
Removed(r, code) ==
  /\ r \in Seq(Key) /\ Len(r) <= MAX_KEYS
  /\ \A c : Single(current_keys, c) => Single(r, c)
  /\ \A c : c \in Codes(r) => c \in Codes(current_keys)
  /\ \A c : c # code /\ c \in Codes(current_keys) => c \in Codes(r)
  /\ Single(current_keys, code) => code \notin Codes(r)

\* remove_pressed_keycode changes nothing about other keys, and takes away the
\* only entry of a key.
LEMMA WithoutFirstFacts ==
  ASSUME NEW code, KeysInv
  PROVE  Removed(WithoutFirst(code), code)
  <1>1. /\ current_keys \in Seq(Key) /\ Len(current_keys) \in Nat
        /\ DOMAIN current_keys = 1 .. Len(current_keys)
        /\ Len(current_keys) <= MAX_KEYS /\ MAX_KEYS \in Nat
    BY LenProperties, KeyboardAssumption DEF KeysInv
  <1>2. CASE ~is_pressed(code)
    <2>1. WithoutFirst(code) = current_keys
      BY <1>2 DEF WithoutFirst
    <2> QED
      BY <1>1, <1>2, <2>1 DEF Removed, is_pressed
  <1>3. CASE is_pressed(code)
    <2> DEFINE P(j) == /\ current_keys[j].code = code
                       /\ \A l \in 1 .. j - 1 : current_keys[l].code # code
               i == CHOOSE j \in DOMAIN current_keys : P(j)
               r == WithoutFirst(code)
    <2>1. \E j \in DOMAIN current_keys : P(j)
      BY <1>1, <1>3, FirstExists DEF is_pressed
    <2>2. i \in DOMAIN current_keys /\ P(i)
      BY <2>1
    <2>3. r = RemoveAt(current_keys, i)
      BY <1>3 DEF WithoutFirst
    <2>4. i \in 1 .. Len(current_keys) /\ current_keys[i].code = code
      BY <1>1, <2>2
    <2> HIDE DEF i, r
    <2>5. /\ r \in Seq(Key) /\ Len(r) = Len(current_keys) - 1
          /\ \A j \in 1 .. Len(current_keys) - 1 :
               r[j] = IF j < i THEN current_keys[j] ELSE current_keys[j + 1]
      BY <1>1, <2>3, <2>4, RemoveAtFacts
    <2>6. DOMAIN r = 1 .. Len(current_keys) - 1
      BY <2>5, LenProperties
    <2> DEFINE From(j) == IF j < i THEN j ELSE j + 1
    <2>7. \A j \in DOMAIN r : /\ From(j) \in DOMAIN current_keys /\ From(j) # i
                              /\ r[j] = current_keys[From(j)]
      BY <1>1, <2>4, <2>5, <2>6
    <2>8. \A j, l \in DOMAIN r : From(j) = From(l) => j = l
      BY <1>1, <2>4, <2>6
    <2>9. \A l \in DOMAIN current_keys : l # i => \E j \in DOMAIN r : From(j) = l
      <3> SUFFICES ASSUME NEW l \in DOMAIN current_keys, l # i PROVE \E j \in DOMAIN r : From(j) = l
        OBVIOUS
      <3>1. CASE l < i
        BY <1>1, <2>4, <2>6, <3>1
      <3>2. CASE l > i
        <4>1. l - 1 \in DOMAIN r /\ From(l - 1) = l
          BY <1>1, <2>4, <2>6, <3>2
        <4> QED
          BY <4>1
      <3> QED
        BY <1>1, <2>4, <3>1, <3>2
    <2> HIDE DEF From
    <2>10. \A c : Single(current_keys, c) => Single(r, c)
      BY <2>7, <2>8 DEF Single
    <2>11. \A c : c \in Codes(r) => c \in Codes(current_keys)
      BY <2>7 DEF Codes
    <2>12. \A c : c # code /\ c \in Codes(current_keys) => c \in Codes(r)
      <3> SUFFICES ASSUME NEW c, c # code, c \in Codes(current_keys) PROVE c \in Codes(r)
        OBVIOUS
      <3>1. PICK l \in DOMAIN current_keys : current_keys[l].code = c
        BY DEF Codes
      <3>2. PICK j \in DOMAIN r : From(j) = l
        BY <2>4, <2>9, <3>1
      <3>3. r[j].code = c
        BY <2>7, <3>1, <3>2
      <3> QED
        BY <3>3 DEF Codes
    <2>13. Single(current_keys, code) => code \notin Codes(r)
      BY <1>1, <2>4, <2>7 DEF Codes, Single
    <2>14. Len(r) <= MAX_KEYS
      BY <1>1, <2>5
    <2> QED
      BY <2>5, <2>10, <2>11, <2>12, <2>13, <2>14 DEF Removed, r
  <1> QED
    BY <1>2, <1>3

\* The list r with a key pushed.
PushedTo(r, key) ==
  /\ r \in Seq(Key) /\ Len(r) <= MAX_KEYS
  /\ \A c : Single(current_keys, c) /\ (c = key.code => c \notin Codes(current_keys)) => Single(r, c)
  /\ \A c : c \in Codes(r) => c = key.code \/ c \in Codes(current_keys)
  /\ ~Full => \A c : c = key.code \/ c \in Codes(current_keys) => c \in Codes(r)

\* add_pressed_keycode adds the key; it forgets another one only when the list
\* is full.
LEMMA PushedFacts ==
  ASSUME NEW key \in Key, KeysInv
  PROVE  PushedTo(Pushed(key), key)
  <1> DEFINE pushed == Pushed(key)
  <1>1. /\ current_keys \in Seq(Key) /\ Len(current_keys) \in Nat
        /\ DOMAIN current_keys = 1 .. Len(current_keys)
        /\ Len(current_keys) <= MAX_KEYS /\ MAX_KEYS \in Nat \ {0}
    BY LenProperties, KeyboardAssumption DEF KeysInv
  <1>3. CASE Full
    <2>1. pushed = [current_keys EXCEPT ![MAX_KEYS] = key] /\ MAX_KEYS \in 1 .. Len(current_keys)
      BY <1>1, <1>3 DEF Pushed, Full
    <2>2. /\ pushed \in Seq(Key) /\ Len(pushed) = Len(current_keys)
          /\ \A j \in 1 .. Len(current_keys) :
               pushed[j] = IF j = MAX_KEYS THEN key ELSE current_keys[j]
      BY <1>1, <2>1, ExceptSeq
    <2>3. DOMAIN pushed = DOMAIN current_keys
      BY <1>1, <2>2, LenProperties
    <2> HIDE DEF pushed
    <2>4. \A j \in DOMAIN pushed : pushed[j] = IF j = MAX_KEYS THEN key ELSE current_keys[j]
      BY <1>1, <2>2, <2>3
    <2>5. \A c : Single(current_keys, c) /\ (c = key.code => c \notin Codes(current_keys)) => Single(pushed, c)
      BY <2>3, <2>4 DEF Single, Codes
    <2>6. \A c : c \in Codes(pushed) => c = key.code \/ c \in Codes(current_keys)
      BY <2>3, <2>4 DEF Codes
    <2>7. Len(pushed) <= MAX_KEYS
      BY <1>1, <2>2
    <2> QED
      BY <1>3, <2>2, <2>5, <2>6, <2>7 DEF pushed, PushedTo
  <1>4. CASE ~Full
    <2>7. Len(current_keys) < MAX_KEYS
      <3>1. Len(current_keys) # MAX_KEYS
        BY <1>4 DEF Full
      <3>2. \A m, n \in Nat : m <= n /\ m # n => m < n
        OBVIOUS
      <3> QED
        BY <1>1, <3>1, <3>2
    <2>1. pushed = Append(current_keys, key)
      BY <1>4 DEF Pushed
    <2>2. /\ pushed \in Seq(Key) /\ Len(pushed) = Len(current_keys) + 1
          /\ \A j \in 1 .. Len(current_keys) : pushed[j] = current_keys[j]
          /\ pushed[Len(current_keys) + 1] = key
      BY <1>1, <2>1, AppendProperties
    <2>3. DOMAIN pushed = 1 .. Len(current_keys) + 1
      BY <2>2, LenProperties
    <2> HIDE DEF pushed
    <2>4. PICK n : n = Len(current_keys) + 1
      OBVIOUS
    <2>5. /\ n \in DOMAIN pushed /\ pushed[n] = key
          /\ \A j \in DOMAIN current_keys : j \in DOMAIN pushed /\ pushed[j] = current_keys[j]
          /\ \A j \in DOMAIN pushed : j \in DOMAIN current_keys \/ j = n
      BY <1>1, <2>2, <2>3, <2>4
    <2>6. \A c : Single(current_keys, c) /\ (c = key.code => c \notin Codes(current_keys)) => Single(pushed, c)
      BY <2>5 DEF Single, Codes
    <2>8. \A c : c \in Codes(pushed) => c = key.code \/ c \in Codes(current_keys)
      BY <2>5 DEF Codes
    <2>9. \A c : c = key.code \/ c \in Codes(current_keys) => c \in Codes(pushed)
      BY <2>5 DEF Codes
    <2>10. Len(pushed) <= MAX_KEYS
      BY <1>1, <2>2, <2>7
    <2> QED
      BY <2>2, <2>6, <2>8, <2>9, <2>10 DEF pushed, PushedTo
  <1> QED
    BY <1>3, <1>4

\* The key that add_pressed_keycode pushes.
LEMMA ProcessedKey ==
  ASSUME NEW code \in KeyCode
  PROVE  process_keycode(code) \in Key /\ process_keycode(code).code = code
  BY DEF process_keycode, Key

\* Nothing is pressed, and nothing is under way (the statics of the driver).
LEMMA InitInv == Init => Inv
  <1> SUFFICES ASSUME Init PROVE Inv
    OBVIOUS
  <1>1. WireInv
    BY EmptySeq DEF Init, WireInv, BufferSize
  <1>2. KeysInv
    BY EmptySeq, KeyboardAssumption DEF Init, KeysInv
  <1>3. CapsInv
    BY DEF Init, CapsInv, Single, is_pressed, Codes, CapsPending
  <1> QED
    BY <1>1, <1>2, <1>3 DEF Inv

\* The keyboard sends the bytes of a stroke.
LEMMA StrokeInv ==
  ASSUME NEW k \in KeyCode, Inv, Press(k) \/ Repeat(k) \/ Release(k)
  PROVE  Inv'
  <1>1. wire = <<>> /\ unencoded' = unencoded /\ panicked' = FALSE /\ unencoded = <<>>
    BY DEF Press, Repeat, Release, Stroke, Inv, WireInv
  <1>2. current_keys' = current_keys /\ overflowed' = overflowed
    BY DEF Press, Repeat, Release, Stroke
  <1>3. KeysInv' /\ Single(current_keys, CapsLock)' /\ is_pressed(CapsLock)' = is_pressed(CapsLock)
    BY <1>2 DEF Inv, KeysInv, CapsInv, Single, is_pressed, Codes
  <1>4. ASSUME NEW s \in Seq(Bytes), Len(s) \in 1 .. BufferSize, s[Len(s)] # Prefix, wire' = s,
               \A i \in 1 .. Len(s) : s[i] = CapsByte => Len(s) = 1
        PROVE  WireInv'
    <2>1. s # <<>> /\ Len(<<>>) = 0 /\ <<>> \in Seq(Bytes)
      BY <1>4, EmptySeq
    <2>4. unencoded' = <<>>
      BY <1>1
    <2>5. Len(unencoded') = 0
      BY <2>1, <2>4, Zenon
    <2>6. Len(unencoded') + Len(wire') <= BufferSize
      <3>3. Len(s) \in 1 .. BufferSize
        BY <1>4, Zenon
      <3>4. \A x \in 1 .. BufferSize : 0 + x <= BufferSize
        BY DEF BufferSize
      <3>1. 0 + Len(s) <= BufferSize
        BY <3>3, <3>4, Zenon
      <3>2. Len(wire') = Len(s)
        BY <1>4
      <3> QED
        BY <2>5, <3>1, <3>2, Zenon
    <2>2. /\ unencoded' = <<>> /\ unencoded' \in Seq(Bytes) /\ wire' \in Seq(Bytes)
          /\ Len(unencoded') + Len(wire') <= BufferSize
          /\ wire' # <<>> /\ wire'[Len(wire')] # Prefix
      BY <1>4, <2>1, <2>4, <2>6
    <2>3. \A i \in 1 .. Len(wire') : wire'[i] = CapsByte' => Len(wire') = 1 /\ unencoded' = <<>>
      BY <1>4, <2>2 DEF CapsByte
    <2> QED
      BY <1>1, <2>2, <2>3 DEF WireInv
  <1>5. CASE Press(k) \/ Repeat(k)
    <2>1. wire' = Set1Key[k]
      BY <1>5 DEF Press, Repeat, Stroke
    <2>2. WireInv'
      BY <1>4, <2>1, CodeFacts, CapsByteFacts, CapsLockAssumption
    <2>3. CapsPending' <=> k = CapsLock
      <3>1. 1 \in 1 .. Len(Set1Key[k]) /\ Set1Key[k] # <<>>
        BY CodeFacts, EmptySeq
      <3> QED
        BY <2>1, <3>1, CapsByteFacts DEF CapsPending, CapsByte
    <2>4. caps_presses' = IF k = CapsLock THEN 1 - caps_presses ELSE caps_presses
      BY <1>5 DEF Press, Repeat
    <2>5. CapsInv'
      BY <1>1, <1>2, <1>3, <2>3, <2>4 DEF Inv, CapsInv, CapsPending
    <2> QED
      BY <1>3, <2>2, <2>5 DEF Inv
  <1>6. CASE Release(k)
    <2>1. wire' = BreakCode(k) /\ caps_presses' = caps_presses
      BY <1>6 DEF Release, Stroke
    <2>2. WireInv'
      BY <1>4, <2>1, CodeFacts, CapsByteFacts
    <2>3. ~CapsPending'
      BY <2>1, CodeFacts, CapsByteFacts DEF CapsPending
    <2>4. CapsInv'
      BY <1>1, <1>2, <1>3, <2>1, <2>3 DEF Inv, CapsInv, CapsPending
    <2> QED
      BY <1>3, <2>2, <2>4 DEF Inv
  <1> QED
    BY <1>5, <1>6

\* A byte comes in (encode_ps2_set_1 in the interrupt).
LEMMA InterruptInv ==
  ASSUME Inv, KeyboardInterrupt
  PROVE  Inv'
  <1> DEFINE byte == wire[1]
             code == Decode(Append(unencoded, IF byte >= 128 THEN byte - 128 ELSE byte))
  <1>1. /\ wire \in Seq(Bytes) /\ wire # <<>> /\ unencoded \in Seq(Bytes)
        /\ Len(wire) \in Nat \ {0} /\ Len(unencoded) \in Nat
        /\ byte \in Bytes
    BY LenProperties, EmptySeq, ElementOfSeq DEF Inv, WireInv, KeyboardInterrupt
  <1>2. panicked' = FALSE
    <2>1. ~(Len(unencoded) = BufferSize)
      BY <1>1 DEF Inv, WireInv, BufferSize
    <2> QED
      BY <2>1, Zenon DEF KeyboardInterrupt, encode_ps2_set_1
  <1>3. /\ wire' = Tail(wire) /\ wire' \in Seq(Bytes) /\ Len(wire') = Len(wire) - 1
        /\ \A i \in 1 .. Len(wire') : wire'[i] = wire[i + 1]
    <2>1. wire' = Tail(wire)
      BY DEF KeyboardInterrupt
    <2> QED
      BY <1>1, <2>1, HeadTailProperties
  <1>4. \A i \in 1 .. Len(wire') : wire'[i] # CapsByte
    <2>1. \A i \in 1 .. Len(wire') : i + 1 \in 1 .. Len(wire) /\ Len(wire) # 1
      BY <1>1, <1>3
    <2> QED
      BY <1>3, <2>1 DEF Inv, WireInv
  <1>5. wire' # <<>> => wire'[Len(wire')] # Prefix
    <2>1. wire' # <<>> => Len(wire') \in 1 .. Len(wire') /\ Len(wire') + 1 = Len(wire)
      BY <1>1, <1>3, EmptySeq
    <2> QED
      BY <1>1, <1>3, <2>1 DEF Inv, WireInv
  <1>6. ~CapsPending'
    <2>1. wire' # <<>> => 1 \in 1 .. Len(wire')
      BY <1>3, EmptySeq, LenProperties
    <2> QED
      BY <1>4, <2>1 DEF CapsPending
  <1>7. CASE byte = Prefix
    <2>1. unencoded' = Append(unencoded, byte) /\ UNCHANGED <<current_keys, overflowed, caps_presses>>
      BY <1>2, <1>7 DEF KeyboardInterrupt, encode_ps2_set_1
    <2>2. unencoded' \in Seq(Bytes) /\ Len(unencoded') = Len(unencoded) + 1
      BY <1>1, <2>1, AppendProperties
    <2>3. wire' # <<>>
      <3>1. Len(wire) # 1
        BY <1>1, <1>7 DEF Inv, WireInv
      <3> QED
        <4>1. Len(wire') # 0
          BY <1>1, <1>3, <3>1
        <4> QED
          BY <4>1
    <2>4. Len(unencoded') + Len(wire') <= BufferSize
      BY <1>1, <1>3, <2>2 DEF Inv, WireInv, BufferSize
    <2>5. WireInv'
      BY <1>2, <1>3, <1>4, <1>5, <2>2, <2>3, <2>4 DEF WireInv, CapsByte
    <2>6. ~CapsPending
      BY <1>7, CapsByteFacts DEF CapsPending
    <2> QED
      BY <1>6, <2>1, <2>5, <2>6 DEF Inv, KeysInv, CapsInv, is_pressed
  <1>8. CASE byte # Prefix
    <2>1. unencoded' = <<>> /\ caps_presses' = caps_presses
      BY <1>2, <1>8 DEF KeyboardInterrupt, encode_ps2_set_1, reset_unencoded_buffer
    <2>2. WireInv'
      <3>1. Len(<<>>) = 0 /\ <<>> \in Seq(Bytes)
        BY EmptySeq
      <3>2. Len(unencoded') + Len(wire') <= BufferSize
        BY <1>1, <1>3, <2>1, <3>1 DEF Inv, WireInv, BufferSize
      <3> QED
        BY <1>2, <1>3, <1>4, <1>5, <2>1, <3>1, <3>2 DEF WireInv, CapsByte
    <2>3. KeysInv /\ Single(current_keys, CapsLock)
      BY DEF Inv, CapsInv
    <2>4. CASE byte >= 128
      <3>1. ~CapsPending
        BY <2>4, CapsByteFacts DEF CapsPending
      <3>2. \/ code # CapsLock /\ remove_pressed_keycode(code)
            \/ UNCHANGED <<current_keys, overflowed>>
        BY <1>2, <1>8, <2>4 DEF KeyboardInterrupt, encode_ps2_set_1, ReleaseRemoves
      <3>3. CASE code # CapsLock /\ remove_pressed_keycode(code)
        <4>1. current_keys' = WithoutFirst(code) /\ overflowed' = overflowed
          BY <3>3 DEF remove_pressed_keycode
        <4>2. KeysInv' /\ Single(current_keys, CapsLock)' /\ is_pressed(CapsLock)' = is_pressed(CapsLock)
          <5>1. Removed(current_keys', code)
            BY <2>3, <4>1, WithoutFirstFacts
          <5> QED
            BY <2>3, <3>3, <5>1 DEF Removed, KeysInv, is_pressed
        <4> QED
          BY <1>6, <2>1, <2>2, <3>1, <4>1, <4>2 DEF Inv, CapsInv
      <3>4. CASE UNCHANGED <<current_keys, overflowed>>
        BY <1>6, <2>1, <2>2, <3>1, <3>4 DEF Inv, CapsInv, KeysInv, is_pressed
      <3> QED
        BY <3>2, <3>3, <3>4
    <2>5. CASE ~(byte >= 128)
      <3>1. add_pressed_keycode(code)
        BY <1>2, <1>8, <2>5 DEF KeyboardInterrupt, encode_ps2_set_1
      <3>2. code = Decode(Append(unencoded, byte))
        BY <2>5
      <3>3. code = CapsLock <=> CapsPending
        <4>1. ASSUME CapsPending PROVE code = CapsLock
          <5>1. unencoded = <<>> /\ byte = CapsByte
            BY <1>1, <4>1 DEF CapsPending, Inv, WireInv
          <5>2. Append(unencoded, byte) = Set1Key[CapsLock]
            BY <5>1, CapsByteFacts
          <5> QED
            BY <3>2, <5>2, CapsByteFacts, KeyboardAssumption DEF Decode
        <4>2. ASSUME code = CapsLock PROVE CapsPending
          <5>1. Append(unencoded, byte) = <<CapsByte>>
            BY <3>2, <4>2, CapsByteFacts, KeyboardAssumption DEF Decode
          <5>2. /\ Len(Append(unencoded, byte)) = Len(unencoded) + 1
                /\ Append(unencoded, byte)[Len(unencoded) + 1] = byte
            BY <1>1, AppendProperties
          <5>3. byte = CapsByte
            BY <1>1, <5>1, <5>2
          <5> QED
            BY <1>1, <5>3 DEF CapsPending
        <4> QED
          BY <4>1, <4>2
      <3>4. code \in KeyCode \cup {NULL}
        BY DEF Decode
      <3> HIDE DEF code
      <3>5. CASE code = NULL
        <4>1. current_keys' = current_keys /\ overflowed' = overflowed /\ ~CapsPending
          BY <3>1, <3>3, <3>5, KeyboardAssumption
          DEF add_pressed_keycode, remove_pressed_keycode, Modifiers
        <4> QED
          BY <1>6, <2>1, <2>2, <4>1 DEF Inv, CapsInv, KeysInv, is_pressed
      <3>6. CASE code = CapsLock /\ is_pressed(CapsLock)
        <4>1. current_keys' = WithoutFirst(CapsLock) /\ overflowed' = overflowed
          BY <3>1, <3>6, CapsByteFacts, KeyboardAssumption
          DEF add_pressed_keycode, remove_pressed_keycode
        <4>2. KeysInv' /\ Single(current_keys, CapsLock)' /\ ~is_pressed(CapsLock)'
          <5>1. Removed(current_keys', CapsLock)
            BY <2>3, <4>1, WithoutFirstFacts
          <5> QED
            BY <2>3, <5>1 DEF Removed, KeysInv, is_pressed
        <4> QED
          BY <1>6, <2>1, <2>2, <3>3, <3>6, <4>1, <4>2 DEF Inv, CapsInv
      <3>7. CASE code # NULL /\ ~(code = CapsLock /\ is_pressed(CapsLock))
        <4>1. current_keys' = Pushed(process_keycode(code)) /\ overflowed' = (overflowed \/ Full)
          BY <3>1, <3>7 DEF add_pressed_keycode
        <4>5. code \in KeyCode /\ process_keycode(code) \in Key /\ process_keycode(code).code = code
          BY <3>4, <3>7, ProcessedKey
        <4>6. PushedTo(current_keys', process_keycode(code))
          BY <2>3, <4>1, <4>5, PushedFacts
        <4>2. KeysInv' /\ Single(current_keys, CapsLock)'
          BY <2>3, <3>7, <4>5, <4>6 DEF PushedTo, KeysInv, is_pressed
        <4>3. ~Full => (is_pressed(CapsLock)' <=> code = CapsLock \/ is_pressed(CapsLock))
          BY <4>5, <4>6 DEF PushedTo, is_pressed
        <4>4. CapsInv'
          BY <1>6, <2>1, <3>3, <3>7, <4>1, <4>2, <4>3 DEF Inv, CapsInv
        <4> QED
          BY <2>2, <4>2, <4>4 DEF Inv
      <3> QED
        BY <3>5, <3>6, <3>7
    <2> QED
      BY <2>4, <2>5
  <1> QED
    BY <1>7, <1>8

\* The invariant holds in every reachable state.
THEOREM Invariance == Spec => []Inv
  <1>1. Inv /\ UNCHANGED vars => Inv'
    BY DEF vars, Inv, WireInv, KeysInv, CapsInv, is_pressed, CapsPending
  <1>2. Inv /\ [Next]_vars => Inv'
    BY <1>1, StrokeInv, InterruptInv DEF Next
  <1> QED
    BY <1>2, InitInv, PTL DEF Spec
-----------------------------------------------------------------------------
\* CURRENT_UNENCODED_KEY is never overrun, and empty between strokes.
THEOREM BufferSafe == Spec => []PrefixesConsumed
  <1>1. Inv => PrefixesConsumed
    BY DEF Inv, WireInv, PrefixesConsumed
  <1> QED
    BY <1>1, Invariance, PTL

\* CapsLock is on after an odd number of its make codes, whatever else is
\* pressed, repeated and released (add_pressed_keycode, remove_pressed_keycode).
THEOREM CapsLockSafe == Spec => []CapsLockToggles
  <1>1. Inv => CapsLockToggles
    BY DEF Inv, CapsInv, CapsPending, CapsLockToggles, Settled
  <1> QED
    BY <1>1, Invariance, PTL
-----------------------------------------------------------------------------
(* The list of pressed keys *)

\* Pressed and released, a key sends prefixes at the same places, and other bytes
\* that differ by the top bit (BreakCode).
LEMMA Bytewise ==
  ASSUME NEW k \in KeyCode, NEW i \in 1 .. Len(Set1Key[k])
  PROVE  /\ Set1Key[k][i] \in Bytes
         /\ Set1Key[k][i] = Prefix => BreakCode(k)[i] = Prefix
         /\ Set1Key[k][i] # Prefix => /\ Set1Key[k][i] \in 0 .. 127
                                      /\ BreakCode(k)[i] = Set1Key[k][i] + 128
                                      /\ BreakCode(k)[i] # Prefix
  <1>1. Set1Key[k] \in Seq(CodeBytes)
    BY KeyboardAssumption DEF CodeBytes
  <1>2. DOMAIN Set1Key[k] = 1 .. Len(Set1Key[k]) /\ Set1Key[k][i] \in CodeBytes
    BY <1>1, LenProperties, ElementOfSeq
  <1>3. BreakCode(k)[i] = Broken(Set1Key[k][i])
    BY <1>2 DEF BreakCode, Broken
  <1> QED
    BY <1>2, <1>3, BrokenByte DEF Broken, CodeBytes

\* The driver decodes a key at the last byte of its code, and nothing from a code
\* that has a prefix in between or another byte before the last (encode_ps2_set_1).
LEMMA Chunk ==
  ASSUME NEW k \in KeyCode, NEW n \in Nat, n < Len(Set1Key[k]),
         NEW u \in Seq(Bytes), Len(u) <= n,
         \A i \in 1 .. Len(u) : u[i] = Prefix /\ Set1Key[k][n - Len(u) + i] = Prefix,
         n = Len(u) \/ Set1Key[k][n - Len(u)] # Prefix,
         Set1Key[k][n + 1] # Prefix,
         NEW code, code = Decode(Append(u, Set1Key[k][n + 1]))
  PROVE  \/ code = NULL /\ k \notin Decodable
         \/ code = k /\ k \in Decodable /\ n + 1 = Len(Set1Key[k])
  <1> DEFINE S == Set1Key[k]
             a == Append(u, S[n + 1])
             b == n - Len(u) + 1
             p == SubSeq(S, b, n + 1)
  <1>0. /\ S \in Seq(Bytes) /\ Len(S) \in Nat /\ DOMAIN S = 1 .. Len(S) /\ Len(u) \in Nat
        /\ \A i \in 1 .. Len(S) : S[i] \in Bytes
    BY CodeFacts, LenProperties, ElementOfSeq
  <1>1. b \in 1 .. n + 1 /\ n + 1 \in 1 .. Len(S) /\ b \in 1 .. Len(S)
    BY <1>0
  <1>2. /\ a \in Seq(Bytes) /\ Len(a) = Len(u) + 1 /\ a[Len(u) + 1] = S[n + 1]
        /\ \A i \in 1 .. Len(u) : a[i] = u[i]
    BY <1>0, <1>1, AppendProperties
  <1>3. /\ p \in Seq(Bytes) /\ Len(p) = Len(u) + 1
        /\ \A i \in 1 .. Len(u) + 1 : p[i] = S[n - Len(u) + i]
    <2>1. \A i \in b .. n + 1 : S[i] \in Bytes
      BY <1>0, <1>1
    <2>2. /\ p \in Seq(Bytes) /\ Len(p) = IF b <= n + 1 THEN (n + 1) - b + 1 ELSE 0
          /\ \A i \in 1 .. (n + 1) - b + 1 : p[i] = S[b + i - 1]
      BY <1>1, <2>1, SubSeqProperties
    <2>3. b <= n + 1 /\ (n + 1) - b + 1 = Len(u) + 1
      BY <1>0
    <2>4. \A i \in Nat : b + i - 1 = n - Len(u) + i
      BY <1>0
    <2> QED
      BY <2>2, <2>3, <2>4
  <1> HIDE DEF a, p
  <1>4. a = p
    <2>1. \A i \in 1 .. Len(u) + 1 : i \in 1 .. Len(u) \/ i = Len(u) + 1
      BY <1>0
    <2>2. n - Len(u) + (Len(u) + 1) = n + 1
      BY <1>0
    <2>3. \A i \in 1 .. Len(u) + 1 : a[i] = p[i]
      BY <1>2, <1>3, <2>1, <2>2
    <2> QED
      BY <1>2, <1>3, <2>3, SeqEqual
  <1>5. ASSUME NEW c \in KeyCode, Set1Key[c] = a
        PROVE  c = k /\ k \in Decodable /\ n + 1 = Len(S)
    <2>1. b = 1 \/ S[b - 1] # Prefix
      <3>1. b - 1 = n - Len(u) /\ (n = Len(u) => b = 1)
        BY <1>0
      <3> QED
        BY <3>1
    <2>2. Set1Key[c] = SubSeq(Set1Key[k], b, n + 1)
      BY <1>4, <1>5 DEF p
    <2>3. b \in DOMAIN Set1Key[k] /\ n + 1 \in DOMAIN Set1Key[k] /\ b <= n + 1
      BY <1>0, <1>1
    <2>4. b = 1 /\ n + 1 = Len(S)
      BY <2>1, <2>2, <2>3, PartsAssumption
    <2>5. n = Len(u) /\ n - Len(u) = 0
      BY <1>0, <2>4
    <2>6. \A i \in 1 .. Len(S) : S[i] = Prefix <=> i < Len(S)
      <3>1. \A i \in 1 .. Len(S) : i < Len(S) => i \in 1 .. Len(u) /\ n - Len(u) + i = i
        BY <1>0, <2>4, <2>5
      <3>2. \A i \in 1 .. Len(S) : ~(i < Len(S)) => i = n + 1
        BY <1>0, <2>4
      <3>3. \A i \in 1 .. Len(S) : i < Len(S) => S[i] = Prefix
        BY <3>1
      <3> QED
        BY <3>2, <3>3
    <2>7. k \in Decodable
      BY <1>0, <2>6 DEF Decodable
    <2>8. p = S
      <3>1. Len(p) = Len(S) /\ \A i \in 1 .. Len(p) : p[i] = S[i]
        <4>1. Len(S) = Len(u) + 1 /\ \A i \in 1 .. Len(u) + 1 : n - Len(u) + i = i
          BY <1>0, <2>4, <2>5
        <4> QED
          BY <1>3, <4>1
      <3> QED
        BY <1>0, <1>3, <3>1, SeqEqual
    <2>9. c = k
      BY <1>4, <1>5, <2>8, KeyboardAssumption
    <2> QED
      BY <2>4, <2>7, <2>9
  <1>6. ASSUME k \in Decodable PROVE a = S
    <2>1. \A i \in 1 .. Len(S) : S[i] = Prefix <=> i < Len(S)
      BY <1>0, <1>6 DEF Decodable
    <2>2. n + 1 = Len(S)
      BY <1>0, <1>1, <2>1
    <2>3. n = Len(u)
      <3> SUFFICES ASSUME n # Len(u) PROVE FALSE
        OBVIOUS
      <3>1. n - Len(u) \in 1 .. Len(S) /\ n - Len(u) < Len(S)
        BY <1>0, <2>2
      <3> QED
        BY <2>1, <3>1
    <2>4. Len(p) = Len(S) /\ \A i \in 1 .. Len(p) : p[i] = S[i]
      <3>1. Len(S) = Len(u) + 1 /\ \A i \in 1 .. Len(u) + 1 : n - Len(u) + i = i
        BY <1>0, <2>2, <2>3
      <3> QED
        BY <1>3, <3>1
    <2> QED
      BY <1>0, <1>3, <1>4, <2>4, SeqEqual
  <1>7. code = Decode(a)
    BY DEF a
  <1>8. CASE \E c \in KeyCode : Set1Key[c] = a
    <2>1. code \in KeyCode /\ Set1Key[code] = a
      BY <1>7, <1>8 DEF Decode
    <2> QED
      BY <1>5, <2>1
  <1>9. CASE ~\E c \in KeyCode : Set1Key[c] = a
    <2>1. code = NULL
      BY <1>7, <1>9 DEF Decode
    <2> QED
      BY <1>6, <1>9, <2>1
  <1> QED
    BY <1>8, <1>9

\* The next byte: a prefix joins the buffer, after another byte the driver starts
\* anew (reset_unencoded_buffer).
LEMMA SentNext ==
  ASSUME NEW C \in Seq(Bytes), Sent(C), wire \in Seq(Bytes), wire # <<>>, unencoded \in Seq(Bytes),
         wire' = Tail(wire),
         unencoded' = IF wire[1] = Prefix THEN Append(unencoded, wire[1]) ELSE <<>>
  PROVE  Sent(C)'
  <1>n. PICK n, u : n = Len(C) - Len(wire) /\ u = Len(unencoded)
    OBVIOUS
  <1>0. /\ Len(C) \in Nat /\ Len(wire) \in Nat /\ Len(wire) # 0 /\ u \in Nat /\ wire[1] \in Bytes
        /\ Len(wire') = Len(wire) - 1 /\ \A i \in 1 .. Len(wire') : wire'[i] = wire[i + 1]
    BY <1>n, LenProperties, HeadTailProperties, ElementOfSeq, EmptySeq
  <1>1. /\ u <= n
        /\ \A i \in 1 .. Len(wire) : wire[i] = C[n + i]
        /\ \A i \in 1 .. u : unencoded[i] = Prefix /\ C[n - u + i] = Prefix
        /\ n = u \/ C[n - u] # Prefix
    BY <1>n DEF Sent, SentAt
  <1>2. wire[1] = C[n + 1]
    BY <1>0, <1>1
  <1>3. Len(C) - Len(wire') = n + 1 /\ n \in Nat
    BY <1>0, <1>1, <1>n
  <1>4. \A i \in 1 .. Len(wire') : wire'[i] = C[(n + 1) + i]
    <2> SUFFICES ASSUME NEW i \in 1 .. Len(wire') PROVE wire'[i] = C[(n + 1) + i]
      OBVIOUS
    <2>1. wire'[i] = wire[i + 1] /\ i + 1 \in 1 .. Len(wire) /\ n + (i + 1) = (n + 1) + i
      BY <1>0, <1>3
    <2>2. wire[i + 1] = C[n + (i + 1)]
      BY <1>1, <2>1
    <2> QED
      BY <2>1, <2>2
  <1>5. CASE wire[1] = Prefix
    <2>1. /\ Len(unencoded') = u + 1 /\ unencoded'[u + 1] = Prefix
          /\ \A i \in 1 .. u : unencoded'[i] = unencoded[i]
      BY <1>0, <1>5, <1>n, AppendProperties
    <2>2. \A i \in 1 .. u + 1 : i \in 1 .. u \/ i = u + 1
      BY <1>0
    <2>3. (n + 1) - (u + 1) = n - u /\ n - u + (u + 1) = n + 1 /\ (u + 1 <= n + 1) /\ (n = u => n + 1 = u + 1)
      BY <1>0, <1>1, <1>3
    <2>4. \A i \in 1 .. u + 1 : unencoded'[i] = Prefix /\ C[n - u + i] = Prefix
      BY <1>1, <1>2, <1>5, <2>1, <2>2, <2>3
    <2> QED
      <3>1. SentAt(C, n + 1, u + 1)'
        BY <1>1, <1>3, <1>4, <2>1, <2>3, <2>4 DEF SentAt
      <3> QED
        BY <1>3, <2>1, <3>1 DEF Sent
  <1>6. CASE wire[1] # Prefix
    <2>1. unencoded' = <<>> /\ Len(unencoded') = 0
      BY <1>6, EmptySeq
    <2>2. (n + 1) - 0 = n + 1 /\ 0 <= n + 1 /\ \A i \in 1 .. 0 : FALSE
      BY <1>3
    <2> QED
      <3>1. SentAt(C, n + 1, 0)'
        BY <1>2, <1>3, <1>4, <1>6, <2>1, <2>2 DEF SentAt
      <3> QED
        BY <1>3, <2>1, <3>1 DEF Sent
  <1> QED
    BY <1>5, <1>6

\* A stroke starts the bytes of a key.
LEMMA SentFirst ==
  ASSUME NEW C \in Seq(Bytes), wire' = C, unencoded' = <<>>
  PROVE  Sent(C)'
  <1>1. Len(unencoded') = 0 /\ Len(C) \in Nat
    BY EmptySeq, LenProperties
  <1>2. Len(C) - Len(wire') = 0 /\ \A i \in 1 .. Len(C) : 0 + i = i
    BY <1>1
  <1>3. \A i \in 1 .. 0 : FALSE
    OBVIOUS
  <1> QED
    <2>1. SentAt(C, 0, 0)'
      BY <1>1, <1>2, <1>3 DEF SentAt
    <2> QED
      BY <1>1, <1>2, <2>1 DEF Sent

\* What the driver decodes from the byte of a key under way.
LEMMA SentDecodes ==
  ASSUME Inv, wire # <<>>, wire[1] # Prefix, NEW k \in KeyCode, NEW C \in {Set1Key[k], BreakCode(k)}, Sent(C),
         NEW code,
         code = Decode(Append(unencoded, IF wire[1] >= 128 THEN wire[1] - 128 ELSE wire[1]))
  PROVE  /\ C = Set1Key[k] => ~(wire[1] >= 128)
         /\ C = BreakCode(k) => wire[1] >= 128
         /\ \/ code = NULL /\ k \notin Decodable
            \/ code = k /\ k \in Decodable /\ Len(wire) = 1
  <1> DEFINE n == Len(C) - Len(wire)
             u == Len(unencoded)
             S == Set1Key[k]
  <1>0. /\ unencoded \in Seq(Bytes) /\ wire \in Seq(Bytes)
        /\ Len(wire) \in Nat /\ Len(wire) # 0 /\ u \in Nat
        /\ Len(S) \in Nat /\ Len(C) = Len(S)
    BY LenProperties, EmptySeq, CodeFacts DEF Inv, WireInv
  <1>1. /\ u <= n
        /\ \A i \in 1 .. Len(wire) : wire[i] = C[n + i]
        /\ \A i \in 1 .. u : unencoded[i] = Prefix /\ C[n - u + i] = Prefix
        /\ n = u \/ C[n - u] # Prefix
    BY DEF Sent, SentAt
  <1>2. n \in Nat /\ n < Len(S) /\ n + 1 \in 1 .. Len(S) /\ wire[1] = C[n + 1]
    BY <1>0, <1>1
  <1>p. \A i \in 1 .. Len(S) : C[i] = Prefix <=> S[i] = Prefix
    BY Bytewise
  <1> HIDE DEF n, u
  <1>3. S[n + 1] # Prefix /\ S[n + 1] \in 0 .. 127
    BY <1>2, <1>p, Bytewise
  <1>4. /\ C = S => ~(wire[1] >= 128)
        /\ C = BreakCode(k) => wire[1] >= 128
        /\ (IF wire[1] >= 128 THEN wire[1] - 128 ELSE wire[1]) = S[n + 1]
    <2>0. \A x \in 0 .. 127 : ~(x >= 128) /\ x + 128 >= 128 /\ (x + 128) - 128 = x
      OBVIOUS
    <2>1. CASE C = S
      <3>1. wire[1] = S[n + 1] /\ ~(S[n + 1] >= 128)
        BY <1>2, <1>3, <2>0, <2>1
      <3>2. C # BreakCode(k)
        <4>1. BreakCode(k)[n + 1] = S[n + 1] + 128
          BY <1>2, <1>3, Bytewise
        <4>2. S[n + 1] + 128 >= 128
          BY <1>3, <2>0
        <4> QED
          BY <2>1, <3>1, <4>1, <4>2
      <3> QED
        BY <3>1, <3>2
    <2>2. CASE C = BreakCode(k) /\ C # S
      <3>1. wire[1] = S[n + 1] + 128
        BY <1>2, <1>3, <2>2, Bytewise
      <3>2. S[n + 1] + 128 >= 128 /\ (S[n + 1] + 128) - 128 = S[n + 1]
        BY <1>3, <2>0
      <3> QED
        BY <2>2, <3>1, <3>2, Zenon
    <2> QED
      BY <2>1, <2>2
  <1>5. code = Decode(Append(unencoded, S[n + 1]))
    BY <1>4
  <1>6. \A i \in 1 .. Len(unencoded) : unencoded[i] = Prefix /\ S[n - Len(unencoded) + i] = Prefix
    <2> SUFFICES ASSUME NEW i \in 1 .. u PROVE unencoded[i] = Prefix /\ S[n - u + i] = Prefix
      BY DEF u
    <2>1. n - u + i \in 1 .. Len(S)
      BY <1>0, <1>1, <1>2
    <2> QED
      BY <1>1, <1>p, <2>1
  <1>7. n = Len(unencoded) \/ S[n - Len(unencoded)] # Prefix
    <2> SUFFICES ASSUME n # u PROVE S[n - u] # Prefix
      BY DEF u
    <2>1. n - u \in 1 .. Len(S)
      BY <1>0, <1>1, <1>2
    <2> QED
      BY <1>1, <1>p, <2>1
  <1>8. \/ code = NULL /\ k \notin Decodable
        \/ code = k /\ k \in Decodable /\ n + 1 = Len(Set1Key[k])
    <2>1. Len(unencoded) <= n
      BY <1>1 DEF u
    <2> QED
      BY <1>0, <1>2, <1>3, <1>5, <1>6, <1>7, <2>1, Chunk
  <1>9. n + 1 = Len(S) => Len(wire) = 1
    <2>1. \A x, y \in Nat : (x - y) + 1 = x => y = 1
      OBVIOUS
    <2>2. n = Len(S) - Len(wire)
      BY <1>0 DEF n
    <2> QED
      BY <1>0, <2>1, <2>2
  <1> QED
    BY <1>4, <1>8, <1>9

\* Nothing is pressed, and nothing is under way.
LEMMA InitDriver == Init => DriverInv
  <1> SUFFICES ASSUME Init PROVE DriverInv
    OBVIOUS
  <1>1. Codes(current_keys) = {}
    BY DEF Init, Codes
  <1>2. Pressed({}, {})
    BY <1>1 DEF Init, Pressed, Single
  <1> QED
    BY <1>2 DEF Init, DriverInv, EventInv

\* The keyboard sends the bytes of a key, which is then under way.
LEMMA DriverStroke ==
  ASSUME NEW k \in KeyCode, Inv, DriverInv, Press(k) \/ Repeat(k) \/ Release(k)
  PROVE  DriverInv'
  <1>1. /\ wire = <<>> /\ unencoded' = <<>> /\ event' = NoKey
        /\ current_keys' = current_keys /\ overflowed' = overflowed
    BY DEF Press, Repeat, Release, Stroke, Inv, WireInv
  <1>2. Pressed({}, {}) /\ down \subseteq KeyCode /\ latest \in KeyCode \cup {NULL}
    BY <1>1 DEF DriverInv
  <1>3. EventInv'
    BY <1>1 DEF EventInv
  <1>4. CASE Press(k) \/ Repeat(k)
    <2>1. wire' = Set1Key[k]
      BY <1>4 DEF Press, Repeat, Stroke
    <2>2. Sent(Set1Key[k])' /\ wire' # <<>>
      <3>1. Set1Key[k] \in Seq(Bytes) /\ Set1Key[k] # <<>>
        BY CodeFacts, EmptySeq
      <3> QED
        BY <1>1, <2>1, <3>1, SentFirst
    <2>3. k \in down' /\ down' \subseteq KeyCode /\ latest' \in KeyCode \cup {NULL}
      BY <1>2, <1>4 DEF Press, Repeat
    <2>4. Pressed({k}, {})'
      <3>1. CASE Press(k)
        <4>1. down' = down \cup {k} /\ repeats' = repeats /\ k \notin down
          BY <3>1 DEF Press
        <4> QED
          BY <1>1, <1>2, <4>1 DEF Pressed
      <3>2. CASE Repeat(k)
        <4>1. down' = down /\ repeats' = repeats \cup {k} /\ k \in down
          BY <3>2 DEF Repeat
        <4> QED
          BY <1>1, <1>2, <4>1 DEF Pressed
      <3> QED
        BY <1>4, <3>1, <3>2
    <2> QED
      BY <1>3, <2>2, <2>3, <2>4 DEF DriverInv, Making
  <1>5. CASE Release(k)
    <2>1. wire' = BreakCode(k) /\ latest' = latest /\ down' = down \ {k} /\ repeats' = repeats
      BY <1>5 DEF Release, Stroke
    <2>2. Sent(BreakCode(k))' /\ wire' # <<>>
      <3>1. BreakCode(k) \in Seq(Bytes) /\ BreakCode(k) # <<>>
        BY CodeFacts, EmptySeq
      <3>2. BreakCode(k)' = BreakCode(k)
        BY DEF BreakCode
      <3> QED
        BY <1>1, <2>1, <3>1, <3>2, SentFirst
    <2>3. Pressed({}, {k})'
      BY <1>1, <1>2, <2>1 DEF Pressed
    <2> QED
      BY <1>2, <1>3, <2>1, <2>2, <2>3 DEF DriverInv, Breaking
  <1> QED
    BY <1>4, <1>5

\* The driver reads a byte that gives no key: nothing changes in the list.
LEMMA NoKeyRead ==
  ASSUME NEW k \in KeyCode, Making(k) \/ Breaking(k), Inv, DriverInv,
         wire # <<>>, wire' = Tail(wire),
         unencoded' = IF wire[1] = Prefix THEN Append(unencoded, wire[1]) ELSE <<>>,
         wire' = <<>> => k \notin Decodable,
         event' = NoKey, UNCHANGED <<current_keys, overflowed, down, latest, repeats>>
  PROVE  DriverInv'
  <1>1. wire \in Seq(Bytes) /\ unencoded \in Seq(Bytes)
    BY DEF Inv, WireInv
  <1>2. EventInv' /\ down' \subseteq KeyCode /\ latest' \in KeyCode \cup {NULL}
    BY DEF EventInv, DriverInv
  <1>3. CASE Making(k)
    <2>1. Sent(Set1Key[k])'
      BY <1>1, <1>3, CodeFacts, SentNext DEF Making
    <2>2. Making(k)'
      BY <1>3, <2>1 DEF Making, Pressed
    <2>3. k \notin Decodable => Pressed({}, {})'
      BY <1>3 DEF Making, Pressed
    <2> QED
      BY <1>2, <2>2, <2>3 DEF DriverInv
  <1>4. CASE Breaking(k)
    <2>1. Sent(BreakCode(k))'
      <3>1. BreakCode(k)' = BreakCode(k)
        BY DEF BreakCode
      <3> QED
        BY <1>1, <1>4, <3>1, CodeFacts, SentNext DEF Breaking
    <2>2. Breaking(k)'
      BY <1>4, <2>1 DEF Breaking, Pressed
    <2>3. k \notin Decodable => Pressed({}, {})'
      BY <1>4 DEF Breaking, Pressed
    <2> QED
      BY <1>2, <2>2, <2>3 DEF DriverInv
  <1> QED
    BY <1>3, <1>4

\* The driver reads the last byte of a press (add_pressed_keycode).
LEMMA PressRead ==
  ASSUME NEW k \in KeyCode, Making(k), Inv, DriverInv, wire' = <<>>,
         add_pressed_keycode(k), UNCHANGED <<down, latest, repeats>>, k \in Decodable
  PROVE  DriverInv'
  <1>1. KeysInv /\ k # NULL
    BY KeyboardAssumption DEF Inv
  <1>2. down' \subseteq KeyCode /\ latest' \in KeyCode \cup {NULL}
    BY DEF DriverInv
  <1>3. Pressed({k}, {}) /\ k \in down
    BY DEF Making
  <1>4. CASE k = CapsLock /\ is_pressed(k)
    <2>1. current_keys' = WithoutFirst(k) /\ overflowed' = overflowed /\ event' = NoKey
      BY <1>1, <1>4 DEF add_pressed_keycode, remove_pressed_keycode
    <2>2. Removed(current_keys', k)
      BY <1>1, <2>1, WithoutFirstFacts
    <2>3. Pressed({}, {})'
      BY <1>3, <1>4, <2>1, <2>2 DEF Removed, Pressed
    <2>4. EventInv'
      BY <2>1 DEF EventInv
    <2> QED
      BY <1>2, <2>3, <2>4 DEF DriverInv
  <1>5. CASE ~(k = CapsLock /\ is_pressed(k))
    <2> DEFINE key == process_keycode(k)
    <2>1. /\ current_keys' = Pushed(key) /\ event' = key
          /\ overflowed' = (overflowed \/ Full)
      BY <1>1, <1>5 DEF add_pressed_keycode
    <2>2. key \in Key /\ key.code = k /\ key.flags = {m \in Modifiers \ {k} : is_pressed(m)}
      BY ProcessedKey DEF process_keycode
    <2> HIDE DEF key
    <2>3. PushedTo(current_keys', key)
      BY <1>1, <2>1, <2>2, PushedFacts
    <2>4. ~overflowed' => ~overflowed /\ ~Full
      BY <2>1
    <2>5. \A c : c \in Codes(current_keys)' => c = k \/ c \in Codes(current_keys)
      BY <2>2, <2>3 DEF PushedTo
    <2>6. ~Full => \A c : c = k \/ c \in Codes(current_keys) => c \in Codes(current_keys)'
      BY <2>2, <2>3 DEF PushedTo
    <2>7. Pressed({}, {})'
      <3>1. Codes(current_keys)' \subseteq Decodable
        BY <1>3, <2>5 DEF Pressed
      <3>2. ASSUME ~overflowed'
            PROVE  (down' \cap Decodable) \ {CapsLock} \subseteq Codes(current_keys)'
        BY <1>3, <2>4, <2>6, <3>2 DEF Pressed
      <3>3. ASSUME ~overflowed', NEW c \in KeyCode \ ({CapsLock} \cup repeats')
            PROVE  Single(current_keys, c)' /\ (c \in Codes(current_keys)' => c \in down')
        <4>1. Single(current_keys, c) /\ (c = k => c \notin Codes(current_keys))
          BY <1>3, <2>4, <3>3 DEF Pressed
        <4>2. Single(current_keys', c)
          BY <2>2, <2>3, <4>1 DEF PushedTo
        <4>3. c \in Codes(current_keys) => c \in down
          BY <1>3, <2>4, <3>3 DEF Pressed
        <4> QED
          BY <1>3, <2>5, <4>2, <4>3 DEF Single
      <3> QED
        BY <3>1, <3>2, <3>3 DEF Pressed
    <2>8. EventInv'
      <3>1. ASSUME ~overflowed', NEW m \in Modifiers \ {k}
            PROVE  is_pressed(m)' <=> is_pressed(m)
        BY <2>4, <2>5, <2>6, <3>1 DEF is_pressed
      <3>2. ~overflowed' => key.flags = {m \in Modifiers \ {k} : is_pressed(m)'}
        BY <2>2, <3>1
      <3> QED
        BY <2>1, <2>2, <3>2 DEF EventInv
    <2> QED
      BY <1>2, <2>7, <2>8 DEF DriverInv
  <1> QED
    BY <1>4, <1>5

\* The driver reads the last byte of a release (remove_pressed_keycode).
LEMMA ReleaseRead ==
  ASSUME NEW k \in KeyCode, Breaking(k), Inv, DriverInv, wire' = <<>>,
         IF ReleaseRemoves(k) THEN remove_pressed_keycode(k)
         ELSE event' = NoKey /\ UNCHANGED <<current_keys, overflowed>>,
         UNCHANGED <<down, latest, repeats>>
  PROVE  DriverInv'
  <1>1. KeysInv
    BY DEF Inv
  <1>2. down' \subseteq KeyCode /\ latest' \in KeyCode \cup {NULL}
    BY DEF DriverInv
  <1>3. Pressed({}, {k}) /\ k \notin down
    BY DEF Breaking
  <1>4. EventInv' /\ overflowed' = overflowed
    BY DEF EventInv, remove_pressed_keycode
  <1>5. CASE k = CapsLock
    <2>1. current_keys' = current_keys
      BY <1>5 DEF ReleaseRemoves
    <2>2. Pressed({}, {})'
      BY <1>3, <1>4, <1>5, <2>1 DEF Pressed
    <2> QED
      BY <1>2, <1>4, <2>2 DEF DriverInv
  <1>6. CASE k # CapsLock
    <2>1. current_keys' = WithoutFirst(k)
      BY <1>6 DEF ReleaseRemoves, remove_pressed_keycode
    <2>2. Removed(current_keys', k)
      BY <1>1, <2>1, WithoutFirstFacts
    <2>3. Pressed({}, {})'
      BY <1>3, <1>4, <2>2 DEF Removed, Pressed
    <2> QED
      BY <1>2, <1>4, <2>3 DEF DriverInv
  <1> QED
    BY <1>5, <1>6

\* A byte comes in, of the key under way.
LEMMA DriverInterrupt ==
  ASSUME Inv, DriverInv, KeyboardInterrupt
  PROVE  DriverInv'
  <1> DEFINE byte == wire[1]
             code == Decode(Append(unencoded, IF byte >= 128 THEN byte - 128 ELSE byte))
  <1>1. /\ wire \in Seq(Bytes) /\ wire # <<>> /\ unencoded \in Seq(Bytes)
        /\ Len(wire) \in Nat \ {0} /\ Len(unencoded) \in Nat
    BY LenProperties, EmptySeq DEF Inv, WireInv, KeyboardInterrupt
  <1>2. panicked' = FALSE
    <2>1. ~(Len(unencoded) = BufferSize)
      BY <1>1 DEF Inv, WireInv, BufferSize
    <2> QED
      BY <2>1, Zenon DEF KeyboardInterrupt, encode_ps2_set_1
  <1>3. wire' = Tail(wire) /\ Len(wire') = Len(wire) - 1 /\ UNCHANGED <<down, latest, repeats>>
    <2>1. wire' = Tail(wire) /\ UNCHANGED <<down, latest, repeats>>
      BY DEF KeyboardInterrupt
    <2> QED
      BY <1>1, <2>1, HeadTailProperties
  <1>4. PICK k \in KeyCode : Making(k) \/ Breaking(k)
    BY <1>1 DEF DriverInv
  <1>5. CASE byte = Prefix
    <2>1. /\ unencoded' = Append(unencoded, byte) /\ event' = NoKey
          /\ UNCHANGED <<current_keys, overflowed>>
      BY <1>2, <1>5 DEF KeyboardInterrupt, encode_ps2_set_1
    <2>2. wire' # <<>>
      <3>1. Len(wire) # 1
        BY <1>1, <1>5 DEF Inv, WireInv
      <3>2. Len(wire') # 0
        BY <1>1, <1>3, <3>1
      <3> QED
        BY <3>2
    <2> QED
      BY <1>1, <1>3, <1>4, <1>5, <2>1, <2>2, NoKeyRead
  <1>6. CASE byte # Prefix
    <2>1. unencoded' = <<>>
      BY <1>2, <1>6 DEF KeyboardInterrupt, encode_ps2_set_1, reset_unencoded_buffer
    <2>2. PICK c : c = code
      OBVIOUS
    <2>3. /\ ~(byte >= 128) => add_pressed_keycode(c)
          /\ byte >= 128 => IF ReleaseRemoves(c) THEN remove_pressed_keycode(c)
                            ELSE event' = NoKey /\ UNCHANGED <<current_keys, overflowed>>
      BY <1>2, <1>6, <2>2 DEF KeyboardInterrupt, encode_ps2_set_1
    <2>4. /\ Making(k) => Sent(Set1Key[k])
          /\ Breaking(k) => Sent(BreakCode(k))
          /\ Set1Key[k] \in {Set1Key[k], BreakCode(k)} /\ BreakCode(k) \in {Set1Key[k], BreakCode(k)}
      BY DEF Making, Breaking
    <2>5. /\ Making(k) => ~(byte >= 128)
          /\ Breaking(k) => byte >= 128
          /\ \/ c = NULL /\ k \notin Decodable
             \/ c = k /\ k \in Decodable /\ Len(wire) = 1
      BY <1>1, <1>4, <1>6, <2>2, <2>4, SentDecodes
    <2> HIDE DEF code, byte
    <2>6. CASE c = NULL /\ k \notin Decodable
      <3>1. event' = NoKey /\ UNCHANGED <<current_keys, overflowed>>
        <4>1. CASE Making(k)
          BY <2>3, <2>5, <2>6, <4>1, KeyboardAssumption DEF add_pressed_keycode, Modifiers
        <4>2. CASE Breaking(k)
          <5>1. ~is_pressed(c)
            BY <2>6, <4>2, KeyboardAssumption DEF Breaking, Pressed, is_pressed, Decodable
          <5>2. WithoutFirst(c) = current_keys
            BY <5>1 DEF WithoutFirst
          <5> QED
            BY <2>3, <2>5, <4>2, <5>2 DEF remove_pressed_keycode
        <4> QED
          BY <1>4, <4>1, <4>2
      <3> QED
        BY <1>1, <1>3, <1>4, <1>6, <2>1, <2>6, <3>1, NoKeyRead DEF byte
    <2>7. CASE c = k /\ k \in Decodable /\ Len(wire) = 1
      <3>1. wire' = <<>>
        <4>1. Len(wire') = 0 /\ wire' \in Seq(Bytes)
          BY <1>1, <1>3, <2>7, HeadTailProperties
        <4> QED
          BY <4>1, EmptySeq
      <3>2. CASE Making(k)
        BY <1>3, <2>3, <2>5, <2>7, <3>1, <3>2, PressRead
      <3>3. CASE Breaking(k)
        BY <1>3, <2>3, <2>5, <2>7, <3>1, <3>3, ReleaseRead
      <3> QED
        BY <1>4, <3>2, <3>3
    <2> QED
      BY <2>5, <2>6, <2>7
  <1> QED
    BY <1>5, <1>6

\* The invariant of the list of pressed keys holds in every reachable state.
THEOREM DriverInvariance == Spec => []DriverInv
  <1>1. DriverInv /\ UNCHANGED vars => DriverInv'
    <2> SUFFICES ASSUME DriverInv, UNCHANGED vars PROVE DriverInv'
      OBVIOUS
    <2>1. Pressed({}, {}) => Pressed({}, {})'
      BY DEF vars, Pressed
    <2>2. ASSUME NEW k \in KeyCode PROVE (Making(k) => Making(k)') /\ (Breaking(k) => Breaking(k)')
      <3>1. BreakCode(k)' = BreakCode(k)
        BY DEF BreakCode
      <3> QED
        BY <3>1 DEF vars, Making, Breaking, Pressed, Sent, SentAt
    <2>3. EventInv'
      BY DEF DriverInv, EventInv, vars, is_pressed
    <2> QED
      BY <2>1, <2>2, <2>3 DEF DriverInv, vars
  <1>2. Inv /\ DriverInv /\ [Next]_vars => DriverInv'
    BY <1>1, DriverStroke, DriverInterrupt DEF Next
  <1> QED
    BY <1>2, InitDriver, Invariance, PTL DEF Spec
-----------------------------------------------------------------------------
\* Once its bytes are read, each key held down is in the list of pressed keys,
\* which never has more than MAX_KEYS (add_pressed_keycode).
THEOREM HeldSafe == Spec => []HeldArePressed
  <1>1. Inv /\ DriverInv => HeldArePressed
    <2> SUFFICES ASSUME Inv, DriverInv PROVE HeldArePressed
      OBVIOUS
    <2>1. Len(unencoded) <= BufferSize
      <3>1. Len(unencoded) \in Nat /\ Len(wire) \in Nat /\ Len(unencoded) + Len(wire) <= BufferSize
        BY LenProperties DEF Inv, WireInv
      <3> QED
        BY <3>1 DEF BufferSize
    <2>2. TypeOK
      BY <2>1 DEF TypeOK, Inv, WireInv, KeysInv, DriverInv, EventInv
    <2>3. ASSUME Settled, NEW k \in (down \cap Decodable) \ {CapsLock} PROVE is_pressed(k)
      BY <2>3 DEF DriverInv, Settled, Pressed, is_pressed
    <2> QED
      BY <2>2, <2>3 DEF HeldArePressed
  <1> QED
    BY <1>1, Invariance, DriverInvariance, PTL

\* A key that never repeated is in the list only while it is held down
\* (remove_pressed_keycode).
THEOREM ReleasedSafe == Spec => []ReleasedAreNotPressed
  <1>1. DriverInv => ReleasedAreNotPressed
    BY DEF DriverInv, ReleasedAreNotPressed, Settled, Pressed, is_pressed
  <1> QED
    BY <1>1, DriverInvariance, PTL
-----------------------------------------------------------------------------
(* Characters *)

\* The least element of a set, when there is one.
LEMMA MinIs ==
  ASSUME NEW S \in SUBSET Nat, NEW j \in S, \A i \in S : j <= i
  PROVE  Min(S) = j
  <1>1. Min(S) \in S /\ \A i \in S : Min(S) <= i
    BY DEF Min
  <1>2. Min(S) <= j /\ j <= Min(S) /\ Min(S) \in Nat /\ j \in Nat
    BY <1>1
  <1> QED
    BY <1>2

\* map_key gives the character of the first entry that matches.
LEMMA MapKeyFirst ==
  ASSUME NEW key, NEW M, M = DEFAULT_MAPPING[key.code], Len(M) = Slots
  PROVE  /\ \A j \in 1 .. Slots :
              M[j].flags = key.flags /\ (\A i \in 1 .. j - 1 : M[i].flags # key.flags)
                => map_key(key) = M[j].result
         /\ (\A j \in 1 .. Slots : M[j].flags # key.flags) => map_key(key) = NUL
  <1> DEFINE I == {i \in 1 .. Slots : M[i].flags = key.flags}
             n == IF I # {} THEN Min(I) ELSE 0
  <1>1. SelectInSeq(M, LAMBDA mapping : Matches(mapping, key)) = n
    BY DEF SelectInSeq, Matches
  <1>2. map_key(key) = IF n = 0 THEN NUL ELSE M[n].result
    BY <1>1 DEF map_key
  <1> HIDE DEF n
  <1>3. ASSUME NEW j \in 1 .. Slots, M[j].flags = key.flags, \A i \in 1 .. j - 1 : M[i].flags # key.flags
        PROVE  map_key(key) = M[j].result
    <2>1. j \in I /\ I \in SUBSET Nat
      BY <1>3 DEF Slots
    <2>2. \A i \in I : j <= i
      BY <1>3 DEF Slots
    <2>3. Min(I) = j
      BY <2>1, <2>2, MinIs
    <2>4. n = j /\ j # 0
      BY <2>1, <2>3 DEF n, Slots
    <2> QED
      BY <1>2, <2>4
  <1>4. ASSUME \A j \in 1 .. Slots : M[j].flags # key.flags
        PROVE  map_key(key) = NUL
    <2>1. n = 0
      BY <1>4 DEF n
    <2> QED
      BY <1>2, <2>1
  <1> QED
    BY <1>3, <1>4

\* The character of a key with the characters for the flags r (create_mapping!).
LEMMA MapKeyRow ==
  ASSUME NEW key, NEW r \in Seq(SUBSET Modifiers), Len(r) <= 3,
         DEFAULT_MAPPING[key.code] = create_mapping(key.code, r)
  PROVE  /\ \A j \in 1 .. Len(r) :
              r[j] = key.flags /\ (\A i \in 1 .. j - 1 : r[i] # key.flags)
                => map_key(key) = <<key.code, j>>
         /\ (\A j \in 1 .. Len(r) : r[j] # key.flags) => map_key(key) = NUL
  <1> DEFINE M == DEFAULT_MAPPING[key.code]
  <1>1. Len(r) \in Nat /\ Len(r) \in 0 .. 3
    <2>1. Len(r) \in Nat
      BY LenProperties
    <2>2. \A n \in Nat : n <= 3 => n \in 0 .. 3
      OBVIOUS
    <2> QED
      BY <2>1, <2>2, Zenon
  <1>2. /\ Len(M) = Slots
        /\ \A i \in 1 .. Slots :
             /\ i <= Len(r) => M[i] = [flags |-> r[i], result |-> <<key.code, i>>]
             /\ ~(i <= Len(r)) => M[i] = DefaultEntry
    BY <1>1 DEF create_mapping, Slots
  <1>3. /\ \A j \in 1 .. Slots :
              M[j].flags = key.flags /\ (\A i \in 1 .. j - 1 : M[i].flags # key.flags)
                => map_key(key) = M[j].result
        /\ (\A j \in 1 .. Slots : M[j].flags # key.flags) => map_key(key) = NUL
    <2> HIDE DEF M
    <2>1. M = DEFAULT_MAPPING[key.code]
      BY DEF M
    <2> QED
      BY <1>2, <2>1, MapKeyFirst
  <1> HIDE DEF M
  <1>4. \A i \in 1 .. Len(r) : i \in 1 .. Slots /\ M[i].flags = r[i] /\ M[i].result = <<key.code, i>>
    BY <1>1, <1>2 DEF Slots
  <1>5. \A i \in 1 .. Slots : i \in 1 .. Len(r) \/ (M[i].flags = {} /\ M[i].result = NUL)
    <2>1. DefaultEntry.flags = {} /\ DefaultEntry.result = NUL
      BY DEF DefaultEntry
    <2>2. \A i \in 1 .. Slots : i \in 1 .. Len(r) \/ ~(i <= Len(r))
      BY <1>1 DEF Slots
    <2>3. \A i \in 1 .. Slots : ~(i <= Len(r)) => M[i] = DefaultEntry
      BY <1>2
    <2> QED
      BY <2>1, <2>2, <2>3
  <1>6. ASSUME NEW j \in 1 .. Len(r), r[j] = key.flags, \A i \in 1 .. j - 1 : r[i] # key.flags
        PROVE  map_key(key) = <<key.code, j>>
    <2>1. \A i \in 1 .. j - 1 : i \in 1 .. Len(r)
      BY <1>1
    <2> QED
      BY <1>3, <1>4, <1>6, <2>1
  <1>7. ASSUME \A j \in 1 .. Len(r) : r[j] # key.flags
        PROVE  map_key(key) = NUL
    <2>1. CASE \A j \in 1 .. Slots : M[j].flags # key.flags
      BY <1>3, <2>1
    <2>2. CASE \E j \in 1 .. Slots : M[j].flags = key.flags
      <3>1. key.flags = {}
        BY <1>4, <1>5, <1>7, <2>2
      <3>2. Len(r) + 1 \in 1 .. Slots /\ Len(r) + 1 \notin 1 .. Len(r)
        BY <1>1 DEF Slots
      <3>3. M[Len(r) + 1].flags = key.flags /\ M[Len(r) + 1].result = NUL
        BY <1>5, <3>1, <3>2
      <3>4. \A i \in 1 .. (Len(r) + 1) - 1 : M[i].flags # key.flags
        <4>1. \A i \in 1 .. (Len(r) + 1) - 1 : i \in 1 .. Len(r)
          BY <1>1
        <4> QED
          BY <1>4, <1>7, <4>1
      <3> QED
        BY <1>3, <3>2, <3>3, <3>4
    <2> QED
      BY <2>1, <2>2
  <1> QED
    BY <1>6, <1>7

\* The same, entry by entry.
LEMMA MapKeyEntries ==
  ASSUME NEW key, NEW r \in Seq(SUBSET Modifiers), NEW n \in 0 .. 3, Len(r) = n,
         DEFAULT_MAPPING[key.code] = create_mapping(key.code, r)
  PROVE  /\ n >= 1 /\ r[1] = key.flags => map_key(key) = <<key.code, 1>>
         /\ n >= 2 /\ r[1] # key.flags /\ r[2] = key.flags => map_key(key) = <<key.code, 2>>
         /\ n >= 3 /\ r[1] # key.flags /\ r[2] # key.flags /\ r[3] = key.flags
              => map_key(key) = <<key.code, 3>>
         /\ (n >= 1 => r[1] # key.flags) /\ (n >= 2 => r[2] # key.flags)
            /\ (n >= 3 => r[3] # key.flags)
              => map_key(key) = NUL
  <1>1. /\ \A j \in 1 .. n :
              r[j] = key.flags /\ (\A i \in 1 .. j - 1 : r[i] # key.flags)
                => map_key(key) = <<key.code, j>>
        /\ (\A j \in 1 .. n : r[j] # key.flags) => map_key(key) = NUL
    <2>1. Len(r) <= 3
      OBVIOUS
    <2> QED
      BY <2>1, MapKeyRow
  <1>2. /\ n >= 1 => 1 \in 1 .. n
        /\ n >= 2 => 2 \in 1 .. n
        /\ n >= 3 => 3 \in 1 .. n
        /\ \A i \in 1 .. 1 - 1 : FALSE
        /\ \A i \in 1 .. 2 - 1 : i = 1
        /\ \A i \in 1 .. 3 - 1 : i = 1 \/ i = 2
        /\ \A j \in 1 .. n : (j = 1 /\ n >= 1) \/ (j = 2 /\ n >= 2) \/ (j = 3 /\ n >= 3)
    OBVIOUS
  <1> QED
    BY <1>1, <1>2, Zenon

\* The modifiers held down besides a key.
HeldModifiers(code) == (down \cap {Ctrl, Alt, Shift}) \ {code}

\* The flags of the key given to __navi_key_pressed are the modifiers held down,
\* and CapsLock while it is on.
LEMMA EventFlags ==
  ASSUME Inv, DriverInv, Settled, repeats = {}, event # NoKey
  PROVE  /\ event \in Key /\ CapsLock \notin HeldModifiers(event.code)
         /\ HeldModifiers(event.code) \subseteq {Ctrl, Alt, Shift}
         /\ CapsLock \in event.flags <=> caps_presses = 1 /\ event.code # CapsLock
         /\ event.flags \ {CapsLock} = HeldModifiers(event.code)
  <1>1. event \in Key /\ event.flags = {m \in Modifiers \ {event.code} : is_pressed(m)}
    BY DEF DriverInv, EventInv, Settled
  <1>2. {Ctrl, Alt, Shift} \subseteq Decodable
    <2> SUFFICES ASSUME NEW m \in {Ctrl, Alt, Shift} PROVE m \in Decodable
      OBVIOUS
    <2>1. m \in KeyCode /\ Len(Set1Key[m]) = 1
      BY KeyboardAssumption, ModifierAssumption DEF Modifiers
    <2>2. Set1Key[m][1] # Prefix /\ DOMAIN Set1Key[m] = 1 .. 1
      BY <2>1, CodeFacts, LenProperties
    <2>3. \A i \in 1 .. 1 : i = 1 /\ ~(i < 1)
      OBVIOUS
    <2> QED
      BY <2>1, <2>2, <2>3 DEF Decodable
  <1>3. CapsLock \notin {Ctrl, Alt, Shift} /\ Modifiers = {Ctrl, Alt, Shift} \cup {CapsLock}
    BY ModifierAssumption DEF Modifiers
  <1>4. \A m \in {Ctrl, Alt, Shift} : is_pressed(m) <=> m \in down
    <2>1. Pressed({}, {}) /\ ~overflowed
      BY DEF DriverInv, Settled
    <2>2. \A m \in {Ctrl, Alt, Shift} : m \in Decodable /\ m # CapsLock /\ m \in KeyCode
      BY <1>2, <1>3 DEF Decodable
    <2> QED
      BY <2>1, <2>2 DEF Pressed, is_pressed
  <1>5. is_pressed(CapsLock) <=> caps_presses = 1
    BY DEF Inv, CapsInv, CapsPending, Settled
  <1> QED
    BY <1>1, <1>3, <1>4, <1>5 DEF HeldModifiers

\* The flags that a key has characters for.
RowOf(code) ==
  CASE code \in Letters  -> <<{}, {CapsLock}>>
    [] code \in Digits   -> <<{}, {Shift}, {Alt}>>
    [] code \in Symbols  -> <<{}, {Shift}>>
    [] code \in Controls -> <<{}>>
    [] OTHER             -> <<>>

\* The characters of each kind of key (DEFAULT_MAPPING).
LEMMA Rows ==
  ASSUME NEW code \in KeyCode
  PROVE  /\ DEFAULT_MAPPING[code] = create_mapping(code, RowOf(code))
         /\ code \in Letters => RowOf(code) = <<{}, {CapsLock}>>
         /\ code \in Digits => RowOf(code) = <<{}, {Shift}, {Alt}>>
         /\ code \in Symbols => RowOf(code) = <<{}, {Shift}>>
         /\ code \in Controls => RowOf(code) = <<{}>>
         /\ code \notin Letters \cup Digits \cup Symbols \cup Controls => RowOf(code) = <<>>
  <1>1. DEFAULT_MAPPING[code] = create_mapping(code, RowOf(code))
    BY DEF DEFAULT_MAPPING, RowOf
  <1>2. /\ code \in Letters => code \notin Digits \cup Symbols \cup Controls
        /\ code \in Digits => code \notin Symbols \cup Controls
        /\ code \in Symbols => code \notin Controls
    BY KeyMapAssumption
  <1> QED
    BY <1>1, <1>2 DEF RowOf

\* A key types what the keyboard's state says (process_keycode, map_key).
THEOREM TypesSafe == Spec => []TypesCharacter
  <1>1. Inv /\ DriverInv => TypesCharacter
    <2> SUFFICES ASSUME Inv, DriverInv, Settled, repeats = {}, event # NoKey
                 PROVE  TypesCharacter
      BY DEF TypesCharacter
    <2> DEFINE code == event.code
               F == event.flags
               H == HeldModifiers(code)
               caps == caps_presses = 1
               r == RowOf(code)
    <2>1. /\ event \in Key /\ CapsLock \notin H /\ H \subseteq {Ctrl, Alt, Shift}
          /\ CapsLock \in F <=> caps /\ code # CapsLock
          /\ F \ {CapsLock} = H
      BY EventFlags
    <2>2. code \in KeyCode
      BY <2>1 DEF Key
    <2>3. /\ DEFAULT_MAPPING[code] = create_mapping(code, r)
          /\ code \in Letters => r = <<{}, {CapsLock}>>
          /\ code \in Digits => r = <<{}, {Shift}, {Alt}>>
          /\ code \in Symbols => r = <<{}, {Shift}>>
          /\ code \in Controls => r = <<{}>>
          /\ code \notin Letters \cup Digits \cup Symbols \cup Controls => r = <<>>
      BY <2>2, Rows
    <2>4. Shift # Alt /\ CapsLock \notin {Ctrl, Alt, Shift} /\ {Shift, Alt, CapsLock} \subseteq Modifiers
      BY ModifierAssumption DEF Modifiers
    <2>5. code \in Letters \cup Digits \cup Symbols \cup Controls => code # CapsLock
      BY KeyMapAssumption DEF Modifiers
    <2>6. code # CapsLock => F = IF caps THEN H \cup {CapsLock} ELSE H
      BY <2>1
    <2>7. ASSUME NEW x \in Seq(SUBSET Modifiers), NEW n \in 0 .. 3, Len(x) = n, r = x
          PROVE  /\ n >= 1 /\ x[1] = F => map_key(event) = <<code, 1>>
                 /\ n >= 2 /\ x[1] # F /\ x[2] = F => map_key(event) = <<code, 2>>
                 /\ n >= 3 /\ x[1] # F /\ x[2] # F /\ x[3] = F => map_key(event) = <<code, 3>>
                 /\ (n >= 1 => x[1] # F) /\ (n >= 2 => x[2] # F) /\ (n >= 3 => x[3] # F)
                      => map_key(event) = NUL
      BY <2>3, <2>7, MapKeyEntries
    <2>n. /\ 0 \in 0 .. 3 /\ 1 \in 0 .. 3 /\ 2 \in 0 .. 3 /\ 3 \in 0 .. 3
          /\ 1 >= 1 /\ 2 >= 1 /\ 2 >= 2 /\ 3 >= 1 /\ 3 >= 2 /\ 3 >= 3
          /\ ~(0 >= 1) /\ ~(0 >= 2) /\ ~(0 >= 3) /\ ~(1 >= 2) /\ ~(1 >= 3) /\ ~(2 >= 3)
      OBVIOUS
    <2>s. {CapsLock} # {} /\ {Shift} # {} /\ {Alt} # {} /\ {Shift} # {Alt}
      BY <2>4
    <2> HIDE DEF code, F, H, caps, r
    <2>8. CASE code \in Letters
      <3> DEFINE x == <<{}, {CapsLock}>>
      <3>1. x \in Seq(SUBSET Modifiers) /\ Len(x) = 2 /\ x[1] = {} /\ x[2] = {CapsLock} /\ r = x
        BY <2>3, <2>4, <2>8
      <3> HIDE DEF x
      <3>2. /\ F = {} => map_key(event) = <<code, 1>>
            /\ F = {CapsLock} => map_key(event) = <<code, 2>>
            /\ F # {} /\ F # {CapsLock} => map_key(event) = NUL
        BY <2>7, <2>n, <2>s, <3>1, Zenon
      <3> QED
        BY <2>1, <2>4, <2>5, <2>6, <2>8, <3>2 DEF TypesCharacter, code, H, caps, HeldModifiers
    <2>9. CASE code \in Digits
      <3> DEFINE x == <<{}, {Shift}, {Alt}>>
      <3>1. /\ x \in Seq(SUBSET Modifiers) /\ Len(x) = 3 /\ r = x
            /\ x[1] = {} /\ x[2] = {Shift} /\ x[3] = {Alt}
        BY <2>3, <2>4, <2>9
      <3> HIDE DEF x
      <3>2. /\ F = {} => map_key(event) = <<code, 1>>
            /\ F = {Shift} => map_key(event) = <<code, 2>>
            /\ F = {Alt} => map_key(event) = <<code, 3>>
            /\ F # {} /\ F # {Shift} /\ F # {Alt} => map_key(event) = NUL
        BY <2>7, <2>n, <2>s, <3>1, Zenon
      <3>3. code \notin Letters
        BY <2>9, KeyMapAssumption
      <3> QED
        BY <2>1, <2>4, <2>5, <2>6, <2>9, <3>2, <3>3 DEF TypesCharacter, code, H, caps, HeldModifiers
    <2>10. CASE code \in Symbols
      <3> DEFINE x == <<{}, {Shift}>>
      <3>1. x \in Seq(SUBSET Modifiers) /\ Len(x) = 2 /\ x[1] = {} /\ x[2] = {Shift} /\ r = x
        BY <2>3, <2>4, <2>10
      <3> HIDE DEF x
      <3>2. /\ F = {} => map_key(event) = <<code, 1>>
            /\ F = {Shift} => map_key(event) = <<code, 2>>
            /\ F # {} /\ F # {Shift} => map_key(event) = NUL
        BY <2>7, <2>n, <2>s, <3>1, Zenon
      <3>3. code \notin Letters \cup Digits
        BY <2>10, KeyMapAssumption
      <3> QED
        BY <2>1, <2>4, <2>5, <2>6, <2>10, <3>2, <3>3 DEF TypesCharacter, code, H, caps, HeldModifiers
    <2>11. CASE code \in Controls
      <3> DEFINE x == <<{}>>
      <3>1. x \in Seq(SUBSET Modifiers) /\ Len(x) = 1 /\ x[1] = {} /\ r = x
        BY <2>3, <2>11
      <3> HIDE DEF x
      <3>2. /\ F = {} => map_key(event) = <<code, 1>>
            /\ F # {} => map_key(event) = NUL
        BY <2>7, <2>n, <2>s, <3>1, Zenon
      <3>3. code \notin Letters \cup Digits \cup Symbols
        BY <2>11, KeyMapAssumption
      <3> QED
        BY <2>1, <2>4, <2>5, <2>6, <2>11, <3>2, <3>3 DEF TypesCharacter, code, H, caps, HeldModifiers
    <2>12. CASE code \notin Letters \cup Digits \cup Symbols \cup Controls
      <3>1. <<>> \in Seq(SUBSET Modifiers) /\ Len(<<>>) = 0 /\ r = <<>>
        BY <2>3, <2>12
      <3>2. map_key(event) = NUL
        BY <2>7, <2>n, <2>s, <3>1, Zenon
      <3> QED
        BY <2>12, <3>2 DEF TypesCharacter, code
    <2> QED
      BY <2>8, <2>9, <2>10, <2>11, <2>12
  <1> QED
    BY <1>1, Invariance, DriverInvariance, PTL
=============================================================================

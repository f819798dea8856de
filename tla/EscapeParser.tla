---------------------------- MODULE EscapeParser ----------------------------
(***************************************************************************)
(* The parser of the terminal's escape sequences, Parser in                *)
(* kernel/src/terminal/navitts.rs: a recursive descent over the tokens of  *)
(* one sequence, here with its stack of open tuples as state.              *)
(*                                                                         *)
(* A token is its kind; what identifiers, numbers and slices say does not  *)
(* change where the parser goes.  The tokens are chosen as the parser      *)
(* comes to them, so that every sequence of at most MaxTokens is parsed.   *)
(***************************************************************************)
EXTENDS Integers, Sequences, SequencesExt

CONSTANT MaxTokens \* bound: tokens of a sequence

ASSUME ParserAssumption == MaxTokens \in Nat

Token == {"TupleStart", "TupleEnd", "Ident", "Slice", "Comma", "Colon", "Byte"}
End == "End" \* current_token is behind the last token

VARIABLES eaten,   \* the tokens before current_token
          look,    \* the token at current_token
          place,   \* where the parser is
          open,    \* the items of the tuples being parsed, innermost last
          attrs,   \* values of the attributes before the next slice
          ttes,    \* the result: values of the attributes of each slice
          outcome  \* "none" yet, Ok, Err, or a panic

parser == <<eaten, look, place, open, attrs, ttes, outcome>>

Tokens(n) == IF n < MaxTokens THEN Token \cup {End} ELSE {End}

ParserInit ==
  /\ eaten = <<>> /\ look \in Tokens(0)
  /\ place = "tokens"
  /\ open = <<>> /\ attrs = <<>> /\ ttes = <<>>
  /\ outcome = "none"

\* eat: index out of bounds behind the last token.
CanEat == look # End
Eat == eaten' = Append(eaten, look) /\ look' \in Tokens(Len(eaten) + 1)

At(p) == outcome = "none" /\ place = p
Goto(p) == place' = p /\ UNCHANGED outcome
Stop(how) == outcome' = how /\ UNCHANGED <<eaten, look, place, open, attrs, ttes>>

\* What parse_tokens does with a token that begins nothing; the mutant ignores it.
OtherIgnored == UNCHANGED parser
OtherToken == Stop("Err")

\* The while loop of parse_tokens.
ParseTokens ==
  /\ At("tokens")
  /\ \/ look = End /\ Stop("Ok")
     \/ /\ look = "Ident" /\ Goto("attribute")
        /\ UNCHANGED <<eaten, look, open, attrs, ttes>>
     \/ look \notin {End, "Ident", "Slice"} /\ OtherToken

\* A slice without attributes is pushed and not eaten: the loop finds it again,
\* until memory ends.  Here the result stops growing.
BareSlice == At("tokens") /\ look = "Slice"
PushSlice ==
  /\ BareSlice
  /\ Len(ttes) < MaxTokens /\ ttes' = Append(ttes, <<>>)
  /\ UNCHANGED <<eaten, look, place, open, attrs, outcome>>

\* parse_attribute: an identifier, a colon,
ParseIdent ==
  /\ At("attribute")
  /\ \/ look = "Ident" /\ Eat /\ Goto("colon") /\ UNCHANGED <<open, attrs, ttes>>
     \/ look \notin {"Ident", End} /\ Stop("Err")
ParseColon ==
  /\ At("colon")
  /\ \/ look = "Colon" /\ Eat /\ Goto("value") /\ UNCHANGED <<open, attrs, ttes>>
     \/ look \notin {"Colon", End} /\ Stop("Err")

\* What parse_value returns goes to the tuple around it, or to the attribute.
Return(v, stack) ==
  IF stack = <<>>
  THEN attrs' = Append(attrs, v) /\ open' = stack /\ Goto("attributes")
  ELSE /\ open' = [stack EXCEPT ![Len(stack)] = Append(@, v)]
       /\ Goto("tuple") /\ UNCHANGED attrs

\* parse_value: a byte, or a tuple of values; todo! for any other token.
ParseValue ==
  /\ At("value")
  /\ \/ look = "Byte" /\ Eat /\ Return("Byte", open) /\ UNCHANGED ttes
     \/ /\ look = "TupleStart" /\ Eat
        /\ open' = Append(open, <<>>)
        /\ Goto("value") /\ UNCHANGED <<attrs, ttes>>
     \/ look \notin {"Byte", "TupleStart", End} /\ Stop("panic")

\* The items of the innermost tuple, and a mutant that drops the first.
ItemsOnce == Tail(Last(open))
Items == Last(open)

\* The loop of a tuple: a comma and a value, or the closing parenthesis.
ParseTuple ==
  /\ At("tuple")
  /\ \/ look = "Comma" /\ Eat /\ Goto("value") /\ UNCHANGED <<open, attrs, ttes>>
     \/ look = "TupleEnd" /\ Eat /\ Return(Items, Front(open)) /\ UNCHANGED ttes
     \/ look \notin {"Comma", "TupleEnd", End} /\ Stop("Err")

\* parse_attributes: attributes as long as commas follow; the mutant takes one.
MoreAttributesNever == FALSE
MoreAttributes == look = "Comma"
ParseAttributes ==
  /\ At("attributes") /\ CanEat
  /\ \/ MoreAttributes /\ Eat /\ Goto("attribute")
     \/ ~MoreAttributes /\ UNCHANGED <<eaten, look>> /\ Goto("slice")
  /\ UNCHANGED <<open, attrs, ttes>>

\* Then parse_tokens needs a slice.
ParseSlice ==
  /\ At("slice")
  /\ \/ /\ look = "Slice" /\ Eat /\ Goto("tokens")
        /\ ttes' = Append(ttes, attrs) /\ attrs' = <<>>
        /\ UNCHANGED open
     \/ look # "Slice" /\ Stop("Err")

\* Everywhere but in the loop of parse_tokens the end of the tokens panics.
PastTheEnd == outcome = "none" /\ place # "tokens" /\ ~CanEat /\ Stop("panic")

ParserNext == \/ ParseTokens \/ PushSlice \/ ParseIdent \/ ParseColon \/ ParseValue
              \/ ParseTuple \/ ParseAttributes \/ ParseSlice \/ PastTheEnd
-----------------------------------------------------------------------------
(* Reference: the sequences of the format                                    *)
(*   \[attribute: value, ... ||slice||], a value a byte, a tuple of any number *)
(*   of values, or a call: a name and a tuple                                *)

Between(before, between, after) ==
  {a \o between \o b : a \in before, b \in after}

\* Values of a length: lists of them in parentheses, after a name or not.
Values[n \in 0 .. MaxTokens] ==
  LET List[m \in 0 .. n] ==
        IF m = 0 THEN {<<>>}
        ELSE Values[m] \cup
             UNION {Between(Values[k], <<"Comma">>, List[m - k - 1]) : k \in 1 .. m - 2}
      Tuple(m) == IF m < 2 THEN {}
                  ELSE Between({<<"TupleStart">>}, <<>>,
                               Between(List[m - 2], <<>>, {<<"TupleEnd">>}))
  IN IF n = 1 THEN {<<"Byte">>}
     ELSE Tuple(n) \cup Between({<<"Ident">>}, <<>>, Tuple(n - 1))

\* Attributes, lists of them, and sequences of slices with them.
AttributeLists[n \in 0 .. MaxTokens] ==
  IF n < 3 THEN {}
  ELSE Between({<<"Ident", "Colon">>}, <<>>, Values[n - 2])
         \cup UNION {Between(Between({<<"Ident", "Colon">>}, <<>>, Values[k]), <<"Comma">>,
                             AttributeLists[n - k - 3]) : k \in 1 .. n - 3}
WellFormed[n \in 0 .. MaxTokens] ==
  IF n = 0 THEN {<<>>}
  ELSE UNION {Between(AttributeLists[k], <<"Slice">>, WellFormed[n - k - 1]) : k \in 0 .. n - 1}

\* The tokens of a value, of attributes with their slice, and of a result.
RECURSIVE SpellValue(_)
SpellValue(v) ==
  IF v = "Byte" THEN <<v>>
  ELSE LET spelled == [i \in DOMAIN v |-> (IF i = 1 THEN <<>> ELSE <<"Comma">>) \o SpellValue(v[i])]
       IN <<"TupleStart">> \o FlattenSeq(spelled) \o <<"TupleEnd">>
SpellAttributes(as) ==
  FlattenSeq([i \in DOMAIN as |->
    (IF i = 1 THEN <<>> ELSE <<"Comma">>) \o <<"Ident", "Colon">> \o SpellValue(as[i])])
Spell(result) ==
  FlattenSeq([i \in DOMAIN result |-> Append(SpellAttributes(result[i]), "Slice")])
-----------------------------------------------------------------------------
(* Properties *)

\* What the parser accepts it has understood: the result written out is the
\* tokens that were read, with every value at its place and nesting.
ParsedIsRead == outcome = "Ok" => Spell(ttes) = eaten

\* parse_value has a todo! for the rest of the format: a call, and a tuple
\* without items.
NotImplemented ==
  /\ outcome = "panic" /\ place = "value"
  /\ look = "Ident" \/ (look = "TupleEnd" /\ Last(eaten) = "TupleStart")

\* What is in the format is parsed, apart from the values parse_value does not
\* implement: other tokens that end in Err or in a panic (todo! for a value,
\* index out of bounds at the end) are not the beginning of a sequence of the
\* format.
FormatIsParsed ==
  outcome \in {"Err", "panic"} /\ ~NotImplemented =>
    \A n \in 0 .. MaxTokens : \A w \in WellFormed[n] :
      IF look = End THEN w # eaten ELSE ~IsPrefix(Append(eaten, look), w)

\* The parser comes to an end unless it meets a slice without attributes.
ParserEnds == outcome = "none" ~> outcome # "none" \/ BareSlice
=============================================================================

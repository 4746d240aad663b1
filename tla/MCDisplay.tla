------------------------------ MODULE MCDisplay ------------------------------
(* A small instance of Display for TLC. *)
EXTENDS Display

CONSTANTS a, upperA, emoji, barA, lowerBarA, kelvin, k, bash, prose, plan

\* Lower case has a byte more of barA (U+023A), two less of kelvin (U+212A).
SevenChars == {a, upperA, emoji, barA, lowerBarA, kelvin, k}
Small ==
  [c \in SevenChars |-> CASE c = upperA -> a [] c = barA -> lowerBarA [] c = kelvin -> k
                         [] OTHER -> c]
BytesOfChars ==
  [c \in SevenChars |-> CASE c \in {a, upperA, k} -> 1 [] c = barA -> 2
                         [] c \in {lowerBarA, kelvin} -> 3 [] c = emoji -> 4]
UnitsOfChars == [c \in SevenChars |-> IF c = emoji THEN 2 ELSE 1]

TextsTo(n) == UNION {[1 .. i -> {upperA, emoji, barA, kelvin}] : i \in 0 .. n}
LongTexts == TextsTo(5)
ShortTerms == {<<a>>, <<a, a>>, <<lowerBarA>>, <<k, a>>}

Message(role, tools, content) == [role |-> role, hasToolUse |-> tools, content |-> content]
FiveMessages ==
  {Message("user", FALSE, bash), Message("assistant", TRUE, bash),
   Message("assistant", FALSE, bash), Message("assistant", TRUE, plan),
   Message("assistant", TRUE, prose)}
ListsOfThree == UNION {[1 .. i -> FiveMessages] : i \in 0 .. 3}

=============================================================================

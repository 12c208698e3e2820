----------------------------- MODULE MCRedactor -----------------------------
(* An instance of Redactor for TLC: single secrets, one that overlaps      *)
(* itself, two that overlap each other, secrets contained in another, and  *)
(* secrets of runes of two bytes.                                          *)
EXTENDS Redactor

CONSTANTS a, b, lead, cont

SomeSecrets == {
    {},
    {<<a>>},
    {<<a, a>>},
    {<<a, b, a>>},
    {<<a, b>>, <<b, a, a>>},
    {<<lead, cont>>, <<b, lead, cont>>},
    {<<lead, cont, a>>},
    {<<cont, a>>},
    {<<a>>, <<a, b>>},
    {<<b, a>>, <<a, b, a, b>>}}
AllBytes == {a, b, lead, cont}
Pieces == {<<x>> : x \in AllBytes}
    \cup {<<x, y>> : x, y \in AllBytes}
    \cup {<<a, b, a>>, <<b, a, b>>, <<a, b, a, a>>, <<a, b, a, b>>,
          <<b, lead, cont>>}
=============================================================================

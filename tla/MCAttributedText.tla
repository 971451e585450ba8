-------------------------- MODULE MCAttributedText --------------------------
(* Bodies of a few components, well formed or not.                         *)
EXTENDS AttributedText, SequencesExt

CONSTANT MaxShort, MaxLong

Text == [kind |-> "item", n |-> 0]
RangeOf(n) == [kind |-> "range", n |-> n]
Dict(n) == [kind |-> "dict", n |-> n]
AnyToken == {Text} \cup {RangeOf(n) : n \in {0, 1, 2, 6}} \cup {Dict(n) : n \in {-2, 0, 2}}
UsualToken == {Text, RangeOf(1), RangeOf(2), Dict(2)}

MCBodies == {<<Text>> \o b : b \in SeqOf(AnyToken, MaxShort) \cup SeqOf(UsualToken, MaxLong)}
MCOffsets == [i \in 0 .. 2 |-> IF i = 2 THEN 4 ELSE i]
=============================================================================

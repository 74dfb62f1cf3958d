-------------------------------- MODULE MCBoot --------------------------------
(* Boot for TLC: the layouts of the sections, and the resources. *)
EXTENDS Boot

ThreeLayouts == {{0}, {2}, {1, 4}}

Texts == {Text(id, length, text) : id \in 1..2, length \in {0, 3}, text \in {"a", "b"}}
Tables == {<<>>} \cup {<<s>> : s \in Texts} \cup {<<s, t>> : s \in Texts, t \in {Text(2, 3, "c")}}

English(items)  == Block(Strings, 1, items)
Japanese(items) == Block(Strings, 2, items)
Picture(id)     == Block(Images, id, <<[kind |-> "data", length |-> 5]>>)
Achieved(items) == Block(Metadata, XACH, items)

Lists == {<<>>, <<Achievement(1, 1, 2, 3, 1)>>,
          <<Achievement(2, 2, 2, 1, 1), Achievement(1, 1, 1, 2, 2), Achievement(2, 1, 3, 2, 2)>>}

(* The blocks in several orders, the languages apart or the same. *)
Contained ==
    {<<English(s), Achieved(l), Japanese(<<Text(1, 2, "j")>>), Picture(1)>> : s \in Tables, l \in Lists}
      \cup {<<Picture(2), Achieved(l), Picture(1), English(s), English(<<>>)>> : s \in Tables, l \in Lists}

Resources ==
    {[size |-> 1000, signed |-> TRUE, blocks |-> b, spare |-> 0, free |-> n] : b \in Contained, n \in {0, 2}}
      \cup {[size |-> size, signed |-> ok, blocks |-> <<English(<<>>)>>, spare |-> 1, free |-> 0] :
               size \in {HeaderSize, HeaderSize + 1}, ok \in BOOLEAN}
==============================================================================

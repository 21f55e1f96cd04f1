----------------------------- MODULE MCVsValues ----------------------------
(* Constants of the run of the values.                                      *)
EXTENDS VsValues

MCLists(items, n) == {List(s) : s \in [1 .. n -> items]}

\* Every list of whole numbers of up to one item more than the array has
\* elements, some with items to be truncated or that are no numbers; numbers, and no value.
MCValues ==
  UNION {MCLists({0, 2}, n) : n \in 0 .. 4} \cup MCLists({1, 3, NaN}, 2)
    \cup MCLists({1, NaN}, 3) \cup {Number(x) : x \in {0, 1, 2, 3, NaN}}
    \cup {NoValue}
=============================================================================

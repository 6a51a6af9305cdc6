---------------------------- MODULE MCLinkSymbols ----------------------------
(* Three names, two of them in one chain; an object file, an archive of two  *)
(* members that is given twice, and another object file in between.          *)
EXTENDS LinkSymbols

MCHash == <<1, 1, 2>>
MCArgs == <<[archive |-> FALSE, members |-> <<1>>],
            [archive |-> TRUE, members |-> <<2, 3>>],
            [archive |-> FALSE, members |-> <<4>>],
            [archive |-> FALSE, members |-> <<1>>],
            [archive |-> TRUE, members |-> <<2, 3>>]>>

\* Symbol tables of up to k entries of these kinds.
Tables(k, kinds) ==
  {c \in [Name -> kinds \cup {"none"}] : Cardinality({x \in Name : c[x] # "none"}) <= k}
MCContents ==
  {<<a, b, c, d>> : a \in Tables(2, {"undef"}), b \in Tables(1, {"section", "abs"}),
                    c \in Tables(2, {"undef", "section"}), d \in Tables(1, {"undef", "section"})}
=============================================================================

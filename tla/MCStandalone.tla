---------------------------- MODULE MCStandalone ----------------------------
(* Four sections: one that is kept, seg_init with three words, and two of  *)
(* which one is RAM, in any order, one behind the other or apart.          *)
EXTENDS Standalone

CONSTANTS
  Firsts,   \* the section in front of the others
  Images    \* the contents of the sections of RAM

Segment(kind, where, addr, words, lines) ==
  [kind |-> kind, pm |-> where # "dm", narrow |-> where = "narrow",
   addr |-> addr, words |-> words, lines |-> lines]

\* .file, a tag and two functions, each followed by its auxiliary entry.
Entry(fcn, numaux) == [fcn |-> fcn, numaux |-> numaux]
Syms == << Entry(FALSE, 1), Entry(FALSE, 0), Entry(TRUE, 1), Entry(FALSE, 0),
           Entry(FALSE, 1), Entry(TRUE, 0), Entry(FALSE, 0), Entry(TRUE, 1), Entry(FALSE, 0) >>

Table == Segment("init", "pm", 20, <<0, 1, 2>>, 0)
Rams  == {Segment("ram", where, 30, words, 1) : where \in {"dm", "pm", "narrow"}, words \in Images}
Others(addrs) ==
  {Segment(k[1], k[2], a, words, 2) :
     k \in {<<"ram", "dm">>, <<"ram", "pm">>, <<"kept", "pm">>}, a \in addrs, words \in Images}

MCInputs ==
  { [sect |-> q, syms |-> Syms, inits |-> 21] : q \in
      UNION {UNION {{<<f, Table, a, b>>, <<f, a, Table, b>>, <<f, a, b, Table>>} :
                      b \in Others({30 + Len(a.words), 40})} : a \in Rams, f \in Firsts} }

MCImages == { <<>>, <<1>>, <<0, 0, 0>>, <<1, 0, 0, 2, 2>>,
              <<1, 0, 0, 0, 0, 0, 0, 0, 0>>, <<2, 2, 2, 2, 1>> }
Header    == Segment("kept", "pm", 10, <<1, 2>>, 1)
MCFirsts  == { Header }
FewImages == { <<>>, <<1, 0, 2>> }
NoHeader  == { Segment("ram", "dm", 10, <<1>>, 1), Segment("ram", "pm", 10, <<>>, 0) }
=============================================================================

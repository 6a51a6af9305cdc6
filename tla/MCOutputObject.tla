-------------------------- MODULE MCOutputObject --------------------------
(* Symbol tables as the assembler writes them: .file, then functions, tags *)
(* and what else the compiler describes, then statics, then the globals.   *)
(* One more slot in a file would fill the vector.                          *)
EXTENDS OutputObject

Sym(class, name, scnum, fcn, numaux) ==
  [class |-> class, name |-> name, scnum |-> scnum, fcn |-> fcn, agg |-> FALSE, numaux |-> numaux]
Agg(class, scnum) == [Sym(class, 0, scnum, FALSE, 1) EXCEPT !.agg = TRUE]
Numbers(tagndx, endndx) == [class |-> "aux", tagndx |-> tagndx, endndx |-> endndx]

\* The parts of a table; b is the number of the first entry of the part.  Numbers of
\* 3 that are no tag and no end are a dimension or the length of a section.
FilePart == << Sym("file", 0, 0, FALSE, 1), Numbers(0, 0) >>
TagPart(b) == << Sym("tag", 0, -1, FALSE, 1), Numbers(0, b + 4),
                 Agg(IF b = 0 THEN "field" ELSE "var", -1), Numbers(b, 3) >>
FunctionPart(class, name, b, tag) ==
  << Sym(class, name, 1, TRUE, 1), Numbers(tag, b + 4),
     IF name = 3 THEN Sym("stat", 0, 1, TRUE, 1) ELSE Sym("block", 0, 1, FALSE, 1), Numbers(0, b + 4) >>
StaticPart(tag) ==
  << IF tag = 0 THEN Sym("stat", 0, 1, FALSE, 1) ELSE Agg("stat", 1),
     Numbers(IF tag = 0 THEN 3 ELSE tag, 3), Sym("stat", 0, 1, FALSE, 0) >>

\* Functions 1, 2 and 3, the variable 4 with its tag, and 5, which is absolute.
Refer(name) == << Sym("ext", name, 0, FALSE, 0) >>
Absolute    == << Sym("ext", 5, -1, FALSE, 0) >>
TagOfFile(t) == IF Len(t) > 4 /\ t[3].class = "tag" THEN 2 ELSE 0
Variable(t)  == << Sym("ext", 4, 1, FALSE, 1), Numbers(TagOfFile(t), 3) >>

Tables(function, Globals(_)) ==
  LET Tagged(head) == { head, head \o TagPart(Len(head)) }
      Functions(head) ==
        LET b == Len(head)
            tag == IF b >= 4 THEN b - 4 ELSE 0
        IN { head, head \o FunctionPart("stat", 0, b, tag), head \o FunctionPart("ext", function, b, tag) }
  IN UNION { {t \o StaticPart(TagOfFile(t)) \o g : g \in Globals(t)} :
               t \in UNION {Functions(h) : h \in Tagged(<<>>) \cup Tagged(FilePart)} }

MCLinks ==
  { <<a, b, c>> : a \in Tables(1, LAMBDA t : {Refer(2), Refer(4)}),
                  b \in {<<>>} \cup Tables(2, LAMBDA t : {Absolute, Variable(t)}),
                  c \in {t \in Tables(3, LAMBDA t : {Refer(4)}) : \A j \in DOMAIN t : t[j].class # "tag"} }
=============================================================================

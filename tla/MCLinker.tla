------------------------------ MODULE MCLinker ------------------------------
(***************************************************************************)
(* Command lines for the model checker: one or two objects from a menu, or  *)
(* three from a smaller one.  An object has up to two symbols of its own    *)
(* and a relocation to each, to a section symbol or to none.               *)
(***************************************************************************)
EXTENDS LinkerProperties

CONSTANT MaxFiles

MCNames == {"text", "bss", "data", "main", "g"}

Entry(name, section, scope, type, offset, size) ==
    [name |-> name, section |-> section, scope |-> scope, type |-> type,
     offset |-> offset, size |-> size]
Heads ==
    <<Entry("text", "text", "local", "section", 0, 0),
      Entry("bss", "bss", "local", "section", 0, 0),
      Entry("data", "data", "local", "section", 0, 0)>>
Extern(name) == Entry(name, "none", "global", "extern", 0, 0)

Mains == {Entry("main", "text", "global", "function", 4, 4),
          Entry("main", "text", "local", "function", 8, 4),
          Extern("main")}
Gs == {Entry("g", "data", "global", "data", 4, 4),
       Entry("g", "data", "global", "data", 0, 0),
       Entry("g", "bss", "global", "data", 2, 2),
       Entry("g", "none", "global", "data", 0, 0),
       Extern("g")}
Singles == {<<s>> : s \in Mains \cup Gs}
Pairs == {<<s, t>> : s \in Mains, t \in Gs} \cup {<<t, s>> : s \in Mains, t \in Gs}

\* Sections as long as the symbols need them, a text of at least one word.
Extent(own, section, least) ==
    LET ends == {own[n].offset : n \in {m \in DOMAIN own : own[m].section = section}}
    IN  CHOOSE end \in ends \cup {least} : \A e \in ends \cup {least} : e <= end

Object(own, indexes, least) ==
    LET counters == [text |-> Extent(own, "text", least), data |-> Extent(own, "data", 0),
                     bss |-> Extent(own, "bss", 0)]
        text == [n \in 1 .. counters.text \div 4 |->
                    [line |-> n, at |-> 4 * (n - 1), size |-> 4, group |-> "mov"]]
        data == IF counters.data = 0 THEN << >>
                ELSE <<[line |-> 9, at |-> 0, size |-> counters.data, group |-> "datum"]>>
    IN  MakeObject(counters, [text |-> text, data |-> data], Heads \o own,
                   [n \in DOMAIN indexes |->
                       [index |-> indexes[n],
                        offset |-> counters.text - 4 * (Len(indexes) - n + 1)]])

\* No relocation, one to a section symbol, or one to each own symbol.
Objects ==
    {Object(own, << >>, 0) : own \in {<< >>} \cup Singles}
    \cup {Object(own, <<0>>, 4) : own \in {<< >>} \cup Singles}
    \cup {Object(own, [n \in DOMAIN own |-> n + 2], 4 * Len(own)) : own \in Singles \cup Pairs}

FewObjects == {Object(own, <<3>>, 4) : own \in Singles}

MCInputs ==
    {<<o>> : o \in Objects} \cup (Objects \X Objects)
    \cup (IF MaxFiles >= 3 THEN FewObjects \X FewObjects \X FewObjects ELSE {})
=============================================================================

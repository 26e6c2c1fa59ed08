-------------------------------- MODULE MCDocuments --------------------------------
EXTENDS Documents

Leaf(value) == NodeOf("", value)
Null == [Empty EXCEPT !.null = TRUE]
Object == Add(Empty, "b", Leaf("1"))
Siblings == Add(Add(Add(NodeOf("r", ""), "a", Leaf("1")), "b", Leaf("2")), "c", Object)
MCRoots == {Empty, X!Create("r", "1.0", "UTF-8"), Siblings}
MCKeys == {"a", "a.b", "a(2)", "b(3).a"}
MCValues ==
    {NodeOf("q\"", ""), NodeOf("p\\q", "1"), Leaf("\"\n&"), Leaf("\\n"), NodeOf("a.b", "x"),
     NodeOf("A", "x\n<y"), [Null EXCEPT !.name = "\\b"], [Object EXCEPT !.name = "t\\"]}
MCArrays == {<<>>, <<Leaf("1")>>, <<Object, Object>>}
MCTexts == {"<&x", "y "}
Pretty == [indentation |-> 2, startDepth |-> 0, breakLine |-> TRUE]
Compact == [indentation |-> 0, startDepth |-> 0, breakLine |-> FALSE]
MCFormats == {Pretty, Compact}
=============================================================================

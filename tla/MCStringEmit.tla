---------------------------- MODULE MCStringEmit ----------------------------
EXTENDS StringEmit

Units ==
    {<<"a">>, <<"Q">>, <<"ctl">>, <<"L2", "T">>, <<"L3", "T", "T">>,
     <<"L4", "T", "T", "T">>, <<"T">>, <<"X">>, <<"L3", "T">>}
Strings == UNION {[1..n -> Units] : n \in 0..3}
Rep(c, n) == [k \in 1..n |-> c]

\* Every way to write a string.
MCTexts ==
    {Rep("a", k) \o FlattenSeq(u) : k \in {0, 2, 5}, u \in Strings}
    \cup {Rep("ctl", 4) \o FlattenSeq(u) : u \in Strings}
    \cup {<<"/">> \o Rep("a", k) : k \in 0..6}
MCBuffers ==
    {[bytes |-> <<>>, spare |-> 0], [bytes |-> <<"[">>, spare |-> 30],
     [bytes |-> Rep("a", 34), spare |-> 3]}
MCFlagSets ==
    {{}, {"unicode", "slashes", "substitute"}, {"ignore"}, {"partial", "key"}, {"partial"}}

\* Strings with characters the hexadecimal flags are about.
Chars == {"a", "u", "Q", "\\", "ctl", "<", "&"}
HexTexts ==
    UNION {[1..n -> Chars] : n \in 0..3}
    \cup {<<"'", ">">>, <<"L2", "T", "<">>, <<"X", "Q">>, Rep("<", 9)}
HexBuffers ==
    {[bytes |-> <<>>, spare |-> 0], [bytes |-> <<"<", "\\">>, spare |-> 40],
     [bytes |-> Rep("a", 34), spare |-> 3]}
HexFlagSets ==
    {{"tag"}, {"quot"}, {"tag", "quot"}, {"tag", "amp", "apos", "quot", "ignore"}}

MCJobs ==
    [text : MCTexts, flags : MCFlagSets, buffer : MCBuffers]
    \cup [text : HexTexts, flags : HexFlagSets, buffer : HexBuffers]
=============================================================================

------------------------------- MODULE MCUtf8 -------------------------------
EXTENDS Utf8

\* The bytes at which one of the comparisons of the code changes its answer.
Edges ==
    {65, 127, 128, 143, 144, 159, 160, 191, 192, 193, 194, 223, 224, 225, 237,
     239, 240, 244, 245}
Follow == {65, 128, 144, 191, 194, 255}

MCTexts ==
    UNION {[1..n -> Edges] : n \in 0..2}
    \cup {<<a, b, c>> : a \in {65, 194, 224, 225, 237, 239, 240}, b \in Edges, c \in Follow}
    \cup {<<a, b, c, d>> : a \in {65, 225, 240, 241, 244}, b \in Follow \cup {143},
                           c, d \in Follow}
=============================================================================

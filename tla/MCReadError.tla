----------------------------- MODULE MCReadError -----------------------------
(* Texts of up to three lexemes: literals beside strings and comments that    *)
(* hold the same letters, quotes, escapes and comment marks.                  *)
EXTENDS ReadError

q == "\""
bs == "\\"
Lex(k, c) == [kind |-> k, chars |-> c]
MCLexemes ==
    {Lex("plain", <<"1">>), Lex("plain", <<"n", "u", "l", "l">>),
     Lex("plain", <<q, "i", "n", "f", q>>), Lex("plain", <<q, bs, q, "n", "a", "n", q>>),
     Lex("plain", <<q, bs, bs, q>>), Lex("plain", <<q, "/", "/", q>>),
     Lex("overflow", <<"1", "e", "9">>),
     Lex("literal", <<"I", "n", "f">>), Lex("literal", <<"n", "A", "N">>),
     Lex("signed", <<"-", "i", "n", "F">>),
     Lex("comment", <<"/", "/", "i", "n", "f", "CR">>), Lex("comment", <<"/", "/", q, "LF">>),
     Lex("comment", <<"/", "*", q, "*", "/">>), Lex("comment", <<"/", "*", "/", "n", "a", "n", "*", "/">>),
     Lex("plain", <<"LF", "1", "LF">>), Lex("plain", <<q, "0xC3", "0xA9", q>>),
     Lex("badtext", <<q, "0xFF", q>>), Lex("foreign", <<"0xC3", "0xA9">>), Lex("broken", <<"0xFF">>)}
Overflow == Lex("overflow", <<"1", "e", "9">>)
BOM == Lex("bom", <<"0xEF", "0xBB", "0xBF">>)
Cut == Lex("cut", <<>>)
LastComment == Lex("comment", <<"/", "/", "i", "n", "f">>)
Texts(n) == [1..n -> MCLexemes]
MCTexts ==
    Texts(1) \cup Texts(2)
    \cup {<<Overflow>> \o t : t \in Texts(2)} \cup {t \o <<Overflow, Cut>> : t \in Texts(1)}
    \cup {t \o <<LastComment>> : t \in {<<Overflow>>} \cup Texts(1)}
    \cup {t \o <<Cut>> : t \in Texts(2)} \cup {<<BOM>> \o t \o <<Cut>> : t \in Texts(1) \cup Texts(2)}
MCReads == [lexemes : MCTexts, relaxed : BOOLEAN, bignum : BOOLEAN, utf8 : BOOLEAN]
=============================================================================

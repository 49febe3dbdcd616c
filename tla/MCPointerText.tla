---------------------------- MODULE MCPointerText ----------------------------
(* All texts of up to five characters over the ones the parser tells apart, *)
(* and numerals of one digit more than MaxDigits around SizeMax.            *)
EXTENDS PointerText

MCChars == {"/", "~", "0", "1", "2", "5", "6", "a"}
MCPointers ==
    UNION {[1..n -> {"/", "~", "0", "1", "a"}] : n \in 0..5}
    \cup {<<"/">> \o d : d \in UNION {[1..n -> {"0", "2", "5", "6"}] : n \in 1..4}}
=============================================================================

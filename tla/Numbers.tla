------------------------------- MODULE Numbers -------------------------------
(***************************************************************************)
(* A JSON number becomes a PHP value: fj_num_to_zval and fj_raw_to_zval,   *)
(* with the decimal writers they use.  Integers have IntBits bits as the   *)
(* reader gives them (64) and `bits' as a zend_long (64, or 32 on a 32-bit *)
(* build); arithmetic keeps those widths.  A number of the text is         *)
(* [neg, mag, fraction], fraction: '.' or 'e' in it; the reader's value is *)
(* [type, n] and a PHP value [type, n, neg, digits].                       *)
(***************************************************************************)
EXTENDS Integers, Sequences, SequencesExt

CONSTANTS
    IntBits,
    TMP, BUF   \* char tmp[24] and char buf[24]

ASSUME WidthAssumption == IntBits \in Nat \ {0}

UINT_MAX == 2^IntBits - 1
INT_MIN == -(2^(IntBits - 1))
ZEND_LONG_MAX(bits) == 2^(bits - 1) - 1
ZEND_LONG_MIN(bits) == -(2^(bits - 1))

\* A cast to an unsigned or signed integer of some width.
Unsigned(n, bits) == n % 2^bits
Signed(n, bits) ==
    LET r == Unsigned(n, bits) IN IF r >= 2^(bits - 1) THEN r - 2^bits ELSE r

Value(x) == IF x.neg THEN -x.mag ELSE x.mag

(***************************************************************************)
(* yyjson_read_opts, a library function: the values the reader may give a  *)
(* number.  Under YYJSON_READ_BIGNUM_AS_RAW, which JSON_BIGINT_AS_STRING   *)
(* sets, an integer too large for it is left as text, and so is a real too *)
(* large for a double.                                                     *)
(***************************************************************************)
ReaderTypes(x, bigint) ==
    IF x.fraction THEN {"real"} \cup (IF bigint THEN {"raw"} ELSE {})
    ELSE IF Value(x) \in 0..UINT_MAX THEN {"uint"}
    ELSE IF Value(x) \in INT_MIN..-1 THEN {"sint"}
    ELSE {IF bigint THEN "raw" ELSE "real"}

(***************************************************************************)
(* The decimal writers                                                     *)
(***************************************************************************)
\* The do-while loop ends when nothing is left after a digit.
fj_write_uint64_dec ==
    LET digits[u \in 0..UINT_MAX] ==
            IF u \div 10 = 0 THEN <<u % 10>> ELSE Append(digits[u \div 10], u % 10)
    IN digits

\* fj_write_sint64_dec negates without overflow: -(s + 1), then one more.
Magnitude(n) == Unsigned(Unsigned(Signed(-Signed(n + 1, IntBits), IntBits), IntBits) + 1, IntBits)

(***************************************************************************)
(* The conversions                                                         *)
(***************************************************************************)
ZVAL_LONG(n, bits) == [type |-> "long", n |-> Signed(n, bits), neg |-> FALSE, digits |-> <<>>]
ZVAL_DOUBLE(n) == [type |-> "double", n |-> n, neg |-> FALSE, digits |-> <<>>]
ZVAL_STRINGL(neg, digits) == [type |-> "string", n |-> 0, neg |-> neg, digits |-> digits]

\* Mutant: every unsigned integer is cast.
FitsLong_Always(n, bits) == TRUE
FitsLong(n, bits) == n <= Unsigned(ZEND_LONG_MAX(bits), IntBits)

fj_num_to_zval(val, bigint, bits) ==
    CASE val.type = "real" -> ZVAL_DOUBLE(val.n)
      [] val.type = "uint" ->
           IF FitsLong(val.n, bits) THEN ZVAL_LONG(val.n, bits)
           ELSE IF bigint THEN ZVAL_STRINGL(FALSE, fj_write_uint64_dec[val.n])
           ELSE ZVAL_DOUBLE(val.n)
      [] val.type = "sint" ->
           IF val.n >= ZEND_LONG_MIN(bits) THEN ZVAL_LONG(val.n, bits)
           ELSE IF bigint THEN ZVAL_STRINGL(TRUE, fj_write_uint64_dec[Magnitude(val.n)])
           ELSE ZVAL_DOUBLE(val.n)

\* The digits of a number in the text.
Numeral(mag) ==
    LET places == CHOOSE n \in 1..mag + 1 : mag < 10^n /\ (n = 1 \/ mag >= 10^(n - 1))
    IN [k \in 1..places |-> (mag \div 10^(places - k)) % 10]

\* Text is a float if it has '.', 'e' or 'E' in it, and a string otherwise.
fj_raw_to_zval(val, x) ==
    IF x.fraction THEN ZVAL_DOUBLE(val.n) ELSE ZVAL_STRINGL(x.neg, Numeral(x.mag))

\* FJ_NUM_TO_ZVAL and FJ_RAW_TO_ZVAL, by the type of the reader's value.
NumberToZval(val, x, bigint, bits) ==
    IF val.type = "raw" THEN fj_raw_to_zval(val, x) ELSE fj_num_to_zval(val, bigint, bits)

(***************************************************************************)
(* What a conversion has to give: a PHP integer or string has exactly the  *)
(* value the text wrote; a number becomes a float only if it is written as *)
(* one, or does not fit an integer and strings were not asked for, and a   *)
(* string only if it does not fit and they were; its digits have no        *)
(* leading zero and fit the two arrays they go through.                    *)
(***************************************************************************)
KeepsValue(out, x, bigint, bits) ==
    LET fits == Value(x) \in ZEND_LONG_MIN(bits)..ZEND_LONG_MAX(bits)
        spelled == FoldLeft(LAMBDA n, d : n * 10 + d, 0, out.digits)
    IN CASE out.type = "long" -> ~x.fraction /\ fits /\ out.n = Value(x)
         [] out.type = "double" -> out.n = Value(x) /\ (x.fraction \/ ~(fits \/ bigint))
         [] out.type = "string" ->
              /\ bigint /\ ~x.fraction /\ ~fits
              /\ out.neg = x.neg /\ spelled = x.mag /\ out.digits[1] /= 0
              /\ Value(x) \in INT_MIN..UINT_MAX =>
                     /\ Len(out.digits) <= TMP
                     /\ Len(out.digits) + (IF out.neg THEN 1 ELSE 0) <= BUF
=============================================================================

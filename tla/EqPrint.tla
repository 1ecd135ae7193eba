------------------------------ MODULE EqPrint ------------------------------
(***************************************************************************)
(* The text of an equation: eq_print and the size of its buffer, of        *)
(* src/gens/eq_gen/eq.c, and how a person reads the text.  A text is a     *)
(* sequence of characters; nr[p] is the number at position p of a chain.   *)
(***************************************************************************)
EXTENDS Integers, Sequences

Digit == <<"0", "1", "2", "3", "4", "5", "6", "7", "8", "9">>

(* Numbers as gmp_sprintf prints them.                                     *)
Digits(n) ==
    LET digits[m \in 0 .. n] ==
            IF m < 10 THEN <<Digit[m + 1]>>
            ELSE Append(digits[m \div 10], Digit[(m % 10) + 1])
    IN  digits[n]

(* Zero has a digit although the loop would count none; numbers of a chain *)
(* are not negative.                                                       *)
int_len(val) ==
    LET divisions[t \in 0 .. val] == IF t = 0 THEN 0 ELSE divisions[t \div 10] + 1
    IN  IF val = 0 THEN 1 ELSE divisions[val]

(* With the final zero.                                                    *)
eq_calc_str_size(s, nr) ==
    LET res[i \in 0 .. Len(s)] ==
            IF i = 0 THEN 1
            ELSE res[i - 1] + IF s[i] = "nr" THEN int_len(nr[i]) ELSE 1
    IN  res[Len(s)]

eq_elem_print(elem, val) == IF elem = "nr" THEN Digits(val) ELSE <<elem>>

eq_print(s, nr) ==
    LET buffer[i \in 0 .. Len(s)] ==
            IF i = 0 THEN <<>> ELSE buffer[i - 1] \o eq_elem_print(s[i], nr[i])
    IN  buffer[Len(s)]

-----------------------------------------------------------------------------
(* The reader: digits that follow each other are one number.               *)

IsDigit(c) == \E d \in 1 .. 10 : Digit[d] = c
ValueOfDigit(c) == (CHOOSE d \in 1 .. 10 : Digit[d] = c) - 1

AsRead(text) ==
    LET read[i \in 0 .. Len(text)] ==
            IF i = 0 THEN [elems |-> <<>>, nr |-> <<>>]
            ELSE LET r == read[i - 1]
                     last == Len(r.nr)
                 IN  IF ~IsDigit(text[i])
                     THEN [elems |-> Append(r.elems, text[i]), nr |-> Append(r.nr, 0)]
                     ELSE IF i > 1 /\ IsDigit(text[i - 1])
                     THEN [r EXCEPT !.nr[last] = 10 * @ + ValueOfDigit(text[i])]
                     ELSE [elems |-> Append(r.elems, "nr"),
                           nr |-> Append(r.nr, ValueOfDigit(text[i]))]
    IN  read[Len(text)]
=============================================================================

-------------------------------- MODULE Text --------------------------------
(* std::string, as far as the lexer and the values of AkarScript use it.      *)
EXTENDS Integers, Sequences, FiniteSetsExt

\* The n characters of s from place i on, "" when there are not so many.
Piece(s, i, n) == IF i + n - 1 > Len(s) THEN "" ELSE SubSeq(s, i, i + n - 1)
Char(s, i) == Piece(s, i, 1)
Chars(s) == {Char(s, i) : i \in 1..Len(s)}

\* The first place of s, from i on, whose character is none of cs.
EndOf(s, i, cs) == Min({j \in i..(Len(s) + 1) : Char(s, j) \notin cs})

\* akar_hash_symbol: the name that a stripped object file has for x; no two names
\* of a program are taken to have one hash.
Hashed(x) == "s_" \o x

\* std::string's operator<, for the printable characters but the grave accent.
Ascii == " !\"#$%&'()*+,-./0123456789:;<=>?@ABCDEFGHIJKLMNOPQRSTUVWXYZ[\\]^_abcdefghijklmnopqrstuvwxyz{|}~"
Place(c) == CHOOSE i \in 1..Len(Ascii) : Char(Ascii, i) = c
Precedes(s, t) ==
    \E i \in 1..Len(t) :
        /\ i <= Len(s) + 1 /\ SubSeq(s, 1, i - 1) = SubSeq(t, 1, i - 1)
        /\ i > Len(s) \/ (i <= Len(s) /\ Place(Char(s, i)) < Place(Char(t, i)))
=============================================================================

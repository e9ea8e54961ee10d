----------------------------- MODULE MCVprintf -----------------------------
(* Formats of one or two directives with numbers at the edges of the chunks   *)
(* of divmod10 and of the words of 16 bits, and formats that end too early.  *)
EXTENDS PrintfDiscipline

Item(text, args) == [text |-> text, args |-> args]
Of(n) == <<[num |-> n, text |-> <<>>]>>
OfText(s) == <<[num |-> 0, text |-> s]>>

Numbers == {0, 9, 10, 999, 1000, 12045, 2^15 - 1, 2^15, 2^16 - 1}
Numeric ==
    {<<"%", "d">>, <<"%", "u">>, <<"%", "l", "u">>, <<"%", "X">>, <<"%", "0", "8", "X">>,
     <<"%", "0", "2", "x">>, <<"%", "0", "6", "l", "x">>}
Items ==
    {Item(t, Of(n)) : t \in Numeric, n \in Numbers}
        \union {Item(<<"%", "s">>, OfText(s)) : s \in {<<>>, <<"a", "%", "d">>}}
        \union {Item(<<"%", "c">>, OfText(<<"a">>)), Item(<<"%", "%">>, <<>>), Item(<<"a">>, <<>>)}

(* Directives that vsnprintf does not know, or whose width it ignores. *)
Strange ==
    {Item(<<"%", ".", "2", "f">>, <<>>), Item(<<"%", "l", "d">>, <<>>),
     Item(<<"%", "5", "d">>, Of(7)), Item(<<"%", "6", "x">>, Of(7))}

Ends == {<<>>, <<"%">>, <<"%", "5">>, <<"%", "l">>}

Call(i, j, end, size) ==
    LET format == i.text \o j.text \o end
    IN  [memory |-> format \o <<NUL>> \o <<"b", "a">> \o <<NUL>>, length |-> Len(format),
         args |-> i.args \o j.args, size |-> size]

MCCalls ==
    {Call(i, j, <<>>, size) : i \in Items, j \in Items, size \in {6, 30}}
        \union {Call(i, Item(<<>>, <<>>), <<>>, 30) : i \in Items}
        \union {Call(i, j, <<>>, 30) : i \in Strange, j \in Items}
        \union {Call(i, j, e, 30) : i \in {Item(<<"a">>, <<>>)},
                                    j \in {Item(<<"%", "d">>, Of(9)), Item(<<"%", "%">>, <<>>)},
                                    e \in Ends}

MCHalf == 2^15
MCCharacters ==
    {Numerals[d] : d \in 1 .. 16} \union Conversions \union {"%", "-", ".", "f", "a", "b", NUL}

(* As many arguments as the directives behind each position take. *)
MCNeeds ==
    [c \in MCCalls |->
        LET m == c.memory
            need[p \in 1 .. Len(m)] ==
                IF m[p] = NUL THEN 0
                ELSE IF m[p] # "%" THEN need[p + 1]
                ELSE IF m[p + 1] = NUL THEN 0
                ELSE Takes(m, p) + need[After(m, p)]
        IN  need]
=============================================================================

------------------------------ MODULE MCExchange ------------------------------
(* What clients send: every piece of a target with every other, every escape
   in a query, documents of two levels and their beginnings. *)
EXTENDS Exchange

Sentence(m, target, v, eol, pairs) ==
    [method |-> m, target |-> target, version |-> v, eol |-> eol, pairs |-> pairs]
http(n) == Name \o <<n>>
Get(target) == Sentence(Spelling["GET"], target, http("1"), "CR", <<>>)
To(m, segment) == Sentence(Spelling[m], <<"/">> \o segment, http("1"), "LF", <<>>)

-----------------------------------------------------------------------------
Schemes == {<<>>, <<"a", ":">>, <<"a", "+", ":">>}
Literals == {<<":", ":">>, <<"1", ":", ":", "a">>, <<":", ":", "1", ".", "1", ".", "1", ".", "1">>,
             <<"ctl6", "1", ":", "1", ":", "1">>, <<"1", ":", "1", ":", "1", ":", "1", ":",
             "1", ":", "1", ":", "1", ":", "1">>, <<"v", "1", ".", ":">>, <<"a">>, <<>>}
Hosts == {<<>>, <<"a">>, <<"%", "1", "a">>, <<"@">>}
         \cup {<<"[">> \o l \o <<"]">> : l \in Literals}
Users == {<<>>, <<"a", "@">>, <<"a", ":", "@">>, <<"1", ":", "a", "@">>}
Ports == {<<>>, <<":">>, <<":", "1">>, <<":", "a">>}
Authorities == {<<>>} \cup {<<"/", "/">> \o u \o h \o n : <<u, h, n>> \in Users \X Hosts \X Ports}
Paths == {<<>>, <<"/">>, <<"a">>, <<"/", "%", "a", "1", "/", ":">>, <<"%", "1">>}
Queries == {<<>>, <<"?">>, <<"?", "a", "/", "?">>, <<"?", "%", "1", "1">>, <<"?", "%">>}
Fragments == {<<>>, <<"#">>, <<"#", "a", "?">>, <<"#", "#">>, <<"#", "%", "1", "a">>}

(* From every state of the machine, any two bytes. *)
Letters == {"a", "/", ":", "?", "#", "%", "1", "@", "_", "[", "]", "other"}
Reached == {<<>>, <<"a">>, <<"a", ":">>, <<"1">>, <<"%", "1">>, <<"/">>, <<"/", "a">>, <<"/", "/">>,
            <<"/", "/", "a">>, <<"/", "/", "a", ":">>, <<"/", "/", "a", ":", "a">>,
            <<"/", "/", "a", "@">>, <<"/", "/", "a", "@", "a">>, <<"/", "/", "a", "@", "a", ":">>,
            <<"/", "/", "[", ":", ":", "]">>, <<"?">>, <<"?", "a">>, <<"#">>, <<"#", "a">>}

Targets == {s \o t : <<s, t>> \in Reached \X UNION {[1..n -> Letters] : n \in 0..2}}
           \cup {s \o a \o <<"/">> : <<s, a>> \in Schemes \X Authorities}
           \cup {s \o x \o q \o f : <<s, x, q, f>> \in Schemes \X Paths \X Queries \X Fragments}
           \cup {<<"/", "/", "a">> \o x \o q : <<x, q>> \in Paths \X Queries}

KeysSent   == {<<"a">>, <<"&", "=">>, <<>>}
ValuesSent == {<<>>, <<"%">>, <<"+", " ">>, <<"a", "/">>}
PairsSent  == UNION {[1..n -> KeysSent \X ValuesSent] : n \in 1..2}

WithQuery(pairs) ==
    Sentence(Spelling["GET"], <<"/", "?">> \o QueryOf(pairs), http("0"), "LF", pairs)

Methods == {Spelling[m] : m \in Known}
           \cup {<<>>, <<"G", "E">>, <<"G", "E", "T", "1">>, <<"g">>, [i \in 1..21 |-> "A"]}
Versions == {http("0"), http("1"), http("2"), Name, <<"H">>, <<>>, http("1") \o <<"1">>}

MCRequestLines ==
    {Get(t) : t \in Targets}
    \cup {WithQuery(pairs) : pairs \in PairsSent}
    \cup {Sentence(m, <<"/">>, http("1"), "LF", <<>>) : m \in Methods}
    \cup {Sentence(Spelling["PUT"], <<"/">>, v, e, <<>>) : <<v, e>> \in Versions \X {"CR", "LF"}}
    \cup {To(m, Endpoints[h].segment) : <<m, h>> \in {"GET", "POST"} \X DOMAIN Endpoints}
    \cup {To("POST", <<"/", "/">> \o Endpoints["NewLine"].segment \o <<"/">>),
          To("GET", <<"/", "a", "/">> \o Endpoints["ClearLines"].segment),
          To("GET", <<"o">>), To("POST", <<"o">>)}

-----------------------------------------------------------------------------
Chars == {"a", "\"", "\\", "\n", "/", "BS"}
Strings(n) == UNION {[1..i -> Chars] : i \in 0..n}

Integer(n) == Number(n, 0, <<>>)
Decimal(m, d) == Number(m, d, <<>>)

(* Every kind of exponent, and decimals that dump rounds up, down and away;
   a long at its limits. *)
Exponents == {<<"+", "2">>, <<"+", "0", "1">>, <<"5">>, <<"0">>, <<"0", "2">>, <<"1", "2">>,
              <<"-", "1">>, <<"-", "0", "3">>, <<"-", "1", "2">>}
Numbers == {Integer(n) : n \in {0, 7, 1020, MaxLong, -MaxLong - 1}}
           \cup {Decimal(m, 7) : m \in {1, 6, -1, 34567894, -34567896}}
           \cup {Decimal(10, 1), Decimal(0, 1), Decimal(-305, 2)}
           \cup {Number(m, d, e) : <<m, d, e>> \in {-3, 10} \X {0, 1} \X Exponents}

Scalars == {Null, Bool(TRUE), Bool(FALSE), Integer(-12), Decimal(12, 1), Str(<<>>), Str(<<"\"", "a">>)}
Inner == Scalars \cup {List(<<>>), Object(NoMembers), List(<<Integer(1), Null>>),
                       Object([k \in {<<"\"">>} |-> Integer(2)])}

WithLine(v) == Object([k \in {<<"line">>} |-> v])
Both(k, v, line) == Object([x \in {k, <<"line">>} |-> IF x = k THEN v ELSE line])
Printed(text) == WithLine(Str(<<"cout << (">> \o text \o <<");">>))

Trees == {Str(s) : s \in Strings(2)}
         \cup UNION {{List(l) : l \in [1..n -> Inner]} : n \in 0..2}
         \cup {Both(s, v, v) : <<s, v>> \in Strings(1) \X Inner}
         \cup {Object([k \in {<<"\\">>, <<"a">>} |-> IF k = <<"a">> THEN v ELSE w]) :
                 <<v, w>> \in Inner \X {Decimal(12, 1), Str(<<"a">>)}}
         \cup Numbers \cup {List(<<n, Integer(1)>>) : n \in Numbers}
         \cup {Both(<<"a">>, n, Str(<<"a">>)) : n \in Numbers}
         \cup {Printed(text) : text \in Strings(3)}
         \cup {Printed(<<"\\", "\\", "u">>), Printed(<<"\f", "\r", "\t">>)}

Styles == {Compact, [Compact EXCEPT !.gap = <<" ", "\n">>], [Compact EXCEPT !.unicode = TRUE]}

WholeTexts == {[expects |-> FALSE, text |-> Document(v, style), kind |-> "whole", tree |-> v,
                style |-> style] : <<v, style>> \in Trees \X Styles}
CutTrees == {Printed(<<"\n">>), List(<<WithLine(Null), WithLine(Integer(1)), Object(NoMembers)>>),
             WithLine(List(<<Integer(12), List(<<Bool(TRUE)>>), Str(<<"\"">>)>>)),
             Both(<<"a">>, WithLine(Str(<<"a">>)), Str(<<"a", "\"">>)),
             Both(<<"a">>, List(<<Number(-3, 1, <<"-", "1", "2">>), Number(3, 0, <<"+", "1">>),
                                  Number(3, 0, <<"5">>)>>), Str(<<"a">>))}
CutTexts == UNION {LET text == Document(v, style)
                   IN  {[expects |-> FALSE, text |-> SubSeq(text, 1, n), kind |-> "cut", tree |-> v,
                         style |-> style] :
                          n \in 0..Len(text) - 1} : <<v, style>> \in CutTrees \X {s \in Styles : ~s.unicode}}

(* Exponents, numbers too long, broken escapes, and what is no document. *)
Excess == {Fixed(FALSE, MaxLong + 1, 0), Fixed(TRUE, MaxLong + 2, 0), <<"1", ".", "1", ".", "-">>,
           <<"1", "e", "-", "a", "1">>, <<"1", "e", "+">> \o Fixed(FALSE, MaxLong + 1, 0)}
AnyTexts ==
    {<<"[">> \o x \o <<"]">> :
        x \in UNION {[1..n -> {"1", "-", "e", ".", ",", ":", "\"", "n"}] : n \in 0..3} \cup Excess}
    \cup {<<"{", "\"", "line", "\"", ":", "\"", "\\">> \o x \o <<"\"", "}">> :
            x \in UNION {[1..n -> {"u", "a", "\\", "b"}] : n \in 0..3}
                  \cup {<<"u", "0", "0", "2", "a">>}}
    \cup {<<"[", "t", "]">>, <<"[", "1", "\"", ",", "\"", "]">>,
          <<"[", "1", "e", "-", "\"", "]", ",", "\"", "a">>, <<"[", "1", "e">>, <<"1", "e">>}

Bare == [expects |-> FALSE, text |-> <<>>, kind |-> "any", tree |-> Null, style |-> Compact]
Waiting(r) == [r EXCEPT !.expects = TRUE]
Any(text)  == [Bare EXCEPT !.text = text]

MCRequests(l) ==
    IF l = To("POST", Endpoints["NewLine"].segment)
    THEN WholeTexts \cup CutTexts \cup {Any(text) : text \in AnyTexts}
         \cup {Waiting(r) : r \in CutTexts}
    ELSE IF l.method = Spelling["POST"] \/ l.target = <<"/", "o">>
    THEN {[Bare EXCEPT !.text = <<"{">>, !.expects = e] : e \in BOOLEAN}
    ELSE {Any(<<"{">>)}

(* A name is of any letters, escaped as all of a line is; a char is any byte. *)
Variables == LET Of(tipo, valores) == [tipo : {tipo}, nombre : {<<"a">>, <<"\\", "\"">>}, valor : valores]
             IN  Of("int", {"1"}) \cup Of("char", Chars)
MCStacks == UNION {[1..n -> Variables] : n \in 0..2}

MCOwnRoutes == {<<"o">>}
MCOwnTexts == {<<"x">>, <<"y", "z">>}
MCOwnTypes == {"t1", "t2"}
MCAtoms == Chars \cup Space \cup Hex \cup MCOwnTypes \cup {StockText[n][1] : n \in DOMAIN StockText}
           \cup {"-", "+", ".", "r", "{", "}", "[", "]", ":", ",", "true", "false", "null", "t",
                 "f", "n", "u", "b", "memoria", "memoryLine", "=", "(0x)", "int",
                 "char", "line", "cout << (", ");", "mensaje", "...", "x", "y", "z",
                 "text/plain", "served", "Path not found", "Method not allowed"}
=============================================================================

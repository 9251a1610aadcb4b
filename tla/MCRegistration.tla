---------------------------- MODULE MCRegistration ----------------------------
(* Paths of up to two words under a base path that collects a parameter:
   a static word, a variable, a regular expression and a brace left open. *)
EXTENDS Registration

CONSTANTS a, b, n

Static(w)   == [word |-> w, open |-> FALSE, close |-> FALSE, colon |-> FALSE,
                name |-> NoName, regex |-> {}]
Variable(v) == [Static(a) EXCEPT !.open = TRUE, !.close = TRUE, !.name = v]
Regex(v, W) == [Variable(v) EXCEPT !.colon = TRUE, !.regex = W]

MCWords == {a, b}
MCNames == {n}
MCBase  == <<compile_to_matcher(Variable(n))>>
MCChunks == {Static(a), Variable(n), Regex(n, {b})}
MCHandlers == 1..MaxCalls

Of(words, slash) == [words |-> words, slash |-> slash]

MCRoutePaths == {Of(<<Static(a)>>, FALSE), Of(<<Variable(n)>>, FALSE),
                 Of(<<>>, TRUE), Of(<<Static(a), Regex(n, {b})>>, FALSE)}

MCRequests == {[path |-> Of(w, s), method |-> m] :
    w \in {<<>>, <<a>>, <<a, a>>, <<a, b>>, <<a, a, a>>, <<a, a, b>>, <<a, b, b>>},
    s \in BOOLEAN, m \in Methods}

MCTables == {<<>>}
MCWrapperLists == {<<>>}
=============================================================================

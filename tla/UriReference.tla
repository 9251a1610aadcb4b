----------------------------- MODULE UriReference -----------------------------
(***************************************************************************)
(* What a request target means, read off its text at once instead of byte  *)
(* by byte: the components that RFC 3986 splits a URI reference into, and  *)
(* which bytes each may hold.  It is the reference for RequestLine.  What  *)
(* is between the brackets of an IP literal it leaves open.                *)
(***************************************************************************)
EXTENDS UriGrammar

(* Where the first of some bytes stands, or else the place after the end;
   everything before it, and everything after it. *)
First(s, bytes) == CHOOSE i \in 1..Len(s) + 1 :
                      /\ i <= Len(s) => s[i] \in bytes
                      /\ \A j \in 1..i - 1 : s[j] \notin bytes
Before(s, bytes) == SubSeq(s, 1, First(s, bytes) - 1)
After(s, bytes)  == SubSeq(s, First(s, bytes) + 1, Len(s))
Has(s, b) == \E i \in 1..Len(s) : s[i] = b

NoFragment(t) == Before(t, {"#"})
Hier(t)       == Before(NoFragment(t), {"?"})

(* The scheme ends at a colon that no slash precedes. *)
HasScheme(t)  == Has(Before(Hier(t), {"/"}), ":")
Scheme(t)     == Before(Hier(t), {":"})
NoScheme(s, t) == IF HasScheme(t) THEN After(s, {":"}) ELSE s

(* The parts as served names them: its URI has no scheme and no fragment,
   and its path keeps the authority. *)
Parts(t) == [uri      |-> NoScheme(NoFragment(t), t),
             path     |-> NoScheme(Hier(t), t),
             query    |-> After(NoFragment(t), {"?"}),
             fragment |-> After(t, {"#"})]

-----------------------------------------------------------------------------
(* Escapes are whole, and all other bytes are in the set. *)
Wellformed(s, bytes) ==
    /\ All(s, bytes \cup {"%"})
    /\ \A i \in 1..Len(s) : s[i] = "%" =>
           i + 2 <= Len(s) /\ s[i + 1] \in xdigit /\ s[i + 2] \in xdigit

LegalScheme(s) == /\ s # <<>> /\ s[1] \in alpha
                  /\ All(s, alpha \cup digit \cup {"+", "-", "."})

Literal(host) == Starts(host, "[") /\ First(host, {"]"}) = Len(host)

LegalHost(host) == Wellformed(host, unreserved \cup sub_delims) \/ Literal(host)

(* Of a host in brackets, the port follows the bracket. *)
LegalHostPort(s) ==
    IF Starts(s, "[")
    THEN /\ LegalHost(Before(s, {"]"}) \o (IF Has(s, "]") THEN <<"]">> ELSE <<>>))
         /\ After(s, {"]"}) # <<>> => /\ After(s, {"]"})[1] = ":"
                                      /\ All(Tail(After(s, {"]"})), digit)
    ELSE LegalHost(Before(s, {":"})) /\ All(After(s, {":"}), digit)

LegalAuthority(s) ==
    IF Has(s, "@")
    THEN /\ Wellformed(Before(s, {"@"}), unreserved \cup sub_delims \cup {":"})
         /\ LegalHostPort(After(s, {"@"}))
    ELSE LegalHostPort(s)

LegalPath(s) ==
    IF Len(s) >= 2 /\ s[1] = "/" /\ s[2] = "/"
    THEN LET rest == SubSeq(s, 3, Len(s))
         IN  LegalAuthority(Before(rest, {"/"})) /\ Wellformed(After(rest, {"/"}), pchar \cup {"/"})
    ELSE Wellformed(s, pchar \cup {"/"})

LegalTarget(t) ==
    /\ HasScheme(t) => LegalScheme(Scheme(t))
    /\ LegalPath(Parts(t).path)
    /\ Wellformed(Parts(t).query, pchar \cup {"/", "?"})
    /\ Wellformed(Parts(t).fragment, pchar \cup {"/", "?"})
=============================================================================

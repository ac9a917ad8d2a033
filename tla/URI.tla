-------------------------------- MODULE URI ---------------------------------
(***************************************************************************)
(* URI (src/src/URI.cpp): the parts of a URI with two cached strings, the  *)
(* whole and the query, each rebuilt when a flag says so.  Strings are     *)
(* sequences of tokens: the delimiters, "//" among them, and names without  *)
(* delimiters.                                                             *)
(***************************************************************************)
EXTENDS Integers, Sequences, FiniteSets, SequencesExt

CONSTANTS
    UriString,      \* strings given to setString and the constructors
    Query,          \* strings given to setQuery
    Key,            \* names of query parameters
    MaxParams       \* bound on the number of query parameters

VARIABLES
    uri,            \* the object
    bypassed        \* a parameter was changed behind the cached strings (ghost)

uriVars == <<uri, bypassed>>

Slash == {"//", "/"}

Empty == [mFullString |-> <<>>, mQueryString |-> <<>>, mScheme |-> <<>>, mAuthority |-> <<>>,
          mPath |-> <<>>, mFragment |-> <<>>, mQueryParams |-> <<>>,
          mRelative |-> FALSE, mModified |-> FALSE, mModifiedQuery |-> FALSE]

UriInit == uri = Empty /\ bypassed = FALSE
-----------------------------------------------------------------------------
\* find( S, start ) and substr( from, to - from ); Len(s) + 1 stands for npos.
FindToken(s, S, start) ==
    LET P == {i \in start..Len(s) : s[i] \in S}
    IN  IF P = {} THEN Len(s) + 1 ELSE CHOOSE i \in P : \A j \in P : i <= j

Piece(s, from, to) == IF from > Len(s) THEN <<>> ELSE SubSeq(s, from, to - 1)

\* parseQuery: the parameters are appended to the ones there are; a query
\* without "=" ends it with an error.
ParseQuery(u, q) ==
    LET none == Len(q) + 1
        step(p) ==
            LET eq == FindToken(q, {"="}, p.start)
                amp == FindToken(q, {"&"}, eq + 1)
                param == <<Piece(q, p.start, eq), Piece(q, eq + 1, amp)>>
            IN  IF p.done THEN p
                ELSE IF eq = none THEN [p EXCEPT !.done = TRUE, !.ok = FALSE]
                ELSE [params |-> Append(p.params, param), start |-> amp + 1, ok |-> TRUE,
                      done |-> amp = none \/ FindToken(q, {"="}, amp + 1) = none]
        run[k \in 0..Len(q)] ==
            IF k = 0 THEN [params |-> u.mQueryParams, start |-> 1, ok |-> TRUE, done |-> FALSE]
            ELSE step(run[k - 1])
    IN  IF q = <<>> THEN [ok |-> TRUE, u |-> [u EXCEPT !.mQueryString = q, !.mModifiedQuery = FALSE, !.mQueryParams = <<>>]]
        ELSE [ok |-> run[Len(q)].ok,
              u |-> [u EXCEPT !.mQueryString = q, !.mModifiedQuery = FALSE, !.mQueryParams = run[Len(q)].params]]

\* parseString after clear(): scheme, authority, path, then a query and a
\* fragment behind it.
ParseString(s) ==
    LET none == Len(s) + 1
        colon == FindToken(s, {":"}, 1)
        scheme == IF colon = none THEN <<>> ELSE Piece(s, 1, colon)
        s1 == IF colon = none THEN 1 ELSE colon + 1
        twoSlashes == s1 <= Len(s) /\ s[s1] = "//"
        noSlash == FindToken(s, Slash, s1) # s1 \/ s1 > Len(s)
        hasAuth == twoSlashes \/ (noSlash /\ scheme # <<>>)
        s2 == IF twoSlashes THEN s1 + 1 ELSE s1
        s3 == IF hasAuth THEN FindToken(s, Slash, s2) ELSE s2
        question == FindToken(s, {"?"}, s3)
        hash == FindToken(s, {"#"}, question + 1)
        base == [Empty EXCEPT !.mFullString = s, !.mScheme = scheme,
                              !.mRelative = noSlash /\ ~ twoSlashes /\ scheme = <<>>,
                              !.mAuthority = IF hasAuth THEN Piece(s, s2, s3) ELSE <<>>,
                              !.mPath = Piece(s, s3, question)]
        parsed == ParseQuery(base, Piece(s, question + 1, hash))
    IN  IF s3 > Len(s) \/ question = none THEN base
        ELSE IF parsed.ok THEN [parsed.u EXCEPT !.mFragment = Piece(s, hash + 1, none)]
        ELSE parsed.u

BuildQuery(u) ==
    LET pair(i) == (IF i = 1 THEN <<>> ELSE <<"&">>) \o u.mQueryParams[i][1] \o <<"=">> \o u.mQueryParams[i][2]
    IN  IF ~ u.mModifiedQuery THEN u
        ELSE [u EXCEPT !.mQueryString = FlattenSeq([i \in DOMAIN u.mQueryParams |-> pair(i)]),
                       !.mModifiedQuery = FALSE]

BuildString(u) ==
    LET q == BuildQuery(u)
        part(mark, s) == IF s = <<>> THEN <<>> ELSE mark \o s
        colon == IF u.mScheme = <<>> THEN <<>> ELSE u.mScheme \o <<":">>
    IN  IF ~ u.mModified THEN u
        ELSE [q EXCEPT !.mModified = FALSE,
                       !.mFullString = colon
                            \o part(IF u.mScheme = <<"mailto">> THEN <<>> ELSE <<"//">>, u.mAuthority)
                            \o u.mPath \o part(<<"?">>, q.mQueryString) \o part(<<"#">>, u.mFragment)]
-----------------------------------------------------------------------------
\* The operations.

Call(u) == uri' = u /\ UNCHANGED bypassed

SetString(s) == uri' = ParseString(s) /\ bypassed' = FALSE

\* The setters note that the whole string is out of date.
SetScheme(s) == Call([uri EXCEPT !.mModified = TRUE, !.mScheme = s])
SetAuthority(s) == Call([uri EXCEPT !.mModified = TRUE, !.mAuthority = s])

\* A path that is not relative gets a slash if it does not start with one.
SetPath(s, relative) ==
    LET slashed == s # <<>> /\ s[1] \in Slash
    IN  Call([uri EXCEPT !.mModified = TRUE, !.mRelative = relative,
                         !.mPath = IF ~ slashed /\ ~ relative THEN <<"/">> \o s ELSE s])

\* Mutant of SetFragment: the string is not marked.
SetFragmentOnly(s) == Call([uri EXCEPT !.mFragment = s])
SetFragment(s) == Call([uri EXCEPT !.mModified = TRUE, !.mFragment = s])

AppendQueryParam(k) ==
    /\ Len(uri.mQueryParams) < MaxParams
    /\ Call([uri EXCEPT !.mQueryParams = Append(@, <<<<k>>, <<"v">>>>),
                        !.mModifiedQuery = TRUE, !.mModified = TRUE])

\* The first parameter with the key goes; only the query is marked.
RemoveQueryParam(k) ==
    LET P == {i \in DOMAIN uri.mQueryParams : uri.mQueryParams[i][1] = <<k>>}
        i == CHOOSE i \in P : \A j \in P : i <= j
    IN  /\ uri' = [uri EXCEPT !.mModifiedQuery = TRUE, !.mQueryParams = IF P = {} THEN @ ELSE RemoveAt(@, i)]
        /\ bypassed' = TRUE

\* The query string is replaced, its parameters join the old ones, and nothing
\* is marked.
SetQuery(q) ==
    /\ Len(uri.mQueryParams) < MaxParams
    /\ uri' = ParseQuery(uri, q).u
    /\ bypassed' = TRUE

GetString == Call(BuildString(uri))
GetQuery == Call(BuildQuery(uri))

\* A copy of the URI: the source is rebuilt, the flags are cleared.
CopyValues == Call([BuildString(uri) EXCEPT !.mModified = FALSE, !.mModifiedQuery = FALSE])

UriNext ==
    \/ \E s \in UriString : SetString(s)
    \/ SetScheme(<<"mailto">>) \/ SetAuthority(<<"h", ":", "80">>)
    \/ \E s \in {<<"/", "p">>, <<"p">>, <<>>}, relative \in BOOLEAN : SetPath(s, relative)
    \/ \E s \in {<<>>, <<"f">>} : SetFragment(s)
    \/ \E k \in Key : AppendQueryParam(k) \/ RemoveQueryParam(k)
    \/ \E q \in Query : SetQuery(q)
    \/ GetString \/ GetQuery \/ CopyValues
-----------------------------------------------------------------------------
\* Properties.

\* A URI that can be written without ambiguity.
Canonical(u) ==
    /\ u.mScheme # <<>> /\ u.mPath # <<>> /\ u.mPath[1] = "/"
    /\ u.mFragment # <<>> => u.mQueryParams # <<>>

\* After any sequence of sets, reads and copies, the string that getString()
\* returns parses to the very parts the getters return, and the same query;
\* unless setQuery or removeQueryParam, which do not mark the string, were used.
StringMatchesParts ==
    LET u == BuildString(uri)
        v == ParseString(u.mFullString)
    IN  (Canonical(uri) /\ ~ bypassed) =>
            /\ <<v.mScheme, v.mAuthority, v.mPath, v.mFragment, v.mQueryParams>>
               = <<u.mScheme, u.mAuthority, u.mPath, u.mFragment, u.mQueryParams>>
            /\ v.mQueryString = BuildQuery(u).mQueryString
=============================================================================

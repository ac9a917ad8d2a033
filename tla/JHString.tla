------------------------------ MODULE JHString ------------------------------
(***************************************************************************)
(* JetHead::basic_string (src/include/jh_string.h): strings that share a   *)
(* counted buffer, Rep, and copy it before some of their operations, and   *)
(* the searches and split() on the characters.  Characters are numbers, 0  *)
(* is the null character; positions count from 0 as in the code.           *)
(***************************************************************************)
EXTENDS Integers, Sequences, FiniteSets, SequencesExt, FiniteSetsExt

CONSTANTS
    Str,                \* the string objects
    Char,               \* characters a program uses, without 0
    DefaultCapacity,    \* DEFAULT_ALLOCATION of basic_string
    MaxText             \* bound on the length of a string

ASSUME StringAssumption ==
    IsFiniteSet(Str) /\ DefaultCapacity \in Nat \ {0} /\ MaxText \in Nat

VARIABLES
    mRep,       \* per string: its Rep [id, cap, len, data], or NoRep
    expected,   \* per string: the value its owner should see (ghost)
    overrun     \* a character was written outside a Rep (ghost)

strVars == <<mRep, expected, overrun>>

NUL == 0
Junk == -1              \* a character of fresh memory
NoRep == [id |-> 0]
npos == -1

Text(n) == UNION {[1..k -> Char] : k \in 0..n}

StringInit ==
    /\ mRep = [x \in Str |-> NoRep]
    /\ expected = [x \in Str |-> <<>>]
    /\ overrun = FALSE
-----------------------------------------------------------------------------
\* Rep.

Sharers(x) == {y \in Str : mRep[y].id = mRep[x].id}

FreshId == CHOOSE i \in 1..Cardinality(Str) + 1 : \A x \in Str : mRep[x].id # i

\* Rep::assign into a buffer of cap characters: cut to fit and terminated.
RepAssign(data, cap, s) ==
    LET n == IF Len(s) >= cap THEN cap - 1 ELSE Len(s)
    IN  [i \in 1..cap |-> IF i <= n THEN s[i] ELSE IF i = n + 1 THEN NUL ELSE data[i]]

NewRep(cap, s) ==
    [id |-> FreshId, cap |-> cap, len |-> Min({Len(s), cap - 1}),
     data |-> RepAssign([i \in 1..cap |-> Junk], cap, s)]

ValueOf(r) == SubSeq(r.data, 1, r.len)

\* at( i ) = c for the characters s from position pos on.
Put(r, pos, s) ==
    [r EXCEPT !.data = [i \in DOMAIN r.data |-> IF i - pos \in 1..Len(s) THEN s[i - pos] ELSE r.data[i]]]

\* setLength, and the null character behind it.
Terminate(r, n) == [Put(r, n, <<NUL>>) EXCEPT !.len = n]

Fits(r, n) == n < r.cap

\* reserve: a larger buffer, at least twice as large, with the same text.
ReserveRep(r, res) ==
    IF res > r.cap THEN NewRep(IF res < r.cap * 2 THEN r.cap * 2 ELSE res, ValueOf(r)) ELSE r

\* Mutant of CopyOnWrite: the Rep is copied only for the third owner.
CopyOnWriteLate(x) ==
    IF Cardinality(Sharers(x)) > 2 THEN NewRep(mRep[x].cap, ValueOf(mRep[x])) ELSE mRep[x]

\* copyOnWrite: a Rep of its own if other strings hold this one.
CopyOnWrite(x) ==
    IF Cardinality(Sharers(x)) > 1 THEN NewRep(mRep[x].cap, ValueOf(mRep[x])) ELSE mRep[x]
-----------------------------------------------------------------------------
\* The operations.  Hold: x now holds r; strings that hold the same Rep see
\* its new contents.  What is behind the null character is never read.

Hold(x, r, n) ==
    /\ LET new == [r EXCEPT !.data = [i \in DOMAIN r.data |-> IF i > r.len + 1 THEN Junk ELSE r.data[i]]]
       IN  mRep' = [y \in Str |-> IF y = x \/ mRep[y].id = r.id THEN new ELSE mRep[y]]
    /\ overrun' = (overrun \/ ~ Fits(r, n))

\* Only x changes its value to s, or those it shares its Rep with do as well:
\* the calls that do not begin with copyOnWrite.  That is what the code does;
\* CallsChangeOne says what it should do.
Alone(x, s) == expected' = [expected EXCEPT ![x] = s]
Together(x, r, s) == expected' = [y \in Str |-> IF y = x \/ mRep[y].id = r.id THEN s ELSE expected[y]]

Exists(x) == mRep[x] # NoRep
Length(x) == mRep[x].len

\* The constructors and the destructor.
MakeDefault(x) == ~ Exists(x) /\ Hold(x, NewRep(DefaultCapacity, <<>>), 0) /\ Alone(x, <<>>)

MakeFrom(x, s) == ~ Exists(x) /\ Hold(x, NewRep(Len(s) + 1, s), Len(s)) /\ Alone(x, s)

DestroyString(x) ==
    /\ Exists(x)
    /\ mRep' = [mRep EXCEPT ![x] = NoRep] /\ expected' = [expected EXCEPT ![x] = <<>>]
    /\ UNCHANGED overrun

\* assign( string ): the Rep is shared.
AssignString(x, y) ==
    /\ Exists(y)
    /\ mRep' = [mRep EXCEPT ![x] = mRep[y]] /\ expected' = [expected EXCEPT ![x] = expected[y]]
    /\ UNCHANGED overrun

\* assign( chars, n ): a new Rep if there is no room, else in place.
AssignChars(x, s) ==
    /\ Exists(x)
    /\ IF Len(s) >= mRep[x].cap
       THEN Hold(x, NewRep(Len(s) + 1, s), Len(s)) /\ Alone(x, s)
       ELSE /\ Hold(x, [mRep[x] EXCEPT !.len = Len(s), !.data = RepAssign(mRep[x].data, mRep[x].cap, s)], Len(s))
            /\ Together(x, mRep[x], s)

\* append, of characters or of n times one: in place after reserve.
AppendChars(x, s) ==
    LET n == Length(x) + Len(s)
        r == ReserveRep(mRep[x], n + 1)
    IN  /\ Exists(x) /\ n <= MaxText
        /\ Hold(x, Terminate(Put(r, Length(x), s), n), n)
        /\ Together(x, r, expected[x] \o s)

\* resize pads with the character given.
ResizeString(x, n, c) ==
    LET r == ReserveRep(mRep[x], n + 1)
        s == IF n <= Length(x) THEN SubSeq(expected[x], 1, n)
             ELSE expected[x] \o [i \in 1..n - Length(x) |-> c]
    IN  /\ Exists(x)
        /\ Hold(x, Terminate(Put(r, Length(x), [i \in 1..n - Length(x) |-> c]), n), n)
        /\ Together(x, r, s)

ReserveString(x, n) ==
    /\ Exists(x)
    /\ n > mRep[x].cap
    /\ Hold(x, ReserveRep(mRep[x], n), Length(x))
    /\ UNCHANGED expected

\* operator[]( i ) = c, in place.
SetChar(x, i, c) ==
    /\ Exists(x) /\ i < Length(x)
    /\ Hold(x, Put(mRep[x], i, <<c>>), Length(x))
    /\ Together(x, mRep[x], [expected[x] EXCEPT ![i + 1] = c])

\* insert, on a Rep of its own: the tail moves up.
InsertRep(r0, pos, s) ==
    LET r == ReserveRep(r0, r0.len + Len(s) + 1)
        moved == Put(r, pos + Len(s), SubSeq(r.data, pos + 1, r.len))
    IN  Terminate(Put(moved, pos, s), r.len + Len(s))

InsertChars(x, pos, s) ==
    /\ Exists(x) /\ Length(x) + Len(s) <= MaxText
    /\ pos < Length(x)
    /\ Hold(x, InsertRep(CopyOnWrite(x), pos, s), Length(x) + Len(s))
    /\ Alone(x, SubSeq(expected[x], 1, pos) \o s \o SubSeq(expected[x], pos + 1, Length(x)))

\* erase( pos, n ): truncated, or the tail moves down.
EraseRep(r, pos, n) ==
    IF pos >= r.len THEN r
    ELSE IF n = npos \/ pos + n = r.len THEN Terminate(r, pos)
    ELSE LET k == IF pos + n > r.len THEN r.len - pos ELSE n
         IN  Terminate(Put(r, pos, SubSeq(r.data, pos + k + 1, r.len)), r.len - k)

Erased(s, pos, n) ==
    IF pos >= Len(s) THEN s
    ELSE IF n = npos THEN SubSeq(s, 1, pos)
    ELSE SubSeq(s, 1, pos) \o SubSeq(s, pos + n + 1, Len(s))

EraseChars(x, pos, n) ==
    /\ Exists(x)
    /\ Hold(x, EraseRep(CopyOnWrite(x), pos, n), 0)
    /\ Alone(x, Erased(expected[x], pos, n))

\* replace( pos, n1, s ): erase, then insert, or append at the end.  The caller
\* names characters the string has; n1 beyond its end asks reserve for a
\* negative size.
ReplaceChars(x, pos, n1, s) ==
    LET n == Length(x) - n1 + Len(s)
        r == EraseRep(ReserveRep(CopyOnWrite(x), n), pos, n1)
        r2 == ReserveRep(r, n + 1)
    IN  /\ Exists(x) /\ n <= MaxText
        /\ pos < Length(x) /\ pos + n1 <= Length(x)
        /\ Hold(x, IF pos >= r.len THEN Terminate(Put(r2, r.len, s), n) ELSE InsertRep(r, pos, s), n)
        /\ Alone(x, SubSeq(expected[x], 1, pos) \o s \o SubSeq(expected[x], pos + n1 + 1, Length(x)))

StringNext ==
    \E x \in Str :
        \/ MakeDefault(x) \/ DestroyString(x)
        \/ \E s \in Text(MaxText) : MakeFrom(x, s) \/ AssignChars(x, s)
        \/ \E y \in Str : AssignString(x, y)
        \/ \E n \in 0..MaxText : (\E c \in Char : ResizeString(x, n, c)) \/ ReserveString(x, 2 * n)
        \/ \E s \in Text(1) : AppendChars(x, s)
        \/ \E pos \in 0..MaxText :
              \/ \E c \in Char : SetChar(x, pos, c)
              \/ \E n \in {npos} \cup 1..MaxText : EraseChars(x, pos, n)
              \/ \E s \in Text(1) : InsertChars(x, pos, s) \/ \E n \in 0..1 : ReplaceChars(x, pos, n, s)

StringSpec == StringInit /\ [][StringNext]_strVars
-----------------------------------------------------------------------------
\* The searches, on the text of a Rep.  npos stands for "not found".

Positions(P) == IF P = {} THEN npos ELSE Min(P)
LastOf(P) == IF P = {} THEN npos ELSE Max(P)

MatchesAt(t, i, s) == \A j \in 1..Len(s) : i + j <= Len(t) /\ t[i + j] = s[j]

\* What a search that runs past its Rep returns, if it returns: undefined.
PastRep == -2

\* find( s, pos, n ): the loop runs while i < length() - n, so the last place is
\* not tried.  The bound is unsigned: for a text longer than the string it wraps,
\* and the loop goes on behind the null character and the Rep.
Find(t, s, pos) ==
    IF Len(s) > Len(t) THEN PastRep
    ELSE Positions({i \in pos..Len(t) - Len(s) - 1 : MatchesAt(t, i, s)})

FindChar(t, c, pos) == Positions({i \in pos..Len(t) - 1 : t[i + 1] = c})

RFind(t, s, pos) ==
    LET from == IF pos = npos \/ pos > Len(t) THEN Len(t) ELSE pos
    IN  LastOf({i \in 0..from : MatchesAt(t, i, s)})

RFindChar(t, c, pos) == LastOf({i \in 0..(IF pos = npos THEN Len(t) - 1 ELSE pos) : t[i + 1] = c})

FindFirstOf(t, S, pos) == Positions({i \in pos..Len(t) - 1 : t[i + 1] \in S})

FindLastOf(t, S, pos) == LastOf({i \in 0..(IF pos = npos THEN Len(t) - 1 ELSE pos) : t[i + 1] \in S})

SubStr(t, pos, n) ==
    IF pos >= Len(t) THEN <<>>
    ELSE SubSeq(t, pos + 1, pos + (IF n = npos \/ pos + n > Len(t) THEN Len(t) - pos ELSE n))

\* compare( s ): the characters with the null character behind them, first
\* difference decides.
Compare(t, s) ==
    LET at(u, i) == IF i < Len(u) THEN u[i + 1] ELSE NUL
        diff == {i \in 0..Min({Len(t), Len(s)}) : at(t, i) # at(s, i)}
    IN  IF diff # {} THEN (IF at(t, Min(diff)) > at(s, Min(diff)) THEN 1 ELSE -1)
        ELSE IF Len(t) > Len(s) THEN -1 ELSE IF Len(t) < Len(s) THEN 1 ELSE 0

\* split: parts between separators; after a part, a run of separators is
\* skipped.  One round per separator found.
SplitFrom(t, S, start) ==
    LET skip(from) == Min({i \in from..Len(t) : i = Len(t) \/ t[i + 1] \notin S})
        step[k \in 0..Len(t) + 1] ==
          IF k = 0 THEN [parts |-> <<>>, start |-> start, done |-> FALSE]
          ELSE LET p == step[k - 1]
                   pos == FindFirstOf(t, S, p.start)
               IN  IF p.done THEN p
                   ELSE IF pos = npos THEN [p EXCEPT !.parts = Append(@, SubStr(t, p.start, npos)), !.done = TRUE]
                   ELSE [p EXCEPT !.parts = Append(@, SubStr(t, p.start, pos - p.start)), !.start = skip(pos + 1)]
    IN  step[Len(t) + 1].parts

Split(t, S) == SplitFrom(t, S, 0)
-----------------------------------------------------------------------------
\* Properties.

\* Whatever strings are copied from each other and changed in whatever order,
\* each has the value the calls give it: insert, erase and replace never reach
\* another string, and what the calls that write in place do to the strings
\* that share the buffer at that time is the whole of their effect on others
\* (that there is one: CallsChangeOne).  Every buffer is terminated behind its
\* text and nothing was written outside one.
StringsAgree ==
    /\ ~ overrun
    /\ \A x \in Str : Exists(x) =>
          /\ ValueOf(mRep[x]) = expected[x]
          /\ Length(x) < mRep[x].cap /\ mRep[x].data[Length(x) + 1] = NUL

\* A call changes the text of one string and of no copy: stringTest.cpp
\* (Test7) fails when a copy made by "string t2 = t1" changes with t1.
Reads(x) == IF Exists(x) THEN ValueOf(mRep[x]) ELSE <<>>

CallsChangeOne ==
    [][ \A x, y \in Str : Reads(x)' # Reads(x) /\ Reads(y)' # Reads(y) => x = y ]_strVars

\* The words of a text: its maximal stretches without a separator.
Words(t, S) ==
    {p \in (1..Len(t)) \X (1..Len(t)) :
        /\ p[1] <= p[2] /\ \A k \in p[1]..p[2] : t[k] \notin S
        /\ p[1] > 1 => t[p[1] - 1] \in S
        /\ p[2] < Len(t) => t[p[2] + 1] \in S}

\* For the text of every string: split() finds the words in order, plus an
\* empty part for a separator at the very start and at the very end; the
\* searches find the first or last place, except that find() does not look at
\* the last one and must not be asked for a text longer than the string;
\* compare() orders texts as a dictionary does.
SearchesAreRight ==
    \A x \in Str : Exists(x) =>
        LET t == ValueOf(mRep[x])
            word == SetToSortSeq(Words(t, {1}), LAMBDA a, b : a[1] < b[1])
            empty(b) == IF b THEN <<<<>>>> ELSE <<>>
        IN  /\ Split(t, {1}) = empty(t = <<>> \/ t[1] = 1)
                                \o [k \in DOMAIN word |-> SubSeq(t, word[k][1], word[k][2])]
                                \o empty(t # <<>> /\ t[Len(t)] = 1)
            /\ \A s \in Text(2) \ {<<>>} :
                  LET places == {i \in 0..Len(t) : MatchesAt(t, i, s)}
                  IN  /\ Len(s) <= Len(t) => Find(t, s, 0) = Positions(places \ {Len(t) - Len(s)})
                      /\ RFind(t, s, npos) = LastOf(places)
                      /\ \A i \in places : SubStr(t, i, Len(s)) = s
            /\ \A c \in Char : /\ FindFirstOf(t, {c}, 0) = FindChar(t, c, 0)
                               /\ FindLastOf(t, {c}, npos) = RFindChar(t, c, npos)
            /\ \A y \in Str : Exists(y) =>
                  LET u == ValueOf(mRep[y])
                      less(a, b) == \/ IsPrefix(a, b) /\ a # b
                                    \/ \E k \in 1..Len(a) : /\ k <= Len(b) /\ a[k] < b[k]
                                                            /\ SubSeq(a, 1, k - 1) = SubSeq(b, 1, k - 1)
                  IN  Compare(t, u) = IF less(t, u) THEN -1 ELSE IF less(u, t) THEN 1 ELSE 0

\* Strings hold the text their owners gave them, and the searches of that text
\* are right.
StringsAreRight == StringsAgree /\ SearchesAreRight
=============================================================================

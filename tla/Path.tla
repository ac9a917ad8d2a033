-------------------------------- MODULE Path --------------------------------
(***************************************************************************)
(* JetHead::Path (src/src/Path.cpp): path strings, their normal form and   *)
(* the file-system calls made with them.  A path is a sequence of tokens:  *)
(* names, "." , ".." and "/" (runs of separators count as one, as split    *)
(* treats them).  The file system is external: a tree of directories and   *)
(* files, where a place is the sequence of names that leads to it.         *)
(***************************************************************************)
EXTENDS Integers, Sequences, FiniteSets, SequencesExt

CONSTANTS
    Name,           \* names of files and directories
    CWD,            \* the working directory, a place
    WideSize,       \* size_t is wider than unsigned
    MaxParts,       \* bound on the names in a path
    MaxMade         \* bound on the directories and files made

VARIABLES
    mPath,          \* the path object
    dirs, files,    \* the places in the file system
    made            \* the last call was an mkdirs() that returned kNoError

pathVars == <<mPath, dirs, files, made>>

SEP == "/"
Dots == {".", ".."}
Token == Name \cup Dots

Aborts == <<"abort">>

PathInit ==
    /\ mPath \in {<<SEP>>} \cup {<<n>> : n \in Token}
    /\ dirs = {<<>>, CWD} /\ files = {} /\ made = FALSE
-----------------------------------------------------------------------------
\* The strings.

IsRelative(p) == p = <<>> \/ p[1] # SEP

\* split( path, "/" ): an empty part in front of a leading separator and behind
\* a trailing one.
Parts(p) ==
    (IF p[1] = SEP THEN <<"">> ELSE <<>>) \o SelectSeq(p, LAMBDA t : t # SEP)
        \o (IF Last(p) = SEP THEN <<"">> ELSE <<>>)

AppendPath(p, q) == (IF Last(p) = SEP THEN p ELSE Append(p, SEP)) \o q

Joined(parts) == FoldLeft(LAMBDA p, t : IF p = <<>> THEN <<t>> ELSE p \o <<SEP, t>>, <<>>, parts)


\* The loop of normalize: "." and empty parts go, ".." takes away the part
\* before it once a name was seen; erase aborts when nothing is left.
KeptParts(parts) ==
    FoldLeft(LAMBDA acc, t :
                IF acc.out = Aborts THEN acc
                ELSE IF t = ".." /\ ~ acc.start THEN
                    [acc EXCEPT !.out = IF @ = <<>> THEN Aborts ELSE Front(@)]
                ELSE IF t = ".." THEN [acc EXCEPT !.out = Append(@, t)]
                ELSE IF t \in {".", ""} THEN acc
                ELSE [start |-> FALSE, out |-> Append(acc.out, t)],
             [start |-> TRUE, out |-> <<>>], parts).out

\* normalize.  With no part left the last one is read at index -1.
NormalForm(p) ==
    LET out == KeptParts(Parts(p))
    IN  IF out \in {<<>>, Aborts} THEN Aborts
        ELSE (IF IsRelative(p) THEN <<>> ELSE <<SEP>>) \o Joined(out)

LastSep(p) == LET S == {i \in DOMAIN p : p[i] = SEP}
              IN  IF S = {} THEN 0 ELSE CHOOSE i \in S : \A j \in S : j <= i

\* parent, of the normal form q.  The result of rfind is kept in an unsigned:
\* where size_t is wider it is never equal to npos, and npos + 1 is still 0.
Parent(q) ==
    IF LastSep(q) = 0 /\ ~ WideSize THEN <<".">> ELSE SubSeq(q, 1, LastSep(q))

\* filename: all of q when npos + 1 is 0, which is right either way.
Filename(q) == SubSeq(q, LastSep(q) + 1, Len(q))
-----------------------------------------------------------------------------
\* The file system.

\* Where a path leads from a place.
Walk(from, p) ==
    FoldLeft(LAMBDA at, t : IF t \in {SEP, ".", ""} THEN at
                            ELSE IF t = ".." THEN (IF at = <<>> THEN at ELSE Front(at))
                            ELSE Append(at, t),
             from, p)

Leads(p) == Walk(IF IsRelative(p) THEN CWD ELSE <<>>, p)

\* stat: every name on the way is a directory.
Reaches(p, D) == \A i \in 1..Len(p) - 1 : Leads(SubSeq(p, 1, i)) \in D
InTree(p, D, F) == p # <<>> /\ Reaches(p, D) /\ Leads(p) \in D \cup F

CanMake(p, D, F) == p # <<>> /\ Reaches(p, D) /\ Last(Parts(p)) \in Name \cup {""} /\ Leads(p) \notin D \cup F
                    /\ Front(Leads(p)) \in D

\* mkdirs: each prefix before the last part is made if it does not exist; the
\* first that cannot be made ends the call.  An absolute path starts with "",
\* which does not exist and cannot be made.
Mkdirs(p) ==
    LET parts == Parts(p)
        first == IF parts[1] = "" THEN <<>> ELSE <<parts[1]>>
        step(acc, t) ==
            IF ~ acc.ok THEN acc
            ELSE IF InTree(acc.p, acc.D, files) THEN [acc EXCEPT !.p = AppendPath(@, IF t = "" THEN <<>> ELSE <<t>>)]
            ELSE IF CanMake(acc.p, acc.D, files)
            THEN [acc EXCEPT !.D = @ \cup {Leads(acc.p)}, !.p = AppendPath(@, IF t = "" THEN <<>> ELSE <<t>>)]
            ELSE [acc EXCEPT !.ok = FALSE]
    IN  FoldLeft(step, [p |-> first, D |-> dirs, ok |-> TRUE], Tail(parts))

Room == Cardinality(dirs \cup files) < MaxMade + 2
-----------------------------------------------------------------------------
\* The operations.

PathAppend(q) ==
    /\ Cardinality({i \in DOMAIN mPath : mPath[i] # SEP}) < MaxParts
    /\ mPath' = AppendPath(mPath, q)
    /\ made' = FALSE
    /\ UNCHANGED <<dirs, files>>

Normalize ==
    /\ NormalForm(mPath) # Aborts
    /\ mPath' = NormalForm(mPath)
    /\ made' = FALSE
    /\ UNCHANGED <<dirs, files>>

\* Also an absolute path is put behind the working directory.
MakeAbsolute ==
    /\ Len(Parts(mPath)) < MaxParts
    /\ mPath' = AppendPath(<<SEP>> \o Joined(CWD), mPath)
    /\ made' = FALSE
    /\ UNCHANGED <<dirs, files>>

Mkdir ==
    /\ Room /\ CanMake(mPath, dirs, files)
    /\ dirs' = dirs \cup {Leads(mPath)}
    /\ made' = FALSE
    /\ UNCHANGED <<mPath, files>>

MkdirsCall ==
    /\ Room
    /\ dirs' = Mkdirs(mPath).D
    /\ made' = Mkdirs(mPath).ok
    /\ UNCHANGED <<mPath, files>>

\* touch: a file that exists gets a new time; else it is opened to be created.
Touch ==
    /\ Room /\ CanMake(mPath, dirs, files) /\ Last(mPath) # SEP
    /\ files' = files \cup {Leads(mPath)}
    /\ made' = FALSE
    /\ UNCHANGED <<mPath, dirs>>

\* remove: rmdir of an empty directory, else unlink.
RemovePath ==
    LET at == Leads(mPath)
    IN  /\ InTree(mPath, dirs, files)
        /\ \/ /\ at \in dirs \ {<<>>, CWD} /\ Last(Parts(mPath)) \in Name
              /\ ~ \E d \in (dirs \cup files) \ {at} : IsPrefix(at, d)
              /\ dirs' = dirs \ {at} /\ UNCHANGED files
           \/ at \in files /\ files' = files \ {at} /\ UNCHANGED dirs
        /\ made' = FALSE
        /\ UNCHANGED mPath

PathNext ==
    \/ \E n \in Token : PathAppend(<<n>>) \/ PathAppend(<<n, SEP>>)
    \/ Normalize \/ MakeAbsolute \/ Mkdir \/ MkdirsCall \/ Touch \/ RemovePath
-----------------------------------------------------------------------------
\* Properties.

\* Once a name was seen, each ".." has a name of its own to take away.
Balanced(p) ==
    0 <= FoldLeft(LAMBDA d, t : IF d = -1 \/ t \in {SEP, "."} THEN d
                                ELSE IF t = ".." THEN (IF d = 0 THEN 0 ELSE IF d = 1 THEN -1 ELSE d - 1)
                                ELSE IF d = 0 THEN 2 ELSE d + 1,
                  0, p)

\* The normal form of a path leads to the same place, has no "." and no empty
\* part, and is its own normal form; parent(), if it has a separator to cut at,
\* and filename() together name that place again.  It holds for the paths in
\* which no ".." goes above the first name of the path.
NormalFormKeepsPlace ==
    (mPath # <<>> /\ Balanced(mPath) /\ NormalForm(mPath) # Aborts) =>
        LET q == NormalForm(mPath)
        IN  /\ Leads(q) = Leads(mPath)
            /\ NormalForm(q) = q
            /\ \A i \in DOMAIN q : q[i] = ".." => \A j \in 1..i : q[j] \in {SEP, ".."}
            /\ LastSep(q) # 0 => Walk(Leads(Parent(q)), Filename(q)) = Leads(q)

\* mkdirs() does half of what Path.h:102 says, "Make a directory of this name
\* and any parent dirs that do not exist": when it reports success the parents
\* are there, and whatever it made of them hangs together, but nothing makes
\* the directory of the name itself.
MkdirsMakesParents ==
    /\ made => LET parts == SelectSeq(mPath, LAMBDA t : t # SEP)
               IN  Len(parts) > 1 => InTree(Joined(Front(parts)), dirs, files)
    /\ \A d \in (dirs \cup files) \ {<<>>, CWD} : Front(d) \in dirs

=============================================================================

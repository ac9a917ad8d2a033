------------------------------ MODULE Logging -------------------------------
(***************************************************************************)
(* logging (src/src/logging.cpp): the list of source files with their      *)
(* categories and levels, the cached string of their names, the line that  *)
(* jh_log_print puts together in a fixed buffer, the names of functions it *)
(* prints, and the hex dump of print_buffer2.  A text is a sequence of     *)
(* characters; of a message only the length matters.                       *)
(***************************************************************************)
EXTENDS Integers, Sequences, FiniteSets, SequencesExt

CONSTANTS
    FileName,           \* names of source files
    Rank,               \* per file name: its place in the order of strcasecmp
    LogLevel, Categories,
    BufSize,            \* JH_LOG_OUTPUT_BUF_SIZE
    MaxFiles,           \* bound: registrations in one behaviour
    Declaration         \* __PRETTY_FUNCTION__ texts: [text, name]

ASSUME LoggingAssumption ==
    /\ \A f \in FileName : Rank[f] \in Nat
    /\ BufSize \in Nat /\ BufSize > 2 /\ MaxFiles \in Nat

VARIABLES
    firstRegister,      \* first_register
    files,              \* file_data_list: [filename, cats, level]
    names,              \* jh_log_names_buffer: the names in it, or NoNames
    logFile, copyFile,  \* whether logging_file and logging_copy_file are set
    mark,               \* logging_mark_num
    printed,            \* the line last printed: its text, what it would be in an endless
                        \* buffer, and the number of files it went to
    lastSet,            \* history: the last logging_set_level that found its file, or NotSet
    stale               \* history: logging_cleanup was called and nothing registered since

logVars == <<firstRegister, files, names, logFile, copyFile, mark, printed, lastSet, stale>>

NoNames == <<"NULL">>
NotSet == [f |-> "none", l |-> 0]
NoLine == [text |-> <<"\n">>, full |-> <<"\n">>, to |-> 0]

LogInit ==
    /\ firstRegister = TRUE /\ files = <<>> /\ names = NoNames
    /\ logFile = FALSE /\ copyFile = FALSE /\ mark = 0
    /\ printed = NoLine /\ lastSet = NotSet /\ stale = FALSE
-----------------------------------------------------------------------------
\* Mutant of RegisterLogging: the names are kept.
RegisterKeepsNames(f, c, l) ==
    LET before == SelectInSeq(files, LAMBDA d : Rank[d.filename] > Rank[f])
        node == [filename |-> f, cats |-> c, level |-> l]
    IN  /\ Len(files) < MaxFiles
        /\ files' = IF before = 0 THEN Append(files, node) ELSE InsertAt(files, before, node)
        /\ names' = names
        /\ firstRegister' = FALSE
        /\ logFile' = (logFile \/ firstRegister)
        /\ stale' = FALSE
        /\ UNCHANGED <<copyFile, mark, printed, lastSet>>

\* register_logging: before the first name that is greater; the names are
\* built anew when they are next asked for.  The first call is logging_init.
RegisterLogging(f, c, l) ==
    LET before == SelectInSeq(files, LAMBDA d : Rank[d.filename] > Rank[f])
        node == [filename |-> f, cats |-> c, level |-> l]
    IN  /\ Len(files) < MaxFiles
        /\ files' = IF before = 0 THEN Append(files, node) ELSE InsertAt(files, before, node)
        /\ names' = NoNames
        /\ firstRegister' = FALSE
        /\ logFile' = (logFile \/ firstRegister)
        /\ stale' = FALSE
        /\ UNCHANGED <<copyFile, mark, printed, lastSet>>

\* logging_get_names.
GetNames ==
    /\ ~firstRegister
    /\ names' = IF names = NoNames /\ files # <<>> THEN [i \in DOMAIN files |-> files[i].filename] ELSE names
    /\ UNCHANGED <<firstRegister, files, logFile, copyFile, mark, printed, lastSet, stale>>

\* logging_cleanup empties the list and leaves the names.
Cleanup ==
    /\ ~firstRegister
    /\ files' = <<>>
    /\ lastSet' = NotSet /\ stale' = TRUE
    /\ UNCHANGED <<firstRegister, names, logFile, copyFile, mark, printed>>

\* logging_set_cats and logging_set_level: every entry of the name, or of all.
Named(d, f) == f = "all" \/ d.filename = f

SetCats(f, c) ==
    /\ ~firstRegister
    /\ files' = [i \in DOMAIN files |-> IF Named(files[i], f) THEN [files[i] EXCEPT !.cats = c] ELSE files[i]]
    /\ UNCHANGED <<firstRegister, names, logFile, copyFile, mark, printed, lastSet, stale>>

SetLevel(f, l) ==
    /\ ~firstRegister
    /\ files' = [i \in DOMAIN files |-> IF Named(files[i], f) THEN [files[i] EXCEPT !.level = l] ELSE files[i]]
    /\ lastSet' = IF \E i \in DOMAIN files : files[i].filename = f THEN [f |-> f, l |-> l]
                  ELSE IF f = "all" THEN NotSet ELSE lastSet
    /\ UNCHANGED <<firstRegister, names, logFile, copyFile, mark, printed, stale>>

\* lookup_file and logging_get_level (logging_get_cats alike): the first entry.
LookupFile(f) == SelectInSeq(files, LAMBDA d : d.filename = f)
GetLevel(f) == IF LookupFile(f) = 0 THEN -1 ELSE files[LookupFile(f)].level

SetFile(on) ==
    /\ logFile' = on
    /\ UNCHANGED <<firstRegister, files, names, copyFile, mark, printed, lastSet, stale>>

SetCopyFile(on) ==
    /\ copyFile' = on
    /\ UNCHANGED <<firstRegister, files, names, logFile, mark, printed, lastSet, stale>>

\* logging_mark writes to logging_file, which must be set, and counts.
LoggingMark ==
    /\ logFile /\ mark = 0
    /\ mark' = mark + 1
    /\ UNCHANGED <<firstRegister, files, names, logFile, copyFile, printed, lastSet, stale>>
-----------------------------------------------------------------------------
\* function_name_fixup, on text p: from the last parenthesis back to the one it
\* belongs to, from there back to a blank outside <>; what stands between is
\* copied without what is in <>.

Depth(p, i, j, open, close) ==
    Cardinality({k \in i..j : p[k] = close}) - Cardinality({k \in i..j : p[k] = open})

Greatest(S) == IF S = {} THEN 0 ELSE CHOOSE i \in S : \A j \in S : j <= i

ArgumentsAt(p) == Greatest({i \in DOMAIN p : Depth(p, i, Len(p), "(", ")") = 0})

BlankBefore(p, end) == Greatest({i \in 1..end : p[i] = " " /\ Depth(p, i, end, "<", ">") = 0})

\* Whether the copying loop, from place b, is outside <> at place i; the outer
\* brackets themselves are copied.
Outside(p, b, i) ==
    LET before == -Depth(p, b, i - 1, "<", ">")
    IN  (IF p[i] = ">" THEN before - 1 ELSE before) = 0

FunctionNameFixup(p, len) ==
    LET end == ArgumentsAt(p)
        begin == BlankBefore(p, end) + 1
        copied == {i \in begin..end - 1 : Outside(p, begin, i)}
        name == [n \in 1..Cardinality(copied) |->
                    p[CHOOSE i \in copied : Cardinality({j \in copied : j <= i}) = n]]
    IN  IF end = 0 THEN SubSeq(p, 1, IF Len(p) < len THEN Len(p) ELSE len - 1)
        ELSE SubSeq(name, 1, IF Len(name) < len THEN Len(name) ELSE len - 1)
-----------------------------------------------------------------------------
\* snprintf at place len of the buffer: what fits, and the length of it all.
Snprintf(b, text) ==
    [text |-> b.text \o SubSeq(text, 1, IF Len(text) < BufSize - b.len THEN Len(text) ELSE BufSize - 1 - b.len),
     len |-> b.len + Len(text)]

More(b, text) == IF b.len < BufSize THEN Snprintf(b, text) ELSE b

Full(prefix, n, error, tail) == prefix \o [i \in 1..n |-> "m"] \o error \o tail \o <<"\n">>

\* Mutant of EndLine: only a line longer than the buffer counts as truncated.
EndLongerLine(b) == IF b.len > BufSize THEN [b.text EXCEPT ![BufSize - 1] = "\n"] ELSE b.text

\* A line that was truncated gets its newline in the last place.
EndLine(b) == IF b.len >= BufSize THEN [b.text EXCEPT ![BufSize - 1] = "\n"] ELSE b.text

\* jh_log_print with a message of n characters: thread, function and level;
\* the message; errno's text; the place in the source.  One line is looked at.
JhLogPrint(d, n, error, tail) ==
    LET prefix == <<"[">> \o FunctionNameFixup(d.text, BufSize)
        b == More(More(More(Snprintf([text |-> <<>>, len |-> 0], prefix), [i \in 1..n |-> "m"]), error),
                  tail \o <<"\n">>)
    IN  /\ printed = NoLine
        /\ printed' = [text |-> EndLine(b), full |-> Full(<<"[">> \o d.name, n, error, tail),
                       to |-> (IF logFile THEN 1 ELSE 0) + (IF copyFile THEN 1 ELSE 0)]
        /\ UNCHANGED <<firstRegister, files, names, logFile, copyFile, mark, lastSet, stale>>

\* print_buffer2: the length of a line for cnt bytes after a label, of which
\* some are '%' and doubled.
DumpLine(label, cnt, percents) ==
    LET start == (IF label > 9 THEN 9 ELSE label) + 2
        hex == 16 * 3 + 1
        chars == cnt + percents + (IF cnt > 8 THEN 1 ELSE 0)
    IN  start + hex + 2 + chars + 1

\* Printing reads nothing of the registry, so the two are explored apart.
RegistryNext ==
    \/ \E f \in FileName, c \in Categories, l \in LogLevel : RegisterLogging(f, c, l)
    \/ \E f \in FileName \cup {"all"} :
          (\E c \in Categories : SetCats(f, c)) \/ (\E l \in LogLevel : SetLevel(f, l))
    \/ GetNames \/ Cleanup

PrintNext ==
    \/ \E on \in BOOLEAN : SetFile(on) \/ SetCopyFile(on)
    \/ LoggingMark
    \/ \E d \in Declaration, n \in 0..BufSize, error \in {<<>>, <<"e">>} : JhLogPrint(d, n, error, <<"t">>)

LogSpec == LogInit /\ [][RegistryNext \/ PrintNext]_logVars
-----------------------------------------------------------------------------
\* The cached names are those of the registered files in alphabetical order,
\* whatever was registered between two calls of logging_get_names; except
\* between logging_cleanup and the next registration, when they are the old
\* ones.  logging_get_level gives what logging_set_level last set, even if the
\* file's name is registered again in between.
RegistryIsCurrent ==
    /\ ~stale /\ names # NoNames => names = [i \in DOMAIN files |-> files[i].filename]
    /\ \A i, j \in DOMAIN files : i < j => Rank[files[i].filename] <= Rank[files[j].filename]
    /\ lastSet # NotSet => GetLevel(lastSet.f) = lastSet.l

\* The declarations are such that function_name_fixup finds their names, which
\* are made of the characters in Chars.
NamesAreFixedUp(Chars) ==
    /\ "\n" \notin Chars
    /\ \A d \in Declaration :
          /\ d.name \in Seq(Chars)
          /\ FunctionNameFixup(d.text, BufSize)
                = SubSeq(d.name, 1, IF Len(d.name) < BufSize THEN Len(d.name) ELSE BufSize - 1)

\* A line that is printed ends with its one newline, fits in the buffer with
\* its terminating zero, and is whole if the whole of it fits; the function in
\* it is named as declared, without the arguments of templates.  The longest
\* line of a hex dump fits in its 100 bytes.
LinesAreWhole ==
    /\ Len(printed.text) < BufSize
    /\ {i \in DOMAIN printed.text : printed.text[i] = "\n"} = {Len(printed.text)}
    /\ IF Len(printed.full) < BufSize THEN printed.text = printed.full
       ELSE SubSeq(printed.text, 1, BufSize - 2) = SubSeq(printed.full, 1, BufSize - 2)
    /\ \A label \in 0..10, cnt \in 1..16 : DumpLine(label, cnt, cnt) + 1 <= 100
=============================================================================

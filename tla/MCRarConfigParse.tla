-------------------------- MODULE MCRarConfigParse --------------------------
(***************************************************************************)
(* Checks the .rarconfig reader of RarConfigParse over every file of up to *)
(* MaxLines lines built from the line forms below, with distinct section   *)
(* names (how hashtable_entry_alloc treats a repeated name is in hash.c,   *)
(* which is not in the repository).  The properties compare the table      *)
(* rarconfig_init builds with a reading of spec.md sections 4.9 and 6: a    *)
(* section is the "[path]" line and the "key = value" lines after it up to *)
(* the next line starting with '['; a key set twice keeps its last value.  *)
(***************************************************************************)
EXTENDS RarConfigParse, ConfigReading, FiniteSets

CONSTANTS
    Sections,       \* archive paths named by "[...]" lines
    EofValues,      \* save-eof values: [spaced, word]
    SeekLiterals,   \* seek-length values: [neg, q, r]
    PasswordValues, \* password values: [quotes, text]
    AliasValues,    \* alias values: [ok, file, alias]
    MaxLines,
    InjectFaults    \* whether allocations may fail

Lines ==
    [kind : {"header"}, name : Sections]
    \cup {[kind |-> "bracket"], [kind |-> "comment"]}
    \cup [kind : {"kv"}, key : {"save-eof"}, val : EofValues]
    \cup [kind : {"kv"}, key : {"seek-length"}, val : SeekLiterals]
    \cup [kind : {"kv"}, key : {"password"}, val : PasswordValues]
    \cup [kind : {"kv"}, key : {"alias"}, val : AliasValues]
    \cup [kind : {"kv"}, key : {"other"}, val : {"x"}]

(* Paths for alias lines: /d/x, /d/y, /e/x, /x, the relative d/y and "/".  *)
DX == [abs |-> TRUE, comps |-> <<"d", "x">>]
DY == [abs |-> TRUE, comps |-> <<"d", "y">>]
EX == [abs |-> TRUE, comps |-> <<"e", "x">>]
TopX == [abs |-> TRUE, comps |-> <<"x">>]
RelDY == [abs |-> FALSE, comps |-> <<"d", "y">>]
Root == [abs |-> TRUE, comps |-> <<>>]

AliasValue(a, b) == [ok |-> TRUE, file |-> a, alias |-> b]

(* A sibling rename, a rename to another directory, to another depth, to  *)
(* a relative path, to "/", and a value sscanf cannot split.             *)
(* Values written the way the code accepts them, and the ones it does not. *)
EofAsAccepted ==
    {[spaced |-> FALSE, word |-> w] : w \in {"true", "false", "yes"}}
EofSpaced == EofAsAccepted \cup {[spaced |-> TRUE, word |-> "true"]}
SeekSmall ==
    {[neg |-> FALSE, q |-> 0, r |-> 100], [neg |-> FALSE, q |-> 0, r |-> 7]}
(* 4294967295 = 1 * 2^31 + 2147483647                                    *)
SeekWide == SeekSmall \cup {[neg |-> FALSE, q |-> 1, r |-> 2147483647]}
MCPasswordValues ==
    {[quotes |-> 2, text |-> "pw1"], [quotes |-> 2, text |-> "pw2"],
     [quotes |-> 1, text |-> "pw1"]}

MCAliasValues ==
    {AliasValue(DX, DY), AliasValue(DX, EX), AliasValue(DX, TopX),
     AliasValue(DX, RelDY), AliasValue(DX, Root),
     [ok |-> FALSE, file |-> NullPath, alias |-> NullPath]}

HeaderLines(f) == {i \in 1..Len(f) : f[i].kind = "header"}

Files ==
    {f \in BoundedSeq(Lines, MaxLines) :
        \A i, j \in HeaderLines(f) : f[i].name = f[j].name => i = j}

VARIABLES
    file,   \* the .rarconfig file
    fail    \* which allocation fails while each line is handled

Init ==
    /\ file \in Files
    /\ fail \in IF InjectFaults THEN [1..Len(file) -> Faults]
                ELSE {[i \in 1..Len(file) |-> "none"]}

Next == UNCHANGED <<file, fail>>
Spec == Init /\ [][Next]_<<file, fail>>

Parsed == ParseConfig(file, fail)
Table == Parsed.table

Named == SectionNames(file)

-----------------------------------------------------------------------------
(* spec.md section 6 ("key = value" lines): a section whose last save-eof  *)
(* line says true or false reads back 1 or 0 from rarconfig_getprop_int,   *)
(* and -1 when it has none.                                                *)
SaveEofAsConfigured ==
    \A n \in Named :
        GetpropInt(Table[n], SaveEofProp) = ReadSaveEof(file, n)

(* spec.md section 6 (--seek-length=N, a byte count): a section with a     *)
(* seek-length line never reads back as -1, the value of "not set", and a  *)
(* value that fits an int reads back as written.                           *)
SeekLengthAsConfigured ==
    \A n \in Named :
        LET got == GetpropInt(Table[n], SeekLengthProp)
        IN IF ReadSeekLength(file, n) = {} THEN got = -1
           ELSE \A lit \in ReadSeekLength(file, n) :
                   got >= 0 /\ (~lit.neg /\ lit.q = 0 => got = lit.r)

(* A section's last quoted password is what rarconfig_getprop_char and     *)
(* rarconfig_getprop_wchar return; NULL when it has none.                  *)
PasswordAsConfigured ==
    \A n \in Named :
        /\ GetpropChar(Table[n]) = ReadPassword(file, n)
        /\ GetpropWchar(Table[n]) = ReadPassword(file, n)

NoNullEntryWrite == ~Parsed.ub

=============================================================================

---------------------------- MODULE ConfigService ----------------------------
(***************************************************************************)
(* What the per-archive configuration promises its callers, from spec.md   *)
(* sections 4.9 and 5: once loaded, the table holds, for every section of  *)
(* the file, the values ConfigReading reads from it; a lookup answers from *)
(* the table as it is at one instant; an alias is added only between       *)
(* files of one directory; the table can be dropped and loaded again.      *)
(* Nothing here says how: RarConfig is checked to implement it.            *)
(***************************************************************************)
EXTENDS ConfigReading

CONSTANTS
    Threads, File, Paths, AliasFiles, AliasInputs,
    SeekLengthProp, SaveEofProp, PasswordProp,
    Nothing,        \* the NULL string
    NoPath          \* the NULL path

VARIABLES
    conf,       \* [loaded, table]: table maps a section name to its settings
    answer      \* what each thread's last lookup returned

Answer(op, p, k, file, found, ival, sval, pval) ==
    [op |-> op, path |-> p, prop |-> k, file |-> file, found |-> found,
     ival |-> ival, sval |-> sval, pval |-> pval]

(* The literals of seek-length lines are byte counts that fit an int.      *)
SeekOf(n) ==
    IF ReadSeekLength(File, n) = {} THEN -1
    ELSE (CHOOSE lit \in ReadSeekLength(File, n) : TRUE).r

Configured ==
    [n \in SectionNames(File) |->
        [seek_length |-> SeekOf(n), save_eof |-> ReadSaveEof(File, n),
         password |-> ReadPassword(File, n), aliases |-> ReadAliases(File, n)]]

Unloaded == [loaded |-> FALSE, table |-> <<>>]

Init ==
    /\ conf = Unloaded
    /\ answer = [t \in Threads |->
                   Answer("none", Nothing, Nothing, NoPath, FALSE, -1, Nothing, NoPath)]

Has(p) == conf.loaded /\ p \in DOMAIN conf.table

Load ==
    /\ ~conf.loaded
    /\ conf' = [loaded |-> TRUE, table |-> Configured]
    /\ UNCHANGED answer

Unload ==
    /\ conf.loaded
    /\ conf' = Unloaded
    /\ UNCHANGED answer

IntOf(c, k) == IF k = SeekLengthProp THEN c.seek_length ELSE c.save_eof

(* An int, or the password as a string or a wide string.                   *)
Query(t, op, p, k) ==
    /\ answer' = [answer EXCEPT ![t] =
          IF ~Has(p) THEN Answer(op, p, k, NoPath, FALSE, -1, Nothing, NoPath)
          ELSE Answer(op, p, k, NoPath, TRUE,
                      IF op = "int" THEN IntOf(conf.table[p], k) ELSE -1,
                      IF op = "int" THEN Nothing ELSE conf.table[p].password,
                      NoPath)]
    /\ UNCHANGED conf

(* The alias first recorded for file.                                      *)
AliasOf(c, file) ==
    LET n == SelectInSeq(c.aliases, LAMBDA a : a.file = file)
    IN IF n = 0 THEN NoPath ELSE c.aliases[n].alias

QueryAlias(t, p, file) ==
    /\ answer' = [answer EXCEPT ![t] =
          Answer("alias", p, Nothing, file, Has(p), -1, Nothing,
                 IF Has(p) THEN AliasOf(conf.table[p], file) ELSE NoPath)]
    /\ UNCHANGED conf

AddAlias(p, in) ==
    /\ Has(p)
    /\ SiblingRename(in.file, in.alias)
    /\ conf' = [conf EXCEPT !.table[p].aliases = Append(@, in)]
    /\ UNCHANGED answer

Next ==
    \/ Load
    \/ Unload
    \/ \E t \in Threads, p \in Paths :
          \/ \E op \in {"int", "char", "wchar"},
                k \in {SeekLengthProp, SaveEofProp, PasswordProp} : Query(t, op, p, k)
          \/ \E f \in AliasFiles : QueryAlias(t, p, f)
    \/ \E p \in Paths, in \in AliasInputs : AddAlias(p, in)

Spec == Init /\ [][Next]_<<conf, answer>>

=============================================================================

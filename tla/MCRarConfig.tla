----------------------------- MODULE MCRarConfig -----------------------------
(***************************************************************************)
(* Two FUSE threads share the configuration table of a file with two       *)
(* sections: [A] sets seek-length, a password and an alias (save-eof is    *)
(* left unset), [B] only a seek-length.  The threads call every function   *)
(* of rarconfig.c on A, and on C, which the file does not name; the        *)
(* separation of sections is checked by MCRarConfigParse.                  *)
(***************************************************************************)
EXTENDS RarConfig

DX == [abs |-> TRUE, comps |-> <<"d", "x">>]
DY == [abs |-> TRUE, comps |-> <<"d", "y">>]
DZ == [abs |-> TRUE, comps |-> <<"d", "z">>]
EX == [abs |-> TRUE, comps |-> <<"e", "x">>]

Kv(k, v) == [kind |-> "kv", key |-> k, val |-> v]

MCFile ==
    << [kind |-> "header", name |-> "A"],
       Kv("seek-length", [neg |-> FALSE, q |-> 0, r |-> 100]),
       Kv("password", [quotes |-> 2, text |-> "pw1"]),
       Kv("alias", [ok |-> TRUE, file |-> DX, alias |-> DY]),
       [kind |-> "header", name |-> "B"],
       Kv("seek-length", [neg |-> FALSE, q |-> 0, r |-> 7]) >>

MCPaths == {"A", "C"}
MCAliasFiles == {DX, DZ}

ThreadSymmetry == Permutations(Threads)


(* rarconfig_setalias inputs: a sibling rename, and one to another        *)
(* directory.                                                             *)
SiblingInputs == {[file |-> DZ, alias |-> DY]}
CrossInputs == SiblingInputs \cup {[file |-> DZ, alias |-> EX]}

=============================================================================

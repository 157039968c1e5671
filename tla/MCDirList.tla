------------------------------ MODULE MCDirList ------------------------------
(***************************************************************************)
(* Model values for DirList: two names whose hashes collide, so the        *)
(* duplicate scan of dir_entry_add has to compare names, and a heap of     *)
(* five nodes, enough for two listings with two entries each and a head    *)
(* left over, and small enough that malloc runs out.                       *)
(***************************************************************************)
EXTENDS DirList

MCHash == [n \in Names |-> 5]

(* The listings are interchangeable: nothing tells L1 from L2.            *)
ListSymmetry == Permutations(Lists)

=============================================================================

--------------------------- MODULE MCNestedListing ---------------------------
(***************************************************************************)
(* Model values for NestedListing.  The archive graph has a cycle back to  *)
(* the top archive, a twin archive with the same bytes as another one      *)
(* (equal fingerprints), a chain one level deeper than the depth limit and *)
(* an empty archive.  Sizes are in units of 256 MiB: BufferCap 4 is the   *)
(* 1 GiB cap of the callback and 40 the 10 GiB default budget.            *)
(***************************************************************************)
EXTENDS NestedListing

MCArchives == {"outer", "mid", "twin", "inner", "deep"}

MCTopArchives == {"outer"}

(* outer -> mid -> inner -> deep is four levels; inner -> outer closes a   *)
(* cycle; twin has mid's bytes, so outer -> twin -> mid repeats mid's      *)
(* fingerprint.                                                            *)
MCNested ==
    [a \in MCArchives |->
        CASE a = "outer" -> {"mid", "twin"}
          [] a = "mid"   -> {"inner"}
          [] a = "twin"  -> {"mid"}
          [] a = "inner" -> {"outer", "deep"}
          [] OTHER       -> {}]

MCFpHash == [a \in MCArchives |->
                CASE a = "outer" -> 11 [] a = "inner" -> 13
                  [] a = "deep" -> 14 [] OTHER -> 12]

(* mid and twin hold a whole 1 GiB, which the doubling of the callback     *)
(* may refuse (1 + 2 units leave a capacity of 3, and the last unit asks   *)
(* for 6); inner is small; deep is empty.                                  *)
MCSize == [a \in MCArchives |->
              CASE a = "outer" -> 3 [] a = "inner" -> 1
                [] a = "deep" -> 0 [] OTHER -> 4]

MCMtime == [a \in MCArchives |-> 7]

(* Every archive delivers the bytes its header declares.                   *)
MCUnpacked == MCSize

(* inner's header declares 1 unit and its decoder delivers a whole 1 GiB.  *)
MCUnpackedLying == [MCSize EXCEPT !["inner"] = 4]

(* unset, an out-of-range 0, 2, the maximum 3, and an out-of-range 4.      *)
MCDepthOptions ==
    {[set |-> FALSE, val |-> 0]} \cup
    {[set |-> TRUE, val |-> v] : v \in {0, 2, 3, 4}}

(* unset, a rejected 0, a budget that refuses inner after mid (4) and one  *)
(* that admits both exactly (5).                                           *)
MCSizeOptions ==
    {[set |-> FALSE, val |-> 0]} \cup
    {[set |-> TRUE, val |-> v] : v \in {0, 4, 5}}

=============================================================================

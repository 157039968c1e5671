--------------------------- MODULE FileCacheFlags ---------------------------
(***************************************************************************)
(* The flag set of struct filecache_entry (src/src/filecache.h): a struct  *)
(* of one-bit unsigned int bitfields, declared in one order for a          *)
(* little-endian target and in the reverse order under WORDS_BIGENDIAN,    *)
(* in a union with the word uint32_t flags_uint32 through which the set is *)
(* read and written whole.                                                  *)
(*                                                                         *)
(* Bitfields are laid out as the System V ABI (GCC, Clang) lays them out:  *)
(* in declaration order, in storage units of the declared type (32 bits    *)
(* for unsigned int); a field that does not fit in what is left of the     *)
(* unit starts the next unit; an unnamed field takes its bits.             *)
(***************************************************************************)
EXTENDS Integers, Sequences

UnitBits == 32          \* bits of an unsigned int storage unit

Flag(n) == [name |-> n, width |-> 1]
Pad(w) == [name |-> "", width |-> w]       \* an unnamed bitfield

(* The declaration without WORDS_BIGENDIAN.                                *)
LittleEndianDecl ==
    << Flag("raw"), Flag("multipart"), Flag("force_dir"),
       Flag("vsize_fixup_needed"), Flag("encrypted"), Flag("vsize_resolved"),
       Pad(19),
       Flag("detection_deferred"), Flag("is_nested_rar"), Flag("unresolved"),
       Flag("dry_run_done"), Flag("check_atime"), Flag("direct_io"),
       Flag("avi_tested"), Flag("save_eof") >>

(* The declaration under WORDS_BIGENDIAN.                                  *)
BigEndianDecl ==
    << Flag("save_eof"), Flag("avi_tested"), Flag("direct_io"),
       Flag("check_atime"), Flag("dry_run_done"), Flag("unresolved"),
       Flag("is_nested_rar"), Flag("detection_deferred"),
       Pad(19),
       Flag("vsize_resolved"), Flag("encrypted"), Flag("vsize_fixup_needed"),
       Flag("force_dir"), Flag("multipart"), Flag("raw") >>

(* The bit offset, counted in allocation order from the start of the      *)
(* struct, at which each field of decl starts, the first bits taken.       *)
RECURSIVE Allocate(_, _)
Allocate(decl, used) ==
    IF decl = <<>> THEN <<>>
    ELSE LET w == Head(decl).width
             start == IF (used % UnitBits) + w > UnitBits
                      THEN (used \div UnitBits + 1) * UnitBits
                      ELSE used
         IN <<start>> \o Allocate(Tail(decl), start + w)

Decl(bo) == IF bo = "little" THEN LittleEndianDecl ELSE BigEndianDecl

(* The storage unit flag n lies in; flags_uint32 spans unit 0.           *)
Unit(bo, n) ==
    LET d == Decl(bo)
        i == CHOOSE j \in 1..Len(d) : d[j].name = n
    IN Allocate(d, 0)[i] \div UnitBits

FlagNames == {LittleEndianDecl[i].name : i \in 1..Len(LittleEndianDecl)} \ {""}

VARIABLE order      \* the target's byte order

Init == order \in {"little", "big"}
Next == UNCHANGED order
Spec == Init /\ [][Next]_order

(* spec.md section 3 calls the flag set packed, and the union reads and    *)
(* writes it through uint32_t flags_uint32: every flag declared in         *)
(* filecache.h is a bit of that word, on either byte order.               *)
FlagsInWord == \A n \in FlagNames : Unit(order, n) = 0

=============================================================================

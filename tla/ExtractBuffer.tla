---------------------------- MODULE ExtractBuffer ---------------------------
(***************************************************************************)
(* Extraction of one nested archive into memory (src/src/recursion.c):     *)
(* the decoder hands the member's bytes to extract_to_memory_callback one  *)
(* chunk at a time; the callback grows struct extract_buffer by doubling,  *)
(* refuses to grow it past 1 GiB, and makes the decoder stop by returning  *)
(* -1.  The buffer may then be written to a temporary file                 *)
(* (write_buffer_to_tempfile) and is released by free_extract_buffer.      *)
(*                                                                         *)
(* Sizes are in units of BufferCap / 8 (128 MiB when BufferCap is 1 GiB).  *)
(* The decoder (RARProcessFile) is outside the repository: it delivers     *)
(* chunks until the member is complete or the callback returns -1.  Other  *)
(* callback messages and empty chunks return 1 without touching the        *)
(* buffer, so they are stuttering steps and left out.                      *)
(***************************************************************************)
EXTENDS Integers

CONSTANTS
    BufferCap,      \* the 1 GiB limit of the callback
    ChunkSizes,     \* sizes of the chunks the decoder passes
    MemberSizes     \* unpacked sizes the nested archive may have

ASSUME /\ BufferCap \in Nat \ {0}
       /\ ChunkSizes \subseteq Nat \ {0}
       /\ MemberSizes \subseteq Nat

VARIABLES
    buf,        \* struct extract_buffer: [size, capacity, error]
    member,     \* unpacked size of the nested archive being extracted
    delivered,  \* bytes the decoder has passed to the callback
    phase,      \* "extracting", "done", "aborted" or "freed"
    oom,        \* history: a realloc failed during this extraction
    tmp         \* the temporary file: [exists, bytes]

vars == <<buf, member, delivered, phase, oom, tmp>>

EmptyBuffer == [size |-> 0, capacity |-> 0, error |-> 0]
NoFile == [exists |-> FALSE, bytes |-> 0]

Init ==
    /\ buf = EmptyBuffer
    /\ member \in MemberSizes
    /\ delivered = 0
    /\ phase = "extracting"
    /\ oom = FALSE
    /\ tmp = NoFile

-----------------------------------------------------------------------------
(* Mutant: the new capacity is always the doubled one.                     *)
GrownCapacityDoubleOnly(b, chunk) == b.capacity * 2

(* The capacity extract_to_memory_callback asks realloc for: double the    *)
(* old one, or exactly what is needed if doubling is not enough.           *)
GrownCapacity(b, chunk) ==
    IF b.capacity * 2 < b.size + chunk THEN b.size + chunk
    ELSE b.capacity * 2

NeedsGrowth(chunk) == buf.size + chunk > buf.capacity

(* The decoder passes a chunk and the callback stores it, growing the      *)
(* buffer first if needed; realloc succeeds.                               *)
StoreChunk(chunk) ==
    /\ phase = "extracting"
    /\ buf.error = 0
    /\ delivered + chunk <= member
    /\ NeedsGrowth(chunk) => GrownCapacity(buf, chunk) <= BufferCap
    /\ buf' = [buf EXCEPT
                 !.capacity = IF NeedsGrowth(chunk)
                              THEN GrownCapacity(buf, chunk) ELSE @,
                 !.size = @ + chunk]
    /\ delivered' = delivered + chunk
    /\ UNCHANGED <<member, phase, oom, tmp>>

(* The grown capacity would pass 1 GiB: error is set, -1 stops the         *)
(* decoder.                                                                *)
RefuseChunkTooLarge(chunk) ==
    /\ phase = "extracting"
    /\ buf.error = 0
    /\ delivered + chunk <= member
    /\ NeedsGrowth(chunk)
    /\ GrownCapacity(buf, chunk) > BufferCap
    /\ buf' = [buf EXCEPT !.error = 1]
    /\ delivered' = delivered + chunk
    /\ phase' = "aborted"
    /\ UNCHANGED <<member, oom, tmp>>

(* Mutant: a failed realloc drops the chunk and returns 1 without setting *)
(* error, so the decoder goes on to the end of the member.                 *)
RefuseChunkNoMemContinue(chunk) ==
    /\ phase = "extracting"
    /\ buf.error = 0
    /\ delivered + chunk <= member
    /\ NeedsGrowth(chunk)
    /\ GrownCapacity(buf, chunk) <= BufferCap
    /\ delivered' = delivered + chunk
    /\ oom' = TRUE
    /\ UNCHANGED <<buf, member, phase, tmp>>

(* realloc fails: error is set, -1 stops the decoder.                      *)
RefuseChunkNoMem(chunk) ==
    /\ phase = "extracting"
    /\ buf.error = 0
    /\ delivered + chunk <= member
    /\ NeedsGrowth(chunk)
    /\ GrownCapacity(buf, chunk) <= BufferCap
    /\ buf' = [buf EXCEPT !.error = 1]
    /\ delivered' = delivered + chunk
    /\ phase' = "aborted"
    /\ oom' = TRUE
    /\ UNCHANGED <<member, tmp>>

(* The decoder has delivered the whole member and returns success.         *)
ExtractionComplete ==
    /\ phase = "extracting"
    /\ delivered = member
    /\ phase' = "done"
    /\ UNCHANGED <<buf, member, delivered, oom, tmp>>

-----------------------------------------------------------------------------
(* write_buffer_to_tempfile, three outcomes of mkstemp and write (write    *)
(* returns -1 or fewer bytes than asked).  A buffer without data is        *)
(* refused with -EINVAL and nothing is created.                            *)
TempFileWritten ==
    /\ phase = "done"
    /\ buf.size > 0
    /\ ~tmp.exists
    /\ tmp' = [exists |-> TRUE, bytes |-> buf.size]
    /\ UNCHANGED <<buf, member, delivered, phase, oom>>

TempFileCreateFailed ==
    /\ phase = "done"
    /\ buf.size > 0
    /\ ~tmp.exists
    /\ phase' = "aborted"
    /\ UNCHANGED <<buf, member, delivered, oom, tmp>>

(* Mutant: a short write closes the file but does not unlink it.           *)
ShortWriteKeepsFile(written) ==
    [exists |-> TRUE, bytes |-> written]

(* What a short write leaves behind: the file is closed and unlinked.      *)
ShortWriteOutcome(written) == NoFile

TempFileShortWrite ==
    /\ phase = "done"
    /\ buf.size > 0
    /\ ~tmp.exists
    /\ \E written \in -1..(buf.size - 1) :
          tmp' = ShortWriteOutcome(written)
    /\ phase' = "aborted"
    /\ UNCHANGED <<buf, member, delivered, oom>>

(* free_extract_buffer: data freed, every field zeroed.                    *)
FreeExtractBuffer ==
    /\ phase \in {"done", "aborted"}
    /\ buf' = EmptyBuffer
    /\ phase' = "freed"
    /\ UNCHANGED <<member, delivered, oom, tmp>>

(* The next nested archive is extracted into a fresh buffer; the caller    *)
(* has unlinked the previous temporary file.                               *)
NextExtraction ==
    /\ phase = "freed"
    /\ buf' = EmptyBuffer
    /\ member' \in MemberSizes
    /\ delivered' = 0
    /\ phase' = "extracting"
    /\ oom' = FALSE
    /\ tmp' = NoFile

Next ==
    \/ \E c \in ChunkSizes :
          StoreChunk(c) \/ RefuseChunkTooLarge(c) \/ RefuseChunkNoMem(c)
    \/ ExtractionComplete
    \/ TempFileWritten
    \/ TempFileCreateFailed
    \/ TempFileShortWrite
    \/ FreeExtractBuffer
    \/ NextExtraction

Spec == Init /\ [][Next]_vars

-----------------------------------------------------------------------------
TypeOK ==
    /\ buf \in [size : Nat, capacity : Nat, error : {0, 1}]
    /\ member \in MemberSizes
    /\ delivered \in 0..member
    /\ phase \in {"extracting", "done", "aborted", "freed"}
    /\ oom \in BOOLEAN
    /\ tmp \in [exists : BOOLEAN, bytes : Nat]

(* While no error is set the buffer holds exactly the bytes the decoder    *)
(* delivered, inside the allocation: memcpy never writes past capacity,    *)
(* and capacity never passes the 1 GiB limit.                              *)
BufferHoldsDelivered ==
    (phase \in {"extracting", "done"} /\ buf.error = 0) =>
        /\ buf.size = delivered
        /\ buf.size <= buf.capacity
        /\ buf.capacity <= BufferCap

(* A temporary file that exists holds the whole extracted archive: a       *)
(* failed or short write never leaves a truncated archive behind.          *)
TempFileWhole ==
    tmp.exists => tmp.bytes = member

(* spec.md section 4.8: the in-memory extraction is capped at 1 GiB per    *)
(* nested archive, so an extraction fails for size only when the archive's *)
(* unpacked bytes exceed that cap.                                         *)
ExtractionFailsOnlyBeyondCap ==
    (phase = "aborted" /\ buf.error = 1 /\ ~oom) => member > BufferCap

=============================================================================

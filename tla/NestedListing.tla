---------------------------- MODULE NestedListing ----------------------------
(***************************************************************************)
(* The recursion core as one listing thread runs it (spec.md section 4.8): *)
(* the walk of NestedWalk, where every nested archive that passes the      *)
(* admission checks is first extracted into memory by the callback of      *)
(* ExtractBuffer, optionally written to a temporary file, and only then    *)
(* listed.  A failed extraction frees the buffer and pops the context      *)
(* again, and the member stays a plain file.  The buffer of a listed level *)
(* stays allocated while the prober reads from it and is freed with        *)
(* free_extract_buffer when the level is left.                             *)
(*                                                                         *)
(* The glue (which step follows which) is the caller's, in rar2fs.c, and   *)
(* is modelled from the spec; every step it takes is an action or operator *)
(* of the two component modules, which are translated from recursion.c.    *)
(* Unpacked[a] is what the decoder delivers for a; Size[a] is the unpacked *)
(* size the archive header declares, which the admission checks count.     *)
(***************************************************************************)
EXTENDS Integers, Sequences, FiniteSets, SequencesExt

CONSTANTS
    Archives, TopArchives, Nested, FpHash, Size, Mtime, DepthOptions,
    SizeOptions, MaxRecursionDepth, DefaultMaxRecursionDepth,
    DefaultMaxUnpackedSize,
    Unpacked,       \* Unpacked[a]: the bytes the decoder delivers for a
    BufferCap,      \* the 1 GiB cap of extract_to_memory_callback
    ChunkSizes,     \* sizes of the chunks the decoder passes
    NoArchive       \* no nested archive is being extracted

ASSUME /\ Unpacked \in [Archives -> Nat]
       /\ 1 \in ChunkSizes   \* the decoder can always pass the last byte
       /\ NoArchive \notin Archives

VARIABLES
    ctx, stack, pc, root, expanded, degraded,   \* the walk (NestedWalk)
    buf, member, delivered, phase, oom, tmp,    \* the extraction (ExtractBuffer)
    pending,    \* the admitted member being extracted, or NoArchive
    held        \* held[i]: the extract_buffer the archive of level i is read from

walkVars == <<ctx, stack, pc, root, expanded, degraded>>
extVars == <<buf, member, delivered, phase, oom, tmp>>
vars == <<walkVars, extVars, pending, held>>

W == INSTANCE NestedWalk
EB == INSTANCE ExtractBuffer
        WITH MemberSizes <- {Unpacked[a] : a \in Archives} \cup {0}

-----------------------------------------------------------------------------
(* No extraction under way: the buffer is empty and no file is open.       *)
Idle ==
    /\ buf = EB!EmptyBuffer
    /\ member = 0
    /\ delivered = 0
    /\ phase = "freed"
    /\ oom = FALSE
    /\ tmp = EB!NoFile

Init ==
    /\ W!Init
    /\ Idle
    /\ pending = NoArchive
    /\ held = <<>>

(* The top archive is a file of the source tree: its level holds no buffer.*)
StartListing(a, d, s) ==
    /\ W!StartListing(a, d, s)
    /\ held' = <<EB!EmptyBuffer>>
    /\ UNCHANGED <<extVars, pending>>

StartListingNoMem(a, d, s) ==
    /\ W!StartListingNoMem(a, d, s)
    /\ UNCHANGED <<extVars, pending, held>>

(* A member refused before anything is extracted.                          *)
Refuse ==
    /\ pc = "walk"
    /\ \E c \in W!Top.todo :
          \/ W!DescendCycle(c)
          \/ W!DescendTooDeep(c)
          \/ W!DescendNoMem(c)
          \/ W!DescendTooBig(c)
    /\ UNCHANGED <<extVars, pending, held>>

(* Member c is admitted and its extraction starts into a fresh buffer.     *)
Admit ==
    /\ pc = "walk"
    /\ \E c \in W!Top.todo :
          /\ W!Admission(c)
          /\ pending' = c
          /\ buf' = EB!EmptyBuffer
          /\ member' = Unpacked[c]
          /\ delivered' = 0
          /\ phase' = "extracting"
          /\ oom' = FALSE
          /\ tmp' = EB!NoFile
    /\ pc' = "extract"
    /\ UNCHANGED <<stack, root, expanded, degraded, held>>

(* One step of the decoder and its callback, or of write_buffer_to_tempfile.*)
Extract ==
    /\ pc = "extract"
    /\ \/ \E ch \in ChunkSizes :
             \/ EB!StoreChunk(ch)
             \/ EB!RefuseChunkTooLarge(ch)
             \/ EB!RefuseChunkNoMem(ch)
       \/ EB!ExtractionComplete
       \/ EB!TempFileWritten
       \/ EB!TempFileCreateFailed
       \/ EB!TempFileShortWrite
    /\ UNCHANGED <<walkVars, pending, held>>

(* The archive handle is open on the buffer (or on the temporary file,     *)
(* which is unlinked now): the prober lists the members one level down,    *)
(* and the buffer moves to that level.                                     *)
EnterNested ==
    /\ pc = "extract"
    /\ phase = "done"
    /\ W!Enter(pending)
    /\ held' = Append(held, buf)
    /\ buf' = EB!EmptyBuffer
    /\ member' = 0
    /\ delivered' = 0
    /\ phase' = "freed"
    /\ oom' = FALSE
    /\ tmp' = EB!NoFile
    /\ pending' = NoArchive
    /\ pc' = "walk"
    /\ UNCHANGED <<ctx, root, degraded>>

(* The extraction or the temporary file failed: free_extract_buffer, the   *)
(* pop of the level pushed at admission, and the member stays a file.      *)
AbandonNested ==
    /\ pc = "extract"
    /\ phase = "aborted"
    /\ EB!FreeExtractBuffer
    /\ ctx' = W!RecursionPopArchive(ctx)
    /\ stack' = W!TakeMember(pending)
    /\ degraded' = TRUE
    /\ pending' = NoArchive
    /\ pc' = "walk"
    /\ UNCHANGED <<root, expanded, held>>

(* The level is done: its context level is popped and its buffer freed.    *)
Ascend ==
    /\ W!Ascend
    /\ held' = SubSeq(held, 1, Len(held) - 1)
    /\ UNCHANGED <<extVars, pending>>

NextListing ==
    /\ W!NextListing
    /\ UNCHANGED <<extVars, pending, held>>

Next ==
    \/ \E a \in TopArchives, d \in DepthOptions, s \in SizeOptions :
          StartListing(a, d, s) \/ StartListingNoMem(a, d, s)
    \/ Refuse
    \/ Admit
    \/ Extract
    \/ EnterNested
    \/ AbandonNested
    \/ Ascend
    \/ NextListing

Spec == Init /\ [][Next]_vars

(* The listing thread, the decoder it calls and the callback run without   *)
(* waiting on anything: while a listing is in progress its steps stay      *)
(* enabled and are taken.  Another readdir need never come.                *)
FairSpec ==
    Spec /\ WF_vars(Refuse \/ Admit \/ Extract \/ EnterNested \/ AbandonNested
                    \/ Ascend)


-----------------------------------------------------------------------------
TypeOK ==
    /\ EB!TypeOK
    /\ ctx.depth \in 0..MaxRecursionDepth
    /\ ctx.chain \in [W!Slots -> BOOLEAN]
    /\ stack \in Seq([arc : Archives, todo : SUBSET Archives])
    /\ pc \in {"idle", "walk", "extract", "done"}
    /\ pending \in Archives \cup {NoArchive}
    /\ held \in Seq([size : Nat, capacity : Nat, error : {0, 1}])
    /\ degraded \in BOOLEAN

(* The archives whose levels are open in the context: those of the call    *)
(* stack and, while it is extracted, the admitted member.                  *)
OpenChain == IF pc = "extract" THEN Append(W!Chain, pending) ELSE W!Chain

(* The context's fingerprint stack follows the walk through extraction:    *)
(* the admitted member holds the slot above the listed levels until it is  *)
(* entered or, after a failed extraction, popped again, and depth counts   *)
(* exactly the open levels.                                                *)
StackMirrorsWalk ==
    pc \in {"walk", "extract"} =>
        /\ ctx.depth = Len(OpenChain)
        /\ \A i \in 1..Len(OpenChain) : ctx.visited[i] = W!Fp(OpenChain[i])

(* recursion_push_archive strdup's the path of every level it opens into   *)
(* archive_chain, recursion_pop_archive frees it, and the cleanup at the   *)
(* end of a listing frees what is left: through every refusal, failed      *)
(* strdup and abandoned extraction, exactly the open levels own a path     *)
(* string while a listing runs, and a finished listing owns none.          *)
ChainOwnedByOpenLevels ==
    /\ pc \in {"walk", "extract"} =>
          \A i \in W!Slots : ctx.chain[i] <=> i <= ctx.depth
    /\ pc = "done" => \A i \in W!Slots : ~ctx.chain[i]

(* spec.md section 3: depth and the cumulative size stay within the        *)
(* configured limits (NestedWalk's ContextWithinLimits).                   *)
ContextWithinLimits == W!ContextWithinLimits

(* A listing that met no allocation, size or extraction failure expanded   *)
(* exactly the chains of nested archives spec.md section 4.8 allows.       *)
ExpansionMatchesReference == W!ExpansionMatchesReference

(* Every listing that starts finishes, extractions included.               *)
ListingTerminates == W!ListingTerminates

(* The extraction buffer holds exactly the delivered bytes, within its     *)
(* allocation and the 1 GiB cap (ExtractBuffer's BufferHoldsDelivered).    *)
BufferHoldsDelivered == EB!BufferHoldsDelivered

(* No truncated temporary file is left (ExtractBuffer's TempFileWhole).    *)
TempFileWhole == EB!TempFileWhole

(* The caller lists a nested level only from a buffer the decoder filled  *)
(* completely: a chunk refused by extract_to_memory_callback, for the cap  *)
(* or because realloc failed, leaves error set and a partial archive,      *)
(* which is freed and never listed.  Every open nested level is read from  *)
(* a buffer holding all of its archive's bytes, with no error set.         *)
EnteredLevelsWhole ==
    pc \in {"walk", "extract"} =>
        \A i \in 2..Len(held) :
            /\ held[i].error = 0
            /\ held[i].size = Unpacked[stack[i].arc]

(* The bytes of nested archives held in memory at once: the buffers of the *)
(* open levels and the one being filled.                                   *)
BytesHeld == FoldSeq(LAMBDA b, acc : b.size + acc, buf.size, held)

(* spec.md section 4.8, the decompression-bomb limit: however deep the     *)
(* recursion, the nested archives' bytes held in memory at once never pass *)
(* max_unpacked_size.  check_unpack_size_limit counts the size each        *)
(* admitted archive declares, and the buffers of all open levels live      *)
(* together.                                                               *)
HeldWithinBudget ==
    pc \in {"walk", "extract"} => BytesHeld <= ctx.max_size

=============================================================================

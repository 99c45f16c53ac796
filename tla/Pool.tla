-------------------------------- MODULE Pool --------------------------------
(***************************************************************************)
(* ngx_palloc.c: a pool of memory, the small pieces cut from its blocks,   *)
(* the large ones that the system gives, and the entries that the pool     *)
(* keeps about those in its own blocks.                                    *)
(*                                                                         *)
(* Offsets count from the start of a block, in units of memory.            *)
(***************************************************************************)
EXTENDS Integers, FiniteSets, Sequences, SequencesExt

CONSTANTS
    BlockSize,           \* size of the pool and of each block
    PoolHead, DataHead,  \* sizeof ngx_pool_t, ngx_pool_data_t
    EntrySize, CleanupSize,   \* sizeof ngx_pool_large_t, ngx_pool_cleanup_t
    FileSize,            \* sizeof ngx_pool_cleanup_file_t
    Alignment,           \* NGX_ALIGNMENT
    FailedLimit,         \* 4: failures after which a block is passed over
    LargeLimit,          \* 3: entries looked through for an unused one
    Sizes,               \* sizes that are asked for
    MaxBlocks, MaxLarge, MaxFiles  \* bounds on blocks, on large pieces in use, on open files

Aligned(x) == ((x + Alignment - 1) \div Alignment) * Alignment

(* Pools are made with a multiple of NGX_POOL_ALIGNMENT; the fields of      *)
(* their heads are words.                                                   *)
ASSUME PoolAssumption ==
    /\ Alignment \in Nat \ {0} /\ BlockSize \in Nat /\ BlockSize % Alignment = 0
    /\ DataHead \in Nat \ {0} /\ PoolHead \in Aligned(DataHead) .. BlockSize - 1
    /\ {EntrySize, CleanupSize, FileSize} \subseteq 1 .. BlockSize - PoolHead
    /\ Sizes \subseteq Nat \ {0}
    /\ {FailedLimit, LargeLimit, MaxBlocks, MaxLarge, MaxFiles} \subseteq Nat

VARIABLES
    blocks, current, large,   \* pool->d and what follows, current, large
    cleanup,    \* pool->cleanup: where the entries are, their handlers, fd for a file
    files,      \* descriptors that the pool is to close
    exists,     \* does the pool exist?
    heap,       \* large pieces of the system in use
    pieces,     \* history: small pieces in use
    spoiled     \* history: reset while it had cleanup entries

pool == <<blocks, current, large, cleanup>>
poolVars == <<pool, files, exists, heap, pieces, spoiled>>

NoAlloc == 0
None == 0
FileHandlers == {"ngx_pool_cleanup_file", "ngx_pool_delete_file"}
max == BlockSize - PoolHead      \* smaller than a page here
(* A state of the pool that a call goes through, and what it returns.       *)
State == [blocks |-> blocks, current |-> current, large |-> large,
          pieces |-> pieces, p |-> NoAlloc]
Nothing == [b |-> NoAlloc, from |-> 0, to |-> 0]
Piece(b, from, size) == [b |-> b, from |-> from, to |-> from + size]

-----------------------------------------------------------------------------
(* ngx_palloc_small: the first block with room, beginning with the current  *)
(* one.  The difference is unsigned: a start past the end would have room.  *)
Start(s, b, align) == IF align THEN Aligned(s.blocks[b].last) ELSE s.blocks[b].last
Room(s, b, size, align) ==
    LET left == BlockSize - Start(s, b, align) IN left < 0 \/ left >= size

(* ngx_palloc_block: each block that was passed over, but the last one,     *)
(* counts a failure; too many, and the pool begins with the next one.       *)
Passed(s) == s.current .. Len(s.blocks) - 1
Counted(s) ==
    [b \in DOMAIN s.blocks |->
        [last |-> s.blocks[b].last,
         failed |-> IF b \in Passed(s) THEN s.blocks[b].failed + 1 ELSE s.blocks[b].failed]]
Current(s) ==
    LET full == {b \in Passed(s) : s.blocks[b].failed > FailedLimit}
    IN  IF full = {} THEN s.current ELSE Max(full) + 1

ngx_palloc_block(s, size) ==
    LET piece == Piece(Len(s.blocks) + 1, Aligned(DataHead), size)
    IN  [blocks |-> Append(Counted(s), [last |-> piece.to, failed |-> 0]),
         current |-> Current(s), large |-> s.large,
         pieces |-> s.pieces \cup {piece}, p |-> piece]

(* The outcomes: the system may have no memory for a block.                 *)
ngx_palloc_small(s, size, align) ==
    LET with == {b \in s.current .. Len(s.blocks) : Room(s, b, size, align)}
        b == Min(with)
        piece == Piece(b, Start(s, b, align), size)
    IN  IF with # {}
        THEN {[s EXCEPT !.blocks[b].last = piece.to, !.pieces = @ \cup {piece}, !.p = piece]}
        ELSE {[s EXCEPT !.p = Nothing]}
             \cup (IF Len(s.blocks) < MaxBlocks THEN {ngx_palloc_block(s, size)} ELSE {})

(* An entry for a large piece in front of the others.                       *)
Enter(s, id) == [s EXCEPT !.large = <<[at |-> s.p, alloc |-> id]>> \o @]

(* ngx_palloc_large: an unused entry is looked for among the first ones;    *)
(* without memory for a new one the piece is given back.                    *)
Unused == {k \in DOMAIN large : large[k].alloc = NoAlloc /\ k <= LargeLimit + 2}
Fresh == Min(1 .. MaxLarge \ heap)

(* Mutant of Reuse: an entry in use is taken for an unused one.             *)
ReuseAnyEntry == IF Len(large) > LargeLimit + 1 THEN {LargeLimit + 1} ELSE Unused

Reuse == Unused
Step(s) ==
    /\ blocks' = s.blocks /\ current' = s.current /\ large' = s.large
    /\ pieces' = s.pieces

NewEntry(s0) ==
    \E s \in ngx_palloc_small(s0, EntrySize, TRUE) :
        IF s.p = Nothing THEN Step(s) /\ UNCHANGED heap
        ELSE Step(Enter(s, Fresh)) /\ heap' = heap \cup {Fresh}

LargePiece(s) ==
    /\ Cardinality(heap) < MaxLarge
    /\ IF Reuse # {}
       THEN Step([s EXCEPT !.large[Min(Reuse)].alloc = Fresh]) /\ heap' = heap \cup {Fresh}
       ELSE NewEntry(s)

ngx_palloc_large ==
    /\ exists /\ LargePiece(State)
    /\ UNCHANGED <<cleanup, files, exists, spoiled>>

(* ngx_pmemalign always makes a new entry.                                  *)
ngx_pmemalign ==
    /\ exists /\ Cardinality(heap) < MaxLarge
    /\ NewEntry(State)
    /\ UNCHANGED <<cleanup, files, exists, spoiled>>

(* ngx_palloc and, not aligned, ngx_pnalloc; a larger size is               *)
(* ngx_palloc_large.                                                        *)
ngx_palloc(size, align) ==
    /\ exists /\ size <= max
    /\ \E s \in ngx_palloc_small(State, size, align) : Step(s)
    /\ UNCHANGED <<cleanup, files, heap, exists, spoiled>>

ngx_pfree(id) ==
    /\ exists
    /\ LET k == Min({j \in DOMAIN large : large[j].alloc = id})
       IN  large' = [large EXCEPT ![k].alloc = NoAlloc]
    /\ heap' = heap \ {id}
    /\ UNCHANGED <<blocks, current, cleanup, files, pieces, exists, spoiled>>

(* ngx_pool_cleanup_add: an entry, and data for it if size is not 0, which  *)
(* may be refused after the entry was given.  The caller sets the handler,  *)
(* for a file it has opened or another; if it got no entry it closes the    *)
(* file itself.                                                             *)
Entry(p, handler, fd) == [at |-> p, handler |-> handler, fd |-> fd]
ngx_pool_cleanup_add(size, handler, fd) ==
    /\ exists /\ size <= max
    /\ \E s \in ngx_palloc_small(State, CleanupSize, TRUE) :
        \/ s.p = Nothing /\ Step(s) /\ UNCHANGED <<cleanup, files>>
        \/ /\ s.p # Nothing
           /\ \E t \in IF size = 0 THEN {s} ELSE ngx_palloc_small(s, size, TRUE) :
                /\ Step(t)
                /\ IF t.p = Nothing THEN UNCHANGED <<cleanup, files>>
                   ELSE /\ cleanup' = <<Entry(s.p, handler, fd)>> \o cleanup
                        /\ files' = files \cup ({fd} \ {None})
    /\ UNCHANGED <<heap, exists, spoiled>>

(* The same with data that no block has room for: a large piece, if the     *)
(* system has the memory.                                                   *)
ngx_pool_cleanup_add_large ==
    /\ exists
    /\ \E s \in ngx_palloc_small(State, CleanupSize, TRUE) :
        \/ Step(s) /\ UNCHANGED <<cleanup, heap>>
        \/ /\ s.p # Nothing /\ LargePiece(s)
           /\ cleanup' = IF heap' = heap THEN cleanup
                         ELSE <<Entry(s.p, "other", None)>> \o cleanup
    /\ UNCHANGED <<files, exists, spoiled>>

Opens(fd) == fd \in 1 .. MaxFiles \ files /\ \A n \in 1 .. fd - 1 : n \in files
AddCleanup ==
    \/ \E size \in {0} \cup Sizes : ngx_pool_cleanup_add(size, "other", None)
    \/ ngx_pool_cleanup_add_large
    \/ \E handler \in FileHandlers, fd \in 1 .. MaxFiles :
          Opens(fd) /\ ngx_pool_cleanup_add(FileSize, handler, fd)

(* ngx_pool_run_cleanup_file closes a file early, by the first entry for    *)
(* its descriptor, which then has no handler.                               *)
For(c, fd) == c.handler = "ngx_pool_cleanup_file" /\ c.fd = fd
ngx_pool_run_cleanup_file(fd) ==
    /\ exists
    /\ \E k \in DOMAIN cleanup :
        /\ For(cleanup[k], fd) /\ \A j \in 1 .. k - 1 : ~For(cleanup[j], fd)
        /\ cleanup' = [cleanup EXCEPT ![k].handler = "none"]
    /\ files' = files \ {fd}
    /\ UNCHANGED <<blocks, current, large, exists, heap, pieces, spoiled>>

(* ngx_reset_pool frees the large pieces and takes back all blocks, those   *)
(* of the entries included; it leaves the cleanup entries in their list.    *)
Freed == {l.alloc : l \in Range(large)} \ {NoAlloc}
ngx_reset_pool ==
    /\ exists
    /\ heap' = heap \ Freed
    /\ blocks' = [b \in DOMAIN blocks |-> [last |-> PoolHead, failed |-> 0]]
    /\ current' = 1 /\ large' = <<>>
    /\ pieces' = {c.at : c \in Range(cleanup)}
    /\ spoiled' = (spoiled \/ cleanup # <<>>)
    /\ UNCHANGED <<cleanup, files, exists>>

(* ngx_destroy_pool runs the handlers that are left, frees the large       *)
(* pieces, then the blocks, in which the entries are.                       *)
ClosedByHandlers == {c.fd : c \in {d \in Range(cleanup) : d.handler \in FileHandlers}}
ngx_destroy_pool ==
    /\ exists /\ exists' = FALSE
    /\ files' = files \ ClosedByHandlers
    /\ heap' = heap \ Freed
    /\ blocks' = <<>> /\ large' = <<>> /\ cleanup' = <<>> /\ pieces' = {}
    /\ UNCHANGED <<current, spoiled>>

PoolInit ==
    /\ blocks = <<[last |-> PoolHead, failed |-> 0]>> /\ current = 1
    /\ large = <<>> /\ cleanup = <<>> /\ exists = TRUE
    /\ heap = {} /\ files = {} /\ pieces = {} /\ spoiled = FALSE

(* After such a reset the entries may be overwritten: anything can happen.  *)
PoolNext ==
    /\ ~spoiled
    /\ \/ \E size \in Sizes, align \in BOOLEAN : ngx_palloc(size, align)
       \/ ngx_palloc_large \/ ngx_pmemalign
       \/ \E id \in heap : ngx_pfree(id)
       \/ AddCleanup \/ \E fd \in files : ngx_pool_run_cleanup_file(fd)
       \/ ngx_reset_pool \/ ngx_destroy_pool

PoolSpec == PoolInit /\ [][PoolNext]_poolVars

-----------------------------------------------------------------------------
(* No two pieces share memory, none reaches into the head or past the end   *)
(* of its block, those of the pool itself included; each large piece has    *)
(* one entry, or it would be freed twice or never, and each file one entry  *)
(* with its handler, or another file with its number would be closed.  (A   *)
(* reset takes back the memory of cleanup entries that stay in their list:  *)
(* nothing in the code prevents it.)                                        *)
InBlock(p) == p.from >= (IF p.b = 1 THEN PoolHead ELSE DataHead) /\ p.to <= BlockSize
Apart(p, q) == p.b # q.b \/ p.to <= q.from \/ q.to <= p.from
Entries == {l.at : l \in Range(large)} \cup {c.at : c \in Range(cleanup)}
ToClose(c) == c.handler \in FileHandlers
PoolSound ==
    /\ ~spoiled =>
        /\ \A p \in pieces : InBlock(p)
        /\ \A p, q \in pieces : p # q => Apart(p, q)
        /\ Entries \subseteq pieces
    /\ heap = Freed /\ files = ClosedByHandlers
    /\ \A j, k \in DOMAIN large :
          large[j].alloc = large[k].alloc => j = k \/ large[j].alloc = NoAlloc
    /\ \A j, k \in DOMAIN cleanup :
          ToClose(cleanup[j]) /\ ToClose(cleanup[k]) /\ cleanup[j].fd = cleanup[k].fd => j = k
    /\ exists => current \in DOMAIN blocks
=============================================================================

----------------------------- MODULE ChmRetrieve -----------------------------
(***************************************************************************)
(* chm_retrieve_entry and what it runs: the hash cache of decompressed     *)
(* blocks, the decompressor whose state carries over from one block to the *)
(* next inside a reset interval, and the two fields (lzx_last_block,       *)
(* lzx_last_block_data) that remember where the decompressor stands.       *)
(*                                                                         *)
(* One client uses the handle, one call at a time.  Memory the library     *)
(* allocates for blocks is a heap of buffers; a buffer's content is the    *)
(* number of the block whose decompressed bytes it holds, Junk when it     *)
(* holds none (fresh from malloc, or what a decoder that was in the wrong  *)
(* state produced), Free when it is not allocated.                         *)
(***************************************************************************)
EXTENDS Integers, FiniteSets

CONSTANTS
    BlockLen,        \* reset_table.block_len: bytes in a decompressed block
    ResetBlkCount,   \* reset_blkcount: blocks in a reset interval
    MaxCacheBlocks,  \* MAX_CACHE_BLOCKS
    MaxBlocksCached, \* CHM_MAX_BLOCKS_CACHED: the size chm_parse chooses
    CacheSizes,      \* sizes the client passes to chm_set_cache_size
    Entry,           \* the archive's entries
    MaxLen,          \* size of the client's buffer, its largest request
    Buf,             \* the addresses malloc can return for a block
    NULL,
    Faults           \* what can fail: a subset of {"malloc", "read", "data"}

CHM_UNCOMPRESSED == 0
CHM_COMPRESSED   == 1
Spaces           == 0..2    \* 2 stands for the spaces the library ignores

\* Contents of a buffer that are no block, and of the client's buffer.
Free == -1
Junk == -2
Raw  == -3      \* bytes of the uncompressed section

\* States of the decompressor besides "ready to decode block b".
NoDecoder == -1     \* h->lzx_state is NULL
Fresh     == -2     \* as lzx_init and lzx_reset leave it
Lost      == -3     \* it has consumed something else than b's predecessors

ASSUME BlockAssumption ==
    /\ BlockLen \in Nat \ {0}
    /\ ResetBlkCount \in Nat \ {0}
ASSUME CacheAssumption ==
    /\ MaxCacheBlocks \in Nat \ {0}
    /\ MaxBlocksCached \in 1..MaxCacheBlocks
    /\ CacheSizes \subseteq Nat \ {0}
ASSUME EntryAssumption ==
    Entry \subseteq [space: Spaces, start: Nat, length: Nat]
ASSUME ClientAssumption == MaxLen \in Nat
ASSUME HeapAssumption == NULL \notin Buf
ASSUME FaultAssumption == Faults \subseteq {"malloc", "read", "data"}

VARIABLES
    compression_enabled,
    n_cache_blocks,       \* slots in use: 0 .. n_cache_blocks - 1
    cache_blocks,         \* slot -> buffer or NULL
    cache_block_indices,  \* slot -> block number its buffer is tagged with
    heap,                 \* buffer -> content
    lzx_state,            \* where the decompressor stands
    lzx_last_block,
    lzx_last_block_data,
    pc,                   \* where the call in progress is
    call,                 \* its arguments, updated as the loop advances them
    prev,                 \* blocks still to decode before the wanted one
    buf,                  \* the client's buffer
    ret                   \* what the last call returned

cacheVars == <<n_cache_blocks, cache_blocks, cache_block_indices>>
lzxVars   == <<lzx_state, lzx_last_block, lzx_last_block_data>>
clientVars == <<call, buf, ret>>
vars == <<compression_enabled, cacheVars, heap, lzxVars, pc, prev, clientVars>>

Slots == 0 .. MaxCacheBlocks - 1
Min2(a, b) == IF a < b THEN a ELSE b

Byte == Int \X Int
Unwritten == <<Junk, 0>>

\* The byte a correct reader finds at offset a of entry e.
ByteAt(e, a) ==
    IF e.space = CHM_COMPRESSED
    THEN <<(e.start + a) \div BlockLen, (e.start + a) % BlockLen>>
    ELSE <<Raw, e.start + a>>

NoCall == [e |-> [space |-> CHM_UNCOMPRESSED, start |-> 0, length |-> 0],
           addr |-> 0, len |-> 0, total |-> 0, from |-> 0, asked |-> 0]

Init ==
    /\ compression_enabled \in BOOLEAN
    /\ n_cache_blocks = MaxBlocksCached
    /\ cache_blocks = [s \in Slots |-> NULL]
    /\ cache_block_indices = [s \in Slots |-> 0]
    /\ heap = [b \in Buf |-> Free]
    /\ lzx_state = NoDecoder
    /\ lzx_last_block = 0
    /\ lzx_last_block_data = NULL
    /\ pc = "idle"
    /\ call = NoCall
    /\ prev = 0
    /\ buf = [k \in 0 .. MaxLen - 1 |-> Unwritten]
    /\ ret = 0

-----------------------------------------------------------------------------
(* chm_retrieve_entry *)

\* The client calls with an entry, an offset and the size of its buffer.
Retrieve(e, addr, len) ==
    /\ pc = "idle"
    /\ pc' = "enter"
    /\ call' = [e |-> e, addr |-> addr, len |-> len, total |-> 0,
                from |-> addr, asked |-> len]
    /\ buf' = [k \in 0 .. MaxLen - 1 |-> Unwritten]
    /\ UNCHANGED <<compression_enabled, cacheVars, heap, lzxVars, prev, ret>>

Return(n) ==
    /\ pc' = "idle"
    /\ ret' = n

\* Mutant: the request is not clipped to the entry.
ClippedNot(e, addr, len) == len

\* Length clipped to the end of the entry.
Clipped(e, addr, len) ==
    IF addr + len > e.length THEN e.length - addr ELSE len

\* The early returns: an offset at or past the end, a space that is neither
\* of the two, a compressed entry while compression is disabled.
ReturnNothing ==
    /\ pc = "enter"
    /\ \/ call.addr >= call.e.length
       \/ call.e.space \notin {CHM_UNCOMPRESSED, CHM_COMPRESSED}
       \/ call.e.space = CHM_COMPRESSED /\ ~compression_enabled
    /\ Return(0)
    /\ UNCHANGED <<compression_enabled, cacheVars, heap, lzxVars, prev, call, buf>>

\* An uncompressed entry is read straight into the client's buffer: what the
\* reader returns (-1, or fewer bytes, when it fails) is what the client gets.
RetrieveUncompressed ==
    /\ pc = "enter"
    /\ call.addr < call.e.length
    /\ call.e.space = CHM_UNCOMPRESSED
    /\ LET len == Clipped(call.e, call.addr, call.len)
       IN  \E n \in {len} \union IF "read" \in Faults THEN -1 .. len ELSE {} :
             /\ buf' = [k \in DOMAIN buf |->
                          IF k < n THEN <<Raw, call.e.start + call.addr + k>>
                                   ELSE buf[k]]
             /\ Return(n)
    /\ UNCHANGED <<compression_enabled, cacheVars, heap, lzxVars, prev, call>>

EnterRegionLoop ==
    /\ pc = "enter"
    /\ call.addr < call.e.length
    /\ call.e.space = CHM_COMPRESSED
    /\ compression_enabled
    /\ call' = [call EXCEPT !.len = Clipped(call.e, call.addr, @)]
    /\ pc' = "region"
    /\ UNCHANGED <<compression_enabled, cacheVars, heap, lzxVars, prev, buf, ret>>

-----------------------------------------------------------------------------
(* decompress_region: one iteration of the loop in chm_retrieve_entry *)

NBlock  == (call.e.start + call.addr) \div BlockLen
NOffset == (call.e.start + call.addr) % BlockLen

\* Mutant: the rest of the block is copied whatever is left of the request.
NLenWholeBlock == BlockLen - NOffset

NLen    == Min2(call.len, BlockLen - NOffset)

Slot(b) == b % n_cache_blocks

\* Mutant: the slot's tag is not compared.
CachedAnyTag(b) == cache_blocks[Slot(b)] # NULL

\* get_cached_block
Cached(b) ==
    /\ cache_blocks[Slot(b)] # NULL
    /\ cache_block_indices[Slot(b)] = b

\* The bookkeeping of the loop around decompress_region.
Advance ==
    /\ call' = [call EXCEPT !.addr = @ + NLen, !.len = @ - NLen,
                            !.total = @ + NLen]
    /\ IF call.len = NLen THEN Return(call.total + NLen)
                          ELSE pc' = "region" /\ ret' = ret

\* Mutant: buf is not moved on, every swath lands at its start.
DeliverAtStart(content) ==
    /\ buf' = [k \in DOMAIN buf |->
                 IF k < NLen THEN <<content, NOffset + k>> ELSE buf[k]]
    /\ Advance

\* The memcpy into the client's buffer, and on to the next swath.
Deliver(content) ==
    /\ buf' = [k \in DOMAIN buf |->
                 IF k \in call.total .. call.total + NLen - 1
                 THEN <<content, NOffset + (k - call.total)>>
                 ELSE buf[k]]
    /\ Advance

\* A swath of 0 ends the loop: the call returns what it has so far.
Stop ==
    /\ Return(call.total)
    /\ UNCHANGED <<call, buf>>

RegionEmpty ==
    /\ pc = "region"
    /\ call.len <= 0
    /\ Stop
    /\ UNCHANGED <<compression_enabled, cacheVars, heap, lzxVars, prev>>

RegionHit ==
    /\ pc = "region"
    /\ call.len > 0
    /\ Cached(NBlock)
    /\ Deliver(heap[cache_blocks[Slot(NBlock)]])
    /\ UNCHANGED <<compression_enabled, cacheVars, heap, lzxVars, prev>>

-----------------------------------------------------------------------------
(* decompress_block: which blocks must be decoded before the wanted one *)

\* Mutant: the last block is the starting point even in an earlier interval.
BlockAlignAcross(n, last) ==
    IF last >= 0 /\ n >= last THEN n - last ELSE n % ResetBlkCount

BlockAlign(n, last) ==
    LET align == n % ResetBlkCount
    IN  IF n - align <= last /\ n >= last THEN n - last ELSE align

\* The block is not cached: make a decompressor if there is none yet, and
\* work out how many blocks of the reset interval come first.
RegionMiss ==
    /\ pc = "region"
    /\ call.len > 0
    /\ ~Cached(NBlock)
    /\ lzx_state' = IF lzx_state = NoDecoder THEN Fresh ELSE lzx_state
    /\ lzx_last_block' = IF lzx_state = NoDecoder THEN -1 ELSE lzx_last_block
    /\ prev' = BlockAlign(NBlock, lzx_last_block')
    /\ pc' = "uncompress"
    /\ UNCHANGED <<compression_enabled, cacheVars, heap, lzx_last_block_data,
                   clientVars>>

\* lzx_init returned NULL: the result is not looked at, and the first block to
\* decode is the start of an interval, so lzx_reset gets a null pointer.
DecoderUnavailable ==
    /\ "malloc" \in Faults
    /\ pc = "region"
    /\ call.len > 0
    /\ ~Cached(NBlock)
    /\ lzx_state = NoDecoder
    /\ lzx_last_block' = -1
    /\ pc' = "crash"
    /\ UNCHANGED <<compression_enabled, cacheVars, heap, lzx_state,
                   lzx_last_block_data, prev, clientVars>>

-----------------------------------------------------------------------------
(* uncompress_block *)

Target == NBlock - prev

\* What decompress_block does with a block it got: go on to the next one, or
\* hand the last one to decompress_region.
Continue(content) ==
    \/ /\ prev > 0
       /\ prev' = prev - 1
       /\ pc' = "uncompress"
       /\ UNCHANGED clientVars
    \/ /\ prev = 0
       /\ prev' = prev
       /\ Deliver(content)

\* A NULL from uncompress_block: decompress_block returns 0, which
\* decompress_region takes for a swath of 0 (it tests for -1).
\* Mutant: the failed block is asked for again.
FailRetries ==
    /\ prev' = 0
    /\ pc' = "region"
    /\ UNCHANGED clientVars

Fail ==
    /\ prev' = 0
    /\ Stop

UncompressLast ==
    /\ pc = "uncompress"
    /\ lzx_last_block = Target
    /\ \/ /\ lzx_last_block_data # NULL
          /\ Continue(heap[lzx_last_block_data])
       \/ /\ lzx_last_block_data = NULL
          /\ Fail
    /\ UNCHANGED <<compression_enabled, cacheVars, heap, lzxVars>>

\* Mutant: the decoder runs on into the next interval.
NoReset == lzx_state' = lzx_state

ResetAtIntervalStart ==
    lzx_state' = IF Target % ResetBlkCount = 0 THEN Fresh ELSE lzx_state

\* The decoder is reset, then malloc of the input buffer or of the cache slot
\* fails.
UncompressNoMemory ==
    /\ "malloc" \in Faults
    /\ pc = "uncompress"
    /\ lzx_last_block # Target
    /\ ResetAtIntervalStart
    /\ Fail
    /\ UNCHANGED <<compression_enabled, cacheVars, heap, lzx_last_block,
                   lzx_last_block_data>>

\* The buffer of block b's slot, allocated if the slot has none.
SlotBuffer(b) ==
    \/ /\ cache_blocks[Slot(b)] # NULL
       /\ UNCHANGED <<cache_blocks, heap>>
    \/ /\ cache_blocks[Slot(b)] = NULL
       /\ \E x \in Buf :
            /\ heap[x] = Free
            /\ heap' = [heap EXCEPT ![x] = Junk]
            /\ cache_blocks' = [cache_blocks EXCEPT ![Slot(b)] = x]

\* Mutant: only a slot that gets its first buffer is tagged.
ClaimUntagged(b) ==
    /\ SlotBuffer(b)
    /\ cache_block_indices' =
         IF cache_blocks[Slot(b)] = NULL
         THEN [cache_block_indices EXCEPT ![Slot(b)] = b]
         ELSE cache_block_indices

\* alloc_cached_block tags the slot with the new block number before there is
\* anything of the block to put in it.
AllocCachedBlock(b) ==
    /\ SlotBuffer(b)
    /\ cache_block_indices' = [cache_block_indices EXCEPT ![Slot(b)] = b]

UncompressBegin ==
    /\ pc = "uncompress"
    /\ lzx_last_block # Target
    /\ ResetAtIntervalStart
    /\ AllocCachedBlock(Target)
    /\ pc' = "fill"
    /\ UNCHANGED <<compression_enabled, n_cache_blocks, lzx_last_block,
                   lzx_last_block_data, prev, clientVars>>

\* get_cmpblock_bounds, the check of the compressed length, or the read of the
\* compressed bytes fails.
ReadFails ==
    /\ "read" \in Faults
    /\ pc = "fill"
    /\ Fail
    /\ UNCHANGED <<compression_enabled, cacheVars, heap, lzxVars>>

\* The decoder holds the state that decoding the blocks before b left.
InSync(b) ==
    IF b % ResetBlkCount = 0 THEN lzx_state = Fresh ELSE lzx_state = b

\* Mutant: the pointer to the last block is set once and for all.
DecodedFirstData(content, state) ==
    LET b == cache_blocks[Slot(Target)]
    IN  /\ heap' = [heap EXCEPT ![b] = content]
        /\ lzx_state' = state
        /\ lzx_last_block' = Target
        /\ lzx_last_block_data' =
             IF lzx_last_block_data = NULL THEN b ELSE lzx_last_block_data
        /\ Continue(content)

\* lzx_decompress returned DECR_OK with these bytes in the slot's buffer.
Decoded(content, state) ==
    LET b == cache_blocks[Slot(Target)]
    IN  /\ heap' = [heap EXCEPT ![b] = content]
        /\ lzx_state' = state
        /\ lzx_last_block' = Target
        /\ lzx_last_block_data' = b
        /\ Continue(content)

Decode ==
    /\ pc = "fill"
    /\ \/ InSync(Target) /\ Decoded(Target, Target + 1)
       \* Anything the wrong tables and window happen to produce.
       \/ ~InSync(Target) /\ Decoded(Junk, Lost)
    /\ UNCHANGED <<compression_enabled, cacheVars>>

\* lzx_decompress returned an error: it has consumed input and changed its
\* state, but it copies to the output buffer only when it succeeds.
DecodeFails ==
    /\ pc = "fill"
    /\ "data" \in Faults \/ ~InSync(Target)
    /\ lzx_state' = Lost
    /\ Fail
    /\ UNCHANGED <<compression_enabled, cacheVars, heap, lzx_last_block,
                   lzx_last_block_data>>

-----------------------------------------------------------------------------
(* chm_set_cache_size, chm_close *)

\* The block of slot i stays: no slot before it holds a block that hashes to
\* the same one of n slots.
Keeps(i, n) ==
    /\ cache_blocks[i] # NULL
    /\ \A j \in 0 .. i - 1 :
         cache_blocks[j] # NULL =>
             cache_block_indices[j] % n # cache_block_indices[i] % n

\* Mutant: the loser of a collision is forgotten, not freed.
DropsNone(i, n) == FALSE

\* The block of slot i is freed.
Drops(i, n) == cache_blocks[i] # NULL /\ ~Keeps(i, n)

\* Mutant: the table is copied without hashing again.
MovesNowhere(s, n) ==
    {i \in 0 .. n_cache_blocks - 1 : cache_blocks[i] # NULL /\ i = s /\ s < n}

\* The old slots, none or one, that move to slot s of n.
MovesTo(s, n) ==
    {i \in 0 .. n_cache_blocks - 1 : Keeps(i, n) /\ cache_block_indices[i] % n = s}

TheSlot(S) == CHOOSE i \in S : TRUE

SetCacheSize(nCacheBlocks) ==
    /\ pc = "idle"
    /\ nCacheBlocks # n_cache_blocks
    /\ LET n == Min2(nCacheBlocks, MaxCacheBlocks)
       IN  /\ cache_blocks' = [s \in Slots |->
                 IF MovesTo(s, n) = {} THEN NULL
                 ELSE cache_blocks[TheSlot(MovesTo(s, n))]]
           /\ cache_block_indices' = [s \in Slots |->
                 IF MovesTo(s, n) = {} THEN 0
                 ELSE cache_block_indices[TheSlot(MovesTo(s, n))]]
           /\ heap' = [b \in Buf |->
                 IF \E i \in 0 .. n_cache_blocks - 1 :
                      cache_blocks[i] = b /\ Drops(i, n)
                 THEN Free ELSE heap[b]]
           /\ n_cache_blocks' = n
    /\ UNCHANGED <<compression_enabled, lzxVars, pc, prev, clientVars>>

\* Tears down the decoder and frees the blocks of the slots in use; the handle
\* itself is not cleared.
Close ==
    /\ pc = "idle"
    /\ heap' = [b \in Buf |->
          IF \E s \in 0 .. n_cache_blocks - 1 : cache_blocks[s] = b
          THEN Free ELSE heap[b]]
    /\ pc' = "closed"
    /\ UNCHANGED <<compression_enabled, cacheVars, lzxVars, prev, clientVars>>

-----------------------------------------------------------------------------

Uncompress ==
    \/ UncompressLast
    \/ UncompressNoMemory
    \/ UncompressBegin
    \/ ReadFails
    \/ Decode
    \/ DecodeFails

\* The steps of the library inside a call.
Library ==
    \/ ReturnNothing
    \/ RetrieveUncompressed
    \/ EnterRegionLoop
    \/ RegionEmpty
    \/ RegionHit
    \/ RegionMiss
    \/ DecoderUnavailable
    \/ Uncompress

Client ==
    \/ \E e \in Entry, len \in 0 .. MaxLen :
         \E addr \in 0 .. e.length : Retrieve(e, addr, len)
    \/ \E n \in CacheSizes : SetCacheSize(n)
    \/ Close

Next == Client \/ Library

Spec == Init /\ [][Next]_vars

\* A call runs on the client's thread and blocks on nothing, so the library's
\* next step is always taken; the client need not call again.
FairSpec == Spec /\ WF_vars(Library)

-----------------------------------------------------------------------------
(* Properties *)

InCall == {"enter", "region", "uncompress", "fill"}
InLoop == pc \in {"region", "uncompress", "fill"}

TypeOK ==
    /\ compression_enabled \in BOOLEAN
    /\ n_cache_blocks \in 1 .. MaxCacheBlocks
    /\ cache_blocks \in [Slots -> Buf \union {NULL}]
    /\ cache_block_indices \in [Slots -> Int]
    /\ heap \in [Buf -> Int]
    /\ lzx_state \in Int
    /\ lzx_last_block \in Int
    /\ lzx_last_block_data \in Buf \union {NULL}
    /\ pc \in InCall \union {"idle", "crash", "closed"}
    /\ call \in [e : [space : Spaces, start : Nat, length : Nat], addr : Nat,
                 len : Nat, total : Nat, from : Nat, asked : Nat]
    /\ prev \in Nat
    /\ buf \in [0 .. MaxLen - 1 -> Byte]
    /\ ret \in Int

\* Every byte the client has been given, while the call runs and after it
\* returned, is the byte the entry has at that offset: whatever the calls
\* before left in the cache and in the decoder does not show.
RetrievedIsContent ==
    LET n == IF pc \in InCall THEN call.total ELSE ret
    IN  \A k \in 0 .. n - 1 : buf[k] = ByteAt(call.e, call.from + k)

\* The counts add up: what the loop delivered so far and what it still wants
\* is always the request clipped to the entry, and stays in the client's
\* buffer.
CountsAddUp ==
    InLoop =>
        /\ call.addr = call.from + call.total
        /\ call.total + call.len = Clipped(call.e, call.from, call.asked)
        /\ call.total + call.len <= MaxLen

\* The decoder is only ever run on the block it is ready for: the blocks of
\* the reset interval before it have all been decoded, in order, since the
\* last reset ("fetch all required previous blocks since last reset").
DecoderInSync == pc = "fill" => InSync(Target)

\* The blocks decoded for a wanted block are blocks of its own reset interval,
\* none past it, and none is decoded that the decoder has just been through.
OnlyNeededBlocks ==
    pc \in {"uncompress", "fill"} =>
        /\ Target \div ResetBlkCount = NBlock \div ResetBlkCount
        /\ Target \in 0 .. NBlock
        /\ pc = "fill" /\ Target # 0 /\ Target % ResetBlkCount # 0
              => lzx_last_block = Target - 1

BeingFilled(s) == pc = "fill" /\ s = Slot(Target)

\* A slot get_cached_block would serve holds the block it is tagged with; only
\* the slot being filled does not, and nobody can look at it meanwhile.
ServedSlotsHoldTheirBlock ==
    pc # "closed" => \A s \in 0 .. n_cache_blocks - 1 :
        cache_blocks[s] # NULL /\ ~BeingFilled(s)
            => heap[cache_blocks[s]] = cache_block_indices[s]

\* A slot's tag hashes to the slot, so a block that is in the cache is found.
TagsHashToTheirSlot ==
    \A s \in 0 .. n_cache_blocks - 1 :
        cache_blocks[s] # NULL => Slot(cache_block_indices[s]) = s

\* A buffer the library means to return without looking at the cache is
\* allocated and holds the block lzx_last_block says.
LastDataLive ==
    lzx_last_block_data # NULL /\ pc # "closed" /\ ~(pc = "fill" /\
        cache_blocks[Slot(Target)] = lzx_last_block_data)
            => heap[lzx_last_block_data] = lzx_last_block

\* Each block buffer has one owner: a buffer is allocated exactly when one
\* slot in use points to it, so none leaks, none is freed twice and chm_close
\* leaves nothing behind.
OneOwner ==
    /\ pc # "closed" =>
         /\ \A b \in Buf : heap[b] # Free <=>
              \E s \in 0 .. n_cache_blocks - 1 : cache_blocks[s] = b
         /\ \A s, t \in Slots :
              cache_blocks[s] = cache_blocks[t] /\ s # t => cache_blocks[s] = NULL
    /\ pc = "closed" => \A b \in Buf : heap[b] = Free

\* A call delivers its bytes from the front: it never takes back a byte it has
\* delivered nor leaves a gap, and it returns the number delivered.
DeliversInOrder ==
    [][InLoop =>
         /\ \A k \in 0 .. call.total - 1 : buf'[k] = buf[k]
         /\ \A k \in call'.total .. MaxLen - 1 : buf'[k] = Unwritten
         /\ pc' = "idle" => ret' = call'.total]_vars

\* Every call comes back, whatever fails, or dies of the null pointer an
\* lzx_init without memory leaves.
CallsReturnOrCrash == pc = "enter" ~> pc \in {"idle", "crash"}

-----------------------------------------------------------------------------
(* The promise to the caller *)

Readable(e) ==
    \/ e.space = CHM_UNCOMPRESSED
    \/ e.space = CHM_COMPRESSED /\ compression_enabled

Request(c) == [e |-> c.e, addr |-> c.from, len |-> c.asked]

Store == INSTANCE EntryStore WITH
    Content   <- ByteAt,
    NoRequest <- Request(NoCall),
    status    <- CASE pc \in InCall \union {"crash"} -> "busy"
                   [] pc = "idle" -> "ready"
                   [] pc = "closed" -> "closed",
    readable  <- {e \in Entry : Readable(e)},
    request   <- Request(call),
    result    <- [k \in 0 .. (IF pc \in InCall THEN 0 ELSE ret) - 1 |-> buf[k]]

\* Cache, decoder and blocks together do what a plain store of entries does:
\* each call is answered, with exactly the bytes of the clipped request.
ImplementsEntryStore == Store!Spec

=============================================================================

-------------------------- MODULE ChmRetrieveProofs --------------------------
(***************************************************************************)
(* Theorems about ChmRetrieve, for every block length, reset interval,     *)
(* cache size, set of entries and pattern of failures its assumptions      *)
(* allow: types, memory and tags; how much a call delivers, in which order, *)
(* and which blocks it decodes for it, whatever fails and however the      *)
(* client resizes the cache.  When nothing fails, the decoder, the cache   *)
(* and the last block stay in step with the archive, the client gets the   *)
(* bytes of its entry, and ChmRetrieve does what EntryStore promises.      *)
(***************************************************************************)
EXTENDS ChmRetrieve, NumberFacts

-----------------------------------------------------------------------------
(* Type correctness *)

\* The blocks decompress_block goes back are at most those there are.
LEMMA BlockAlignRange ==
    ASSUME NEW n \in Nat, NEW last \in Int
    PROVE  BlockAlign(n, last) \in 0 .. n
  <1>1. n % ResetBlkCount \in 0 .. n
    BY DivModNat, BlockAssumption
  <1>2. QED
    BY <1>1 DEF BlockAlign

\* The block, offset and length decompress_region computes.
LEMMA RegionTypes ==
    ASSUME TypeOK
    PROVE  /\ NBlock \in Nat
           /\ NOffset \in 0 .. BlockLen - 1
           /\ NLen \in 0 .. call.len
  <1>1. call.e.start + call.addr \in Nat
    BY DEF TypeOK
  <1>2. NBlock \in Nat /\ NOffset \in 0 .. BlockLen - 1
    BY <1>1, DivModNat, ModRange, BlockAssumption DEF NBlock, NOffset
  <1>3. QED
    BY <1>2, BlockAssumption DEF TypeOK, NLen, Min2

\* Handing a block's bytes to the client keeps the types.
LEMMA DeliverTypes ==
    ASSUME TypeOK, NEW c \in Int, Deliver(c)
    PROVE  /\ buf' \in [0 .. MaxLen - 1 -> Byte]
           /\ call' \in [e : [space : Spaces, start : Nat, length : Nat],
                         addr : Nat, len : Nat, total : Nat, from : Nat,
                         asked : Nat]
           /\ ret' \in Int
           /\ pc' \in {"idle", "region"}
  <1>1. NOffset \in Int /\ NLen \in 0 .. call.len
    BY RegionTypes, BlockAssumption
  <1>2. buf' \in [0 .. MaxLen - 1 -> Byte]
    <2>1. buf' = [k \in DOMAIN buf |->
                    IF k \in call.total .. call.total + NLen - 1
                    THEN <<c, NOffset + (k - call.total)>> ELSE buf[k]]
      BY DEF Deliver
    <2>2. DOMAIN buf = 0 .. MaxLen - 1 /\ call.total \in Nat
      BY DEF TypeOK
    <2>3. ASSUME NEW k \in 0 .. MaxLen - 1
          PROVE  <<c, NOffset + (k - call.total)>> \in Byte /\ buf[k] \in Byte
      <3>1. NOffset + (k - call.total) \in Int
        BY <1>1, <2>2, ClientAssumption
      <3>2. buf[k] \in Byte
        BY DEF TypeOK
      <3>3. QED
        BY <3>1, <3>2 DEF Byte
    <2>4. QED
      BY <2>1, <2>2, <2>3
  <1> DEFINE Calls == [e : [space : Spaces, start : Nat, length : Nat],
                       addr : Nat, len : Nat, total : Nat, from : Nat,
                       asked : Nat]
             c1 == [call EXCEPT !.addr = call.addr + NLen]
             c2 == [c1 EXCEPT !.len = call.len - NLen]
             c3 == [c2 EXCEPT !.total = call.total + NLen]
  <1>3. call' \in Calls
    <2>1. call \in Calls /\ call.addr + NLen \in Nat
          /\ call.len - NLen \in Nat /\ call.total + NLen \in Nat
      <3>1. call \in Calls
        BY DEF TypeOK
      <3>2. call.addr \in Nat /\ call.len \in Nat /\ call.total \in Nat
        BY <3>1
      <3>3. call.addr + NLen \in Nat /\ call.len - NLen \in Nat /\ call.total + NLen \in Nat
        BY <1>1, <3>2
      <3>4. QED
        BY <3>1, <3>3
    <2>2. c1 \in Calls
      BY <2>1
    <2>3. c2 \in Calls
      BY <2>1, <2>2
    <2>4. c3 \in Calls
      BY <2>1, <2>3
    <2>5. call' = c3
      BY DEF Deliver, Advance
    <2>6. QED
      BY <2>4, <2>5
  <1>4. ret' \in Int /\ pc' \in {"idle", "region"}
    <2>1. call.total + NLen \in Int /\ call.total \in Int
      <3>1. call.total \in Nat
        BY DEF TypeOK
      <3>2. QED
        BY <1>1, <3>1
    <2>2. QED
      BY <1>1, <2>1 DEF Deliver, Advance, Return, TypeOK
  <1> HIDE DEF c1, c2, c3
  <1>5. QED
    BY <1>2, <1>3, <1>4

\* So does what follows a block that could be had.
LEMMA ContinueTypes ==
    ASSUME TypeOK, NEW c \in Int, Continue(c)
    PROVE  /\ prev' \in Nat
           /\ buf' \in [0 .. MaxLen - 1 -> Byte]
           /\ call' \in [e : [space : Spaces, start : Nat, length : Nat],
                         addr : Nat, len : Nat, total : Nat, from : Nat,
                         asked : Nat]
           /\ ret' \in Int
           /\ pc' \in {"idle", "region", "uncompress"}
  <1>1. CASE prev > 0 /\ prev' = prev - 1 /\ pc' = "uncompress"
             /\ UNCHANGED clientVars
    BY <1>1 DEF TypeOK, clientVars
  <1>2. CASE prev = 0 /\ prev' = prev /\ Deliver(c)
    BY <1>2, DeliverTypes DEF TypeOK
  <1>3. QED
    BY <1>1, <1>2 DEF Continue

LEMMA InitType == Init => TypeOK
  BY CacheAssumption, ClientAssumption
  DEF Init, TypeOK, Slots, NoCall, Spaces, CHM_UNCOMPRESSED, Free, Junk,
      NoDecoder, Unwritten, Byte

\* The block about to be decoded has a slot; its number may be any integer as
\* far as types go.
LEMMA TargetSlot ==
    ASSUME TypeOK
    PROVE  /\ Target \in Int
           /\ Slot(Target) \in Slots /\ Slot(NBlock) \in Slots
           /\ Slot(Target) \in 0 .. n_cache_blocks - 1
           /\ n_cache_blocks \in Nat \ {0} /\ n_cache_blocks <= MaxCacheBlocks
  <1>1. Target \in Int /\ NBlock \in Int
    BY RegionTypes DEF TypeOK, Target
  <1>2. n_cache_blocks \in Nat \ {0} /\ n_cache_blocks <= MaxCacheBlocks
    BY CacheAssumption DEF TypeOK
  <1>3. Slot(Target) \in 0 .. n_cache_blocks - 1
        /\ Slot(NBlock) \in 0 .. n_cache_blocks - 1
    BY <1>1, <1>2, ModRange DEF Slot
  <1>4. QED
    BY <1>1, <1>2, <1>3, CacheAssumption DEF Slots

LEMMA RetrieveType ==
    ASSUME TypeOK, NEW e \in Entry, NEW len \in 0 .. MaxLen,
           NEW addr \in 0 .. e.length, Retrieve(e, addr, len)
    PROVE  TypeOK'
  <1>1. e \in [space : Spaces, start : Nat, length : Nat]
    BY EntryAssumption
  <1>2. addr \in Nat /\ len \in Nat
    BY <1>1, ClientAssumption
  <1>3. call' \in [e : [space : Spaces, start : Nat, length : Nat],
                   addr : Nat, len : Nat, total : Nat, from : Nat, asked : Nat]
    BY <1>1, <1>2 DEF Retrieve
  <1>4. buf' \in [0 .. MaxLen - 1 -> Byte]
    BY DEF Retrieve, Unwritten, Byte, Junk
  <1>5. QED
    BY <1>3, <1>4 DEF Retrieve, TypeOK, InCall, cacheVars, lzxVars, Slots

LEMMA UncompressedType ==
    ASSUME TypeOK, RetrieveUncompressed
    PROVE  TypeOK'
  <1>1. Clipped(call.e, call.addr, call.len) \in Int
    BY DEF TypeOK, Clipped
  <1>2. PICK n \in Int :
          /\ buf' = [k \in DOMAIN buf |->
                       IF k < n THEN <<Raw, call.e.start + call.addr + k>>
                                ELSE buf[k]]
          /\ Return(n)
    BY <1>1 DEF RetrieveUncompressed
  <1>3. DOMAIN buf = 0 .. MaxLen - 1
    BY DEF TypeOK
  <1>4. ASSUME NEW k \in 0 .. MaxLen - 1
        PROVE  /\ <<Raw, call.e.start + call.addr + k>> \in Byte
               /\ buf[k] \in Byte
    <2>1. call.e.start + call.addr + k \in Int
      BY ClientAssumption DEF TypeOK
    <2>2. buf[k] \in Byte
      BY DEF TypeOK
    <2>3. QED
      BY <2>1, <2>2 DEF Byte, Raw
  <1>5. buf' \in [0 .. MaxLen - 1 -> Byte]
    BY <1>2, <1>3, <1>4
  <1>6. ret' \in Int /\ pc' = "idle"
    BY <1>2 DEF Return
  <1>7. QED
    BY <1>5, <1>6 DEF RetrieveUncompressed, TypeOK, cacheVars, lzxVars, Slots

LEMMA EnterRegionLoopType ==
    ASSUME TypeOK, EnterRegionLoop
    PROVE  TypeOK'
  <1>1. Clipped(call.e, call.addr, call.len) \in Nat
    BY DEF TypeOK, Clipped, EnterRegionLoop
  <1>2. call' \in [e : [space : Spaces, start : Nat, length : Nat],
                   addr : Nat, len : Nat, total : Nat, from : Nat, asked : Nat]
    BY <1>1 DEF TypeOK, EnterRegionLoop
  <1>3. QED
    BY <1>2 DEF EnterRegionLoop, TypeOK, InCall, cacheVars, lzxVars, Slots

LEMMA StopType ==
    ASSUME TypeOK, Stop
    PROVE  ret' \in Int /\ pc' = "idle" /\ call' = call /\ buf' = buf
  BY DEF TypeOK, Stop, Return

\* A call in progress.
LEMMA RegionType ==
    ASSUME TypeOK, RegionEmpty \/ RegionHit \/ RegionMiss \/ DecoderUnavailable
    PROVE  TypeOK'
  <1>1. CASE RegionEmpty
    BY <1>1, StopType DEF RegionEmpty, TypeOK, InCall, cacheVars, lzxVars, Slots
  <1>2. CASE RegionHit
    <2>1. heap[cache_blocks[Slot(NBlock)]] \in Int
      BY <1>2, TargetSlot DEF RegionHit, Cached, TypeOK
    <2>2. Deliver(heap[cache_blocks[Slot(NBlock)]])
      BY <1>2 DEF RegionHit
    <2>3. QED
      BY <1>2, <2>1, <2>2, DeliverTypes
      DEF RegionHit, TypeOK, InCall, cacheVars, lzxVars, Slots
  <1>3. CASE RegionMiss
    <2>1. lzx_last_block' \in Int /\ lzx_state' \in Int
      BY <1>3 DEF RegionMiss, TypeOK, Fresh
    <2>2. prev' \in Nat
      <3>1. NBlock \in Nat
        BY RegionTypes
      <3>2. BlockAlign(NBlock, lzx_last_block') \in 0 .. NBlock
        BY <2>1, <3>1, BlockAlignRange
      <3>3. prev' = BlockAlign(NBlock, lzx_last_block')
        BY <1>3 DEF RegionMiss
      <3>4. QED
        BY <3>1, <3>2, <3>3
    <2>3. QED
      BY <1>3, <2>1, <2>2
      DEF RegionMiss, TypeOK, InCall, cacheVars, clientVars, Slots
  <1>4. CASE DecoderUnavailable
    BY <1>4 DEF DecoderUnavailable, TypeOK, InCall, cacheVars, clientVars, Slots
  <1>5. QED
    BY <1>1, <1>2, <1>3, <1>4

LEMMA UncompressType ==
    ASSUME TypeOK, Uncompress
    PROVE  TypeOK'
  <1> USE DEF InCall, Slots
  <1>0. ResetAtIntervalStart => lzx_state' \in Int
    BY DEF ResetAtIntervalStart, TypeOK, Fresh
  <1>1. CASE UncompressLast
    <2>1. CASE lzx_last_block_data # NULL /\ Continue(heap[lzx_last_block_data])
      <3>1. heap[lzx_last_block_data] \in Int
        BY <2>1 DEF TypeOK
      <3>2. QED
        BY <1>1, <2>1, <3>1, ContinueTypes
        DEF UncompressLast, TypeOK, cacheVars, lzxVars
    <2>2. CASE lzx_last_block_data = NULL /\ Fail
      BY <1>1, <2>2, StopType DEF UncompressLast, Fail, TypeOK, cacheVars, lzxVars
    <2>3. QED
      BY <1>1, <2>1, <2>2 DEF UncompressLast
  <1>2. CASE UncompressNoMemory
    BY <1>0, <1>2, StopType DEF UncompressNoMemory, Fail, TypeOK, cacheVars
  <1>3. CASE UncompressBegin
    <2>1. cache_block_indices' \in [Slots -> Int]
      BY <1>3, TargetSlot DEF UncompressBegin, AllocCachedBlock, TypeOK
    <2>2. cache_blocks' \in [Slots -> Buf \union {NULL}] /\ heap' \in [Buf -> Int]
      <3>1. CASE UNCHANGED <<cache_blocks, heap>>
        BY <3>1 DEF TypeOK
      <3>2. CASE \E b \in Buf :
                   /\ heap' = [heap EXCEPT ![b] = Junk]
                   /\ cache_blocks' = [cache_blocks EXCEPT ![Slot(Target)] = b]
        <4>1. PICK b \in Buf :
                 /\ heap' = [heap EXCEPT ![b] = Junk]
                 /\ cache_blocks' = [cache_blocks EXCEPT ![Slot(Target)] = b]
          BY <3>2
        <4>2. heap' \in [Buf -> Int]
          BY <4>1 DEF TypeOK, Junk
        <4>3. cache_blocks' \in [Slots -> Buf \union {NULL}]
          BY <4>1 DEF TypeOK
        <4>4. QED
          BY <4>2, <4>3
      <3>3. \/ UNCHANGED <<cache_blocks, heap>>
            \/ \E b \in Buf :
                   /\ heap' = [heap EXCEPT ![b] = Junk]
                   /\ cache_blocks' = [cache_blocks EXCEPT ![Slot(Target)] = b]
        BY <1>3, Zenon DEF UncompressBegin, AllocCachedBlock, SlotBuffer
      <3>4. QED
        BY <3>1, <3>2, <3>3, Zenon
    <2>3. QED
      BY <1>0, <1>3, <2>1, <2>2 DEF UncompressBegin, TypeOK, clientVars
  <1>4. CASE ReadFails
    BY <1>4, StopType DEF ReadFails, Fail, TypeOK, cacheVars, lzxVars
  <1>5. CASE Decode
    <2>1. PICK c \in Int, t \in Int : Decoded(c, t)
      BY <1>5, TargetSlot DEF Decode, Junk, Lost
    <2>2. heap' \in [Buf -> Int]
      BY <2>1 DEF Decoded, TypeOK
    <2>3. lzx_state' \in Int /\ lzx_last_block' \in Int
          /\ lzx_last_block_data' \in Buf \union {NULL}
      BY <2>1, TargetSlot DEF Decoded, TypeOK
    <2>4. Continue(c)
      BY <2>1 DEF Decoded
    <2>5. QED
      BY <1>5, <2>2, <2>3, <2>4, ContinueTypes DEF Decode, TypeOK, cacheVars
  <1>6. CASE DecodeFails
    BY <1>6, StopType DEF DecodeFails, Fail, TypeOK, Lost, cacheVars
  <1>7. QED
    BY <1>1, <1>2, <1>3, <1>4, <1>5, <1>6 DEF Uncompress

LEMMA SetCacheSizeType ==
    ASSUME TypeOK, NEW n0 \in CacheSizes, SetCacheSize(n0)
    PROVE  TypeOK'
  <1> DEFINE n == Min2(n0, MaxCacheBlocks)
  <1>1. n \in 1 .. MaxCacheBlocks
    BY CacheAssumption DEF Min2
  <1>2. ASSUME NEW s \in Slots, MovesTo(s, n) # {}
        PROVE  TheSlot(MovesTo(s, n)) \in Slots
    <2>1. MovesTo(s, n) \subseteq Slots
      BY CacheAssumption DEF MovesTo, Slots, TypeOK
    <2>2. TheSlot(MovesTo(s, n)) \in MovesTo(s, n)
      BY <1>2 DEF TheSlot
    <2>3. QED
      BY <2>1, <2>2
  <1>3. cache_blocks' \in [Slots -> Buf \union {NULL}]
    BY <1>2 DEF SetCacheSize, TypeOK
  <1>4. cache_block_indices' \in [Slots -> Int]
    BY <1>2 DEF SetCacheSize, TypeOK
  <1>5. heap' \in [Buf -> Int]
    BY DEF SetCacheSize, TypeOK, Free
  <1>6. n_cache_blocks' = n
    BY DEF SetCacheSize
  <1>7. QED
    BY <1>1, <1>3, <1>4, <1>5, <1>6 DEF SetCacheSize, TypeOK, lzxVars, clientVars

LEMMA CloseType == TypeOK /\ Close => TypeOK'
  BY DEF TypeOK, Close, Free, cacheVars, lzxVars, clientVars, Slots

LEMMA NextType == TypeOK /\ [Next]_vars => TypeOK'
  <1> SUFFICES ASSUME TypeOK, [Next]_vars PROVE TypeOK'
    OBVIOUS
  <1>1. CASE Client
    BY <1>1, RetrieveType, SetCacheSizeType, CloseType DEF Client
  <1>2. CASE ReturnNothing
    BY <1>2 DEF ReturnNothing, Return, TypeOK, InCall, cacheVars, lzxVars, Slots
  <1>3. CASE Library /\ ~ReturnNothing
    BY <1>3, UncompressedType, EnterRegionLoopType, RegionType, UncompressType
    DEF Library
  <1>4. CASE UNCHANGED vars
    BY <1>4 DEF vars, TypeOK, cacheVars, lzxVars, clientVars, Slots
  <1>5. QED
    BY <1>1, <1>2, <1>3, <1>4 DEF Next

\* Every variable keeps its type, whatever fails and however the cache is
\* resized.
THEOREM TypeCorrect == Spec => []TypeOK
  <1>1. QED
    BY InitType, NextType, PTL DEF Spec

-----------------------------------------------------------------------------
(* Every block buffer has one owner.                                       *)
(*                                                                         *)
(* OneOwner is not inductive: a step that fills a slot must know that the  *)
(* slot has a buffer and that the number it stores there is no "free" mark *)
(* (the block lies in the section), and a step that gives the table back   *)
(* frees the slots in use only, so that the others must be empty.          *)

UnusedSlotsEmpty ==
    \A s \in Slots : s >= n_cache_blocks => cache_blocks[s] = NULL

TargetInSection == pc \in {"uncompress", "fill"} => prev <= NBlock

FilledSlotHasBuffer == pc = "fill" => cache_blocks[Slot(Target)] # NULL

MemoryInv ==
    /\ TypeOK
    /\ OneOwner
    /\ UnusedSlotsEmpty
    /\ TargetInSection
    /\ FilledSlotHasBuffer

LEMMA InitMemory == Init => MemoryInv
  <1> SUFFICES ASSUME Init PROVE MemoryInv
    OBVIOUS
  <1>1. TypeOK
    BY InitType
  <1>2. OneOwner
    BY CacheAssumption, HeapAssumption DEF Init, OneOwner, Slots, Free
  <1>3. UnusedSlotsEmpty /\ TargetInSection /\ FilledSlotHasBuffer
    BY DEF Init, UnusedSlotsEmpty, TargetInSection, FilledSlotHasBuffer
  <1>4. QED
    BY <1>1, <1>2, <1>3 DEF MemoryInv

\* Steps that leave the table and the buffers alone keep their owners.
LEMMA MemoryUntouched ==
    ASSUME MemoryInv, UNCHANGED <<cacheVars, heap>>,
           pc # "closed", pc' # "closed"
    PROVE  OneOwner' /\ UnusedSlotsEmpty'
  BY DEF MemoryInv, OneOwner, UnusedSlotsEmpty, cacheVars, Slots

\* Handing over a block, or going on to the next one, stays in the section.
LEMMA ContinueInSection ==
    ASSUME MemoryInv, NEW c \in Int, Continue(c),
           pc \in {"uncompress", "fill"}
    PROVE  TargetInSection' /\ FilledSlotHasBuffer' /\ pc' # "closed"
  <1>1. CASE prev > 0 /\ prev' = prev - 1 /\ pc' = "uncompress"
             /\ UNCHANGED clientVars
    <2>1. NBlock' = NBlock
      BY <1>1 DEF NBlock, clientVars
    <2>2. prev <= NBlock /\ prev \in Nat /\ NBlock \in Nat
      BY RegionTypes DEF MemoryInv, TargetInSection, TypeOK
    <2>3. QED
      BY <1>1, <2>1, <2>2 DEF TargetInSection, FilledSlotHasBuffer
  <1>2. CASE prev = 0 /\ prev' = prev /\ Deliver(c)
    BY <1>2, DeliverTypes DEF MemoryInv, TargetInSection, FilledSlotHasBuffer
  <1>3. QED
    BY <1>1, <1>2 DEF Continue

\* Steps that end the call leave nothing to fill.
LEMMA ReturnInSection ==
    ASSUME pc' \in {"idle", "region", "enter", "crash", "closed"}
    PROVE  TargetInSection' /\ FilledSlotHasBuffer'
  BY DEF TargetInSection, FilledSlotHasBuffer

LEMMA RegionMemory ==
    ASSUME MemoryInv, RegionEmpty \/ RegionHit \/ RegionMiss \/ DecoderUnavailable
    PROVE  MemoryInv'
  <1>0. TypeOK /\ TypeOK'
    BY RegionType DEF MemoryInv
  <1>1. CASE RegionEmpty
    <2>1. pc' = "idle" /\ pc = "region" /\ UNCHANGED <<cacheVars, heap>>
      BY <1>1 DEF RegionEmpty, Stop, Return
    <2>2. QED
      BY <1>0, <2>1, MemoryUntouched, ReturnInSection DEF MemoryInv
  <1>2. CASE RegionHit
    <2>1. heap[cache_blocks[Slot(NBlock)]] \in Int
      BY <1>0, <1>2, TargetSlot DEF RegionHit, Cached, TypeOK
    <2>2. pc' \in {"idle", "region"} /\ pc = "region"
          /\ UNCHANGED <<cacheVars, heap>>
      BY <1>0, <1>2, <2>1, DeliverTypes DEF RegionHit
    <2>3. QED
      BY <1>0, <2>2, MemoryUntouched, ReturnInSection DEF MemoryInv
  <1>3. CASE RegionMiss
    <2>1. pc' = "uncompress" /\ pc = "region" /\ UNCHANGED <<cacheVars, heap>>
          /\ UNCHANGED call
      BY <1>3 DEF RegionMiss, clientVars
    <2>2. prev' <= NBlock'
      <3>1. NBlock' = NBlock /\ NBlock \in Nat
        BY <1>0, <2>1, RegionTypes DEF NBlock
      <3>2. lzx_last_block' \in Int
        BY <1>0 DEF TypeOK
      <3>3. BlockAlign(NBlock, lzx_last_block') \in 0 .. NBlock
        BY <3>1, <3>2, BlockAlignRange
      <3>4. prev' = BlockAlign(NBlock, lzx_last_block')
        BY <1>3 DEF RegionMiss
      <3>5. QED
        BY <3>1, <3>3, <3>4
    <2>3. QED
      BY <1>0, <2>1, <2>2, MemoryUntouched
      DEF MemoryInv, TargetInSection, FilledSlotHasBuffer
  <1>4. CASE DecoderUnavailable
    <2>1. pc' = "crash" /\ pc = "region" /\ UNCHANGED <<cacheVars, heap>>
      BY <1>4 DEF DecoderUnavailable
    <2>2. QED
      BY <1>0, <2>1, MemoryUntouched, ReturnInSection DEF MemoryInv
  <1>5. QED
    BY <1>1, <1>2, <1>3, <1>4

\* Claiming a slot: the buffer it gets, if it has none, had no owner.
LEMMA BeginMemory ==
    ASSUME MemoryInv, UncompressBegin
    PROVE  MemoryInv'
  <1>0. TypeOK /\ TypeOK'
    BY UncompressType DEF MemoryInv, Uncompress
  <1>1. /\ pc = "uncompress" /\ pc' = "fill"
        /\ n_cache_blocks' = n_cache_blocks
        /\ UNCHANGED <<call, prev>>
    BY DEF UncompressBegin, clientVars
  <1>2. /\ Slot(Target) \in Slots
        /\ Slot(Target) \in 0 .. n_cache_blocks - 1
        /\ n_cache_blocks \in Nat
    BY <1>0, TargetSlot
  <1>3. Target' = Target /\ Slot(Target)' = Slot(Target) /\ NBlock' = NBlock
    BY <1>1 DEF Target, NBlock, Slot
  <1>4. TargetInSection'
    BY <1>1, <1>3 DEF TargetInSection, MemoryInv
  <1>5. CASE cache_blocks[Slot(Target)] # NULL /\ UNCHANGED <<cache_blocks, heap>>
    <2>1. OneOwner' /\ UnusedSlotsEmpty'
      BY <1>1, <1>5 DEF OneOwner, UnusedSlotsEmpty, MemoryInv, Slots
    <2>2. QED
      BY <1>0, <1>3, <1>4, <1>5, <2>1 DEF MemoryInv, FilledSlotHasBuffer
  <1>6. ASSUME cache_blocks[Slot(Target)] = NULL, NEW b \in Buf, heap[b] = Free,
               heap' = [heap EXCEPT ![b] = Junk],
               cache_blocks' = [cache_blocks EXCEPT ![Slot(Target)] = b]
        PROVE  MemoryInv'
    <2>1. /\ \A s \in Slots : cache_blocks'[s] =
                IF s = Slot(Target) THEN b ELSE cache_blocks[s]
          /\ \A c \in Buf : heap'[c] = IF c = b THEN Junk ELSE heap[c]
      BY <1>0, <1>2, <1>6 DEF TypeOK
    <2>2. \A s \in Slots : cache_blocks[s] # b
      <3>1. \A s \in 0 .. n_cache_blocks - 1 : cache_blocks[s] # b
        BY <1>1, <1>6 DEF MemoryInv, OneOwner
      <3>2. \A s \in Slots : s >= n_cache_blocks => cache_blocks[s] # b
        BY <1>6, HeapAssumption DEF MemoryInv, UnusedSlotsEmpty
      <3>3. QED
        BY <1>2, <3>1, <3>2, CacheAssumption DEF Slots
    <2>3. \A s, t \in Slots :
             cache_blocks'[s] = cache_blocks'[t] /\ s # t => cache_blocks'[s] = NULL
      BY <1>1, <2>1, <2>2 DEF MemoryInv, OneOwner
    <2>4. \A c \in Buf : heap'[c] # Free <=>
             \E s \in 0 .. n_cache_blocks - 1 : cache_blocks'[s] = c
      <3>1. 0 .. n_cache_blocks - 1 \subseteq Slots
        BY <1>0, CacheAssumption DEF TypeOK, Slots
      <3>2. heap'[b] # Free /\ cache_blocks'[Slot(Target)] = b
            /\ Slot(Target) \in 0 .. n_cache_blocks - 1
        BY <1>2, <2>1, CacheAssumption DEF Junk, Free, Slots
      <3>3. ASSUME NEW c \in Buf, c # b
            PROVE  heap'[c] # Free <=>
                     \E s \in 0 .. n_cache_blocks - 1 : cache_blocks'[s] = c
        <4>1. heap'[c] = heap[c]
          BY <2>1, <3>3
        <4>2. heap[c] # Free <=>
                \E s \in 0 .. n_cache_blocks - 1 : cache_blocks[s] = c
          BY <1>1 DEF MemoryInv, OneOwner
        <4>3. \A s \in 0 .. n_cache_blocks - 1 :
                 cache_blocks'[s] = c <=> cache_blocks[s] = c
          BY <2>1, <3>1, <3>3, <1>6, HeapAssumption
        <4>4. QED
          BY <4>1, <4>2, <4>3
      <3>4. QED
        BY <3>2, <3>3
    <2>5. OneOwner'
      BY <1>1, <2>3, <2>4 DEF OneOwner, Slots
    <2>6. UnusedSlotsEmpty'
      BY <1>1, <1>2, <2>1 DEF UnusedSlotsEmpty, MemoryInv, Slots
    <2>7. FilledSlotHasBuffer'
      BY <1>2, <1>3, <2>1, HeapAssumption DEF FilledSlotHasBuffer
    <2>8. QED
      BY <1>0, <1>4, <2>5, <2>6, <2>7 DEF MemoryInv
  <1>7. QED
    BY <1>5, <1>6, Zenon DEF UncompressBegin, AllocCachedBlock, SlotBuffer

\* Decoding stores a block number or junk, never the mark of a free buffer.
LEMMA DecodeMemory ==
    ASSUME MemoryInv, Decode
    PROVE  MemoryInv'
  <1>0. TypeOK /\ TypeOK'
    BY UncompressType DEF MemoryInv, Uncompress
  <1>1. PICK c \in Int, t \in Int :
           Decoded(c, t) /\ (c = Target \/ c = Junk)
    BY <1>0, TargetSlot DEF Decode, Junk, Lost
  <1> DEFINE b == cache_blocks[Slot(Target)]
  <1>2. pc = "fill" /\ UNCHANGED cacheVars
    BY DEF Decode
  <1>3. Target \in Nat
    <2>1. NBlock \in Nat
      BY <1>0, RegionTypes
    <2>2. prev \in Nat /\ prev <= NBlock
      BY <1>0, <1>2 DEF MemoryInv, TargetInSection, TypeOK
    <2>3. QED
      BY <2>1, <2>2 DEF Target
  <1>4. c # Free
    BY <1>1, <1>3 DEF Junk, Free
  <1>5. b \in Buf /\ heap[b] # Free
    <2>1. b # NULL
      BY <1>2 DEF MemoryInv, FilledSlotHasBuffer
    <2>2. Slot(Target) \in Slots /\ Slot(Target) \in 0 .. n_cache_blocks - 1
      BY <1>0, TargetSlot
    <2>3. b \in Buf
      BY <1>0, <2>1, <2>2 DEF TypeOK
    <2>4. QED
      BY <1>2, <2>2, <2>3 DEF MemoryInv, OneOwner
  <1>6. \A x \in Buf : heap'[x] # Free <=> heap[x] # Free
    <2>1. heap' = [heap EXCEPT ![b] = c]
      BY <1>1 DEF Decoded
    <2>2. QED
      BY <1>0, <1>4, <1>5, <2>1 DEF TypeOK
  <1>7. TargetInSection' /\ FilledSlotHasBuffer' /\ pc' # "closed"
    BY <1>1, <1>2, ContinueInSection DEF Decoded
  <1>8. OneOwner' /\ UnusedSlotsEmpty'
    BY <1>2, <1>6, <1>7
    DEF MemoryInv, OneOwner, UnusedSlotsEmpty, cacheVars, Slots
  <1>9. QED
    BY <1>0, <1>7, <1>8 DEF MemoryInv

LEMMA UncompressMemory ==
    ASSUME MemoryInv, Uncompress
    PROVE  MemoryInv'
  <1>0. TypeOK /\ TypeOK'
    BY UncompressType DEF MemoryInv
  <1>1. CASE UncompressLast
    <2>1. CASE lzx_last_block_data # NULL /\ Continue(heap[lzx_last_block_data])
      <3>1. heap[lzx_last_block_data] \in Int
        BY <1>0, <2>1 DEF TypeOK
      <3>2. pc = "uncompress" /\ UNCHANGED <<cacheVars, heap>>
        BY <1>1 DEF UncompressLast
      <3>3. TargetInSection' /\ FilledSlotHasBuffer' /\ pc' # "closed"
        BY <2>1, <3>1, <3>2, ContinueInSection
      <3>4. OneOwner' /\ UnusedSlotsEmpty'
        BY <3>2, <3>3, MemoryUntouched
      <3>5. QED
        BY <1>0, <3>3, <3>4 DEF MemoryInv
    <2>2. CASE lzx_last_block_data = NULL /\ Fail
      <3>1. pc = "uncompress" /\ pc' = "idle" /\ UNCHANGED <<cacheVars, heap>>
        BY <1>1, <2>2 DEF UncompressLast, Fail, Stop, Return
      <3>2. QED
        BY <1>0, <3>1, MemoryUntouched, ReturnInSection DEF MemoryInv
    <2>3. QED
      BY <1>1, <2>1, <2>2 DEF UncompressLast
  <1>2. CASE UncompressNoMemory \/ ReadFails \/ DecodeFails
    <2>1. pc \in {"uncompress", "fill"} /\ pc' = "idle"
          /\ UNCHANGED <<cacheVars, heap>>
      BY <1>2
      DEF UncompressNoMemory, ReadFails, DecodeFails, Fail, Stop, Return
    <2>2. QED
      BY <1>0, <2>1, MemoryUntouched, ReturnInSection DEF MemoryInv
  <1>3. QED
    BY <1>1, <1>2, BeginMemory, DecodeMemory DEF Uncompress

\* The slots of a table of n are slots.
LEMMA SlotRange ==
    ASSUME NEW n \in 1 .. MaxCacheBlocks
    PROVE  /\ n \in Nat \ {0} /\ n <= MaxCacheBlocks
           /\ 0 .. n - 1 \subseteq Slots
           /\ \A s \in 0 .. n - 1 : ~(s >= n)
  BY CacheAssumption DEF Slots

\* Of two slots whose blocks hash to the same new slot at most one stays.
LEMMA OneMoves ==
    ASSUME TypeOK, NEW n \in Nat \ {0},
           NEW i \in 0 .. n_cache_blocks - 1, NEW j \in 0 .. n_cache_blocks - 1,
           Keeps(i, n), Keeps(j, n),
           cache_block_indices[i] % n = cache_block_indices[j] % n
    PROVE  i = j
  <1>1. i \in Nat /\ j \in Nat
    BY CacheAssumption DEF TypeOK
  <1>2. ~(i < j) /\ ~(j < i)
    BY <1>1 DEF Keeps
  <1>3. QED
    BY <1>1, <1>2

\* A new table has in slot s the block that moves there.
LEMMA MovedSlot ==
    ASSUME MemoryInv, NEW n0 \in CacheSizes, SetCacheSize(n0),
           NEW s \in Slots, cache_blocks'[s] # NULL
    PROVE  \E i \in 0 .. n_cache_blocks - 1 :
             /\ Keeps(i, n_cache_blocks')
             /\ cache_block_indices[i] % n_cache_blocks' = s
             /\ cache_blocks'[s] = cache_blocks[i]
             /\ cache_block_indices'[s] = cache_block_indices[i]
  <1> DEFINE n == n_cache_blocks'
             i == TheSlot(MovesTo(s, n))
  <1>1. /\ cache_blocks'[s] = IF MovesTo(s, n) = {} THEN NULL ELSE cache_blocks[i]
        /\ cache_block_indices'[s] = IF MovesTo(s, n) = {} THEN 0
                                     ELSE cache_block_indices[i]
    BY DEF SetCacheSize
  <1>2. MovesTo(s, n) # {}
    BY <1>1
  <1>3. i \in MovesTo(s, n)
    BY <1>2 DEF TheSlot
  <1>4. QED
    BY <1>1, <1>2, <1>3 DEF MovesTo

\* Resizing frees exactly the buffers that no slot of the new table points to.
LEMMA SetCacheSizeMemory ==
    ASSUME MemoryInv, NEW n0 \in CacheSizes, SetCacheSize(n0)
    PROVE  MemoryInv'
  <1> DEFINE n == n_cache_blocks'
  <1>0. TypeOK /\ TypeOK'
    BY SetCacheSizeType DEF MemoryInv
  <1>1. n \in Nat \ {0} /\ n <= MaxCacheBlocks /\ n_cache_blocks \in Nat
        /\ 0 .. n_cache_blocks - 1 \subseteq Slots /\ 0 .. n - 1 \subseteq Slots
    <2>1. n \in 1 .. MaxCacheBlocks /\ n_cache_blocks \in 1 .. MaxCacheBlocks
      BY <1>0 DEF TypeOK
    <2>2. QED
      BY <2>1, SlotRange
  <1>2. pc = "idle" /\ pc' = "idle"
    BY DEF SetCacheSize
  <1>3. \A b \in Buf : heap'[b] =
           IF \E i \in 0 .. n_cache_blocks - 1 : cache_blocks[i] = b /\ ~Keeps(i, n)
           THEN Free ELSE heap[b]
    <2>1. \A b \in Buf : heap'[b] =
             IF \E i \in 0 .. n_cache_blocks - 1 : cache_blocks[i] = b /\ Drops(i, n)
             THEN Free ELSE heap[b]
      BY DEF SetCacheSize
    <2>2. \A b \in Buf, i \in 0 .. n_cache_blocks - 1 :
             cache_blocks[i] = b => (Drops(i, n) <=> ~Keeps(i, n))
      BY HeapAssumption DEF Drops
    <2>3. QED
      BY <2>1, <2>2
  <1>4. ASSUME NEW i \in 0 .. n_cache_blocks - 1, Keeps(i, n)
        PROVE  \E s \in 0 .. n - 1 : cache_blocks'[s] = cache_blocks[i]
    <2> DEFINE s == cache_block_indices[i] % n
    <2>1. cache_block_indices[i] \in Int
      BY <1>0, <1>1 DEF TypeOK
    <2>2. s \in 0 .. n - 1
      BY <1>1, <2>1, ModRange
    <2>3. i \in MovesTo(s, n)
      BY <1>4 DEF MovesTo
    <2>4. TheSlot(MovesTo(s, n)) = i
      BY <1>0, <1>1, <2>3, OneMoves DEF MovesTo, TheSlot
    <2>5. cache_blocks'[s] = cache_blocks[i]
      BY <1>1, <2>2, <2>3, <2>4 DEF SetCacheSize
    <2>6. QED
      BY <2>2, <2>5
  <1>5. \A i, j \in Slots :
           cache_blocks[i] = cache_blocks[j] /\ i # j => cache_blocks[i] = NULL
    BY <1>2 DEF MemoryInv, OneOwner
  <1>6. \A s \in Slots : cache_blocks'[s] # NULL =>
           \E i \in 0 .. n_cache_blocks - 1 :
             /\ Keeps(i, n)
             /\ cache_block_indices[i] % n = s
             /\ cache_blocks'[s] = cache_blocks[i]
    BY MovedSlot
  <1>7. \A s, t \in Slots :
           cache_blocks'[s] = cache_blocks'[t] /\ s # t => cache_blocks'[s] = NULL
    BY <1>1, <1>5, <1>6 DEF Keeps
  <1>8. \A b \in Buf : heap'[b] # Free <=>
           \E s \in 0 .. n - 1 : cache_blocks'[s] = b
    <2> TAKE b \in Buf
    <2>1. heap[b] # Free <=> \E i \in 0 .. n_cache_blocks - 1 : cache_blocks[i] = b
      BY <1>2 DEF MemoryInv, OneOwner
    <2>2. CASE \E i \in 0 .. n_cache_blocks - 1 : cache_blocks[i] = b
      <3>1. PICK i \in 0 .. n_cache_blocks - 1 : cache_blocks[i] = b
        BY <2>2
      <3>2. heap'[b] # Free <=> Keeps(i, n)
        BY <1>1, <1>3, <1>5, <2>1, <3>1, HeapAssumption
      <3>3. Keeps(i, n) => \E s \in 0 .. n - 1 : cache_blocks'[s] = b
        BY <1>4, <3>1
      <3>4. (\E s \in 0 .. n - 1 : cache_blocks'[s] = b) => Keeps(i, n)
        BY <1>1, <1>5, <1>6, <3>1, HeapAssumption
      <3>5. QED
        BY <3>2, <3>3, <3>4
    <2>3. CASE ~ \E i \in 0 .. n_cache_blocks - 1 : cache_blocks[i] = b
      <3>1. heap'[b] = Free
        BY <1>3, <2>1, <2>3
      <3>2. ~ \E s \in 0 .. n - 1 : cache_blocks'[s] = b
        BY <1>1, <1>6, <2>3, HeapAssumption
      <3>3. QED
        BY <3>1, <3>2
    <2>4. QED
      BY <2>2, <2>3
  <1>9. OneOwner'
    BY <1>2, <1>7, <1>8 DEF OneOwner, Slots
  <1>10. UnusedSlotsEmpty'
    <2>1. ASSUME NEW s \in Slots, s >= n, cache_blocks'[s] # NULL PROVE FALSE
      <3>1. PICK i \in 0 .. n_cache_blocks - 1 : cache_block_indices[i] % n = s
        BY <1>6, <2>1
      <3>2. cache_block_indices[i] \in Int
        BY <1>0, <1>1 DEF TypeOK
      <3>3. s \in 0 .. n - 1
        BY <1>1, <3>1, <3>2, ModRange
      <3>4. n \in 1 .. MaxCacheBlocks
        BY <1>0 DEF TypeOK
      <3>5. ~(s >= n)
        BY <3>3, <3>4, SlotRange
      <3>6. QED
        BY <2>1, <3>5
    <2>2. QED
      BY <2>1 DEF UnusedSlotsEmpty, Slots
  <1>11. QED
    BY <1>0, <1>2, <1>9, <1>10, ReturnInSection DEF MemoryInv

LEMMA CloseMemory ==
    ASSUME MemoryInv, Close
    PROVE  MemoryInv'
  <1>1. TypeOK'
    BY CloseType DEF MemoryInv
  <1>2. pc = "idle" /\ pc' = "closed" /\ UNCHANGED cacheVars
    BY DEF Close
  <1>3. \A b \in Buf : heap'[b] = Free
    BY <1>2 DEF Close, MemoryInv, OneOwner
  <1>4. QED
    BY <1>1, <1>2, <1>3, ReturnInSection
    DEF MemoryInv, OneOwner, UnusedSlotsEmpty, cacheVars, Slots

LEMMA NextMemory == MemoryInv /\ [Next]_vars => MemoryInv'
  <1> SUFFICES ASSUME MemoryInv, [Next]_vars PROVE MemoryInv'
    OBVIOUS
  <1>0. TypeOK'
    BY NextType DEF MemoryInv
  <1>1. CASE \E e \in Entry, len \in 0 .. MaxLen :
                \E addr \in 0 .. e.length : Retrieve(e, addr, len)
    <2>1. pc = "idle" /\ pc' = "enter" /\ UNCHANGED <<cacheVars, heap>>
      BY <1>1 DEF Retrieve
    <2>2. QED
      BY <1>0, <2>1, MemoryUntouched, ReturnInSection DEF MemoryInv
  <1>2. CASE \E n \in CacheSizes : SetCacheSize(n)
    BY <1>2, SetCacheSizeMemory
  <1>3. CASE Close
    BY <1>3, CloseMemory
  <1>4. CASE ReturnNothing \/ RetrieveUncompressed \/ EnterRegionLoop
    <2>1. pc = "enter" /\ pc' \in {"idle", "region"} /\ UNCHANGED <<cacheVars, heap>>
      BY <1>4 DEF ReturnNothing, RetrieveUncompressed, EnterRegionLoop, Return
    <2>2. QED
      BY <1>0, <2>1, MemoryUntouched, ReturnInSection DEF MemoryInv
  <1>5. CASE RegionEmpty \/ RegionHit \/ RegionMiss \/ DecoderUnavailable
    BY <1>5, RegionMemory
  <1>6. CASE Uncompress
    BY <1>6, UncompressMemory
  <1>7. CASE UNCHANGED vars
    BY <1>0, <1>7
    DEF vars, MemoryInv, OneOwner, UnusedSlotsEmpty, TargetInSection,
        FilledSlotHasBuffer, cacheVars, clientVars, Slots, Slot, Target, NBlock
  <1>8. QED
    BY <1>1, <1>2, <1>3, <1>4, <1>5, <1>6, <1>7 DEF Next, Client, Library

\* Whatever fails and however the cache is resized, each allocated block
\* buffer belongs to exactly one slot in use: chm_set_cache_size frees just
\* what it drops, nothing is freed twice, and chm_close leaves nothing.
THEOREM OneOwnerHolds == Spec => []OneOwner
  <1>1. MemoryInv => OneOwner
    BY DEF MemoryInv
  <1>2. QED
    BY InitMemory, NextMemory, <1>1, PTL DEF Spec

-----------------------------------------------------------------------------
(* A block in the cache is found.                                          *)

\* A block that is about to be decoded is tagged where it will be looked for.
LEMMA BeginTags ==
    ASSUME MemoryInv, TagsHashToTheirSlot, UncompressBegin
    PROVE  TagsHashToTheirSlot'
  <1>1. Slot(Target) \in Slots /\ n_cache_blocks' = n_cache_blocks
    BY TargetSlot DEF MemoryInv, UncompressBegin
  <1>2. cache_block_indices' = [cache_block_indices EXCEPT ![Slot(Target)] = Target]
    BY DEF UncompressBegin, AllocCachedBlock
  <1>3. \A s \in Slots : s # Slot(Target) => cache_blocks'[s] = cache_blocks[s]
    BY DEF UncompressBegin, AllocCachedBlock, SlotBuffer, MemoryInv, TypeOK
  <1>4. 0 .. n_cache_blocks - 1 \subseteq Slots
    BY SlotRange DEF MemoryInv, TypeOK
  <1>5. ASSUME NEW s \in 0 .. n_cache_blocks - 1, cache_blocks'[s] # NULL
        PROVE  cache_block_indices'[s] % n_cache_blocks = s
    <2>1. CASE s = Slot(Target)
      BY <1>1, <1>2, <2>1 DEF Slot, MemoryInv, TypeOK
    <2>2. CASE s # Slot(Target)
      BY <1>2, <1>3, <1>4, <1>5, <2>2
      DEF TagsHashToTheirSlot, Slot, MemoryInv, TypeOK
    <2>3. QED
      BY <2>1, <2>2
  <1>6. QED
    BY <1>1, <1>5 DEF TagsHashToTheirSlot, Slot

\* chm_set_cache_size moves a block to where it will be looked for from now on.
LEMMA SetCacheSizeTags ==
    ASSUME MemoryInv, NEW n0 \in CacheSizes, SetCacheSize(n0)
    PROVE  TagsHashToTheirSlot'
  <1>1. n_cache_blocks' \in 1 .. MaxCacheBlocks
    BY SetCacheSizeType DEF MemoryInv, TypeOK
  <1>2. 0 .. n_cache_blocks' - 1 \subseteq Slots
    BY <1>1, SlotRange
  <1>3. ASSUME NEW s \in 0 .. n_cache_blocks' - 1, cache_blocks'[s] # NULL
        PROVE  cache_block_indices'[s] % n_cache_blocks' = s
    BY <1>2, <1>3, MovedSlot
  <1>4. QED
    BY <1>3 DEF TagsHashToTheirSlot, Slot

LEMMA NextTags ==
    MemoryInv /\ TagsHashToTheirSlot /\ [Next]_vars => TagsHashToTheirSlot'
  <1> SUFFICES ASSUME MemoryInv, TagsHashToTheirSlot, [Next]_vars
               PROVE  TagsHashToTheirSlot'
    OBVIOUS
  <1>1. CASE UNCHANGED cacheVars
    BY <1>1 DEF TagsHashToTheirSlot, Slot, cacheVars
  <1>2. CASE \E n \in CacheSizes : SetCacheSize(n)
    BY <1>2, SetCacheSizeTags
  <1>3. CASE UncompressBegin
    BY <1>3, BeginTags
  <1>4. CASE Close \/ UNCHANGED vars
             \/ \E e \in Entry, len \in 0 .. MaxLen :
                  \E addr \in 0 .. e.length : Retrieve(e, addr, len)
    BY <1>1, <1>4 DEF Close, Retrieve, vars
  <1>5. CASE ReturnNothing \/ RetrieveUncompressed \/ EnterRegionLoop
    BY <1>1, <1>5 DEF ReturnNothing, RetrieveUncompressed, EnterRegionLoop
  <1>6. CASE RegionEmpty \/ RegionHit \/ RegionMiss \/ DecoderUnavailable
    BY <1>1, <1>6 DEF RegionEmpty, RegionHit, RegionMiss, DecoderUnavailable, cacheVars
  <1>7. CASE UncompressLast \/ UncompressNoMemory \/ ReadFails \/ Decode \/ DecodeFails
    BY <1>1, <1>7
    DEF UncompressLast, UncompressNoMemory, ReadFails, Decode, DecodeFails, cacheVars
  <1>8. QED
    BY <1>2, <1>3, <1>4, <1>5, <1>6, <1>7 DEF Next, Client, Library, Uncompress

\* Whatever fails and however the cache is resized, the block in a slot of the
\* table is one get_cached_block looks for in that slot.
THEOREM TagsHashHolds == Spec => []TagsHashToTheirSlot
  <1>1. Init => TagsHashToTheirSlot
    BY CacheAssumption DEF Init, TagsHashToTheirSlot, Slots
  <1>2. QED
    BY InitMemory, NextMemory, NextTags, <1>1, PTL DEF Spec

-----------------------------------------------------------------------------
(* The steps of the loop in chm_retrieve_entry *)

Calls == [e : [space : Spaces, start : Nat, length : Nat], addr : Nat,
          len : Nat, total : Nat, from : Nat, asked : Nat]

\* What a swath does to the counts of the call.
LEMMA DeliverCounts ==
    ASSUME TypeOK, NEW c \in Int, Deliver(c)
    PROVE  /\ call'.e = call.e /\ call'.from = call.from
           /\ call'.asked = call.asked
           /\ call'.addr = call.addr + NLen
           /\ call'.len = call.len - NLen
           /\ call'.total = call.total + NLen
           /\ NLen \in 0 .. call.len
           /\ pc' = IF call.len = NLen THEN "idle" ELSE "region"
           /\ ret' = IF call.len = NLen THEN call.total + NLen ELSE ret
  <1>1. call \in Calls
    BY DEF TypeOK, Calls
  <1>2. call' = [call EXCEPT !.addr = @ + NLen, !.len = @ - NLen,
                            !.total = @ + NLen]
    BY DEF Deliver, Advance
  <1>3. NLen \in 0 .. call.len
    BY RegionTypes
  <1>4. /\ pc' = IF call.len = NLen THEN "idle" ELSE "region"
        /\ ret' = IF call.len = NLen THEN call.total + NLen ELSE ret
    BY DEF Deliver, Advance, Return
  <1>5. QED
    BY <1>1, <1>2, <1>3, <1>4 DEF Calls

\* Inside the loop a step hands over a swath, or it leaves the client's buffer
\* and the counts alone; a call that ends without a swath returns the count.
LEMMA LoopStep ==
    ASSUME TypeOK, InLoop, [Next]_vars
    PROVE  \/ \E c \in Int : Deliver(c)
           \/ /\ UNCHANGED <<call, buf>>
              /\ InLoop' \/ pc' \in {"idle", "crash"}
              /\ pc' = "idle" => ret' = call.total
  <1> USE DEF InLoop
  <1>1. CASE RegionEmpty \/ RegionMiss \/ DecoderUnavailable
    BY <1>1 DEF RegionEmpty, RegionMiss, DecoderUnavailable, Stop, Return, clientVars
  <1>2. CASE RegionHit
    <2>1. heap[cache_blocks[Slot(NBlock)]] \in Int
      BY <1>2, TargetSlot DEF RegionHit, Cached, TypeOK
    <2>2. QED
      BY <1>2, <2>1 DEF RegionHit
  <1>3. ASSUME NEW c \in Int, Continue(c)
        PROVE  \/ \E d \in Int : Deliver(d)
               \/ UNCHANGED <<call, buf>> /\ pc' = "uncompress"
    BY <1>3 DEF Continue, clientVars
  <1>4. CASE UncompressLast
    <2>1. CASE lzx_last_block_data # NULL /\ Continue(heap[lzx_last_block_data])
      <3>1. heap[lzx_last_block_data] \in Int
        BY <2>1 DEF TypeOK
      <3>2. QED
        BY <1>3, <2>1, <3>1
    <2>2. CASE lzx_last_block_data = NULL /\ Fail
      BY <2>2 DEF Fail, Stop, Return
    <2>3. QED
      BY <1>4, <2>1, <2>2 DEF UncompressLast
  <1>5. CASE UncompressNoMemory \/ ReadFails \/ DecodeFails
    BY <1>5 DEF UncompressNoMemory, ReadFails, DecodeFails, Fail, Stop, Return
  <1>6. CASE UncompressBegin
    BY <1>6 DEF UncompressBegin, clientVars
  <1>7. CASE Decode
    <2>1. PICK c \in Int, t \in Int : Decoded(c, t)
      BY <1>7, TargetSlot DEF Decode, Junk, Lost
    <2>2. Continue(c)
      BY <2>1 DEF Decoded
    <2>3. QED
      BY <1>3, <2>2
  <1>8. CASE UNCHANGED vars
    BY <1>8 DEF vars, clientVars
  <1>9. ~Client /\ ~ReturnNothing /\ ~RetrieveUncompressed /\ ~EnterRegionLoop
    BY DEF Client, Retrieve, SetCacheSize, Close, ReturnNothing,
           RetrieveUncompressed, EnterRegionLoop
  <1>10. QED
    BY <1>1, <1>2, <1>4, <1>5, <1>6, <1>7, <1>8, <1>9
    DEF Next, Library, Uncompress

-----------------------------------------------------------------------------
(* The counts add up, and bytes are delivered in order.                    *)
(*                                                                         *)
(* Neither is inductive: both need to know what chm_retrieve_entry starts  *)
(* from, and the order of delivery needs to know that nothing has been     *)
(* written behind what was delivered.                                      *)

CallBegins ==
    pc = "enter" =>
        /\ call.total = 0 /\ call.addr = call.from /\ call.len = call.asked
        /\ call.asked <= MaxLen

RestUnwritten ==
    pc = "enter" \/ InLoop =>
        \A k \in call.total .. MaxLen - 1 : buf[k] = Unwritten

CallInv == TypeOK /\ CallBegins /\ CountsAddUp /\ RestUnwritten

\* The loop is entered with the request clipped to the entry.
LEMMA EnterCounts ==
    ASSUME CallInv, EnterRegionLoop
    PROVE  CallInv'
  <1>1. TypeOK /\ TypeOK'
    BY EnterRegionLoopType DEF CallInv
  <1>2. call \in Calls
    BY <1>1 DEF TypeOK, Calls
  <1>3. /\ pc = "enter" /\ pc' = "region" /\ buf' = buf
        /\ call' = [call EXCEPT !.len = Clipped(call.e, call.addr, @)]
        /\ call.addr < call.e.length
    BY DEF EnterRegionLoop
  <1>4. /\ call'.e = call.e /\ call'.from = call.from /\ call'.asked = call.asked
        /\ call'.addr = call.addr /\ call'.total = call.total
        /\ call'.len = Clipped(call.e, call.addr, call.len)
    BY <1>2, <1>3 DEF Calls
  <1>5. Clipped(call.e, call.addr, call.len) <= call.len
    BY <1>2 DEF Calls, Clipped
  <1>6. CountsAddUp'
    BY <1>2, <1>3, <1>4, <1>5, ClientAssumption
    DEF CallInv, CallBegins, CountsAddUp, Clipped, Calls
  <1>7. RestUnwritten'
    BY <1>3, <1>4 DEF CallInv, RestUnwritten
  <1>8. QED
    BY <1>1, <1>3, <1>6, <1>7 DEF CallInv, CallBegins

\* A swath moves from what is wanted to what is delivered, and is written
\* where the last one ended.
LEMMA DeliverInv ==
    ASSUME CallInv, InLoop, NEW c \in Int, Deliver(c), TypeOK'
    PROVE  CallInv'
  <1>1. TypeOK /\ call \in Calls
    BY DEF CallInv, TypeOK, Calls
  <1>2. pc' \in {"idle", "region"}
    BY <1>1, DeliverTypes
  <1>3. CountsAddUp'
    BY <1>1, DeliverCounts DEF CallInv, CountsAddUp, Clipped, Calls
  <1>4. RestUnwritten'
    <2>1. /\ DOMAIN buf = 0 .. MaxLen - 1
          /\ buf' = [k \in DOMAIN buf |->
                       IF k \in call.total .. call.total + NLen - 1
                       THEN <<c, NOffset + (k - call.total)>> ELSE buf[k]]
      BY <1>1 DEF Deliver, TypeOK
    <2>2. call'.total = call.total + NLen /\ NLen \in Nat /\ call.total \in Nat
      BY <1>1, DeliverCounts DEF Calls
    <2>3. ASSUME NEW k \in call'.total .. MaxLen - 1
          PROVE  buf'[k] = Unwritten
      <3>1. k \in 0 .. MaxLen - 1 /\ k \in call.total .. MaxLen - 1
            /\ k \notin call.total .. call.total + NLen - 1
        BY <2>2, ClientAssumption
      <3>2. buf'[k] = buf[k]
        BY <2>1, <3>1
      <3>3. QED
        BY <3>1, <3>2 DEF CallInv, RestUnwritten
    <2>4. QED
      BY <2>3 DEF RestUnwritten
  <1>5. QED
    BY <1>2, <1>3, <1>4 DEF CallInv, CallBegins

LEMMA InitCall == Init => CallInv
  BY InitType DEF Init, CallInv, CallBegins, CountsAddUp, RestUnwritten, InLoop

LEMMA NextCall == CallInv /\ [Next]_vars => CallInv'
  <1> SUFFICES ASSUME CallInv, [Next]_vars PROVE CallInv'
    OBVIOUS
  <1>0. TypeOK /\ TypeOK'
    BY NextType DEF CallInv
  <1>1. CASE InLoop
    <2>1. CASE \E c \in Int : Deliver(c)
      BY <1>0, <1>1, <2>1, DeliverInv
    <2>2. CASE /\ UNCHANGED <<call, buf>>
               /\ InLoop' \/ pc' \in {"idle", "crash"}
      BY <1>0, <1>1, <2>2
      DEF CallInv, CallBegins, CountsAddUp, RestUnwritten, InLoop
    <2>3. QED
      BY <1>0, <1>1, <2>1, <2>2, LoopStep
  <1>2. ASSUME NEW e \in Entry, NEW len \in 0 .. MaxLen,
               NEW addr \in 0 .. e.length, Retrieve(e, addr, len)
        PROVE  CallInv'
    <2>1. /\ pc' = "enter"
          /\ call' = [e |-> e, addr |-> addr, len |-> len, total |-> 0,
                      from |-> addr, asked |-> len]
          /\ buf' = [k \in 0 .. MaxLen - 1 |-> Unwritten]
      BY <1>2 DEF Retrieve
    <2>2. QED
      BY <1>0, <2>1, ClientAssumption
      DEF CallInv, CallBegins, CountsAddUp, RestUnwritten, InLoop
  <1>3. CASE EnterRegionLoop
    BY <1>3, EnterCounts
  <1>4. CASE \/ \E n \in CacheSizes : SetCacheSize(n)
             \/ Close \/ ReturnNothing \/ RetrieveUncompressed
    <2>1. pc' \in {"idle", "closed"}
      BY <1>4 DEF SetCacheSize, Close, ReturnNothing, RetrieveUncompressed, Return
    <2>2. QED
      BY <1>0, <2>1 DEF CallInv, CallBegins, CountsAddUp, RestUnwritten, InLoop
  <1>5. CASE UNCHANGED vars
    BY <1>0, <1>5
    DEF vars, clientVars, CallInv, CallBegins, CountsAddUp, RestUnwritten, InLoop
  <1>6. CASE ~InLoop /\ Library
    BY <1>3, <1>4, <1>6
    DEF Library, InLoop, RegionEmpty, RegionHit, RegionMiss, DecoderUnavailable,
        Uncompress, UncompressLast, UncompressNoMemory, UncompressBegin,
        ReadFails, Decode, DecodeFails
  <1>7. QED
    BY <1>1, <1>2, <1>4, <1>5, <1>6 DEF Next, Client

\* Whatever fails, what the loop has delivered and what it still wants make up
\* the request clipped to the entry, and fit the client's buffer.
THEOREM CountsAddUpHolds == Spec => []CountsAddUp
  <1>1. CallInv => CountsAddUp
    BY DEF CallInv
  <1>2. QED
    BY InitCall, NextCall, <1>1, PTL DEF Spec

\* Whatever fails, a call delivers from the front, takes back nothing, leaves
\* no gap, and returns the number of bytes delivered.
THEOREM DeliversInOrderHolds == Spec => DeliversInOrder
  <1> DEFINE InOrder ==
        InLoop =>
          /\ \A k \in 0 .. call.total - 1 : buf'[k] = buf[k]
          /\ \A k \in call'.total .. MaxLen - 1 : buf'[k] = Unwritten
          /\ pc' = "idle" => ret' = call'.total
  <1>1. CallInv /\ [Next]_vars => [InOrder]_vars
    <2> SUFFICES ASSUME CallInv, [Next]_vars, InLoop
                 PROVE  /\ \A k \in 0 .. call.total - 1 : buf'[k] = buf[k]
                        /\ \A k \in call'.total .. MaxLen - 1 : buf'[k] = Unwritten
                        /\ pc' = "idle" => ret' = call'.total
      OBVIOUS
    <2>1. TypeOK /\ TypeOK'
      BY NextType DEF CallInv
    <2>2. CASE \E c \in Int : Deliver(c)
      <3>1. PICK c \in Int : Deliver(c)
        BY <2>2
      <3>2. /\ DOMAIN buf = 0 .. MaxLen - 1
            /\ buf' = [k \in DOMAIN buf |->
                         IF k \in call.total .. call.total + NLen - 1
                         THEN <<c, NOffset + (k - call.total)>> ELSE buf[k]]
        BY <2>1, <3>1 DEF Deliver, TypeOK
      <3>3. /\ call'.total = call.total + NLen /\ NLen \in 0 .. call.len
            /\ call.total \in Nat /\ call.len \in Nat
            /\ pc' = "idle" => ret' = call'.total
        BY <2>1, <3>1, DeliverCounts DEF TypeOK
      <3>4. call.total + call.len <= MaxLen
        BY DEF CallInv, CountsAddUp
      <3>5. \A k \in 0 .. call.total - 1 : buf'[k] = buf[k]
        BY <3>2, <3>3, <3>4, ClientAssumption
      <3>6. \A k \in call.total + NLen .. MaxLen - 1 : buf'[k] = buf[k]
        BY <3>2, <3>3, <3>4, ClientAssumption
      <3>7. QED
        BY <3>3, <3>5, <3>6, ClientAssumption DEF CallInv, RestUnwritten
    <2>3. CASE /\ UNCHANGED <<call, buf>>
               /\ pc' = "idle" => ret' = call.total
      BY <2>3 DEF CallInv, RestUnwritten
    <2>4. QED
      BY <2>1, <2>2, <2>3, LoopStep
  <1>2. QED
    BY InitCall, NextCall, <1>1, PTL DEF Spec, DeliversInOrder

-----------------------------------------------------------------------------
(* Only the blocks a wanted block needs are decoded.                       *)
(*                                                                         *)
(* OnlyNeededBlocks looks at the decoder only while a slot is filled;      *)
(* before that, the block it is about to be run on may also be the last    *)
(* one it was run on, which is then not decoded again.                     *)

DecodedBefore ==
    pc \in {"uncompress", "fill"} =>
        /\ Target \in 0 .. NBlock
        /\ Target \div ResetBlkCount = NBlock \div ResetBlkCount
        /\ Target % ResetBlkCount # 0 =>
              \/ lzx_last_block = Target - 1
              \/ pc = "uncompress" /\ lzx_last_block = Target

BlocksInv == TypeOK /\ DecodedBefore

\* Where decompress_block starts: at the last block decoded if that lies in the
\* wanted block's interval and not behind it, else at the interval's start.
LEMMA BlockAlignTarget ==
    ASSUME NEW n \in Nat, NEW last \in Int
    PROVE  LET target == n - BlockAlign(n, last)
           IN  /\ target \in 0 .. n
               /\ target \div ResetBlkCount = n \div ResetBlkCount
               /\ target % ResetBlkCount # 0 => last = target
  <1> DEFINE first == n - (n % ResetBlkCount)
  <1>1. /\ first \div ResetBlkCount = n \div ResetBlkCount
        /\ first % ResetBlkCount = 0
        /\ first \in 0 .. n
        /\ n % ResetBlkCount \in Int
    BY IntervalStart, DivModNat, BlockAssumption
  <1>2. CASE first <= last /\ n >= last
    <2>1. BlockAlign(n, last) = n - last
      BY <1>2 DEF BlockAlign
    <2>2. last \in 0 .. n /\ n - (n - last) = last
      BY <1>1, <1>2
    <2>3. last \div ResetBlkCount = n \div ResetBlkCount
      BY <1>1, <1>2, DivBetween, BlockAssumption
    <2>4. QED
      BY <2>1, <2>2, <2>3
  <1>3. CASE ~(first <= last /\ n >= last)
    <2>1. BlockAlign(n, last) = n % ResetBlkCount
      BY <1>3 DEF BlockAlign
    <2>2. QED
      BY <1>1, <2>1
  <1>4. QED
    BY <1>2, <1>3

LEMMA RegionMissBlocks ==
    ASSUME BlocksInv, RegionMiss
    PROVE  DecodedBefore'
  <1>1. NBlock \in Nat /\ lzx_last_block' \in Int
    BY RegionTypes, RegionType DEF BlocksInv, TypeOK
  <1>2. /\ NBlock' = NBlock /\ pc' = "uncompress"
        /\ prev' = BlockAlign(NBlock, lzx_last_block')
    BY DEF RegionMiss, NBlock, clientVars
  <1>3. Target' = NBlock - BlockAlign(NBlock, lzx_last_block')
    BY <1>2 DEF Target
  <1>4. QED
    BY <1>1, <1>2, <1>3, BlockAlignTarget DEF DecodedBefore

\* On to the next block: the decoder has just been through the one before.
LEMMA ContinueBlocks ==
    ASSUME BlocksInv, NEW c \in Int, Continue(c),
           pc \in {"uncompress", "fill"}, lzx_last_block' = Target
    PROVE  DecodedBefore'
  <1>0. /\ NBlock \in Nat /\ prev \in Nat /\ Target = NBlock - prev
        /\ Target \in 0 .. NBlock
        /\ Target \div ResetBlkCount = NBlock \div ResetBlkCount
    BY RegionTypes DEF BlocksInv, TypeOK, Target, DecodedBefore
  <1>1. CASE prev > 0 /\ prev' = prev - 1 /\ pc' = "uncompress"
             /\ UNCHANGED clientVars
    <2>1. NBlock' = NBlock /\ Target' = NBlock - (prev - 1)
      BY <1>1 DEF NBlock, Target, clientVars
    <2>2. Target' = Target + 1 /\ Target' \in 0 .. NBlock
      BY <1>0, <1>1, <2>1
    <2>3. Target' \div ResetBlkCount = NBlock \div ResetBlkCount
      BY <1>0, <2>2, DivBetween, BlockAssumption
    <2>4. lzx_last_block' = Target' - 1
      BY <1>0, <2>2
    <2>5. QED
      BY <2>1, <2>2, <2>3, <2>4 DEF DecodedBefore
  <1>2. CASE Deliver(c)
    BY <1>2, DeliverTypes DEF BlocksInv, DecodedBefore
  <1>3. QED
    BY <1>1, <1>2 DEF Continue

LEMMA NextBlocks == BlocksInv /\ [Next]_vars => BlocksInv'
  <1> SUFFICES ASSUME BlocksInv, [Next]_vars PROVE BlocksInv'
    OBVIOUS
  <1>0. TypeOK /\ TypeOK'
    BY NextType DEF BlocksInv
  <1>1. CASE pc' \notin {"uncompress", "fill"}
    BY <1>0, <1>1 DEF BlocksInv, DecodedBefore
  <1>2. CASE RegionMiss
    BY <1>0, <1>2, RegionMissBlocks DEF BlocksInv
  <1>3. CASE UncompressLast
    <2>1. CASE lzx_last_block_data # NULL /\ Continue(heap[lzx_last_block_data])
      <3>1. heap[lzx_last_block_data] \in Int
        BY <1>0, <2>1 DEF TypeOK
      <3>2. lzx_last_block' = Target /\ pc = "uncompress"
        BY <1>3 DEF UncompressLast, lzxVars
      <3>3. QED
        BY <1>0, <2>1, <3>1, <3>2, ContinueBlocks DEF BlocksInv
    <2>2. CASE Fail
      BY <1>1, <2>2 DEF Fail, Stop, Return
    <2>3. QED
      BY <1>3, <2>1, <2>2 DEF UncompressLast
  <1>4. CASE Decode
    <2>1. PICK c \in Int, t \in Int : Decoded(c, t)
      BY <1>0, <1>4, TargetSlot DEF Decode, Junk, Lost
    <2>2. Continue(c) /\ lzx_last_block' = Target /\ pc = "fill"
      BY <1>4, <2>1 DEF Decoded, Decode
    <2>3. QED
      BY <1>0, <2>2, ContinueBlocks DEF BlocksInv
  <1>5. CASE UncompressBegin
    <2>1. /\ UNCHANGED <<call, prev, lzx_last_block>>
          /\ pc = "uncompress" /\ pc' = "fill" /\ lzx_last_block # Target
      BY <1>5 DEF UncompressBegin, clientVars
    <2>2. NBlock' = NBlock /\ Target' = Target
      BY <2>1 DEF NBlock, Target
    <2>3. QED
      BY <1>0, <2>1, <2>2 DEF BlocksInv, DecodedBefore
  <1>6. CASE UNCHANGED vars
    BY <1>0, <1>6
    DEF vars, clientVars, lzxVars, BlocksInv, DecodedBefore, Target, NBlock
  <1>7. CASE Client
    BY <1>1, <1>7 DEF Client, Retrieve, SetCacheSize, Close, BlocksInv, DecodedBefore
  <1>8. CASE \/ ReturnNothing \/ RetrieveUncompressed \/ EnterRegionLoop
             \/ RegionEmpty \/ DecoderUnavailable \/ UncompressNoMemory
             \/ ReadFails \/ DecodeFails
    <2>1. pc' \in {"idle", "region", "crash"}
      BY <1>8
      DEF ReturnNothing, RetrieveUncompressed, EnterRegionLoop, RegionEmpty,
          DecoderUnavailable, UncompressNoMemory, ReadFails, DecodeFails, Fail,
          Stop, Return
    <2>2. QED
      BY <1>1, <2>1
  <1>9. CASE RegionHit
    <2>1. heap[cache_blocks[Slot(NBlock)]] \in Int
      BY <1>0, <1>9, TargetSlot DEF RegionHit, Cached, TypeOK
    <2>2. pc' \in {"idle", "region"}
      BY <1>0, <1>9, <2>1, DeliverTypes DEF RegionHit
    <2>3. QED
      BY <1>1, <2>2
  <1>10. QED
    BY <1>2, <1>3, <1>4, <1>5, <1>6, <1>7, <1>8, <1>9
    DEF Next, Library, Uncompress

\* Whatever fails and however the cache is resized, the decoder is run only on
\* blocks of the wanted block's reset interval that are not past it, and from
\* the second block of an interval on only right after the block before.
THEOREM OnlyNeededBlocksHolds == Spec => []OnlyNeededBlocks
  <1>1. Init => BlocksInv
    BY InitType DEF Init, BlocksInv, DecodedBefore
  <1>2. BlocksInv => OnlyNeededBlocks
    BY DEF BlocksInv, DecodedBefore, OnlyNeededBlocks
  <1>3. QED
    BY <1>1, <1>2, NextBlocks, PTL DEF Spec

-----------------------------------------------------------------------------
(* The decoder is in sync, and the cache holds what its tags say.          *)
(*                                                                         *)
(* DecoderInSync is not inductive: while no slot is filled, lzx_state and  *)
(* lzx_last_block have to agree, so that the block decompress_block starts *)
(* from is the one the decoder is ready for.  Each of the three faults     *)
(* breaks the agreement: memory and reads fail after the decoder was       *)
(* reset, and bad data leaves it between two blocks.                       *)

DecoderStands ==
    /\ pc # "fill" =>
         \/ lzx_state = NoDecoder
         \/ lzx_state = Fresh /\ lzx_last_block = -1
         \/ lzx_last_block \in Nat /\ lzx_state = lzx_last_block + 1
    /\ pc = "uncompress" => lzx_state # NoDecoder
    /\ pc = "fill" =>
         /\ InSync(Target)
         /\ cache_block_indices[Slot(Target)] = Target

SyncInv ==
    /\ MemoryInv
    /\ BlocksInv
    /\ DecoderStands
    /\ ServedSlotsHoldTheirBlock

\* Steps that leave decoder, table and buffers alone.
LEMMA SyncUntouched ==
    ASSUME SyncInv, UNCHANGED <<cacheVars, heap, lzxVars>>,
           pc \notin {"fill", "closed"}, pc' # "fill",
           pc' = "uncompress" => pc = "uncompress"
    PROVE  DecoderStands' /\ ServedSlotsHoldTheirBlock'
  BY DEF SyncInv, DecoderStands, ServedSlotsHoldTheirBlock, BeingFilled,
         cacheVars, lzxVars

LEMMA RegionMissSync ==
    ASSUME SyncInv, RegionMiss
    PROVE  DecoderStands' /\ ServedSlotsHoldTheirBlock'
  <1>1. /\ pc = "region" /\ pc' = "uncompress" /\ UNCHANGED <<cacheVars, heap>>
        /\ lzx_state' = IF lzx_state = NoDecoder THEN Fresh ELSE lzx_state
        /\ lzx_last_block' = IF lzx_state = NoDecoder THEN -1 ELSE lzx_last_block
    BY DEF RegionMiss
  <1>2. DecoderStands'
    BY <1>1 DEF SyncInv, DecoderStands, Fresh, NoDecoder
  <1>3. ServedSlotsHoldTheirBlock'
    BY <1>1 DEF SyncInv, ServedSlotsHoldTheirBlock, BeingFilled, cacheVars
  <1>4. QED
    BY <1>2, <1>3

\* The block about to be decoded is the one the decoder is ready for: it has
\* just been reset, or has just been through the block before.
LEMMA BeginSync ==
    ASSUME SyncInv, UncompressBegin
    PROVE  DecoderStands' /\ ServedSlotsHoldTheirBlock'
  <1>0. TypeOK
    BY DEF SyncInv, MemoryInv
  <1>1. /\ pc = "uncompress" /\ pc' = "fill"
        /\ UNCHANGED <<n_cache_blocks, lzx_last_block, call, prev>>
        /\ lzx_last_block # Target
        /\ lzx_state' = IF Target % ResetBlkCount = 0 THEN Fresh ELSE lzx_state
        /\ SlotBuffer(Target)
        /\ cache_block_indices' = [cache_block_indices EXCEPT ![Slot(Target)] = Target]
    BY DEF UncompressBegin, ResetAtIntervalStart, AllocCachedBlock, clientVars
  <1>2. Target' = Target /\ Slot(Target)' = Slot(Target)
    BY <1>1 DEF Target, NBlock, Slot
  <1>3. /\ Slot(Target) \in Slots /\ Target \in Nat
        /\ 0 .. n_cache_blocks - 1 \subseteq Slots
    <2>1. Target \in 0 .. NBlock /\ NBlock \in Nat
      BY <1>0, <1>1, RegionTypes DEF SyncInv, BlocksInv, DecodedBefore
    <2>2. QED
      BY <1>0, <2>1, TargetSlot, SlotRange DEF TypeOK
  <1>4. InSync(Target)'
    <2>1. CASE Target % ResetBlkCount = 0
      BY <1>1, <1>2, <2>1 DEF InSync
    <2>2. CASE Target % ResetBlkCount # 0
      <3>1. lzx_last_block = Target - 1
        BY <1>1, <2>2 DEF SyncInv, BlocksInv, DecodedBefore
      <3>2. Target # 0
        BY <2>2, BlockAssumption
      <3>3. lzx_state = Target
        BY <1>1, <1>3, <3>1, <3>2 DEF SyncInv, DecoderStands
      <3>4. QED
        BY <1>1, <1>2, <2>2, <3>3 DEF InSync
    <2>3. QED
      BY <2>1, <2>2
  <1>5. DecoderStands'
    <2>1. cache_block_indices'[Slot(Target)] = Target
      BY <1>0, <1>1, <1>3 DEF TypeOK
    <2>2. QED
      BY <1>1, <1>2, <1>4, <2>1 DEF DecoderStands
  <1>6. ASSUME NEW s \in 0 .. n_cache_blocks - 1, cache_blocks'[s] # NULL,
               s # Slot(Target)
        PROVE  heap'[cache_blocks'[s]] = cache_block_indices'[s]
    <2>1. s \in Slots /\ cache_block_indices'[s] = cache_block_indices[s]
      BY <1>0, <1>1, <1>3, <1>6 DEF TypeOK
    <2>2. cache_blocks'[s] = cache_blocks[s]
      BY <1>0, <1>1, <1>3, <1>6, <2>1 DEF SlotBuffer, TypeOK
    <2>3. cache_blocks[s] \in Buf /\ heap[cache_blocks[s]] = cache_block_indices[s]
      BY <1>0, <1>1, <1>6, <2>1, <2>2
      DEF SyncInv, ServedSlotsHoldTheirBlock, BeingFilled, TypeOK
    <2>4. heap[cache_blocks[s]] # Free
      BY <1>1, <1>6, <2>3 DEF SyncInv, MemoryInv, OneOwner
    <2>5. heap'[cache_blocks[s]] = heap[cache_blocks[s]]
      BY <1>0, <1>1, <2>3, <2>4 DEF SlotBuffer, TypeOK
    <2>6. QED
      BY <2>1, <2>2, <2>3, <2>5
  <1>7. ServedSlotsHoldTheirBlock'
    BY <1>1, <1>2, <1>6 DEF ServedSlotsHoldTheirBlock, BeingFilled
  <1>8. QED
    BY <1>5, <1>7

\* What a decoder in sync produced is the block its slot is tagged with.
LEMMA DecodeSync ==
    ASSUME SyncInv, Decode
    PROVE  /\ Decoded(Target, Target + 1)
           /\ DecoderStands' /\ ServedSlotsHoldTheirBlock'
  <1> DEFINE b == cache_blocks[Slot(Target)]
  <1>0. TypeOK
    BY DEF SyncInv, MemoryInv
  <1>1. pc = "fill" /\ UNCHANGED cacheVars
    BY DEF Decode
  <1>2. InSync(Target) /\ cache_block_indices[Slot(Target)] = Target
    BY <1>1 DEF SyncInv, DecoderStands
  <1>3. Decoded(Target, Target + 1)
    BY <1>2 DEF Decode
  <1>4. Target \in Nat /\ Slot(Target) \in Slots
        /\ 0 .. n_cache_blocks - 1 \subseteq Slots
    <2>1. Target \in 0 .. NBlock /\ NBlock \in Nat
      BY <1>0, <1>1, RegionTypes DEF SyncInv, BlocksInv, DecodedBefore
    <2>2. QED
      BY <1>0, <2>1, TargetSlot, SlotRange DEF TypeOK
  <1>5. /\ heap' = [heap EXCEPT ![b] = Target]
        /\ lzx_state' = Target + 1 /\ lzx_last_block' = Target
        /\ Continue(Target)
    BY <1>3 DEF Decoded
  <1>6. pc' \in {"idle", "region", "uncompress"}
    BY <1>0, <1>4, <1>5, ContinueTypes
  <1>7. DecoderStands'
    BY <1>4, <1>5, <1>6 DEF DecoderStands, NoDecoder
  <1>8. b \in Buf
    BY <1>0, <1>1, <1>4 DEF SyncInv, MemoryInv, FilledSlotHasBuffer, TypeOK
  <1>9. ASSUME NEW s \in 0 .. n_cache_blocks - 1, cache_blocks[s] # NULL
        PROVE  heap'[cache_blocks[s]] = cache_block_indices[s]
    <2>1. s \in Slots /\ cache_blocks[s] \in Buf
      BY <1>0, <1>4, <1>9 DEF TypeOK
    <2>2. CASE s = Slot(Target)
      BY <1>0, <1>2, <1>5, <1>8, <2>2 DEF TypeOK
    <2>3. CASE s # Slot(Target)
      <3>1. cache_blocks[s] # b
        BY <1>1, <1>4, <1>9, <2>1, <2>3 DEF SyncInv, MemoryInv, OneOwner
      <3>2. heap[cache_blocks[s]] = cache_block_indices[s]
        BY <1>1, <1>9, <2>3 DEF SyncInv, ServedSlotsHoldTheirBlock, BeingFilled
      <3>3. QED
        BY <1>0, <1>5, <2>1, <3>1, <3>2 DEF TypeOK
    <2>4. QED
      BY <2>2, <2>3
  <1>10. ServedSlotsHoldTheirBlock'
    BY <1>1, <1>9 DEF ServedSlotsHoldTheirBlock, cacheVars
  <1>11. QED
    BY <1>3, <1>7, <1>10

\* A block that stays in the table keeps its buffer and its tag.
LEMMA SetCacheSizeSync ==
    ASSUME SyncInv, NEW n0 \in CacheSizes, SetCacheSize(n0)
    PROVE  DecoderStands' /\ ServedSlotsHoldTheirBlock'
  <1>0. MemoryInv /\ TypeOK
    BY DEF SyncInv, MemoryInv
  <1>1. pc = "idle" /\ pc' = "idle" /\ UNCHANGED lzxVars
    BY DEF SetCacheSize
  <1>2. DecoderStands'
    BY <1>1 DEF SyncInv, DecoderStands, lzxVars
  <1>3. 0 .. n_cache_blocks' - 1 \subseteq Slots
        /\ 0 .. n_cache_blocks - 1 \subseteq Slots
    BY <1>0, SetCacheSizeType, SlotRange DEF TypeOK
  <1>4. ASSUME NEW s \in 0 .. n_cache_blocks' - 1, cache_blocks'[s] # NULL
        PROVE  heap'[cache_blocks'[s]] = cache_block_indices'[s]
    <2>1. PICK i \in 0 .. n_cache_blocks - 1 :
             /\ Keeps(i, n_cache_blocks')
             /\ cache_blocks'[s] = cache_blocks[i]
             /\ cache_block_indices'[s] = cache_block_indices[i]
      BY <1>0, <1>3, <1>4, MovedSlot
    <2>2. cache_blocks[i] \in Buf
      BY <1>0, <1>3, <1>4, <2>1 DEF TypeOK
    <2>3. heap[cache_blocks[i]] = cache_block_indices[i]
      BY <1>1, <1>4, <2>1 DEF SyncInv, ServedSlotsHoldTheirBlock, BeingFilled
    <2>4. ASSUME NEW j \in 0 .. n_cache_blocks - 1,
                 cache_blocks[j] = cache_blocks[i]
          PROVE  ~Drops(j, n_cache_blocks')
      <3>1. j = i
        BY <1>1, <1>3, <1>4, <2>1, <2>4 DEF SyncInv, MemoryInv, OneOwner
      <3>2. QED
        BY <2>1, <3>1 DEF Drops
    <2>5. heap'[cache_blocks[i]] = heap[cache_blocks[i]]
      BY <2>2, <2>4 DEF SetCacheSize
    <2>6. QED
      BY <2>1, <2>3, <2>5
  <1>5. ServedSlotsHoldTheirBlock'
    BY <1>4 DEF ServedSlotsHoldTheirBlock
  <1>6. QED
    BY <1>2, <1>5

\* The steps that are left when nothing fails.
NextUnfailing ==
    \/ Client
    \/ ReturnNothing \/ RetrieveUncompressed \/ EnterRegionLoop
    \/ RegionEmpty \/ RegionHit \/ RegionMiss
    \/ UncompressLast \/ UncompressBegin \/ Decode

LEMMA NothingFails ==
    ASSUME Faults = {}, SyncInv, Next
    PROVE  NextUnfailing
  <1>1. ~DecoderUnavailable /\ ~UncompressNoMemory /\ ~ReadFails
    BY DEF DecoderUnavailable, UncompressNoMemory, ReadFails
  <1>2. ~DecodeFails
    BY DEF DecodeFails, SyncInv, DecoderStands
  <1>3. QED
    BY <1>1, <1>2 DEF Next, Library, Uncompress, NextUnfailing

LEMMA NextSync ==
    ASSUME Faults = {}, SyncInv, [Next]_vars
    PROVE  SyncInv'
  <1>0. MemoryInv /\ TypeOK /\ MemoryInv' /\ BlocksInv'
    BY NextMemory, NextBlocks DEF SyncInv, MemoryInv
  <1> SUFFICES DecoderStands' /\ ServedSlotsHoldTheirBlock'
    BY <1>0 DEF SyncInv
  <1>1. CASE \/ \E e \in Entry, len \in 0 .. MaxLen :
                   \E addr \in 0 .. e.length : Retrieve(e, addr, len)
             \/ ReturnNothing \/ RetrieveUncompressed \/ EnterRegionLoop
             \/ RegionEmpty
    <2>1. /\ pc \in {"idle", "enter", "region"}
          /\ pc' \in {"idle", "enter", "region"}
          /\ UNCHANGED <<cacheVars, heap, lzxVars>>
      BY <1>1
      DEF Retrieve, ReturnNothing, RetrieveUncompressed, EnterRegionLoop,
          RegionEmpty, Stop, Return
    <2>2. QED
      BY <2>1, SyncUntouched
  <1>2. CASE RegionHit
    <2>1. heap[cache_blocks[Slot(NBlock)]] \in Int
      BY <1>0, <1>2, TargetSlot DEF RegionHit, Cached, TypeOK
    <2>2. pc = "region" /\ pc' \in {"idle", "region"}
          /\ UNCHANGED <<cacheVars, heap, lzxVars>>
      BY <1>0, <1>2, <2>1, DeliverTypes DEF RegionHit
    <2>3. QED
      BY <2>2, SyncUntouched
  <1>3. CASE UncompressLast
    <2>1. pc = "uncompress" /\ UNCHANGED <<cacheVars, heap, lzxVars>>
      BY <1>3 DEF UncompressLast
    <2>2. CASE lzx_last_block_data # NULL /\ Continue(heap[lzx_last_block_data])
      <3>1. heap[lzx_last_block_data] \in Int
        BY <1>0, <2>2 DEF TypeOK
      <3>2. QED
        BY <1>0, <2>1, <2>2, <3>1, ContinueTypes, SyncUntouched
    <2>3. CASE Fail
      BY <2>1, <2>3, SyncUntouched DEF Fail, Stop, Return
    <2>4. QED
      BY <1>3, <2>2, <2>3 DEF UncompressLast
  <1>4. CASE Close
    BY <1>4
    DEF Close, SyncInv, DecoderStands, ServedSlotsHoldTheirBlock, lzxVars
  <1>5. CASE UNCHANGED vars
    BY <1>5
    DEF vars, cacheVars, lzxVars, clientVars, SyncInv, DecoderStands, InSync,
        ServedSlotsHoldTheirBlock, BeingFilled, Slot, Target, NBlock
  <1>6. QED
    BY <1>1, <1>2, <1>3, <1>4, <1>5, RegionMissSync, BeginSync, DecodeSync,
       SetCacheSizeSync, NothingFails
    DEF NextUnfailing, Client

LEMMA InitSync == Init => SyncInv
  <1> SUFFICES ASSUME Init PROVE SyncInv
    OBVIOUS
  <1>1. DecoderStands
    BY DEF Init, DecoderStands
  <1>2. ServedSlotsHoldTheirBlock
    <2>1. 0 .. n_cache_blocks - 1 \subseteq Slots
      BY InitType, SlotRange DEF TypeOK
    <2>2. \A s \in Slots : cache_blocks[s] = NULL
      BY DEF Init
    <2>3. QED
      BY <2>1, <2>2 DEF ServedSlotsHoldTheirBlock
  <1>3. BlocksInv
    BY InitType DEF Init, BlocksInv, DecodedBefore
  <1>4. QED
    BY <1>1, <1>2, <1>3, InitMemory DEF SyncInv

\* When nothing fails, the decoder is only ever run on the block it is ready
\* for, however the client resizes the cache between calls.
THEOREM DecoderInSyncHolds ==
    ASSUME Faults = {}
    PROVE  Spec => []DecoderInSync
  <1>1. SyncInv => DecoderInSync
    BY DEF SyncInv, DecoderStands, DecoderInSync
  <1>2. SyncInv /\ [Next]_vars => SyncInv'
    BY NextSync
  <1>3. QED
    BY InitSync, <1>1, <1>2, PTL DEF Spec

\* When nothing fails, a slot get_cached_block would serve holds the block it
\* is tagged with, through every rehash of the table.
THEOREM ServedSlotsHold ==
    ASSUME Faults = {}
    PROVE  Spec => []ServedSlotsHoldTheirBlock
  <1>1. SyncInv => ServedSlotsHoldTheirBlock
    BY DEF SyncInv
  <1>2. SyncInv /\ [Next]_vars => SyncInv'
    BY NextSync
  <1>3. QED
    BY InitSync, <1>1, <1>2, PTL DEF Spec

-----------------------------------------------------------------------------
(* The client gets the bytes of its entry.                                 *)
(*                                                                         *)
(* A block reaches the client from a slot, from the decoder, or from the   *)
(* buffer lzx_last_block_data points to.  The last of the three may be     *)
(* freed when the client resizes the cache, so from here on the client     *)
(* keeps the size chm_parse chose.                                         *)

SizeIsKept == n_cache_blocks = MaxBlocksCached

\* There is a last block exactly when the decoder has decoded one.
DataStands ==
    /\ lzx_last_block_data # NULL => lzx_last_block \in Nat
    /\ lzx_state = NoDecoder => lzx_last_block_data = NULL
    /\ lzx_state # NoDecoder /\ lzx_last_block \in Nat
           => lzx_last_block_data # NULL

\* What chm_retrieve_entry checked before it entered the loop.
CallChecked ==
    /\ pc \in InCall => call.e \in Entry
    /\ InLoop =>
          /\ call.e.space = CHM_COMPRESSED
          /\ compression_enabled
          /\ call.from < call.e.length

StoreInv ==
    /\ SyncInv
    /\ CallInv
    /\ SizeIsKept
    /\ DataStands
    /\ LastDataLive
    /\ CallChecked
    /\ RetrievedIsContent

\* The bytes of the wanted block from NOffset on are the entry's bytes from
\* where the last swath ended.
LEMMA SwathBytes ==
    ASSUME StoreInv, InLoop,
           NEW k \in call.total .. call.total + NLen - 1
    PROVE  <<NBlock, NOffset + (k - call.total)>> = ByteAt(call.e, call.from + k)
  <1> DEFINE a == call.e.start + call.addr
             j == k - call.total
  <1>0. TypeOK
    BY DEF StoreInv, CallInv
  <1>1. /\ call.total \in Nat /\ call.addr \in Nat /\ call.from \in Nat
        /\ call.e.start \in Nat /\ call.len \in Nat
    BY <1>0 DEF TypeOK
  <1>2. call.addr = call.from + call.total /\ call.e.space = CHM_COMPRESSED
    BY DEF StoreInv, CallInv, CountsAddUp, CallChecked
  <1>3. NLen \in 0 .. call.len /\ NOffset \in 0 .. BlockLen - 1
        /\ NLen <= BlockLen - NOffset
    BY <1>0, <1>1, RegionTypes, BlockAssumption DEF NLen, Min2
  <1>4. j \in Nat /\ NOffset + j < BlockLen /\ k \in Nat
    BY <1>1, <1>3, BlockAssumption
  <1>5. (a + j) \div BlockLen = NBlock /\ (a + j) % BlockLen = NOffset + j
    <2>1. a \in Int /\ (a % BlockLen) + j < BlockLen
      BY <1>1, <1>4 DEF NOffset
    <2>2. QED
      BY <1>4, <2>1, DivAdd, BlockAssumption DEF NBlock, NOffset
  <1>6. call.e.start + (call.from + k) = a + j
    BY <1>1, <1>2, <1>4
  <1>7. QED
    BY <1>2, <1>5, <1>6 DEF ByteAt

LEMMA DeliverContent ==
    ASSUME StoreInv, InLoop, Deliver(NBlock)
    PROVE  RetrievedIsContent'
  <1>0. TypeOK
    BY DEF StoreInv, CallInv
  <1>1. /\ NBlock \in Int /\ call.total \in Nat /\ NLen \in 0 .. call.len
        /\ call.len \in Nat /\ call.total + call.len <= MaxLen
        /\ DOMAIN buf = 0 .. MaxLen - 1
    BY <1>0, RegionTypes DEF TypeOK, StoreInv, CallInv, CountsAddUp
  <1>2. /\ call'.e = call.e /\ call'.from = call.from
        /\ call'.total = call.total + NLen
        /\ (IF pc' \in InCall THEN call'.total ELSE ret') = call.total + NLen
    BY <1>0, <1>1, DeliverCounts DEF InCall
  <1>3. buf' = [k \in DOMAIN buf |->
                  IF k \in call.total .. call.total + NLen - 1
                  THEN <<NBlock, NOffset + (k - call.total)>> ELSE buf[k]]
    BY DEF Deliver
  <1>4. ASSUME NEW k \in 0 .. call.total + NLen - 1
        PROVE  buf'[k] = ByteAt(call.e, call.from + k)
    <2>1. k \in DOMAIN buf
      BY <1>1, ClientAssumption
    <2>2. CASE k \in call.total .. call.total + NLen - 1
      BY <1>3, <2>1, <2>2, SwathBytes
    <2>3. CASE k \notin call.total .. call.total + NLen - 1
      <3>1. k \in 0 .. call.total - 1
        BY <1>1, <2>3
      <3>2. buf[k] = ByteAt(call.e, call.from + k)
        BY <3>1 DEF StoreInv, RetrievedIsContent, InLoop, InCall
      <3>3. QED
        BY <1>3, <2>1, <2>3, <3>2
    <2>4. QED
      BY <2>2, <2>3
  <1>5. QED
    BY <1>1, <1>2, <1>4 DEF RetrievedIsContent

\* Inside the loop a step delivers bytes of the wanted block or goes on; only
\* a request for nothing ends without a swath.
LEMMA LoopStepContent ==
    ASSUME Faults = {}, StoreInv, InLoop, [Next]_vars
    PROVE  \/ Deliver(NBlock)
           \/ UNCHANGED <<call, buf>> /\ InLoop'
           \/ RegionEmpty
  <1>0. TypeOK /\ SyncInv
    BY DEF StoreInv, CallInv
  <1>1. NBlock \in Nat /\ prev \in Nat /\ Target = NBlock - prev
    BY <1>0, RegionTypes DEF TypeOK, Target
  <1>2. ASSUME Continue(Target)
        PROVE  Deliver(NBlock) \/ (UNCHANGED <<call, buf>> /\ InLoop')
    BY <1>1, <1>2 DEF Continue, InLoop, clientVars
  <1>3. CASE RegionHit
    <2>1. Slot(NBlock) \in 0 .. n_cache_blocks - 1
      <3>1. n_cache_blocks \in Nat \ {0}
        BY <1>0, TargetSlot
      <3>2. NBlock % n_cache_blocks \in 0 .. n_cache_blocks - 1
        BY <1>1, <3>1, ModRange
      <3>3. QED
        BY <3>2 DEF Slot
    <2>2. heap[cache_blocks[Slot(NBlock)]] = NBlock
      BY <1>3, <2>1
      DEF RegionHit, Cached, SyncInv, StoreInv, ServedSlotsHoldTheirBlock, BeingFilled
    <2>3. QED
      BY <1>3, <2>2 DEF RegionHit
  <1>4. CASE UncompressLast
    <2>1. pc = "uncompress" /\ lzx_last_block = Target
      BY <1>4 DEF UncompressLast
    <2>2. Target \in Nat
      BY <1>1, <2>1 DEF StoreInv, SyncInv, BlocksInv, DecodedBefore
    <2>3. lzx_last_block_data # NULL
      BY <2>1, <2>2 DEF StoreInv, SyncInv, DecoderStands, DataStands
    <2>4. heap[lzx_last_block_data] = Target
      BY <2>1, <2>3 DEF StoreInv, LastDataLive
    <2>5. QED
      BY <1>2, <1>4, <2>3, <2>4 DEF UncompressLast
  <1>5. CASE Decode
    BY <1>0, <1>2, <1>5, DecodeSync DEF Decoded
  <1>6. CASE RegionMiss \/ UncompressBegin
    BY <1>6 DEF RegionMiss, UncompressBegin, InLoop, clientVars
  <1>7. CASE UNCHANGED vars
    BY <1>7 DEF vars, clientVars, InLoop
  <1>8. ~Client /\ ~ReturnNothing /\ ~RetrieveUncompressed /\ ~EnterRegionLoop
    BY DEF Client, Retrieve, SetCacheSize, Close, ReturnNothing,
           RetrieveUncompressed, EnterRegionLoop, InLoop
  <1>9. QED
    BY <1>0, <1>3, <1>4, <1>5, <1>6, <1>7, <1>8, NothingFails DEF NextUnfailing

\* A request clipped to the entry fits the client's buffer.
LEMMA ClippedRange ==
    ASSUME TypeOK, pc = "enter", CallInv, call.addr < call.e.length
    PROVE  Clipped(call.e, call.addr, call.len) \in 0 .. MaxLen
  BY ClientAssumption DEF TypeOK, CallInv, CallBegins, Clipped

LEMMA NextContent ==
    ASSUME Faults = {}, StoreInv, [Next]_vars
    PROVE  RetrievedIsContent'
  <1>0. TypeOK /\ SyncInv
    BY DEF StoreInv, CallInv
  <1>1. CASE InLoop
    <2>1. CASE Deliver(NBlock)
      BY <1>1, <2>1, DeliverContent
    <2>2. CASE UNCHANGED <<call, buf>> /\ InLoop'
      BY <1>1, <2>2
      DEF StoreInv, RetrievedIsContent, InLoop, InCall, ByteAt
    <2>3. CASE RegionEmpty
      BY <1>1, <2>3
      DEF RegionEmpty, Stop, Return, StoreInv, RetrievedIsContent, InLoop, InCall,
          ByteAt
    <2>4. QED
      BY <1>1, <2>1, <2>2, <2>3, LoopStepContent
  <1>2. CASE \E e \in Entry, len \in 0 .. MaxLen :
                \E addr \in 0 .. e.length : Retrieve(e, addr, len)
    BY <1>2 DEF Retrieve, RetrievedIsContent, InCall
  <1>3. CASE ReturnNothing
    BY <1>3 DEF ReturnNothing, Return, RetrievedIsContent, InCall
  <1>4. CASE RetrieveUncompressed
    <2> DEFINE len == Clipped(call.e, call.addr, call.len)
    <2>1. /\ pc = "enter" /\ call.addr < call.e.length
          /\ call.e.space = CHM_UNCOMPRESSED
          /\ pc' = "idle" /\ ret' = len /\ call' = call
          /\ buf' = [k \in DOMAIN buf |->
                       IF k < len THEN <<Raw, call.e.start + call.addr + k>>
                                  ELSE buf[k]]
      BY <1>4 DEF RetrieveUncompressed, Return
    <2>2. len \in 0 .. MaxLen /\ DOMAIN buf = 0 .. MaxLen - 1
          /\ call.addr = call.from /\ call.from \in Nat /\ call.e.start \in Nat
      BY <1>0, <2>1, ClippedRange DEF StoreInv, TypeOK, CallInv, CallBegins
    <2>3. ASSUME NEW k \in 0 .. len - 1
          PROVE  buf'[k] = ByteAt(call.e, call.from + k)
      <3>1. k \in DOMAIN buf /\ k < len /\ k \in Int
        BY <2>2, ClientAssumption
      <3>2. buf'[k] = <<Raw, call.e.start + call.addr + k>>
        BY <2>1, <3>1
      <3>3. call.e.start + call.addr + k = call.e.start + (call.from + k)
        BY <2>2, <3>1
      <3>4. QED
        BY <2>1, <3>2, <3>3 DEF ByteAt, CHM_UNCOMPRESSED, CHM_COMPRESSED
    <2>4. QED
      BY <2>1, <2>3 DEF RetrievedIsContent, InCall, ByteAt
  <1>5. CASE EnterRegionLoop
    <2>1. pc = "enter" /\ pc' = "region" /\ call'.total = 0
      BY <1>0, <1>5 DEF EnterRegionLoop, StoreInv, CallInv, CallBegins, TypeOK
    <2>2. QED
      BY <2>1 DEF RetrievedIsContent, InCall
  <1>6. CASE \/ \E n \in CacheSizes : SetCacheSize(n)
             \/ Close
             \/ UNCHANGED vars
    BY <1>6
    DEF SetCacheSize, Close, vars, clientVars, StoreInv, RetrievedIsContent,
        InCall, ByteAt
  <1>7. QED
    BY <1>0, <1>1, <1>2, <1>3, <1>4, <1>5, <1>6, NothingFails
    DEF NextUnfailing, Client, InLoop, RegionEmpty, RegionHit, RegionMiss,
        UncompressLast, UncompressBegin, Decode

-----------------------------------------------------------------------------
(* The buffer of the last block stays the last block.                      *)

\* Steps that leave decoder, table and buffers alone.
LEMMA LastUntouched ==
    ASSUME StoreInv, UNCHANGED <<cacheVars, heap, lzxVars>>,
           pc \notin {"fill", "closed"}, pc' # "fill"
    PROVE  SizeIsKept' /\ DataStands' /\ LastDataLive'
  BY DEF StoreInv, SizeIsKept, DataStands, LastDataLive, cacheVars, lzxVars

\* A slot that needs a buffer is given one that was free, hence not that of the
\* last block.
LEMMA BeginLast ==
    ASSUME StoreInv, UncompressBegin
    PROVE  SizeIsKept' /\ DataStands' /\ LastDataLive'
  <1>0. TypeOK
    BY DEF StoreInv, CallInv
  <1>1. /\ pc = "uncompress" /\ pc' = "fill"
        /\ UNCHANGED <<n_cache_blocks, lzx_last_block, lzx_last_block_data>>
        /\ lzx_state' = IF Target % ResetBlkCount = 0 THEN Fresh ELSE lzx_state
        /\ SlotBuffer(Target)
    BY DEF UncompressBegin, ResetAtIntervalStart, AllocCachedBlock
  <1>2. lzx_state # NoDecoder /\ lzx_state' # NoDecoder
    BY <1>1 DEF StoreInv, SyncInv, DecoderStands, Fresh, NoDecoder
  <1>3. SizeIsKept' /\ DataStands'
    BY <1>1, <1>2 DEF StoreInv, SizeIsKept, DataStands
  <1>4. ASSUME lzx_last_block_data # NULL
        PROVE  heap'[lzx_last_block_data] = lzx_last_block
    <2>1. heap[lzx_last_block_data] = lzx_last_block /\ lzx_last_block \in Nat
          /\ lzx_last_block_data \in Buf
      BY <1>0, <1>1, <1>4 DEF StoreInv, LastDataLive, DataStands, TypeOK
    <2>2. heap[lzx_last_block_data] # Free
      BY <2>1 DEF Free
    <2>3. QED
      BY <1>0, <1>1, <2>1, <2>2 DEF SlotBuffer, TypeOK
  <1>5. QED
    BY <1>1, <1>3, <1>4 DEF LastDataLive

LEMMA DecodeLast ==
    ASSUME StoreInv, Decode
    PROVE  SizeIsKept' /\ DataStands' /\ LastDataLive'
  <1> DEFINE b == cache_blocks[Slot(Target)]
  <1>0. TypeOK /\ SyncInv
    BY DEF StoreInv, CallInv
  <1>1. pc = "fill" /\ UNCHANGED cacheVars
    BY DEF Decode
  <1>2. /\ heap' = [heap EXCEPT ![b] = Target]
        /\ lzx_state' = Target + 1 /\ lzx_last_block' = Target
        /\ lzx_last_block_data' = b
        /\ Continue(Target)
    BY <1>0, DecodeSync DEF Decoded
  <1>3. Target \in Nat /\ Slot(Target) \in Slots
    <2>1. Target \in 0 .. NBlock /\ NBlock \in Nat
      BY <1>0, <1>1, RegionTypes DEF SyncInv, BlocksInv, DecodedBefore
    <2>2. QED
      BY <1>0, <2>1, TargetSlot
  <1>4. b \in Buf
    BY <1>0, <1>1, <1>3 DEF SyncInv, MemoryInv, FilledSlotHasBuffer, TypeOK
  <1>5. heap'[b] = Target
    BY <1>0, <1>2, <1>4 DEF TypeOK
  <1>6. QED
    BY <1>1, <1>2, <1>3, <1>4, <1>5, HeapAssumption
    DEF StoreInv, SizeIsKept, DataStands, LastDataLive, cacheVars, NoDecoder

\* The one size the client may ask for is the one the cache has.
LEMMA NoResize ==
    ASSUME CacheSizes \subseteq {MaxBlocksCached}, StoreInv, NEW n \in CacheSizes
    PROVE  ~SetCacheSize(n)
  BY DEF StoreInv, SizeIsKept, SetCacheSize

LEMMA NextLast ==
    ASSUME Faults = {}, CacheSizes \subseteq {MaxBlocksCached},
           StoreInv, [Next]_vars
    PROVE  SizeIsKept' /\ DataStands' /\ LastDataLive'
  <1>0. TypeOK /\ SyncInv
    BY DEF StoreInv, CallInv
  <1>1. CASE \/ \E e \in Entry, len \in 0 .. MaxLen :
                   \E addr \in 0 .. e.length : Retrieve(e, addr, len)
             \/ ReturnNothing \/ RetrieveUncompressed \/ EnterRegionLoop
             \/ RegionEmpty
    <2>1. /\ pc \in {"idle", "enter", "region"}
          /\ pc' \in {"idle", "enter", "region"}
          /\ UNCHANGED <<cacheVars, heap, lzxVars>>
      BY <1>1
      DEF Retrieve, ReturnNothing, RetrieveUncompressed, EnterRegionLoop,
          RegionEmpty, Stop, Return
    <2>2. QED
      BY <2>1, LastUntouched
  <1>2. CASE RegionHit
    <2>1. heap[cache_blocks[Slot(NBlock)]] \in Int
      BY <1>0, <1>2, TargetSlot DEF RegionHit, Cached, TypeOK
    <2>2. pc = "region" /\ pc' \in {"idle", "region"}
          /\ UNCHANGED <<cacheVars, heap, lzxVars>>
      BY <1>0, <1>2, <2>1, DeliverTypes DEF RegionHit
    <2>3. QED
      BY <2>2, LastUntouched
  <1>3. CASE UncompressLast
    <2>1. pc = "uncompress" /\ UNCHANGED <<cacheVars, heap, lzxVars>>
      BY <1>3 DEF UncompressLast
    <2>2. CASE lzx_last_block_data # NULL /\ Continue(heap[lzx_last_block_data])
      <3>1. heap[lzx_last_block_data] \in Int
        BY <1>0, <2>2 DEF TypeOK
      <3>2. pc' # "fill"
        BY <1>0, <2>2, <3>1, ContinueTypes
      <3>3. QED
        BY <2>1, <3>2, LastUntouched
    <2>3. CASE Fail
      BY <2>1, <2>3, LastUntouched DEF Fail, Stop, Return
    <2>4. QED
      BY <1>3, <2>2, <2>3 DEF UncompressLast
  <1>4. CASE RegionMiss
    <2>1. /\ pc = "region" /\ pc' = "uncompress" /\ UNCHANGED <<cacheVars, heap>>
          /\ lzx_state' = IF lzx_state = NoDecoder THEN Fresh ELSE lzx_state
          /\ lzx_last_block' = IF lzx_state = NoDecoder THEN -1 ELSE lzx_last_block
          /\ lzx_last_block_data' = lzx_last_block_data
      BY <1>4 DEF RegionMiss
    <2>2. QED
      BY <2>1
      DEF StoreInv, SizeIsKept, DataStands, LastDataLive, cacheVars, Fresh, NoDecoder
  <1>5. CASE Close
    BY <1>5
    DEF Close, StoreInv, SizeIsKept, DataStands, LastDataLive, cacheVars, lzxVars
  <1>6. CASE UNCHANGED vars
    BY <1>6
    DEF vars, cacheVars, lzxVars, clientVars, StoreInv, SizeIsKept, DataStands,
        LastDataLive, Slot, Target, NBlock
  <1>7. QED
    BY <1>0, <1>1, <1>2, <1>3, <1>4, <1>5, <1>6, BeginLast, DecodeLast, NoResize,
       NothingFails
    DEF NextUnfailing, Client

\* A step inside a call changes neither what the call asked for nor whether the
\* archive's compressed section can be read.
LEMMA RequestKept ==
    ASSUME TypeOK, pc \in InCall, [Next]_vars
    PROVE  /\ call'.e = call.e /\ call'.from = call.from
           /\ call'.asked = call.asked
           /\ compression_enabled' = compression_enabled
  <1>1. compression_enabled' = compression_enabled
    BY DEF Next, Client, Library, Uncompress, Retrieve, SetCacheSize, Close,
           ReturnNothing, RetrieveUncompressed, EnterRegionLoop, RegionEmpty,
           RegionHit, RegionMiss, DecoderUnavailable, UncompressLast,
           UncompressNoMemory, UncompressBegin, ReadFails, Decode, DecodeFails,
           vars
  <1>2. CASE InLoop
    BY <1>1, <1>2, LoopStep, DeliverCounts
  <1>3. CASE pc = "enter"
    <2>1. ReturnNothing \/ RetrieveUncompressed \/ EnterRegionLoop \/ UNCHANGED vars
      BY <1>3
      DEF Next, Client, Library, Uncompress, Retrieve, SetCacheSize, Close,
          RegionEmpty, RegionHit, RegionMiss, DecoderUnavailable, UncompressLast,
          UncompressNoMemory, UncompressBegin, ReadFails, Decode, DecodeFails
    <2>2. QED
      BY <1>1, <2>1
      DEF ReturnNothing, RetrieveUncompressed, EnterRegionLoop, vars, clientVars,
          TypeOK
  <1>4. QED
    BY <1>1, <1>2, <1>3 DEF InCall, InLoop

LEMMA NextChecked ==
    ASSUME StoreInv, [Next]_vars
    PROVE  CallChecked'
  <1>0. TypeOK
    BY DEF StoreInv, CallInv
  <1>1. CASE pc \in InCall /\ ~EnterRegionLoop
    <2>1. InLoop' => InLoop
      BY <1>1
      DEF Next, Client, Library, Uncompress, Retrieve, SetCacheSize, Close,
          ReturnNothing, RetrieveUncompressed, Return, InLoop, InCall,
          RegionEmpty, RegionHit, RegionMiss, DecoderUnavailable, UncompressLast,
          UncompressNoMemory, UncompressBegin, ReadFails, Decode, DecodeFails,
          vars
    <2>2. QED
      BY <1>0, <1>1, <2>1, RequestKept DEF StoreInv, CallChecked
  <1>2. CASE EnterRegionLoop
    <2>1. /\ pc = "enter" /\ pc' = "region" /\ call.e.space = CHM_COMPRESSED
          /\ compression_enabled /\ call.addr < call.e.length
      BY <1>2 DEF EnterRegionLoop
    <2>2. call.from = call.addr
      BY <2>1 DEF StoreInv, CallInv, CallBegins
    <2>3. QED
      BY <1>0, <2>1, <2>2, RequestKept DEF StoreInv, CallChecked, InCall
  <1>3. CASE pc \notin InCall
    <2>1. CASE \E e \in Entry, len \in 0 .. MaxLen :
                  \E addr \in 0 .. e.length : Retrieve(e, addr, len)
      BY <2>1 DEF Retrieve, CallChecked, InLoop
    <2>2. CASE pc' \notin InCall
      BY <2>2 DEF CallChecked, InCall, InLoop
    <2>3. CASE \/ \E n \in CacheSizes : SetCacheSize(n)
               \/ Close \/ UNCHANGED vars
      BY <1>3, <2>2, <2>3 DEF SetCacheSize, Close, vars, InCall
    <2>4. QED
      BY <1>3, <2>1, <2>3
      DEF Next, Client, Library, Uncompress, ReturnNothing, RetrieveUncompressed,
          EnterRegionLoop, RegionEmpty, RegionHit, RegionMiss, DecoderUnavailable,
          UncompressLast, UncompressNoMemory, UncompressBegin, ReadFails, Decode,
          DecodeFails, InCall
  <1>4. QED
    BY <1>1, <1>2, <1>3

LEMMA InitStore == Init => StoreInv
  <1> SUFFICES ASSUME Init PROVE StoreInv
    OBVIOUS
  <1>1. SyncInv /\ CallInv
    BY InitSync, InitCall
  <1>2. SizeIsKept /\ DataStands /\ LastDataLive /\ CallChecked
    BY DEF Init, SizeIsKept, DataStands, LastDataLive, CallChecked, InCall, InLoop
  <1>3. RetrievedIsContent
    BY DEF Init, RetrievedIsContent, InCall
  <1>4. QED
    BY <1>1, <1>2, <1>3 DEF StoreInv

LEMMA NextStore ==
    ASSUME Faults = {}, CacheSizes \subseteq {MaxBlocksCached},
           StoreInv, [Next]_vars
    PROVE  StoreInv'
  <1>1. SyncInv' /\ CallInv'
    BY NextSync, NextCall DEF StoreInv
  <1>2. QED
    BY <1>1, NextLast, NextChecked, NextContent DEF StoreInv

\* When nothing fails and the cache keeps its size, every byte a call hands out
\* is the byte the entry has at that offset, whatever the calls before left in
\* the cache and in the decoder.
THEOREM RetrievedIsContentHolds ==
    ASSUME Faults = {}, CacheSizes \subseteq {MaxBlocksCached}
    PROVE  Spec => []RetrievedIsContent
  <1>1. StoreInv => RetrievedIsContent
    BY DEF StoreInv
  <1>2. StoreInv /\ [Next]_vars => StoreInv'
    BY NextStore
  <1>3. QED
    BY InitStore, <1>1, <1>2, PTL DEF Spec

\* Under the same conditions the block the library returns without a look at
\* the cache is allocated and is the one lzx_last_block says.
THEOREM LastDataLiveHolds ==
    ASSUME Faults = {}, CacheSizes \subseteq {MaxBlocksCached}
    PROVE  Spec => []LastDataLive
  <1>1. StoreInv => LastDataLive
    BY DEF StoreInv
  <1>2. StoreInv /\ [Next]_vars => StoreInv'
    BY NextStore
  <1>3. QED
    BY InitStore, <1>1, <1>2, PTL DEF Spec

-----------------------------------------------------------------------------
(* Cache, decoder and blocks together do what EntryStore promises, step by *)
(* step: a client's call is a Call, the step that returns is the Answer,   *)
(* with all the bytes of the clipped request, chm_close is Close, and what *)
(* happens in between is seen by nobody.                                   *)

\* The safety part of ImplementsEntryStore.
StoreSteps == Store!Init /\ [][Store!Next]_(Store!vars)

\* A call that returns does so with every byte the entry has of the request.
LEMMA ReturnsAll ==
    ASSUME Faults = {}, StoreInv, pc \in InCall, [Next]_vars, pc' \notin InCall
    PROVE  pc' = "idle" /\ ret' = Store!Available(Request(call))
  <1>0. TypeOK /\ SyncInv
    BY DEF StoreInv, CallInv
  <1>1. call.e \in Entry
    BY DEF StoreInv, CallChecked
  <1>2. CASE InLoop
    <2>1. /\ call.from < call.e.length /\ Readable(call.e)
          /\ call.total + call.len = Clipped(call.e, call.from, call.asked)
      BY <1>2 DEF StoreInv, CallChecked, CallInv, CountsAddUp, Readable
    <2>2. Store!Available(Request(call)) = Clipped(call.e, call.from, call.asked)
      BY <1>0, <1>1, <2>1 DEF Store!Available, Request, Clipped, TypeOK
    <2>3. CASE Deliver(NBlock)
      <3>1. NBlock \in Int /\ NLen \in 0 .. call.len
        BY <1>0, RegionTypes
      <3>2. call.len = NLen /\ pc' = "idle" /\ ret' = call.total + NLen
        BY <1>0, <2>3, <3>1, DeliverCounts DEF InCall
      <3>3. QED
        BY <2>1, <2>2, <3>2
    <2>4. CASE RegionEmpty
      <3>1. call.len <= 0 /\ call.len \in Nat /\ call.total \in Nat
            /\ pc' = "idle" /\ ret' = call.total
        BY <1>0, <2>4 DEF RegionEmpty, Stop, Return, TypeOK
      <3>2. QED
        BY <2>1, <2>2, <3>1
    <2>5. QED
      BY <1>2, <2>3, <2>4, LoopStepContent DEF InLoop, InCall
  <1>3. CASE pc = "enter"
    <2>1. call.addr = call.from /\ call.len = call.asked
      BY <1>3 DEF StoreInv, CallInv, CallBegins
    <2>2. CASE ReturnNothing
      <3>1. pc' = "idle" /\ ret' = 0
        BY <2>2 DEF ReturnNothing, Return
      <3>2. ~Readable(call.e) \/ call.from >= call.e.length
        BY <2>1, <2>2 DEF ReturnNothing, Readable, CHM_UNCOMPRESSED, CHM_COMPRESSED
      <3>3. QED
        BY <3>1, <3>2 DEF Store!Available, Request
    <2>3. CASE RetrieveUncompressed
      <3>1. /\ pc' = "idle" /\ call.from < call.e.length
            /\ call.e.space = CHM_UNCOMPRESSED
            /\ ret' = Clipped(call.e, call.from, call.asked)
        BY <2>1, <2>3 DEF RetrieveUncompressed, Return
      <3>2. QED
        BY <1>0, <1>1, <3>1
        DEF Store!Available, Request, Clipped, Readable, TypeOK
    <2>4. QED
      BY <1>3, <2>2, <2>3
      DEF Next, Client, Library, Uncompress, Retrieve, SetCacheSize, Close,
          EnterRegionLoop, RegionEmpty, RegionHit, RegionMiss,
          DecoderUnavailable, UncompressLast, UncompressNoMemory,
          UncompressBegin, ReadFails, Decode, DecodeFails, vars, InCall
  <1>4. QED
    BY <1>2, <1>3 DEF InCall, InLoop

LEMMA InCallStore ==
    ASSUME Faults = {}, StoreInv, RetrievedIsContent', pc \in InCall, [Next]_vars
    PROVE  Store!Answer \/ UNCHANGED Store!vars
  <1>0. TypeOK
    BY DEF StoreInv, CallInv
  <1>1. /\ call'.e = call.e /\ call'.from = call.from /\ call'.asked = call.asked
        /\ compression_enabled' = compression_enabled
    BY <1>0, RequestKept
  <1>2. Request(call)' = Request(call)
    BY <1>1 DEF Request
  <1>3. {e \in Entry : Readable(e)}' = {e \in Entry : Readable(e)}
    BY <1>1 DEF Readable
  <1>4. CASE pc' \in InCall
    <2>1. [k \in 0 .. (IF pc \in InCall THEN 0 ELSE ret) - 1 |-> buf[k]]'
            = [k \in 0 .. (IF pc \in InCall THEN 0 ELSE ret) - 1 |-> buf[k]]
      <3>1. [k \in 0 .. 0 - 1 |-> buf'[k]] = [k \in 0 .. 0 - 1 |-> buf[k]]
        OBVIOUS
      <3>2. QED
        BY <1>4, <3>1
    <2>2. (CASE pc \in InCall \union {"crash"} -> "busy"
             [] pc = "idle" -> "ready"
             [] pc = "closed" -> "closed")' =
          (CASE pc \in InCall \union {"crash"} -> "busy"
             [] pc = "idle" -> "ready"
             [] pc = "closed" -> "closed")
      BY <1>4 DEF InCall
    <2>3. QED
      BY <1>2, <1>3, <2>1, <2>2 DEF Store!vars
  <1>5. CASE pc' \notin InCall
    <2>1. pc' = "idle" /\ ret' = Store!Available(Request(call))
      BY <1>5, ReturnsAll
    <2> DEFINE n == ret'
    <2>2. \A k \in 0 .. n - 1 : buf'[k] = ByteAt(call'.e, call'.from + k)
      BY <1>5 DEF RetrievedIsContent
    <2>3. [k \in 0 .. n - 1 |-> buf'[k]]
            = [k \in 0 .. n - 1 |-> ByteAt(call.e, call.from + k)]
      BY <1>1, <2>2
    <2>4. /\ Request(call).e = call.e /\ Request(call).addr = call.from
      BY DEF Request
    <2>5. "idle" \notin InCall /\ "closed" \notin InCall
      BY DEF InCall
    <2>6. Store!Answer
      BY <1>2, <1>3, <1>5, <2>1, <2>3, <2>4, <2>5 DEF Store!Answer
    <2>7. QED
      BY <2>6
  <1>6. QED
    BY <1>4, <1>5

LEMMA ClientStore ==
    ASSUME CacheSizes \subseteq {MaxBlocksCached}, StoreInv, Client
    PROVE  Store!Next
  <1>1. ASSUME NEW e \in Entry, NEW len \in 0 .. MaxLen,
               NEW addr \in 0 .. e.length, Retrieve(e, addr, len)
        PROVE  Store!Call(e, addr, len)
    <2>1. /\ pc = "idle" /\ pc' = "enter"
          /\ compression_enabled' = compression_enabled
          /\ call' = [e |-> e, addr |-> addr, len |-> len, total |-> 0,
                      from |-> addr, asked |-> len]
      BY <1>1 DEF Retrieve
    <2>2. Request(call)' = [e |-> e, addr |-> addr, len |-> len]
      BY <2>1 DEF Request
    <2>3. [k \in 0 .. (IF pc \in InCall THEN 0 ELSE ret) - 1 |-> buf[k]]'
            = Store!Nothing
      <3>1. 0 .. 0 - 1 = {}
        OBVIOUS
      <3>2. [k \in 0 .. 0 - 1 |-> buf'[k]] = [k \in {} |-> 0]
        BY <3>1
      <3>3. QED
        BY <2>1, <3>2 DEF InCall, Store!Nothing
    <2>4. {x \in Entry : Readable(x)}' = {x \in Entry : Readable(x)}
      BY <2>1 DEF Readable
    <2>5. QED
      BY <2>1, <2>2, <2>3, <2>4 DEF Store!Call, InCall
  <1>2. CASE Close
    <2>1. pc = "idle" /\ pc' = "closed"
          /\ UNCHANGED <<compression_enabled, call, buf, ret>>
      BY <1>2 DEF Close, clientVars
    <2>2. {x \in Entry : Readable(x)}' = {x \in Entry : Readable(x)}
      BY <2>1 DEF Readable
    <2>3. Store!Close
      BY <2>1, <2>2 DEF Store!Close, InCall, Request
    <2>4. QED
      BY <2>3 DEF Store!Next
  <1>3. QED
    BY <1>1, <1>2, NoResize DEF Client, Store!Next

\* When nothing fails and the cache keeps its size, ChmRetrieve takes only
\* steps EntryStore allows: each call is answered once, with exactly the bytes
\* of the clipped request.  (That it is answered at all is checked by TLC.)
THEOREM StoreStepsHold ==
    ASSUME Faults = {}, CacheSizes \subseteq {MaxBlocksCached}
    PROVE  Spec => StoreSteps
  <1>1. Init => Store!Init
    <2> SUFFICES ASSUME Init PROVE Store!Init
      OBVIOUS
    <2>1. [k \in 0 .. (IF pc \in InCall THEN 0 ELSE ret) - 1 |-> buf[k]]
            = Store!Nothing
      <3>1. 0 .. 0 - 1 = {}
        OBVIOUS
      <3>2. [k \in 0 .. 0 - 1 |-> buf[k]] = [k \in {} |-> 0]
        BY <3>1
      <3>3. QED
        BY <3>2 DEF Init, InCall, Store!Nothing
    <2>2. QED
      BY <2>1 DEF Init, Store!Init, InCall
  <1>2. StoreInv /\ [Next]_vars => StoreInv'
    BY NextStore
  <1>3. StoreInv /\ [Next]_vars => [Store!Next]_(Store!vars)
    <2> SUFFICES ASSUME StoreInv, [Next]_vars
                 PROVE  Store!Next \/ UNCHANGED Store!vars
      OBVIOUS
    <2>1. RetrievedIsContent'
      BY NextContent
    <2>2. CASE pc \in InCall
      BY <2>1, <2>2, InCallStore DEF Store!Next
    <2>3. CASE UNCHANGED vars
      BY <2>3 DEF vars, clientVars, Store!vars, Request, Readable
    <2>4. CASE pc \notin InCall /\ Next
      <3>1. Client
        BY <2>4
        DEF Next, Library, Uncompress, ReturnNothing, RetrieveUncompressed,
            EnterRegionLoop, RegionEmpty, RegionHit, RegionMiss,
            DecoderUnavailable, UncompressLast, UncompressNoMemory,
            UncompressBegin, ReadFails, Decode, DecodeFails, InCall
      <3>2. QED
        BY <3>1, ClientStore
    <2>5. QED
      BY <2>2, <2>3, <2>4
  <1>4. QED
    BY InitStore, <1>1, <1>2, <1>3, PTL DEF Spec, StoreSteps

=============================================================================

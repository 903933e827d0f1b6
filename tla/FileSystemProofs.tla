-------------------------- MODULE FileSystemProofs --------------------------
(***************************************************************************)
(* Proofs about the file system, for every size of the disk, the           *)
(* directories and the files and any number of calls and reboots: every    *)
(* variable keeps its type and the hint of the block allocator never hides *)
(* a free block.  As long as no directory lies deeper than fs_scan_dir     *)
(* looks, also: the block map marks the tree, files read back what was     *)
(* written, no block has two owners and the rebuilt map is exact.          *)
(***************************************************************************)
EXTENDS FileSystem, WellFoundedInduction, FiniteSetTheorems, TLAPS

(* A non-empty set of naturals has a least element. *)
LEMMA LeastNat ==
    ASSUME NEW T, T \subseteq Nat, T # {}
    PROVE  \E x \in T : \A y \in T : x <= y
<1> DEFINE Less == OpToRel(<, Nat)
<1>1. IsWellFoundedOn(Less, Nat)
  BY NatLessThanWellFounded, Zenon
<1>2. \A x, y \in Nat : y < x => <<y, x>> \in Less
  BY DEF OpToRel
<1> HIDE DEF Less
<1>3. PICK x \in T : \A y \in T : ~ (<<y, x>> \in Less)
  BY <1>1, WFMin, Zenon
<1>4. ASSUME NEW y \in T PROVE x <= y
  <2>1. x \in Nat /\ y \in Nat
    OBVIOUS
  <2>2. ~ (y < x)
    BY <1>2, <1>3, <2>1
  <2> QED
    BY <2>1, <2>2
<1> QED
  BY <1>4

Inv == TypeOK /\ HintExact

\* the parts of Inv: the map with its hint, the disk, the call in progress
MapOK ==
    /\ used \subseteq Blocks
    /\ next_free_block \in FIRST_BLOCK .. FS_MAX_BLOCKS
    /\ fs_alloc_ready \in BOOLEAN
    /\ HintExact

DiskOK == disk \in [Blocks -> BlockType]

CountsOK == calls \in 0 .. MaxCalls /\ crashes \in 0 .. MaxCrashes /\ torn \in BOOLEAN

OpSet == {Idle} \cup FreeOps \cup StoreOps \cup MkdirOps \cup MoveOps

-----------------------------------------------------------------------------
(* The lookups of fs.c return 0 (for -1) or the least index that qualifies.  *)
LEMMA FirstIsLeast ==
    ASSUME NEW S, S \subseteq Nat
    PROVE  /\ First(S) \in Nat
           /\ First(S) # 0 => First(S) \in S
           /\ \A j \in S : First(S) <= j
<1>1. CASE S = {}
  BY <1>1 DEF First
<1>2. CASE S # {}
  <2>1. \E i \in S : \A j \in S : i <= j
    BY <1>2, LeastNat
  <2>2. First(S) \in S /\ \A j \in S : First(S) <= j
    BY <1>2, <2>1, Zenon DEF First
  <2> QED
    BY <2>2
<1> QED
  BY <1>1, <1>2

(* find_entry_index and find_free_entry_index stay inside the directory.     *)
LEMMA FoundSlot ==
    ASSUME NEW db, NEW n
    PROVE  /\ FindEntry(db, n) # 0 => FindEntry(db, n) \in Slots
           /\ FindFreeEntry(db) # 0 => FindFreeEntry(db) \in Slots
<1>1. Slots \subseteq Nat
  BY LimitsAssumption DEF Slots
<1>2. {i \in Slots : db.ents[i].name = n} \subseteq Nat
  BY <1>1, Zenon
<1>3. {i \in Slots : db.ents[i].name = ""} \subseteq Nat
  BY <1>1, Zenon
<1>4. FindEntry(db, n) # 0 => FindEntry(db, n) \in {i \in Slots : db.ents[i].name = n}
  BY <1>2, FirstIsLeast, Zenon DEF FindEntry
<1>5. FindFreeEntry(db) # 0 => FindFreeEntry(db) \in {i \in Slots : db.ents[i].name = ""}
  BY <1>3, FirstIsLeast, Zenon DEF FindFreeEntry
<1> QED
  BY <1>4, <1>5, Zenon

(* balloc takes the lowest free block at or above its hint.                  *)
LEMMA NextFreeFacts ==
    ASSUME TypeOK
    PROVE  /\ NextFree \in Nat
           /\ NextFree # 0 => NextFree \in Blocks /\ NextFree >= next_free_block
           /\ \A b \in Blocks : b >= next_free_block /\ b \notin used => NextFree <= b
<1> DEFINE S == {b \in Blocks : b >= next_free_block /\ b \notin used}
<1>1. S \subseteq Nat
  BY BlocksAssumption DEF Blocks
<1>2. NextFree = First(S)
  BY DEF NextFree
<1> HIDE DEF S
<1>3. /\ First(S) \in Nat
      /\ First(S) # 0 => First(S) \in S
      /\ \A j \in S : First(S) <= j
  BY <1>1, FirstIsLeast
<1> QED
  BY <1>2, <1>3 DEF S

(* The constant blocks and entries have the types of a block and an entry.   *)
LEMMA ConstantTypes ==
    /\ Root \in Blocks /\ 0 \in Blocks
    /\ NoEntry \in EntryType
    /\ ZeroBlock \in BlockType
    /\ \A p \in Blocks : DirBlock(p) \in BlockType
    /\ \A v \in Contents \cup {"none"}, i \in Nat : DataBlock(v, i) \in BlockType
<1>1. Root \in Blocks /\ 0 \in Blocks
  BY BlocksAssumption DEF Root, Blocks
<1>2. NoEntry \in EntryType
  BY <1>1 DEF NoEntry, EntryType
<1>3. NoEnts \in [Slots -> EntryType]
  BY <1>2 DEF NoEnts
<1> QED
  BY <1>1, <1>2, <1>3 DEF ZeroBlock, DirBlock, DataBlock, Block, BlockType

(* The call in progress has the locals of its kind.                          *)
LEMMA OpKinds ==
    ASSUME TypeOK
    PROVE  /\ op.call = "free" => op \in FreeOps
           /\ op.call = "store" => op \in StoreOps
           /\ op.call = "mkdir" => op \in MkdirOps
           /\ op.call = "move" => op \in MoveOps
BY DEF TypeOK, Idle, FreeOps, StoreOps, MkdirOps, MoveOps

(* balloc keeps the map and its hint in order.                               *)
LEMMA TakeKeeps ==
    ASSUME Inv, NextFree # 0, Take(NextFree)
    PROVE  MapOK'
<1>1. /\ NextFree \in Blocks /\ NextFree >= next_free_block
      /\ \A b \in Blocks : b >= next_free_block /\ b \notin used => NextFree <= b
  BY NextFreeFacts DEF Inv
<1>2. /\ used' = used \cup {NextFree}
      /\ next_free_block' = NextFree + 1
      /\ fs_alloc_ready' = fs_alloc_ready
  BY DEF Take
<1>3. next_free_block' \in FIRST_BLOCK .. FS_MAX_BLOCKS
  BY <1>1, <1>2, BlocksAssumption DEF Inv, TypeOK, Blocks
<1>4. ASSUME NEW b \in FIRST_BLOCK .. next_free_block' - 1 PROVE b \in used'
  BY <1>1, <1>2, <1>3, BlocksAssumption DEF Inv, TypeOK, HintExact, Blocks
<1> QED
  BY <1>1, <1>2, <1>3, <1>4 DEF MapOK, HintExact, Inv, TypeOK

(* bfree lowers the hint to a block it frees below it.                       *)
LEMMA BfreeKeeps ==
    ASSUME Inv, NEW b \in Blocks, Bfree(b)
    PROVE  MapOK'
<1>1. b \in Nat /\ FIRST_BLOCK \in Nat /\ FS_MAX_BLOCKS \in Nat
  BY BlocksAssumption DEF Blocks
<1>2. CASE b < FIRST_BLOCK
  BY <1>2 DEF Bfree, Inv, TypeOK, HintExact, MapOK
<1>3. CASE ~ (b < FIRST_BLOCK)
  <2>1. /\ used' = used \ {b}
        /\ next_free_block' = IF b < next_free_block THEN b ELSE next_free_block
        /\ fs_alloc_ready' = fs_alloc_ready
    BY <1>3 DEF Bfree
  <2>2. next_free_block' \in FIRST_BLOCK .. FS_MAX_BLOCKS
    BY <1>1, <1>3, <2>1 DEF Inv, TypeOK
  <2>3. ASSUME NEW x \in FIRST_BLOCK .. next_free_block' - 1 PROVE x \in used'
    BY <1>1, <1>3, <2>1, <2>2 DEF Inv, TypeOK, HintExact
  <2> QED
    BY <2>1, <2>2, <2>3 DEF Inv, TypeOK, HintExact, MapOK
<1> QED
  BY <1>2, <1>3

LEMMA Parts == Inv <=> MapOK /\ DiskOK /\ CountsOK /\ op \in OpSet
BY DEF Inv, TypeOK, MapOK, DiskOK, CountsOK, OpSet

LEMMA PartsNext ==
    ASSUME MapOK', DiskOK', CountsOK', op' \in OpSet
    PROVE  Inv'
BY DEF Inv, TypeOK, MapOK, DiskOK, CountsOK, OpSet

LEMMA Untouched ==
    ASSUME Inv
    PROVE  /\ (UNCHANGED ram) => MapOK'
           /\ (UNCHANGED disk) => DiskOK'
           /\ (UNCHANGED <<calls, crashes, torn>>) => CountsOK'
           /\ CountCall /\ (UNCHANGED <<crashes, torn>>) => CountsOK'
BY InputsAssumption DEF Inv, TypeOK, MapOK, DiskOK, CountsOK, HintExact, ram, CountCall

(* A directory entry written into a directory leaves a block of the disk.    *)
LEMMA PutEntry ==
    ASSUME NEW db \in BlockType, NEW i \in Slots, NEW e \in EntryType
    PROVE  [db EXCEPT !.ents[i] = e] \in BlockType
BY DEF BlockType

LEMMA PutBlock ==
    ASSUME DiskOK, NEW b \in Blocks, NEW x \in BlockType, disk' = [disk EXCEPT ![b] = x]
    PROVE  DiskOK'
BY DEF DiskOK

LEMMA PutSlot ==
    ASSUME DiskOK, NEW b \in Blocks, NEW i \in Slots, NEW e \in EntryType,
           disk' = [disk EXCEPT ![b].ents[i] = e]
    PROVE  DiskOK'
BY DEF DiskOK, BlockType

LEMMA EntryTyped ==
    ASSUME DiskOK, NEW b \in Blocks, NEW i \in Slots
    PROVE  disk[b] \in BlockType /\ disk[b].ents[i] \in EntryType
BY DEF DiskOK, BlockType

(* fs_free_chain is entered with a block number.                             *)
LEMMA FreeOpTyped ==
    ASSUME NEW b \in Blocks, ThenFree(b)
    PROVE  op' \in OpSet
BY DEF ThenFree, OpSet, FreeOps

-----------------------------------------------------------------------------
(* store_file_bytes                                                          *)

(* What copy_name20 puts into an entry fits it.                              *)
LEMMA ShortIsName ==
    ASSUME NEW n \in Names \cup LongNames
    PROVE  /\ copy_name20(n) \in Names /\ copy_name20(n) # ""
           /\ n \in Names => copy_name20(n) = n
           /\ n \notin Names => copy_name20(n) \in Cut
BY NamesAssumption DEF copy_name20, Cut

LEMMA StoreBeginKeeps ==
    ASSUME Inv, NEW d \in Blocks, NEW n \in Names \cup LongNames, NEW k \in StoreSizes, NEW v \in Contents,
           StoreBegin(d, n, k, v)
    PROVE  Inv'
<1> DEFINE db == disk[d]
           i  == FindEntry(db, n)
           s  == IF i # 0 THEN i ELSE FindFreeEntry(db)
<1>1. MapOK /\ DiskOK /\ CountsOK
  BY Parts
<1>2. /\ s # 0
      /\ op' = [call |-> "store", at |-> "alloc", dir |-> d, db |-> db, slot |-> s,
                leaf |-> n, size |-> k, val |-> v, old |-> db.ents[s].bno,
                first |-> 0, prev |-> 0, cur |-> 0, written |-> 0]
      /\ UNCHANGED <<disk, ram, scan, crashes, torn>>
      /\ calls < MaxCalls /\ calls' = calls + 1
  BY DEF StoreBegin, CanCall, CountCall
<1>3. s \in Slots
  BY <1>2, FoundSlot
<1> HIDE DEF s
<1>4. db \in BlockType /\ db.ents[s].bno \in Blocks /\ 0 \in Blocks
  BY <1>1, <1>3, EntryTyped, ConstantTypes DEF EntryType
<1> HIDE DEF db
<1>5. op' \in StoreOps
  BY <1>2, <1>3, <1>4 DEF StoreOps
<1>6. MapOK' /\ DiskOK' /\ CountsOK'
  BY <1>2, Untouched DEF CountCall
<1> QED
  BY <1>5, <1>6, PartsNext DEF OpSet

LEMMA StoreAllocKeeps ==
    ASSUME Inv, StoreAlloc
    PROVE  Inv'
<1>1. op \in StoreOps /\ DiskOK /\ CountsOK'
  BY OpKinds, Parts, Untouched DEF StoreAlloc, Inv
<1>2. CASE NextFree = 0
  <2>1. op' = Idle /\ UNCHANGED <<disk, ram>>
    BY <1>2 DEF StoreAlloc
  <2> QED
    BY <1>1, <2>1, Untouched, PartsNext DEF OpSet
<1>3. CASE NextFree # 0
  <2>1. /\ Take(NextFree)
        /\ disk' = [disk EXCEPT ![NextFree] = ZeroBlock]
        /\ op' = [op EXCEPT !.at = "write", !.cur = NextFree]
    BY <1>3 DEF StoreAlloc
  <2>2. NextFree \in Blocks
    BY <1>3, NextFreeFacts DEF Inv
  <2>3. MapOK'
    BY <1>3, <2>1, TakeKeeps
  <2>4. DiskOK'
    BY <1>1, <2>1, <2>2, PutBlock, ConstantTypes
  <2>5. op' \in StoreOps
    BY <1>1, <2>1, <2>2 DEF StoreOps
  <2> QED
    BY <1>1, <2>3, <2>4, <2>5, PartsNext DEF OpSet
<1> QED
  BY <1>2, <1>3

(* The locals of the loop keep their types at the end of a round.            *)
LEMMA StoreRoundTyped ==
    ASSUME op \in StoreOps, StoreRound
    PROVE  op' \in OpSet
<1> DEFINE f == IF op.prev = 0 THEN op.cur ELSE op.first
           a == IF op.written + 1 < op.size THEN "alloc" ELSE "commit"
           w == op.written + 1
<1>1. f \in Blocks /\ a \in {"alloc", "commit"} /\ w \in Nat /\ op.cur \in Blocks
  BY DEF StoreOps
<1>2. op' = [op EXCEPT !.first = f, !.prev = op.cur, !.written = w, !.at = a]
  BY DEF StoreRound
<1> HIDE DEF f, a, w
<1>3. op' \in StoreOps
  BY <1>1, <1>2 DEF StoreOps
<1> QED
  BY <1>3 DEF OpSet

LEMMA StoreWriteKeeps ==
    ASSUME Inv, StoreWrite
    PROVE  Inv'
<1>1. /\ op \in StoreOps
      /\ disk' = [disk EXCEPT ![op.cur] = DataBlock(Payload(op), op.written)]
      /\ MapOK' /\ CountsOK' /\ DiskOK
  BY OpKinds, Parts, Untouched DEF StoreWrite, Inv
<1>2. op.cur \in Blocks /\ Payload(op) \in Contents \cup {"none"} /\ op.written \in Nat
  BY <1>1 DEF StoreOps, Payload
<1>3. DiskOK'
  <2>1. DataBlock(Payload(op), op.written) \in BlockType
    BY <1>2, ConstantTypes
  <2> QED
    BY <1>1, <1>2, <2>1, PutBlock
<1>4. CASE op.prev # 0
  <2>1. op' = [op EXCEPT !.at = "link"]
    BY <1>4 DEF StoreWrite
  <2>2. op' \in StoreOps
    BY <1>1, <2>1 DEF StoreOps
  <2> QED
    BY <1>1, <1>3, <2>2, PartsNext DEF OpSet
<1>5. CASE op.prev = 0
  <2>1. StoreRound
    BY <1>5 DEF StoreWrite
  <2> QED
    BY <1>1, <1>3, <2>1, StoreRoundTyped, PartsNext
<1> QED
  BY <1>4, <1>5

LEMMA StoreLinkKeeps ==
    ASSUME Inv, StoreLink
    PROVE  Inv'
<1>1. /\ op \in StoreOps
      /\ disk' = [disk EXCEPT ![op.prev].next = op.cur]
      /\ StoreRound
      /\ MapOK' /\ CountsOK' /\ DiskOK
  BY OpKinds, Parts, Untouched DEF StoreLink, Inv
<1>2. op.cur \in Blocks /\ op.prev \in Blocks
  BY <1>1 DEF StoreOps
<1>3. DiskOK'
  BY <1>1, <1>2 DEF DiskOK, BlockType
<1> QED
  BY <1>1, <1>3, StoreRoundTyped, PartsNext

LEMMA StoreCommitKeeps ==
    ASSUME Inv, StoreCommit
    PROVE  Inv'
<1> DEFINE e == [name |-> copy_name20(op.leaf), type |-> "file", bno |-> op.first,
                 size |-> op.size, val |-> op.val]
           x == [op.db EXCEPT !.ents[op.slot] = e]
<1>0. op.leaf \in Names \cup LongNames => copy_name20(op.leaf) \in Names
  BY ShortIsName
<1>1. /\ op \in StoreOps
      /\ disk' = [disk EXCEPT ![op.dir] = x]
      /\ ThenFree(op.old)
      /\ MapOK' /\ CountsOK' /\ DiskOK
  BY OpKinds, Parts, Untouched DEF StoreCommit, Inv
<1>2. /\ op.dir \in Blocks /\ op.old \in Blocks /\ op.slot \in Slots /\ op.db \in BlockType
      /\ e \in EntryType
  BY <1>0, <1>1 DEF StoreOps, EntryType
<1> HIDE DEF e
<1>3. x \in BlockType
  BY <1>2, PutEntry
<1> HIDE DEF x
<1>4. DiskOK'
  BY <1>1, <1>2, <1>3, PutBlock
<1> QED
  BY <1>1, <1>2, <1>4, FreeOpTyped, PartsNext

-----------------------------------------------------------------------------
(* fs_free_chain, remove_entry_named, mkdir                                  *)

LEMMA FreeStepKeeps ==
    ASSUME Inv, FreeStep
    PROVE  Inv'
<1> DEFINE n == IF disk[op.cur].magic = "data" THEN disk[op.cur].next ELSE 0
<1>1. /\ op \in FreeOps /\ Bfree(op.cur) /\ ThenFree(n)
      /\ DiskOK' /\ CountsOK' /\ DiskOK
  BY OpKinds, Parts, Untouched DEF FreeStep, Inv
<1>2. op.cur \in Blocks
  BY <1>1 DEF FreeOps
<1>3. n \in Blocks
  BY <1>1, <1>2, ConstantTypes DEF DiskOK, BlockType
<1> HIDE DEF n
<1> QED
  BY <1>1, <1>2, <1>3, BfreeKeeps, FreeOpTyped, PartsNext

LEMMA RemoveKeeps ==
    ASSUME Inv, NEW d \in Blocks, NEW n \in Names, Remove(d, n)
    PROVE  Inv'
<1> DEFINE i == FindEntry(disk[d], n)
           e == disk[d].ents[i]
<1>1. /\ i # 0
      /\ disk' = [disk EXCEPT ![d].ents[i] = NoEntry]
      /\ DiskOK /\ CountsOK'
      /\ op \in OpSet
  BY Parts, Untouched DEF Remove, CanCall
<1>2. /\ e.type = "dir" => Bfree(e.bno) /\ UNCHANGED op
      /\ e.type # "dir" => ThenFree(e.bno) /\ UNCHANGED ram
  BY DEF Remove
<1>3. i \in Slots
  BY <1>1, FoundSlot
<1> HIDE DEF i
<1>4. e.bno \in Blocks
  BY <1>1, <1>3, EntryTyped DEF EntryType
<1>5. DiskOK'
  <2>1. NoEntry \in EntryType
    BY ConstantTypes
  <2> QED
    BY <1>1, <1>3, <2>1, PutSlot
<1> HIDE DEF e
<1>6. CASE e.type = "dir"
  BY <1>1, <1>2, <1>4, <1>5, <1>6, BfreeKeeps, PartsNext
<1>7. CASE e.type # "dir"
  BY <1>1, <1>2, <1>4, <1>5, <1>7, FreeOpTyped, Untouched, PartsNext
<1> QED
  BY <1>6, <1>7

LEMMA MkdirBeginKeeps ==
    ASSUME Inv, NEW d \in Blocks, NEW n \in Names, NEW checked, MkdirBegin(d, n, checked)
    PROVE  Inv'
<1> DEFINE f == FindFreeEntry(disk[d])
           b == NextFree
<1>1. /\ f # 0
      /\ op' = [call |-> "mkdir", at |-> "entry", dir |-> d, db |-> disk[d],
                slot |-> f, name |-> n, cur |-> b]
      /\ b = 0 => UNCHANGED <<disk, ram>>
      /\ b # 0 => Take(b) /\ disk' = [disk EXCEPT ![b] = ZeroBlock]
      /\ DiskOK /\ CountsOK'
  BY Parts, Untouched DEF MkdirBegin, CanCall
<1>2. f \in Slots /\ disk[d] \in BlockType
  BY <1>1, FoundSlot DEF DiskOK
<1>3. b \in Blocks
  BY NextFreeFacts, ConstantTypes DEF Inv
<1>4. op' \in MkdirOps
  BY <1>1, <1>2, <1>3 DEF MkdirOps
<1>5. CASE b = 0
  BY <1>1, <1>4, <1>5, Untouched, PartsNext DEF OpSet
<1>6. CASE b # 0
  <2>1. MapOK'
    BY <1>1, <1>6, TakeKeeps
  <2>2. DiskOK'
    BY <1>1, <1>3, <1>6, PutBlock, ConstantTypes
  <2> QED
    BY <1>1, <1>4, <2>1, <2>2, PartsNext DEF OpSet
<1> QED
  BY <1>5, <1>6

LEMMA MkdirEntryKeeps ==
    ASSUME Inv, MkdirEntry
    PROVE  Inv'
<1> DEFINE e == [NoEntry EXCEPT !.name = op.name, !.type = "dir", !.bno = op.cur]
           x == [op.db EXCEPT !.ents[op.slot] = e]
<1>1. /\ op \in MkdirOps
      /\ disk' = [disk EXCEPT ![op.dir] = x]
      /\ op' = [op EXCEPT !.at = "block"]
      /\ MapOK' /\ CountsOK' /\ DiskOK
  BY OpKinds, Parts, Untouched DEF MkdirEntry, Inv
<1>2. /\ op.dir \in Blocks /\ op.slot \in Slots /\ op.db \in BlockType
      /\ op.name \in Names /\ op.cur \in Blocks
      /\ op' \in MkdirOps
  BY <1>1 DEF MkdirOps
<1>3. e \in EntryType
  BY <1>2, ConstantTypes DEF EntryType
<1> HIDE DEF e
<1>4. x \in BlockType
  BY <1>2, <1>3, PutEntry
<1> HIDE DEF x
<1>5. DiskOK'
  BY <1>1, <1>2, <1>4, PutBlock
<1> QED
  BY <1>1, <1>2, <1>5, PartsNext DEF OpSet

LEMMA MkdirBlockKeeps ==
    ASSUME Inv, MkdirBlock
    PROVE  Inv'
<1>1. /\ op \in MkdirOps
      /\ disk' = [disk EXCEPT ![op.cur] = DirBlock(op.dir)]
      /\ op' = Idle
      /\ MapOK' /\ CountsOK' /\ DiskOK
  BY OpKinds, Parts, Untouched DEF MkdirBlock, Inv
<1>2. op.cur \in Blocks /\ op.dir \in Blocks
  BY <1>1 DEF MkdirOps
<1>3. DiskOK'
  BY <1>1, <1>2, PutBlock, ConstantTypes
<1> QED
  BY <1>1, <1>3, PartsNext DEF OpSet

-----------------------------------------------------------------------------
(* move_entry_named                                                          *)

LEMMA MoveIntoTyped ==
    ASSUME DiskOK, op \in OpSet, NEW ds \in Blocks, NEW i \in Slots, NEW dd \in Blocks,
           NEW nd \in Names, MoveInto(ds, i, dd, nd)
    PROVE  DiskOK' /\ op' \in OpSet
<1> DEFINE e == disk[ds].ents[i]
           f == FindFreeEntry(disk[dd])
           x == [disk[dd] EXCEPT !.ents[f] = [e EXCEPT !.name = nd]]
<1>0. e \in EntryType /\ disk[ds] \in BlockType
  BY EntryTyped
<1>1. CASE ds = dd
  <2>1. disk' = [disk EXCEPT ![ds].ents[i].name = nd] /\ op' = op
    BY <1>1 DEF MoveInto
  <2>2. disk' = [disk EXCEPT ![ds] = [disk[ds] EXCEPT !.ents[i] = [e EXCEPT !.name = nd]]]
    BY <2>1
  <2> HIDE DEF e
  <2>3. [e EXCEPT !.name = nd] \in EntryType /\ disk[ds] \in BlockType
    BY <1>0 DEF EntryType
  <2>4. [disk[ds] EXCEPT !.ents[i] = [e EXCEPT !.name = nd]] \in BlockType
    BY <2>3, PutEntry
  <2>5. DiskOK'
    BY <2>2, <2>4, PutBlock
  <2> QED
    BY <2>1, <2>5
<1>2. CASE ds # dd
  <2>1. /\ f # 0
        /\ disk' = [disk EXCEPT ![ds].ents[i] = NoEntry]
        /\ op' = [call |-> "move", at |-> "dst", dir |-> dd, cur |-> e.bno, type |-> e.type,
                  db |-> x]
    BY <1>2 DEF MoveInto
  <2>2. f \in Slots
    BY <2>1, FoundSlot
  <2> HIDE DEF f
  <2>3. /\ e \in EntryType /\ disk[dd] \in BlockType
        /\ e.bno \in Blocks /\ e.type \in {"file", "dir"}
    BY EntryTyped DEF EntryType, DiskOK
  <2>4. [e EXCEPT !.name = nd] \in EntryType
    <3> HIDE DEF e
    <3> QED
      BY <2>3 DEF EntryType
  <2>5. x \in BlockType
    BY <2>2, <2>3, <2>4, PutEntry
  <2> HIDE DEF x, e
  <2>6. op' \in MoveOps
    BY <2>1, <2>3, <2>5 DEF MoveOps
  <2>7. DiskOK'
    <3>1. NoEntry \in EntryType
      BY ConstantTypes
    <3> QED
      BY <2>1, <3>1, PutSlot
  <2> QED
    BY <2>6, <2>7 DEF OpSet
<1> QED
  BY <1>1, <1>2

LEMMA MoveKeeps ==
    ASSUME Inv, NEW ds \in Blocks, NEW ns \in Names, NEW dd \in Blocks, NEW nd \in Names,
           Move(ds, ns, dd, nd)
    PROVE  Inv'
<1> DEFINE i == FindEntry(disk[ds], ns)
           j == FindEntry(disk[dd], nd)
           t == disk[dd].ents[j]
<1>1. MapOK' /\ CountsOK' /\ DiskOK /\ op \in OpSet
  BY Parts, Untouched DEF Move, CanCall
<1>2. i # 0
  BY DEF Move
<1>3. i \in Slots
  BY <1>2, FoundSlot
<1>4. CASE j # 0 /\ t.type = "dir"
  <2>1. MoveInto(ds, i, t.bno, ns)
    BY <1>4 DEF Move
  <2>2. t.bno \in Blocks
    BY <1>1, <1>4, FoundSlot, EntryTyped DEF EntryType
  <2> HIDE DEF i, t
  <2> QED
    BY <1>1, <1>3, <2>1, <2>2, MoveIntoTyped, PartsNext
<1>5. CASE ~ (j # 0 /\ t.type = "dir")
  <2>1. MoveInto(ds, i, dd, nd)
    BY <1>5 DEF Move
  <2> HIDE DEF i
  <2> QED
    BY <1>1, <1>3, <2>1, MoveIntoTyped, PartsNext
<1> QED
  BY <1>4, <1>5

LEMMA MoveDstKeeps ==
    ASSUME Inv, MoveDst
    PROVE  Inv'
<1>1. /\ op \in MoveOps
      /\ disk' = [disk EXCEPT ![op.dir] = op.db]
      /\ op' = Idle \/ op' = [op EXCEPT !.at = "parent"]
      /\ MapOK' /\ CountsOK' /\ DiskOK
  BY OpKinds, Parts, Untouched DEF MoveDst, Inv
<1>2. op.dir \in Blocks /\ op.db \in BlockType
  BY <1>1 DEF MoveOps
<1>3. op' \in OpSet
  BY <1>1 DEF MoveOps, OpSet
<1>4. DiskOK'
  BY <1>1, <1>2, PutBlock
<1> QED
  BY <1>1, <1>3, <1>4, PartsNext

LEMMA MoveParentKeeps ==
    ASSUME Inv, MoveParent
    PROVE  Inv'
<1>1. /\ op \in MoveOps
      /\ disk' = disk \/ disk' = [disk EXCEPT ![op.cur].parent = op.dir]
      /\ op' = Idle
      /\ MapOK' /\ CountsOK' /\ DiskOK
  BY OpKinds, Parts, Untouched DEF MoveParent, Inv
<1>2. op.cur \in Blocks /\ op.dir \in Blocks
  BY <1>1 DEF MoveOps
<1>3. DiskOK'
  BY <1>1, <1>2 DEF DiskOK, BlockType
<1> QED
  BY <1>1, <1>3, PartsNext DEF OpSet

-----------------------------------------------------------------------------
(* format, reboot and the rebuild of the map                                 *)

LEMMA FormatKeeps ==
    ASSUME Inv, Format
    PROVE  Inv'
<1>1. /\ disk' = [disk EXCEPT ![Root] = DirBlock(Root)]
      /\ used' = Reserved
      /\ next_free_block' = FIRST_BLOCK
      /\ fs_alloc_ready' = TRUE
      /\ op' = op
      /\ CountsOK' /\ DiskOK /\ op \in OpSet
  BY Parts, Untouched DEF Format
<1>2. MapOK'
  BY <1>1, BlocksAssumption DEF MapOK, HintExact, Reserved, Blocks
<1>3. DiskOK'
  BY <1>1, PutBlock, ConstantTypes
<1> QED
  BY <1>1, <1>2, <1>3, PartsNext

LEMMA CrashKeeps ==
    ASSUME Inv, Crash
    PROVE  Inv'
<1>1. DiskOK' /\ op' \in OpSet
  BY Untouched DEF Crash, OpSet
<1>2. MapOK'
  <2>1. fs_alloc_ready' \in BOOLEAN
    BY Zenon DEF Crash
  <2> QED
    BY <2>1, BlocksAssumption DEF Crash, MapOK, HintExact
<1>3. torn' \in BOOLEAN
  BY Zenon DEF Crash
<1>4. CountsOK'
  BY <1>3, InputsAssumption DEF Crash, CountsOK, Inv, TypeOK
<1> QED
  BY <1>1, <1>2, <1>4, PartsNext

LEMMA RebuildBeginKeeps ==
    ASSUME Inv, RebuildBegin
    PROVE  Inv'
<1>1. DiskOK' /\ CountsOK' /\ op' \in OpSet
  BY Parts, Untouched DEF RebuildBegin
<1>2. MapOK'
  BY BlocksAssumption DEF RebuildBegin, MapOK, HintExact, Reserved, Blocks
<1> QED
  BY <1>1, <1>2, PartsNext

(* The scan only sets bits of the map.                                       *)
LEMMA MarkKeeps ==
    ASSUME Inv, NEW b \in Blocks, used' = used \cup {b} \/ used' = used,
           UNCHANGED <<next_free_block, fs_alloc_ready>>
    PROVE  MapOK'
BY DEF Inv, TypeOK, MapOK, HintExact

LEMMA ScanDirKeeps ==
    ASSUME Inv, ScanDir
    PROVE  Inv'
<1>1. DiskOK' /\ CountsOK' /\ op' \in OpSet /\ UNCHANGED <<next_free_block, fs_alloc_ready>>
  BY Parts, Untouched DEF ScanDir
<1>2. \/ used' = used
      \/ Head(scan).bno \in 1 .. FS_MAX_BLOCKS - 1 /\ used' = used \cup {Head(scan).bno}
  BY DEF ScanDir
<1>3. MapOK'
  BY <1>1, <1>2, MarkKeeps, ConstantTypes, BlocksAssumption DEF Blocks
<1> QED
  BY <1>1, <1>3, PartsNext

LEMMA ScanChainKeeps ==
    ASSUME Inv, ScanChain
    PROVE  Inv'
<1>1. DiskOK' /\ CountsOK' /\ op' \in OpSet /\ UNCHANGED <<next_free_block, fs_alloc_ready>>
  BY Parts, Untouched DEF ScanChain
<1>2. \/ used' = used
      \/ Head(scan).bno \in FIRST_BLOCK .. FS_MAX_BLOCKS - 1 /\ used' = used \cup {Head(scan).bno}
  BY DEF ScanChain
<1>3. MapOK'
  BY <1>1, <1>2, MarkKeeps, ConstantTypes, BlocksAssumption DEF Blocks
<1> QED
  BY <1>1, <1>3, PartsNext

-----------------------------------------------------------------------------
LEMMA InitKeeps ==
    ASSUME Init
    PROVE  Inv
<1>0. fs_alloc_ready \in BOOLEAN /\ torn \in BOOLEAN
  BY Zenon DEF Init
<1>1. MapOK
  BY <1>0, BlocksAssumption DEF Init, MapOK, HintExact
<1>2. DiskOK
  BY ConstantTypes DEF Init, DiskOK
<1>3. CountsOK /\ op \in OpSet
  BY <1>0, InputsAssumption DEF Init, CountsOK, OpSet
<1> QED
  BY <1>1, <1>2, <1>3, Parts

(* The type invariant and the exactness of the hint are inductive together:  *)
(* balloc and bfree are safe on blocks, and every block number on the disk   *)
(* or in a local variable of a call is one.                                  *)
THEOREM Inductive == Spec => []Inv
<1>1. Init => Inv
  BY InitKeeps
<1>2. Inv /\ [Next]_vars => Inv'
  <2> SUFFICES ASSUME Inv, [Next]_vars PROVE Inv'
    OBVIOUS
  <2>1. CASE UNCHANGED vars
    <3>1. UNCHANGED ram /\ UNCHANGED disk /\ UNCHANGED <<calls, crashes, torn>> /\ op' = op
      BY <2>1 DEF vars, ram
    <3> QED
      BY <3>1, Parts, Untouched, PartsNext
  <2>2. CASE Calls
    <3>1. Dirs \subseteq Blocks
      BY DEF Dirs
    <3> QED
      BY <2>2, <3>1, FormatKeeps, StoreBeginKeeps, MkdirBeginKeeps, RemoveKeeps, MoveKeeps, Zenon
         DEF Calls
  <2>3. CASE Continue
    BY <2>3, StoreAllocKeeps, StoreWriteKeeps, StoreLinkKeeps, StoreCommitKeeps, FreeStepKeeps,
       MkdirEntryKeeps, MkdirBlockKeeps, MoveDstKeeps, MoveParentKeeps, Zenon DEF Continue
  <2>4. CASE Crash \/ RebuildBegin \/ ScanDir \/ ScanChain
    BY <2>4, CrashKeeps, RebuildBeginKeeps, ScanDirKeeps, ScanChainKeeps, Zenon
  <2> QED
    BY <2>1, <2>2, <2>3, <2>4 DEF Next
<1> QED
  BY <1>1, <1>2, PTL DEF Spec

(* Every variable keeps its type: no block number on the disk, in the map or *)
(* in a local variable of fs.c ever leaves the disk.                         *)
THEOREM TypeCorrect == Spec => []TypeOK
<1>1. Inv => TypeOK
  BY DEF Inv
<1> QED
  BY <1>1, Inductive, PTL

(* balloc reports a full disk only when every block is marked, after any     *)
(* sequence of allocations, frees, formats and rebuilds of the map.          *)
THEOREM HintNeverHides == Spec => []HintExact
<1>1. Inv => HintExact
  BY DEF Inv
<1> QED
  BY <1>1, Inductive, PTL

-----------------------------------------------------------------------------
(* The tree.  T is a set of directories that is closed under the entries of   *)
(* its members; h says who holds a block, an entry <<d, i>> or the call in    *)
(* progress; p is its place in a chain.                                       *)

Nobody == <<0, 0>>
InCall == <<0, 1>>
Old    == <<0, 2>>
Marks  == {0} \X Nat

Length(e) == IF e.size = 0 THEN 1 ELSE e.size

Disk(D) == D \in [Blocks -> BlockType]

Ent(D, d, i) == D[d].ents[i]

Maps(D, T, h, p) ==
    /\ Disk(D)
    /\ T \subseteq Blocks /\ h \in [Blocks -> Blocks \X Nat] /\ p \in [Blocks -> Nat]
    /\ \A d \in T : D[d].magic = "dir" /\ (d = Root \/ d >= FIRST_BLOCK)
    /\ D[Root].magic = "dir" => Root \in T

(* What the directory entry e, which has the hold w, says of the block it names. *)
EntryOk(T, h, p, x, e, w) ==
    /\ e.type = "dir" /\ e.bno # 0 =>
           h[e.bno] = w /\ e.bno >= FIRST_BLOCK /\ (e.bno \in T \/ e.bno = x)
    /\ e.type = "file" => h[e.bno] = w /\ p[e.bno] = 0

(* Block b is in its place in a chain of n blocks with the content of e. *)
Linked(D, T, h, p, w, n, e, b) ==
    /\ b \notin T /\ b >= FIRST_BLOCK /\ D[b].magic = "data" /\ p[b] < n
    /\ e.size # 0 => D[b].data = <<e.val, p[b]>>
    /\ IF p[b] + 1 = n THEN D[b].next = 0
       ELSE h[D[b].next] = w /\ p[D[b].next] = p[b] + 1

(* What holds of a block b that the entry e has. *)
BlockOk(D, T, h, p, e, w, b) ==
    /\ e.type = "dir" => b = e.bno
    /\ e.type = "file" => Linked(D, T, h, p, w, Length(e), e, b)

DirOk(D, T, h, p, x, d) ==
    \A i \in Slots :
        /\ Ent(D, d, i).name = "" => Ent(D, d, i) = NoEntry
        /\ Ent(D, d, i).name # "" =>
               /\ EntryOk(T, h, p, x, Ent(D, d, i), <<d, i>>)
               /\ \A j \in Slots : Ent(D, d, j).name = Ent(D, d, i).name =>
                         i = j \/ Ent(D, d, i).name \in Cut

HeldOk(D, T, h, p, b) ==
    /\ h[b] \in Marks \cup (T \X Slots)
    /\ \A d \in T, i \in Slots : h[b] = <<d, i>> =>
           Ent(D, d, i).name # "" /\ BlockOk(D, T, h, p, Ent(D, d, i), <<d, i>>, b)

(* x is the block that mkdir has entered and not yet written. *)
Layout(D, T, h, p, x) ==
    /\ Maps(D, T, h, p)
    /\ \A d \in T : DirOk(D, T, h, p, x, d)
    /\ \A b \in Blocks : HeldOk(D, T, h, p, b)

-----------------------------------------------------------------------------
LEMMA Numbers ==
    /\ Blocks \subseteq Nat /\ Slots \subseteq Nat \ {0} /\ FIRST_BLOCK \in Nat /\ FIRST_BLOCK > 1
    /\ Root = 1 /\ Root \in Blocks /\ 0 \in Blocks
BY BlocksAssumption, LimitsAssumption DEF Blocks, Slots, Root

LEMMA NotMarks ==
    ASSUME NEW D, NEW T, NEW h, NEW p, Maps(D, T, h, p), NEW d \in T, NEW i
    PROVE  /\ d # 0 /\ <<d, i>> \notin Marks
           /\ \A k : <<d, i>> # <<0, k>>
BY Numbers DEF Maps, Marks

LEMMA Pairs ==
    /\ Nobody \in Marks /\ InCall \in Marks /\ Old \in Marks
    /\ Nobody \in Blocks \X Nat /\ Marks \subseteq Blocks \X Nat
    /\ Nobody # InCall /\ Nobody # Old /\ InCall # Old
    /\ NoEntry.name = "" /\ NoEntry.bno = 0
BY Numbers DEF Nobody, InCall, Old, Marks, NoEntry

LEMMA DiskTyped ==
    ASSUME NEW D, Disk(D), NEW b \in Blocks
    PROVE  /\ D[b] \in BlockType /\ D[b].next \in Blocks
           /\ \A i \in Slots : Ent(D, b, i) \in EntryType /\ Ent(D, b, i).bno \in Blocks
<1>1. D[b] \in BlockType /\ D[b].next \in Blocks /\ \A i \in Slots : Ent(D, b, i) \in EntryType
  BY DEF Disk, BlockType, Ent
<1>2. \A e \in EntryType : e.bno \in Blocks
  BY DEF EntryType
<1> QED
  BY <1>1, <1>2

(* A file's blocks are not among the first ones. *)
LEMMA HighBlock ==
    ASSUME NEW D, NEW T, NEW h, NEW p, NEW x, Layout(D, T, h, p, x), NEW b \in Blocks,
           NEW d \in T, NEW i \in Slots, h[b] = <<d, i>>, Ent(D, d, i).type = "file"
    PROVE  /\ b >= FIRST_BLOCK /\ b # 0 /\ b # Root /\ b \notin T
           /\ D[b].magic = "data" /\ D[b].next \in Blocks /\ D[b].next # b
           /\ D[b].next = 0 \/ h[D[b].next] = <<d, i>>
<1>1. BlockOk(D, T, h, p, Ent(D, d, i), <<d, i>>, b)
  BY DEF Layout, HeldOk
<1>2. Linked(D, T, h, p, <<d, i>>, Length(Ent(D, d, i)), Ent(D, d, i), b)
  BY <1>1 DEF BlockOk
<1>3. D[b].next \in Blocks /\ p[b] \in Nat
  BY DiskTyped DEF Layout, Maps
<1>4. /\ b >= FIRST_BLOCK /\ b \notin T /\ D[b].magic = "data"
      /\ D[b].next = 0 \/ (h[D[b].next] = <<d, i>> /\ p[D[b].next] = p[b] + 1)
  BY <1>2 DEF Linked
<1>5. b \in Nat /\ b # 0 /\ b # Root
  BY <1>4, Numbers
<1>6. D[b].next # b
  BY <1>3, <1>4, <1>5
<1> QED
  BY <1>3, <1>4, <1>5, <1>6

(* The holds of w go to v. *)
Relabel(h, w, v) == [b \in Blocks |-> IF h[b] = w THEN v ELSE h[b]]

(* A write that leaves the directories and the held blocks alone. *)
SameTree(D, E, T, h) ==
    /\ \A d \in T : E[d].magic = D[d].magic /\ E[d].ents = D[d].ents
    /\ \A b \in Blocks : h[b] \notin Marks /\ b \notin T /\ b >= FIRST_BLOCK =>
           E[b].magic = D[b].magic /\ E[b].next = D[b].next /\ E[b].data = D[b].data
    /\ E[Root].magic = "dir" => D[Root].magic = "dir"

LEMMA DiskFrame ==
    ASSUME NEW D, NEW T, NEW h, NEW p, NEW x, Layout(D, T, h, p, x), NEW E, Disk(E),
           SameTree(D, E, T, h)
    PROVE  Layout(E, T, h, p, x)
<1> USE DEF SameTree
<1>0. Maps(D, T, h, p)
  BY DEF Layout
<1>1. Maps(E, T, h, p)
  BY <1>0 DEF Maps
<1>2. ASSUME NEW d \in T PROVE DirOk(E, T, h, p, x, d)
  <2>1. DirOk(D, T, h, p, x, d) /\ \A i \in Slots : Ent(E, d, i) = Ent(D, d, i)
    BY DEF Layout, Ent
  <2> QED
    BY <2>1 DEF DirOk
<1>3. ASSUME NEW b \in Blocks PROVE HeldOk(E, T, h, p, b)
  <2>1. HeldOk(D, T, h, p, b)
    BY DEF Layout
  <2>2. ASSUME NEW d \in T, NEW i \in Slots, h[b] = <<d, i>>
        PROVE  Ent(E, d, i).name # "" /\ BlockOk(E, T, h, p, Ent(E, d, i), <<d, i>>, b)
    <3>1. Ent(D, d, i).name # "" /\ BlockOk(D, T, h, p, Ent(D, d, i), <<d, i>>, b)
      BY <2>1, <2>2 DEF HeldOk
    <3>2. Ent(E, d, i) = Ent(D, d, i) /\ h[b] \notin Marks
      BY <1>0, <2>2, NotMarks DEF Ent
    <3> QED
      BY <3>1, <3>2 DEF BlockOk, Linked
  <2> QED
    BY <2>1, <2>2 DEF HeldOk
<1> QED
  BY <1>1, <1>2, <1>3 DEF Layout

(* Blocks that no entry has may get other marks and places. *)
Remarks(h, p, g, q) ==
    /\ g \in [Blocks -> Blocks \X Nat] /\ q \in [Blocks -> Nat]
    /\ \A b \in Blocks : IF h[b] \in Marks THEN g[b] \in Marks ELSE g[b] = h[b] /\ q[b] = p[b]

LEMMA Remarked ==
    ASSUME NEW D, NEW T, NEW h, NEW p, NEW x, Layout(D, T, h, p, x),
           NEW g, NEW q, Remarks(h, p, g, q)
    PROVE  Layout(D, T, g, q, x)
<1>0. Maps(D, T, h, p)
  BY DEF Layout
<1>1. /\ \A b \in Blocks : IF h[b] \in Marks THEN g[b] \in Marks ELSE g[b] = h[b] /\ q[b] = p[b]
      /\ g \in [Blocks -> Blocks \X Nat] /\ q \in [Blocks -> Nat]
  BY DEF Remarks
<1>2. ASSUME NEW b \in Blocks, NEW d \in T, NEW i
      PROVE  (g[b] = <<d, i>> <=> h[b] = <<d, i>>) /\ (h[b] = <<d, i>> => q[b] = p[b])
  BY <1>0, <1>1, NotMarks
<1>3. Maps(D, T, g, q)
  BY <1>0, <1>1 DEF Maps
<1>4. ASSUME NEW d \in T PROVE DirOk(D, T, g, q, x, d)
  <2> SUFFICES ASSUME NEW i \in Slots, Ent(D, d, i).name # ""
               PROVE  EntryOk(T, g, q, x, Ent(D, d, i), <<d, i>>)
    BY DEF DirOk, Layout
  <2> DEFINE e == Ent(D, d, i)
  <2>1. EntryOk(T, h, p, x, e, <<d, i>>)
    BY DEF Layout, DirOk
  <2>2. EntryOk(T, g, q, x, e, <<d, i>>)
    <3>1. e.bno \in Blocks
      BY <1>0, DiskTyped DEF Maps
    <3> HIDE DEF e
    <3> QED
      BY <1>2, <2>1, <3>1 DEF EntryOk
  <2> QED
    BY <2>2
<1>5. ASSUME NEW b \in Blocks PROVE HeldOk(D, T, g, q, b)
  <2>1. HeldOk(D, T, h, p, b)
    BY DEF Layout
  <2>2. g[b] \in Marks \cup (T \X Slots)
    BY <1>1, <2>1 DEF HeldOk
  <2>3. ASSUME NEW d \in T, NEW i \in Slots, g[b] = <<d, i>>
        PROVE  Ent(D, d, i).name # "" /\ BlockOk(D, T, g, q, Ent(D, d, i), <<d, i>>, b)
    <3>0. h[b] = <<d, i>> /\ q[b] = p[b]
      BY <1>2, <2>3
    <3>1. Ent(D, d, i).name # "" /\ BlockOk(D, T, h, p, Ent(D, d, i), <<d, i>>, b) /\ q[b] = p[b]
      BY <2>1, <3>0 DEF HeldOk
    <3>2. D[b].next \in Blocks
      BY <1>0, DiskTyped DEF Maps
    <3>3. /\ g[D[b].next] = <<d, i>> <=> h[D[b].next] = <<d, i>>
          /\ h[D[b].next] = <<d, i>> => q[D[b].next] = p[D[b].next]
      BY <1>2, <3>2
    <3> QED
      BY <3>1, <3>3 DEF BlockOk, Linked
  <2> QED
    BY <2>2, <2>3 DEF HeldOk
<1> QED
  BY <1>3, <1>4, <1>5 DEF Layout

(* E is D with entry e in slot i0 of directory d0. *)
Write(D, E, d0, i0, e) == E = [D EXCEPT ![d0] = [D[d0] EXCEPT !.ents[i0] = e]]

LEMMA Written ==
    ASSUME NEW D, Disk(D), NEW d0 \in Blocks, NEW i0 \in Slots, NEW e \in EntryType, NEW E,
           Write(D, E, d0, i0, e)
    PROVE  /\ \A b \in Blocks \ {d0} : E[b] = D[b]
           /\ \A b \in Blocks : /\ E[b].magic = D[b].magic /\ E[b].next = D[b].next
                                /\ E[b].data = D[b].data
           /\ \A d \in Blocks, i \in Slots :
                  Ent(E, d, i) = IF d = d0 /\ i = i0 THEN e ELSE Ent(D, d, i)
           /\ Disk(E)
<1>1. D[d0] \in BlockType
  BY DiskTyped
<1>2. [D[d0] EXCEPT !.ents[i0] = e] \in BlockType
  BY <1>1, PutEntry
<1>3. Disk(E) /\ \A b \in Blocks \ {d0} : E[b] = D[b]
  BY <1>2 DEF Disk, Write
<1>4. /\ E[d0].magic = D[d0].magic /\ E[d0].next = D[d0].next /\ E[d0].data = D[d0].data
      /\ \A i \in Slots : Ent(E, d0, i) = IF i = i0 THEN e ELSE Ent(D, d0, i)
  BY <1>1 DEF BlockType, Ent, Disk, Write
<1>5. \A d \in Blocks \ {d0}, i \in Slots : Ent(E, d, i) = Ent(D, d, i)
  BY <1>3 DEF Ent
<1> QED
  BY <1>3, <1>4, <1>5

(* Nothing has the mark v. *)
NoHold(h, v) == \A b \in Blocks : h[b] # v

(* What has the mark v is what the entry e has, or would have. *)
Carried(D, T, h, p, x, e, v) ==
    /\ EntryOk(T, h, p, x, e, v)
    /\ \A b \in Blocks : h[b] = v => BlockOk(D, T, h, p, e, v, b)

NoName(D, d, n) == \A j \in Slots : Ent(D, d, j).name # n

(* An entry leaves its directory; what it had goes to the mark v. *)
LEMMA EntryOut ==
    ASSUME NEW D, NEW T, NEW h, NEW p, NEW x, Layout(D, T, h, p, x),
           NEW d0 \in T, NEW i0 \in Slots, Ent(D, d0, i0).name # "",
           NEW v \in Marks, NoHold(h, v),
           NEW E, Write(D, E, d0, i0, NoEntry)
    PROVE  /\ Layout(E, T, Relabel(h, <<d0, i0>>, v), p, x)
           /\ Carried(E, T, Relabel(h, <<d0, i0>>, v), p, x, Ent(D, d0, i0), v)
<1> DEFINE g == Relabel(h, <<d0, i0>>, v)
           e0 == Ent(D, d0, i0)
<1>0. Maps(D, T, h, p) /\ d0 \in Blocks /\ T \subseteq Blocks /\ Disk(D)
  BY DEF Layout, Maps
<1>1. /\ \A b \in Blocks : g[b] = IF h[b] = <<d0, i0>> THEN v ELSE h[b]
      /\ g \in [Blocks -> Blocks \X Nat]
  BY <1>0, Numbers DEF Relabel, Maps, Marks
<1>2. /\ \A b \in Blocks \ {d0} : E[b] = D[b]
      /\ \A b \in Blocks : /\ E[b].magic = D[b].magic /\ E[b].next = D[b].next
                           /\ E[b].data = D[b].data
      /\ \A d \in Blocks, i \in Slots : Ent(E, d, i) = IF d = d0 /\ i = i0 THEN NoEntry ELSE Ent(D, d, i)
      /\ Disk(E)
  BY <1>0, Written, ConstantTypes
<1> HIDE DEF g
<1>3. ASSUME NEW b \in Blocks, NEW d \in T, NEW i, <<d, i>> # <<d0, i0>>
      PROVE  g[b] = <<d, i>> <=> h[b] = <<d, i>>
  BY <1>0, <1>1, <1>3, NotMarks
<1>4. ASSUME NEW b \in Blocks PROVE g[b] = v <=> h[b] = <<d0, i0>>
  BY <1>1 DEF NoHold
<1>5. Maps(E, T, g, p)
  BY <1>0, <1>1, <1>2, Numbers DEF Maps
<1>6. ASSUME NEW d \in T PROVE DirOk(E, T, g, p, x, d)
  <2>1. DirOk(D, T, h, p, x, d)
    BY DEF Layout
  <2>2. NoEntry.name = ""
    BY DEF NoEntry
  <2>3. ASSUME NEW i \in Slots
        PROVE  /\ Ent(E, d, i).name = "" => Ent(E, d, i) = NoEntry
               /\ Ent(E, d, i).name # "" =>
                    \A j \in Slots : Ent(E, d, j).name = Ent(E, d, i).name =>
                          i = j \/ Ent(E, d, i).name \in Cut
    BY <1>0, <1>2, <2>1, <2>2 DEF DirOk
  <2>4. ASSUME NEW i \in Slots, Ent(E, d, i).name # ""
        PROVE  EntryOk(T, g, p, x, Ent(E, d, i), <<d, i>>)
    <3> DEFINE e == Ent(D, d, i)
    <3>1. Ent(E, d, i) = e /\ <<d, i>> # <<d0, i0>>
      BY <1>0, <1>2, <2>2, <2>4
    <3>2. EntryOk(T, h, p, x, e, <<d, i>>) /\ e.bno \in Blocks
      BY <1>0, <2>1, <2>4, <3>1, DiskTyped DEF DirOk, Maps
    <3> HIDE DEF e
    <3>3. EntryOk(T, g, p, x, e, <<d, i>>)
      BY <1>3, <3>1, <3>2 DEF EntryOk
    <3> QED
      BY <3>1, <3>3
  <2> QED
    BY <2>3, <2>4 DEF DirOk
<1>7. ASSUME NEW b \in Blocks PROVE HeldOk(E, T, g, p, b)
  <2>1. HeldOk(D, T, h, p, b)
    BY DEF Layout
  <2>2. g[b] \in Marks \cup (T \X Slots)
    BY <1>1, <2>1 DEF HeldOk
  <2>3. ASSUME NEW d \in T, NEW i \in Slots, g[b] = <<d, i>>
        PROVE  Ent(E, d, i).name # "" /\ BlockOk(E, T, g, p, Ent(E, d, i), <<d, i>>, b)
    <3>1. <<d, i>> # <<d0, i0>>
      BY <1>0, <1>1, <2>3, NotMarks
    <3>2. h[b] = <<d, i>> /\ Ent(E, d, i) = Ent(D, d, i)
      BY <1>0, <1>2, <1>3, <2>3, <3>1
    <3>3. Ent(D, d, i).name # "" /\ BlockOk(D, T, h, p, Ent(D, d, i), <<d, i>>, b)
      BY <2>1, <3>2 DEF HeldOk
    <3>4. D[b].next \in Blocks
      BY <1>0, DiskTyped DEF Maps
    <3>5. g[D[b].next] = <<d, i>> <=> h[D[b].next] = <<d, i>>
      BY <1>3, <3>1, <3>4
    <3> QED
      BY <1>2, <3>2, <3>3, <3>5 DEF BlockOk, Linked
  <2> QED
    BY <2>2, <2>3 DEF HeldOk
<1>8. EntryOk(T, g, p, x, e0, v)
  <2>1. EntryOk(T, h, p, x, e0, <<d0, i0>>) /\ e0.bno \in Blocks
    BY <1>0, DiskTyped DEF DirOk, Maps, Layout
  <2> HIDE DEF e0
  <2> QED
    BY <1>4, <2>1 DEF EntryOk
<1>9. ASSUME NEW b \in Blocks, g[b] = v PROVE BlockOk(E, T, g, p, e0, v, b)
  <2>1. BlockOk(D, T, h, p, e0, <<d0, i0>>, b)
    BY <1>4, <1>9 DEF Layout, HeldOk
  <2>2. D[b].next \in Blocks
    BY <1>0, DiskTyped DEF Maps
  <2>3. g[D[b].next] = v <=> h[D[b].next] = <<d0, i0>>
    BY <1>4, <2>2
  <2> HIDE DEF e0
  <2> QED
    BY <1>2, <2>1, <2>3 DEF BlockOk, Linked
<1> QED
  BY <1>5, <1>6, <1>7, <1>8, <1>9 DEF Layout, g, Carried

(* An entry comes into a directory; it gets what had the mark v. *)
LEMMA EntryIn ==
    ASSUME NEW D, NEW T, NEW h, NEW p, Layout(D, T, h, p, 0), NEW x,
           NEW d0 \in T, NEW i0 \in Slots, Ent(D, d0, i0).name = "",
           NEW e0 \in EntryType, e0.name # "", NoName(D, d0, e0.name) \/ e0.name \in Cut,
           NEW v \in Marks, v # Nobody, Carried(D, T, h, p, x, e0, v),
           NEW E, Write(D, E, d0, i0, e0)
    PROVE  Layout(E, T, Relabel(h, v, <<d0, i0>>), p, x)
<1> USE DEF Carried, NoName
<1> DEFINE g == Relabel(h, v, <<d0, i0>>)
<1>0. Maps(D, T, h, p) /\ d0 \in Blocks /\ T \subseteq Blocks /\ Disk(D)
  BY DEF Layout, Maps
<1>1. /\ \A b \in Blocks : g[b] = IF h[b] = v THEN <<d0, i0>> ELSE h[b]
      /\ g \in [Blocks -> Blocks \X Nat]
  BY <1>0, Numbers DEF Relabel, Maps
<1>2. /\ \A b \in Blocks \ {d0} : E[b] = D[b]
      /\ \A b \in Blocks : /\ E[b].magic = D[b].magic /\ E[b].next = D[b].next
                           /\ E[b].data = D[b].data
      /\ \A d \in Blocks, i \in Slots : Ent(E, d, i) = IF d = d0 /\ i = i0 THEN e0 ELSE Ent(D, d, i)
      /\ Disk(E)
  BY <1>0, Written
<1> HIDE DEF g
<1>3. ASSUME NEW b \in Blocks, NEW d \in T, NEW i, <<d, i>> # <<d0, i0>>
      PROVE  g[b] = <<d, i>> <=> h[b] = <<d, i>>
  BY <1>0, <1>1, <1>3, NotMarks
<1>4. ASSUME NEW b \in Blocks PROVE g[b] = <<d0, i0>> <=> h[b] = v
  <2>1. h[b] # <<d0, i0>>
    BY DEF Layout, HeldOk
  <2> QED
    BY <1>1, <2>1
<1>5. Maps(E, T, g, p)
  BY <1>0, <1>1, <1>2, Numbers DEF Maps
<1>6. ASSUME NEW d \in T PROVE DirOk(E, T, g, p, x, d)
  <2>0. d \in Blocks
    BY <1>0 DEF Maps
  <2>1. DirOk(D, T, h, p, 0, d)
    BY DEF Layout
  <2>3. ASSUME NEW i \in Slots
        PROVE  /\ Ent(E, d, i).name = "" => Ent(E, d, i) = NoEntry
               /\ Ent(E, d, i).name # "" =>
                    \A j \in Slots : Ent(E, d, j).name = Ent(E, d, i).name =>
                          i = j \/ Ent(E, d, i).name \in Cut
    <3>1. CASE d # d0
      BY <1>2, <2>0, <2>1, <3>1 DEF DirOk
    <3>2. CASE d = d0 /\ i = i0
      BY <1>2, <2>0, <3>2
    <3>3. CASE d = d0 /\ i # i0
      <4>1. Ent(E, d, i) = Ent(D, d, i) /\ \A j \in Slots : j # i0 => Ent(E, d, j) = Ent(D, d, j)
        BY <1>2, <2>0, <3>3
      <4>2. Ent(E, d, i0).name # Ent(E, d, i).name \/ Ent(E, d, i).name \in Cut
        BY <1>2, <2>0, <3>3, <4>1
      <4> QED
        BY <2>1, <3>3, <4>1, <4>2 DEF DirOk
    <3> QED
      BY <3>1, <3>2, <3>3
  <2>4. ASSUME NEW i \in Slots, Ent(E, d, i).name # "", <<d, i>> # <<d0, i0>>
        PROVE  EntryOk(T, g, p, x, Ent(E, d, i), <<d, i>>)
    <3> DEFINE e == Ent(D, d, i)
    <3>1. Ent(E, d, i) = e
      BY <1>2, <2>0, <2>4
    <3>2. EntryOk(T, h, p, 0, e, <<d, i>>) /\ e.bno \in Blocks
      BY <1>0, <2>0, <2>1, <2>4, <3>1, DiskTyped DEF DirOk, Maps
    <3> HIDE DEF e
    <3>3. EntryOk(T, g, p, x, e, <<d, i>>)
      BY <1>3, <2>4, <3>2 DEF EntryOk
    <3> QED
      BY <3>1, <3>3
  <2>5. EntryOk(T, g, p, x, e0, <<d0, i0>>) /\ Ent(E, d0, i0) = e0
    <3>1. e0.bno \in Blocks
      BY DEF EntryType
    <3> QED
      BY <1>0, <1>2, <1>4, <3>1 DEF EntryOk
  <2>6. ASSUME NEW i \in Slots, Ent(E, d, i).name # ""
        PROVE  EntryOk(T, g, p, x, Ent(E, d, i), <<d, i>>)
    BY <2>4, <2>5, <2>6
  <2> QED
    BY <2>3, <2>6 DEF DirOk
<1>7. ASSUME NEW b \in Blocks PROVE HeldOk(E, T, g, p, b)
  <2>1. HeldOk(D, T, h, p, b)
    BY DEF Layout
  <2>2. g[b] \in Marks \cup (T \X Slots)
    <3>1. <<d0, i0>> \in T \X Slots
      OBVIOUS
    <3> QED
      BY <1>1, <2>1, <3>1 DEF HeldOk
  <2>3. ASSUME NEW d \in T, NEW i \in Slots, g[b] = <<d, i>>
        PROVE  Ent(E, d, i).name # "" /\ BlockOk(E, T, g, p, Ent(E, d, i), <<d, i>>, b)
    <3>0. d \in Blocks /\ D[b].next \in Blocks
      BY <1>0, DiskTyped DEF Maps
    <3>1. CASE <<d, i>> # <<d0, i0>>
      <4>1. h[b] = <<d, i>> /\ Ent(E, d, i) = Ent(D, d, i)
        BY <1>2, <1>3, <2>3, <3>0, <3>1
      <4>2. Ent(D, d, i).name # "" /\ BlockOk(D, T, h, p, Ent(D, d, i), <<d, i>>, b)
        BY <2>1, <4>1 DEF HeldOk
      <4>3. g[D[b].next] = <<d, i>> <=> h[D[b].next] = <<d, i>>
        BY <1>3, <3>0, <3>1
      <4> QED
        BY <1>2, <4>1, <4>2, <4>3 DEF BlockOk, Linked
    <3>2. CASE <<d, i>> = <<d0, i0>>
      <4>1. h[b] = v /\ Ent(E, d, i) = e0
        BY <1>0, <1>2, <1>4, <2>3, <3>2
      <4>2. BlockOk(D, T, h, p, e0, v, b)
        BY <4>1
      <4>3. g[D[b].next] = <<d, i>> <=> h[D[b].next] = v
        BY <1>4, <3>0, <3>2
      <4>4. BlockOk(E, T, g, p, e0, <<d, i>>, b)
        BY <1>2, <4>2, <4>3 DEF BlockOk, Linked
      <4> QED
        BY <4>1, <4>4
    <3> QED
      BY <3>1, <3>2
  <2> QED
    BY <2>2, <2>3 DEF HeldOk
<1> QED
  BY <1>5, <1>6, <1>7 DEF Layout, g

(* An entry gets another name. *)
LEMMA Renamed ==
    ASSUME NEW D, NEW T, NEW h, NEW p, NEW x, Layout(D, T, h, p, x),
           NEW d0 \in T, NEW i0 \in Slots, Ent(D, d0, i0).name # "",
           NEW e0 \in EntryType, e0.name # "",
           \A j \in Slots : Ent(D, d0, j).name = e0.name => j = i0 \/ e0.name \in Cut,
           e0.type = Ent(D, d0, i0).type, e0.bno = Ent(D, d0, i0).bno,
           e0.size = Ent(D, d0, i0).size, e0.val = Ent(D, d0, i0).val,
           NEW E, Write(D, E, d0, i0, e0)
    PROVE  Layout(E, T, h, p, x)
<1>0. Maps(D, T, h, p) /\ d0 \in Blocks /\ T \subseteq Blocks /\ Disk(D)
  BY DEF Layout, Maps
<1>2. /\ \A b \in Blocks \ {d0} : E[b] = D[b]
      /\ \A b \in Blocks : /\ E[b].magic = D[b].magic /\ E[b].next = D[b].next
                           /\ E[b].data = D[b].data
      /\ \A d \in Blocks, i \in Slots : Ent(E, d, i) = IF d = d0 /\ i = i0 THEN e0 ELSE Ent(D, d, i)
      /\ Disk(E)
  BY <1>0, Written
<1>3. ASSUME NEW d \in T, NEW i \in Slots
      PROVE  LET e == Ent(D, d, i)
                 f == Ent(E, d, i)
             IN /\ f.type = e.type /\ f.bno = e.bno /\ f.size = e.size /\ f.val = e.val
                /\ f.name # "" <=> e.name # ""
                /\ f.name = "" => f = e
  BY <1>0, <1>2 DEF Maps
<1>5. Maps(E, T, h, p)
  BY <1>0, <1>2, Numbers DEF Maps
<1>6. ASSUME NEW d \in T PROVE DirOk(E, T, h, p, x, d)
  <2>0. d \in Blocks
    BY <1>0 DEF Maps
  <2>1. DirOk(D, T, h, p, x, d)
    BY DEF Layout
  <2>2. ASSUME NEW i \in Slots
        PROVE  /\ Ent(E, d, i).name = "" => Ent(E, d, i) = NoEntry
               /\ Ent(E, d, i).name # "" => EntryOk(T, h, p, x, Ent(E, d, i), <<d, i>>)
    <3> DEFINE e == Ent(D, d, i)
               f == Ent(E, d, i)
    <3>1. /\ f.type = e.type /\ f.bno = e.bno /\ f.size = e.size /\ f.val = e.val
          /\ f.name # "" <=> e.name # ""
          /\ f.name = "" => f = e
      BY <1>3
    <3>2. /\ e.name = "" => e = NoEntry
          /\ e.name # "" => EntryOk(T, h, p, x, e, <<d, i>>)
      BY <2>1 DEF DirOk
    <3> HIDE DEF e, f
    <3> QED
      BY <3>1, <3>2 DEF EntryOk, f
  <2>3. ASSUME NEW i \in Slots, Ent(E, d, i).name # "", NEW j \in Slots,
               Ent(E, d, j).name = Ent(E, d, i).name
        PROVE  i = j \/ Ent(E, d, i).name \in Cut
    <3>0. ASSUME NEW k \in Slots, <<d, k>> # <<d0, i0>> PROVE Ent(E, d, k) = Ent(D, d, k)
      BY <1>2, <2>0, <3>0
    <3>1. CASE <<d, i>> # <<d0, i0>> /\ <<d, j>> # <<d0, i0>>
      BY <2>1, <2>3, <3>0, <3>1 DEF DirOk
    <3>2. CASE <<d, i>> = <<d0, i0>> /\ <<d, j>> # <<d0, i0>>
      <4>1. Ent(D, d0, j).name = e0.name /\ Ent(E, d, i).name = e0.name
        BY <1>2, <2>0, <2>3, <3>0, <3>2
      <4> QED
        BY <3>2, <4>1
    <3>3. CASE <<d, i>> # <<d0, i0>> /\ <<d, j>> = <<d0, i0>>
      <4>1. Ent(D, d0, i).name = e0.name /\ Ent(E, d, i).name = e0.name
        BY <1>2, <2>0, <2>3, <3>0, <3>3
      <4> QED
        BY <3>3, <4>1
    <3>4. CASE <<d, i>> = <<d0, i0>> /\ <<d, j>> = <<d0, i0>>
      BY <3>4
    <3> QED
      BY <3>1, <3>2, <3>3, <3>4
  <2> QED
    BY <2>2, <2>3 DEF DirOk
<1>7. ASSUME NEW b \in Blocks PROVE HeldOk(E, T, h, p, b)
  <2>1. HeldOk(D, T, h, p, b)
    BY DEF Layout
  <2>3. ASSUME NEW d \in T, NEW i \in Slots, h[b] = <<d, i>>
        PROVE  Ent(E, d, i).name # "" /\ BlockOk(E, T, h, p, Ent(E, d, i), <<d, i>>, b)
    <3> DEFINE e == Ent(D, d, i)
               f == Ent(E, d, i)
    <3>1. /\ f.type = e.type /\ f.bno = e.bno /\ f.size = e.size /\ f.val = e.val
          /\ f.name # "" <=> e.name # ""
      BY <1>3
    <3>2. e.name # "" /\ BlockOk(D, T, h, p, e, <<d, i>>, b)
      BY <2>1, <2>3 DEF HeldOk
    <3> HIDE DEF e, f
    <3>3. f.name # "" /\ BlockOk(E, T, h, p, f, <<d, i>>, b)
      BY <1>2, <3>1, <3>2 DEF BlockOk, Linked, Length
    <3> QED
      BY <3>3 DEF f
  <2> QED
    BY <2>1, <2>3 DEF HeldOk
<1> QED
  BY <1>5, <1>6, <1>7 DEF Layout

(* An empty directory is written into the block that its entry names. *)
LEMMA NewDir ==
    ASSUME NEW D, NEW T, NEW h, NEW p, NEW c \in Blocks, Layout(D, T, h, p, c),
           c >= FIRST_BLOCK, c \notin T,
           NEW d0 \in T, NEW i0 \in Slots, h[c] = <<d0, i0>>, Ent(D, d0, i0).type = "dir",
           NEW y \in Blocks, NEW E, E = [D EXCEPT ![c] = DirBlock(y)]
    PROVE  Layout(E, T \cup {c}, h, p, 0)
<1> DEFINE U == T \cup {c}
<1>0. Maps(D, T, h, p) /\ T \subseteq Blocks /\ Disk(D)
  BY DEF Layout, Maps
<1>1. /\ \A b \in Blocks : b # c => E[b] = D[b]
      /\ E[c] = DirBlock(y) /\ Disk(E)
  BY <1>0, ConstantTypes DEF Disk
<1>2. \A i \in Slots : Ent(E, c, i) = NoEntry
  BY <1>1 DEF Ent, DirBlock, Block, NoEnts
<1>3. \A d \in T, i \in Slots : Ent(E, d, i) = Ent(D, d, i)
  BY <1>0, <1>1 DEF Ent
<1>4. Maps(E, U, h, p)
  <2>1. E[c].magic = "dir"
    BY <1>1 DEF DirBlock, Block
  <2> QED
    BY <1>0, <1>1, <2>1, Numbers DEF Maps
<1>5. ASSUME NEW d \in U PROVE DirOk(E, U, h, p, 0, d)
  <2>1. CASE d = c
    BY <1>2, <2>1, Pairs DEF DirOk
  <2>2. CASE d \in T
    <3>1. DirOk(D, T, h, p, c, d)
      BY <2>2 DEF Layout
    <3>2. ASSUME NEW i \in Slots, Ent(D, d, i).name # ""
          PROVE  EntryOk(U, h, p, 0, Ent(D, d, i), <<d, i>>)
      <4> DEFINE e == Ent(D, d, i)
      <4>1. EntryOk(T, h, p, c, e, <<d, i>>)
        BY <3>1, <3>2 DEF DirOk
      <4> HIDE DEF e
      <4>2. EntryOk(U, h, p, 0, e, <<d, i>>)
        BY <4>1 DEF EntryOk
      <4> QED
        BY <4>2 DEF e
    <3> QED
      BY <1>3, <2>2, <3>1, <3>2 DEF DirOk
  <2> QED
    BY <2>1, <2>2
<1>6. ASSUME NEW b \in Blocks PROVE HeldOk(E, U, h, p, b)
  <2>1. HeldOk(D, T, h, p, b)
    BY DEF Layout
  <2>2. h[b] \in Marks \cup (U \X Slots)
    BY <2>1 DEF HeldOk
  <2>3. ASSUME NEW d \in U, NEW i \in Slots, h[b] = <<d, i>>
        PROVE  Ent(E, d, i).name # "" /\ BlockOk(E, U, h, p, Ent(E, d, i), <<d, i>>, b)
    <3>1. d \in T
      <4>1. d \in T \/ d # 0
        BY Numbers
      <4>2. <<d, i>> \in Marks => d = 0
        BY DEF Marks
      <4>3. <<d, i>> \in T \X Slots => d \in T
        OBVIOUS
      <4> QED
        BY <2>1, <2>3, <4>1, <4>2, <4>3 DEF HeldOk
    <3>2. Ent(D, d, i).name # "" /\ BlockOk(D, T, h, p, Ent(D, d, i), <<d, i>>, b)
      BY <2>1, <2>3, <3>1 DEF HeldOk
    <3>3. Ent(E, d, i) = Ent(D, d, i)
      BY <1>3, <3>1
    <3>4. Ent(D, d, i).type = "file" => b # c
      BY <2>3
    <3> QED
      BY <1>1, <3>2, <3>3, <3>4 DEF BlockOk, Linked
  <2> QED
    BY <2>2, <2>3 DEF HeldOk
<1> QED
  BY <1>4, <1>5, <1>6 DEF Layout

(* Directories and blocks that nothing in U and K leads to are forgotten. *)
Keep(h, U, K) == [b \in Blocks |-> IF b \in K /\ h[b] \in U \X Slots THEN h[b] ELSE Nobody]

(* The entries in U lead to K, and to U if they are directories; chains stay in K. *)
Closed(D, h, U, K) ==
    /\ \A d \in U, i \in Slots : Ent(D, d, i).name # "" /\ Ent(D, d, i).bno # 0 =>
           /\ Ent(D, d, i).bno \in K
           /\ Ent(D, d, i).type = "dir" => Ent(D, d, i).bno \in U
    /\ \A b \in K \cap Blocks, d \in U, i \in Slots :
           h[b] = <<d, i>> /\ Ent(D, d, i).type = "file" => D[b].next = 0 \/ D[b].next \in K

LEMMA Fewer ==
    ASSUME NEW D, NEW T, NEW h, NEW p, Layout(D, T, h, p, 0), NEW U, U \subseteq T, NEW K,
           D[Root].magic = "dir" => Root \in U,
           Closed(D, h, U, K)
    PROVE  Layout(D, U, Keep(h, U, K), p, 0)
<1> DEFINE g == Keep(h, U, K)
<1>0. Maps(D, T, h, p) /\ T \subseteq Blocks /\ Disk(D)
  BY DEF Layout, Maps
<1>1. /\ \A b \in Blocks : g[b] = IF b \in K /\ h[b] \in U \X Slots THEN h[b] ELSE Nobody
      /\ g \in [Blocks -> Blocks \X Nat]
  BY <1>0, Numbers DEF Keep, Maps, Nobody
<1> HIDE DEF g
<1>2. ASSUME NEW b \in Blocks, b \in K, NEW d \in U, NEW i \in Slots, h[b] = <<d, i>>
      PROVE  g[b] = <<d, i>>
  <2>1. <<d, i>> \in U \X Slots
    OBVIOUS
  <2> QED
    BY <1>1, <1>2, <2>1
<1>3. ASSUME NEW b \in Blocks, NEW d \in U, NEW i \in Slots, g[b] = <<d, i>>
      PROVE  h[b] = <<d, i>> /\ b \in K
  BY <1>0, <1>1, <1>3, NotMarks DEF Nobody
<1>7. \A d \in U : d \in T
  OBVIOUS
<1>8. ASSUME NEW b \in Blocks, NEW d \in U, NEW i \in Slots, h[b] = <<d, i>>,
             Ent(D, d, i).type = "file"
      PROVE  b # 0
  <2>1. d \in T
    BY <1>7
  <2> QED
    BY <1>8, <2>1, HighBlock
<1>4. Maps(D, U, g, p)
  BY <1>0, <1>1 DEF Maps
<1>5. ASSUME NEW d \in U PROVE DirOk(D, U, g, p, 0, d)
  <2>1. DirOk(D, T, h, p, 0, d)
    BY DEF Layout
  <2>2. ASSUME NEW i \in Slots, Ent(D, d, i).name # ""
        PROVE  EntryOk(U, g, p, 0, Ent(D, d, i), <<d, i>>)
    <3> DEFINE e == Ent(D, d, i)
    <3>1. EntryOk(T, h, p, 0, e, <<d, i>>) /\ e.bno \in Blocks
      BY <1>0, <2>1, <2>2, DiskTyped DEF DirOk
    <3>2. e.bno # 0 => e.bno \in K /\ (e.type = "dir" => e.bno \in U)
      BY <2>2 DEF Closed
    <3>3. e.type = "file" => e.bno # 0
      <4>1. SUFFICES ASSUME e.type = "file", e.bno = 0 PROVE FALSE
        OBVIOUS
      <4>2. h[0] = <<d, i>>
        BY <3>1, <4>1 DEF EntryOk
      <4> QED
        BY <1>8, <4>1, <4>2, Numbers
    <3> HIDE DEF e
    <3>4. EntryOk(U, g, p, 0, e, <<d, i>>)
      BY <1>2, <3>1, <3>2, <3>3 DEF EntryOk
    <3> QED
      BY <3>4 DEF e
  <2> QED
    BY <2>1, <2>2 DEF DirOk
<1>6. ASSUME NEW b \in Blocks PROVE HeldOk(D, U, g, p, b)
  <2>1. HeldOk(D, T, h, p, b)
    BY DEF Layout
  <2>2. g[b] \in Marks \cup (U \X Slots)
    BY <1>1, Pairs
  <2>3. ASSUME NEW d \in U, NEW i \in Slots, g[b] = <<d, i>>
        PROVE  Ent(D, d, i).name # "" /\ BlockOk(D, U, g, p, Ent(D, d, i), <<d, i>>, b)
    <3>1. h[b] = <<d, i>> /\ b \in K
      BY <1>3, <2>3
    <3>2. Ent(D, d, i).name # "" /\ BlockOk(D, T, h, p, Ent(D, d, i), <<d, i>>, b)
      BY <2>1, <3>1 DEF HeldOk
    <3>3. Ent(D, d, i).type = "file" => D[b].next = 0 \/ D[b].next \in K
      BY <3>1 DEF Closed
    <3>4. D[b].next \in Blocks
      BY <1>0, DiskTyped
    <3>5. ASSUME Ent(D, d, i).type = "file", h[D[b].next] = <<d, i>> PROVE D[b].next # 0
      BY <1>8, <3>4, <3>5
    <3>6. Ent(D, d, i).type = "file" /\ h[D[b].next] = <<d, i>> => g[D[b].next] = <<d, i>>
      BY <1>2, <3>3, <3>4, <3>5
    <3> QED
      BY <3>2, <3>6 DEF BlockOk, Linked
  <2> QED
    BY <2>2, <2>3 DEF HeldOk
<1> QED
  BY <1>4, <1>5, <1>6 DEF Layout, g

(* A disk without a root. *)
LEMMA NoTree ==
    ASSUME NEW D, Disk(D), D[Root].magic # "dir"
    PROVE  Layout(D, {}, [b \in Blocks |-> Nobody], [b \in Blocks |-> 0], 0)
<1>1. Nobody \in Blocks \X Nat /\ Nobody \in Marks
  BY Numbers DEF Nobody, Marks
<1> QED
  BY <1>1 DEF Layout, Maps, HeldOk

(* A root without entries. *)
LEMMA RootOnly ==
    ASSUME NEW D, Disk(D), NEW E, E = [D EXCEPT ![Root] = DirBlock(Root)]
    PROVE  Layout(E, {Root}, [b \in Blocks |-> Nobody], [b \in Blocks |-> 0], 0)
<1> DEFINE g == [b \in Blocks |-> Nobody]
<1>1. Nobody \in Blocks \X Nat /\ Nobody \in Marks
  BY Numbers DEF Nobody, Marks
<1>2. Disk(E) /\ E[Root] = DirBlock(Root)
  BY Numbers, ConstantTypes DEF Disk
<1>3. E[Root].magic = "dir" /\ \A i \in Slots : Ent(E, Root, i) = NoEntry
  BY <1>2 DEF Ent, DirBlock, Block, NoEnts
<1>4. Maps(E, {Root}, g, [b \in Blocks |-> 0])
  BY <1>1, <1>2, <1>3, Numbers DEF Maps
<1>5. DirOk(E, {Root}, g, [b \in Blocks |-> 0], 0, Root)
  BY <1>3, Pairs DEF DirOk
<1>6. ASSUME NEW b \in Blocks PROVE HeldOk(E, {Root}, g, [c \in Blocks |-> 0], b)
  BY <1>1, Numbers DEF HeldOk, Nobody
<1> QED
  BY <1>4, <1>5, <1>6 DEF Layout

-----------------------------------------------------------------------------
(* The call in progress.                                                      *)

Quiet(h) == NoHold(h, InCall)

Hang(o) == IF o.call = "mkdir" /\ o.at = "block" THEN o.cur ELSE 0

(* A block of the chain that store_file_bytes builds: the one in hand, or one *)
(* that is linked to its successor, the last of them being prev.              *)
Built(D, o, T, h, p, b) ==
    /\ b \notin T /\ b >= FIRST_BLOCK
    /\ \/ b = o.cur /\ p[b] = o.written /\ o.at \in {"write", "link"}
       \/ /\ Linked(D, T, h, p, InCall, o.written, o, b)
          /\ p[b] + 1 = o.written => b = o.prev

(* The name under which store_file_bytes files its leaf. *)
Kept(o) == copy_name20(o.leaf)

StoreOk(D, o, T, h, p) ==
    /\ o.dir \in T /\ o.db = D[o.dir] /\ o.old = Ent(D, o.dir, o.slot).bno
    /\ \/ Ent(D, o.dir, o.slot).name = ""
       \/ Ent(D, o.dir, o.slot).name = Kept(o) /\ Ent(D, o.dir, o.slot).type = "file"
    /\ Kept(o) \in Cut \/ \A j \in Slots : Ent(D, o.dir, j).name = Kept(o) => j = o.slot
    /\ IF o.at = "commit" THEN o.written = Length(o) ELSE o.written < Length(o)
    /\ IF o.written = 0 THEN o.prev = 0 /\ o.at # "link"
       ELSE /\ h[o.prev] = InCall /\ p[o.prev] = o.written - 1 /\ o.prev # 0
            /\ h[o.first] = InCall /\ p[o.first] = 0
    /\ o.at \in {"write", "link"} => h[o.cur] = InCall /\ p[o.cur] = o.written
    /\ o.at = "link" =>
          /\ D[o.cur].magic = "data" /\ D[o.cur].next = 0
          /\ o.size # 0 => D[o.cur].data = <<o.val, o.written>>
    /\ \A b \in Blocks : h[b] = InCall => Built(D, o, T, h, p, b)

(* The rest of the chain that fs_free_chain frees. *)
FreeOk(D, o, T, h, p) ==
    /\ h[o.cur] = InCall
    /\ \A b \in Blocks : h[b] = InCall =>
          /\ b \notin T /\ b >= FIRST_BLOCK /\ D[b].magic = "data" /\ p[o.cur] <= p[b]
          /\ D[b].next = 0 \/ (h[D[b].next] = InCall /\ p[D[b].next] = p[b] + 1)

MkdirOk(D, o, T, h, p) ==
    /\ o.dir \in T
    /\ o.cur # 0 => o.cur \notin T /\ o.cur >= FIRST_BLOCK /\ D[o.cur].magic = "zero"
    /\ o.at = "entry" =>
          /\ o.db = D[o.dir] /\ Ent(D, o.dir, o.slot).name = ""
          /\ NoName(D, o.dir, o.name)
          /\ o.cur # 0 => h[o.cur] = InCall
          /\ \A b \in Blocks : h[b] = InCall => b = o.cur /\ b # 0
    /\ o.at = "block" =>
          /\ Quiet(h)
          /\ o.cur # 0 => h[o.cur] = <<o.dir, o.slot>> /\ Ent(D, o.dir, o.slot).type = "dir"

(* e is the entry on its way from one directory to the other. *)
Moving(D, o, T, h, p, f, e) ==
    /\ Ent(D, o.dir, f).name = "" /\ e.name # "" /\ NoName(D, o.dir, e.name)
    /\ o.db = [D[o.dir] EXCEPT !.ents[f] = e]
    /\ Carried(D, T, h, p, 0, e, InCall)

MoveOk(D, o, T, h, p) ==
    /\ o.dir \in T
    /\ o.at = "dst" => \E f \in Slots, e \in EntryType : Moving(D, o, T, h, p, f, e)
    /\ o.at = "parent" => Quiet(h)

CallOk(D, o, T, h, p) ==
    /\ NoHold(h, Old)
    /\ o.call = "none" => Quiet(h)
    /\ o.call = "store" => StoreOk(D, o, T, h, p)
    /\ o.call = "free" => FreeOk(D, o, T, h, p)
    /\ o.call = "mkdir" => MkdirOk(D, o, T, h, p)
    /\ o.call = "move" => MoveOk(D, o, T, h, p)

(* Nothing that is held may be handed out. *)
Marked(U, T, h) ==
    Reserved \subseteq U /\ T \subseteq U /\ \A b \in Blocks : h[b] # Nobody => b \in U

-----------------------------------------------------------------------------
(* The scan.                                                                  *)

Waits(S, b, t) == \E j \in 1 .. Len(S) : S[j].bno = b /\ S[j].type = t

ScanItems == [type : {"file", "dir"}, bno : Blocks, depth : 0 .. SCAN_DEPTH + 1]

(* fs_scan_dir is only called for directories of T, each at its depth in A, and *)
(* fs_scan_chain for the blocks of files.                                     *)
ItemOk(D, A, T, h, w) ==
    /\ w.type = "dir" /\ w.bno # 0 => w.bno \in T /\ w.bno \in A[w.depth]
    /\ w.depth = 0 => w.type = "dir" /\ w.bno = Root
    /\ w.type = "file" =>
          \E d \in T, i \in Slots : h[w.bno] = <<d, i>> /\ Ent(D, d, i).type = "file"

(* What the entries of directory d lead to is marked or waits. *)
Expanded(D, U, S, d) ==
    \A i \in Slots : Ent(D, d, i).name # "" =>
        LET e == Ent(D, d, i) IN e.bno = 0 \/ e.bno \in U \/ Waits(S, e.bno, e.type)

Scanning(D, A, U, S, T, h) ==
    /\ S \in Seq(ScanItems) /\ Reserved \subseteq U
    /\ \A j \in 1 .. Len(S) : ItemOk(D, A, T, h, S[j])
    /\ \A d \in T \cap U : Expanded(D, U, S, d) \/ (d = Root /\ Len(S) > 0 /\ S[1].depth = 0)
    /\ \A b \in U \cap Blocks, d \in T, i \in Slots :
          h[b] = <<d, i>> /\ Ent(D, d, i).type = "file" =>
              D[b].next = 0 \/ D[b].next \in U \/ Waits(S, D[b].next, "file")

Good(T, h, p) ==
    /\ Layout(disk, T, h, p, Hang(op))
    /\ CallOk(disk, op, T, h, p)
    /\ MapReady => Marked(used, T, h)
    /\ scan # <<>> => fs_alloc_ready /\ Scanning(disk, DirsAt, used, scan, T, h)

Settled == op # Idle => MapReady

TreeInv == Inv /\ Settled /\ (~ torn => \E T, h, p : Good(T, h, p))

-----------------------------------------------------------------------------
(* One step of a call keeps the tree.                                         *)

LEMMA CallKinds ==
    ASSUME NEW D, NEW o, NEW T, NEW h, NEW p
    PROVE  /\ CallOk(D, o, T, h, p) => NoHold(h, Old)
           /\ o.call = "none" => (CallOk(D, o, T, h, p) <=> Quiet(h) /\ NoHold(h, Old))
           /\ o.call = "store" =>
                (CallOk(D, o, T, h, p) <=> StoreOk(D, o, T, h, p) /\ NoHold(h, Old))
           /\ o.call = "free" =>
                (CallOk(D, o, T, h, p) <=> FreeOk(D, o, T, h, p) /\ NoHold(h, Old))
           /\ o.call = "mkdir" =>
                (CallOk(D, o, T, h, p) <=> MkdirOk(D, o, T, h, p) /\ NoHold(h, Old))
           /\ o.call = "move" =>
                (CallOk(D, o, T, h, p) <=> MoveOk(D, o, T, h, p) /\ NoHold(h, Old))
           /\ o.call # "mkdir" => Hang(o) = 0
           /\ o.call = "mkdir" => Hang(o) = IF o.at = "block" THEN o.cur ELSE 0
BY DEF CallOk, Hang

(* What a call may rely on when it begins. *)
LEMMA AtCall ==
    ASSUME Inv, NEW T, NEW h, NEW p, Good(T, h, p), op = Idle, MapReady
    PROVE  /\ Layout(disk, T, h, p, 0) /\ Marked(used, T, h) /\ Quiet(h)
           /\ NoHold(h, Old)
           /\ Maps(disk, T, h, p) /\ Disk(disk) /\ T \subseteq Blocks
           /\ \A b \in Blocks : h[b] \in Blocks \X Nat /\ p[b] \in Nat
<1>1. op.call = "none"
  BY DEF Idle
<1>2. Layout(disk, T, h, p, 0) /\ Quiet(h) /\ NoHold(h, Old)
  BY <1>1, CallKinds DEF Good
<1>3. Maps(disk, T, h, p)
  BY <1>2 DEF Layout
<1>4. Disk(disk) /\ T \subseteq Blocks /\ \A b \in Blocks : h[b] \in Blocks \X Nat /\ p[b] \in Nat
  BY <1>3 DEF Maps
<1> QED
  BY <1>2, <1>3, <1>4 DEF Good

(* What a later step of a call may rely on. *)
LEMMA InTheCall ==
    ASSUME Inv, Settled, NEW T, NEW h, NEW p, Good(T, h, p), op.call # "none"
    PROVE  /\ MapReady /\ Marked(used, T, h)
           /\ Layout(disk, T, h, p, Hang(op)) /\ CallOk(disk, op, T, h, p)
           /\ NoHold(h, Old)
           /\ Maps(disk, T, h, p) /\ Disk(disk) /\ T \subseteq Blocks
           /\ \A b \in Blocks : h[b] \in Blocks \X Nat /\ p[b] \in Nat
<1>1. op # Idle
  BY DEF Idle
<1>2. MapReady
  BY <1>1 DEF Settled
<1>3. Layout(disk, T, h, p, Hang(op)) /\ CallOk(disk, op, T, h, p) /\ NoHold(h, Old)
  BY CallKinds DEF Good
<1>4. Maps(disk, T, h, p)
  BY <1>3 DEF Layout
<1>5. Disk(disk) /\ T \subseteq Blocks /\ \A b \in Blocks : h[b] \in Blocks \X Nat /\ p[b] \in Nat
  BY <1>4 DEF Maps
<1> QED
  BY <1>2, <1>3, <1>4, <1>5 DEF Good

LEMMA GoodNext ==
    ASSUME NEW T, NEW h, NEW p, scan' = <<>>,
           Layout(disk', T, h, p, Hang(op')), CallOk(disk', op', T, h, p), Marked(used', T, h)
    PROVE  Good(T, h, p)'
BY DEF Good

-----------------------------------------------------------------------------
(* store_file_bytes                                                           *)

(* What find_entry_index and find_free_entry_index find. *)
Lookup(D, d, n) ==
    /\ FindEntry(D[d], n) # 0 =>
          FindEntry(D[d], n) \in Slots /\ Ent(D, d, FindEntry(D[d], n)).name = n
    /\ FindEntry(D[d], n) = 0 => \A j \in Slots : Ent(D, d, j).name # n
    /\ FindFreeEntry(D[d]) # 0 =>
          FindFreeEntry(D[d]) \in Slots /\ Ent(D, d, FindFreeEntry(D[d])).name = ""

LEMMA FoundEntry ==
    ASSUME NEW D, NEW d \in Blocks, NEW n
    PROVE  Lookup(D, d, n)
<1> DEFINE S == {i \in Slots : D[d].ents[i].name = n}
           F == {i \in Slots : D[d].ents[i].name = ""}
<1>1. S \subseteq Nat \ {0} /\ F \subseteq Nat \ {0}
  BY Numbers
<1>2. FindEntry(D[d], n) = First(S) /\ FindFreeEntry(D[d]) = First(F)
  BY DEF FindEntry, FindFreeEntry
<1>3. /\ \A i : i \in S <=> i \in Slots /\ Ent(D, d, i).name = n
      /\ \A i : i \in F <=> i \in Slots /\ Ent(D, d, i).name = ""
  BY DEF Ent
<1> HIDE DEF S, F
<1>4. /\ First(S) # 0 => First(S) \in S
      /\ First(F) # 0 => First(F) \in F
  BY <1>1, FirstIsLeast
<1>5. First(S) = 0 => S = {}
  <2>1. SUFFICES ASSUME First(S) = 0, NEW j \in S PROVE FALSE
    OBVIOUS
  <2>2. \E i \in S : \A k \in S : i <= k
    BY <1>1, <2>1, LeastNat
  <2>3. First(S) \in S
    BY <2>1, <2>2, Zenon DEF First
  <2> QED
    BY <1>1, <2>1, <2>3
<1> QED
  BY <1>2, <1>3, <1>4, <1>5 DEF Lookup

LEMMA StoreBeginTree ==
    ASSUME Inv, Inv', NEW T, NEW h, NEW p, Good(T, h, p), NEW d \in T,
           NEW n \in Names \cup LongNames, NEW k \in StoreSizes, NEW v, StoreBegin(d, n, k, v)
    PROVE  Good(T, h, p)'
<1> DEFINE db == disk[d]
           i  == FindEntry(db, n)
           s  == IF i # 0 THEN i ELSE FindFreeEntry(db)
<1>1. /\ s # 0
      /\ i # 0 => db.ents[i].type = "file"
      /\ op' = [call |-> "store", at |-> "alloc", dir |-> d, db |-> db, slot |-> s,
                leaf |-> n, size |-> k, val |-> v, old |-> db.ents[s].bno,
                first |-> 0, prev |-> 0, cur |-> 0, written |-> 0]
      /\ disk' = disk /\ used' = used /\ scan' = <<>>
      /\ op = Idle /\ MapReady
  BY DEF StoreBegin, CanCall, ram, MapReady
<1>2. /\ Layout(disk, T, h, p, 0) /\ Marked(used, T, h) /\ Quiet(h)
      /\ NoHold(h, Old)
      /\ Disk(disk) /\ T \subseteq Blocks
  BY <1>1, AtCall
<1>3. /\ s \in Slots
      /\ \/ Ent(disk, d, s).name = ""
         \/ Ent(disk, d, s).name = copy_name20(n) /\ Ent(disk, d, s).type = "file"
      /\ copy_name20(n) \in Cut \/ \A j \in Slots : Ent(disk, d, j).name = copy_name20(n) => j = s
  <2>0. d \in Blocks
    BY <1>2
  <2>5. Lookup(disk, d, n)
    BY <2>0, FoundEntry
  <2>3. /\ i # 0 => Ent(disk, d, i).name = n /\ i \in Slots
        /\ i = 0 => \A j \in Slots : Ent(disk, d, j).name # n
        /\ FindFreeEntry(db) # 0 => Ent(disk, d, FindFreeEntry(db)).name = ""
        /\ FindFreeEntry(db) # 0 => FindFreeEntry(db) \in Slots
    BY <2>5 DEF Lookup
  <2>4. s = IF i # 0 THEN i ELSE FindFreeEntry(db)
    OBVIOUS
  <2> HIDE DEF i, s
  <2>1. CASE i # 0
    <3>1. i \in Slots /\ Ent(disk, d, i).name = n /\ s = i
      BY <2>1, <2>3, <2>4
    <3>2. DirOk(disk, T, h, p, 0, d)
      BY <1>2 DEF Layout
    <3>3. n # "" /\ n \in Names /\ copy_name20(n) = n
      <4>1. Ent(disk, d, i).name \in Names \cup {""}
        BY <1>2, <2>0, <3>1, DiskTyped DEF EntryType
      <4> QED
        BY <3>1, <4>1, NamesAssumption, ShortIsName
    <3>4. n \in Cut \/ \A j \in Slots : Ent(disk, d, j).name = n => j = i
      BY <3>1, <3>2, <3>3 DEF DirOk
    <3> QED
      BY <1>1, <2>1, <3>1, <3>3, <3>4 DEF Ent
  <2>2. CASE i = 0
    <3>1. s \in Slots /\ Ent(disk, d, s).name = "" /\ \A j \in Slots : Ent(disk, d, j).name # n
      BY <1>1, <2>2, <2>3, <2>4
    <3>2. copy_name20(n) \in Cut \/ copy_name20(n) = n
      BY ShortIsName
    <3> QED
      BY <3>1, <3>2
  <2> QED
    BY <2>1, <2>2
<1> HIDE DEF s, i
<1>4. StoreOk(disk, op', T, h, p)
  <2>1. /\ op'.dir = d /\ op'.db = disk[d] /\ op'.slot = s /\ Kept(op') = copy_name20(n)
        /\ op'.old = Ent(disk, d, s).bno /\ op'.at = "alloc" /\ op'.written = 0 /\ op'.prev = 0
        /\ op'.size = k
    BY <1>1 DEF Ent, Kept
  <2>2. op'.written < Length(op')
    BY <2>1, InputsAssumption DEF Length
  <2> QED
    BY <1>2, <1>3, <2>1, <2>2 DEF StoreOk, Quiet, NoHold
<1>5. op'.call = "store"
  BY <1>1
<1>6. CallOk(disk', op', T, h, p) /\ Hang(op') = 0
  BY <1>1, <1>2, <1>4, <1>5, CallKinds
<1> QED
  BY <1>1, <1>2, <1>6, GoodNext

(* What a call has in hand when it gives up goes back to nobody. *)
LEMMA Drop ==
    ASSUME NEW D, NEW T, NEW h, NEW p, NEW x, Layout(D, T, h, p, x), NoHold(h, Old)
    PROVE  LET g == Relabel(h, InCall, Nobody)
           IN /\ Layout(D, T, g, p, x) /\ Quiet(g) /\ NoHold(g, Old)
              /\ \A U : Marked(U, T, h) => Marked(U, T, g)
<1> DEFINE g == Relabel(h, InCall, Nobody)
<1>1. \A b \in Blocks : g[b] = IF h[b] = InCall THEN Nobody ELSE h[b]
  BY DEF Relabel
<1>2. h \in [Blocks -> Blocks \X Nat] /\ p \in [Blocks -> Nat]
  BY DEF Layout, Maps
<1>3. Remarks(h, p, g, p)
  BY <1>2, Pairs DEF Remarks, Relabel
<1> HIDE DEF g
<1>4. Layout(D, T, g, p, x)
  BY <1>3, Remarked
<1>5. Quiet(g) /\ NoHold(g, Old)
  BY <1>1, Pairs DEF Quiet, NoHold
<1>6. \A U : Marked(U, T, h) => Marked(U, T, g)
  BY <1>1 DEF Marked
<1> QED
  BY <1>4, <1>5, <1>6 DEF g

(* The block that balloc finds belongs to nobody. *)
LEMMA FreeBlock ==
    ASSUME Inv, NEW T, NEW h, NEW p, Maps(disk, T, h, p), Marked(used, T, h), NextFree # 0
    PROVE  /\ NextFree \in Blocks /\ NextFree >= FIRST_BLOCK /\ NextFree # Root
           /\ NextFree \notin T /\ h[NextFree] = Nobody /\ NextFree \notin used
<1>1. /\ NextFree \in Blocks /\ NextFree >= next_free_block /\ NextFree \notin used
  <2> DEFINE S == {b \in Blocks : b >= next_free_block /\ b \notin used}
  <2>1. S \subseteq Nat /\ NextFree = First(S)
    BY Numbers DEF NextFree
  <2> HIDE DEF S
  <2>2. NextFree \in S
    BY <2>1, FirstIsLeast
  <2> QED
    BY <2>2 DEF S
<1>2. NextFree >= FIRST_BLOCK /\ NextFree # Root
  BY <1>1, Numbers DEF Inv, TypeOK
<1> QED
  BY <1>1, <1>2 DEF Marked

(* Block c is zeroed and in the call's hands, the others are as before. *)
Given(D, E, U, T, h, p, c, k, g, q) ==
    /\ Layout(E, T, g, q, 0) /\ Marked(U \cup {c}, T, g)
    /\ g[c] = InCall /\ q[c] = k /\ E[c] = ZeroBlock
    /\ \A b \in Blocks \ {c} : g[b] = h[b] /\ q[b] = p[b] /\ E[b] = D[b]

(* balloc writes zeroes into the block that it hands to the call. *)
LEMMA Allocated ==
    ASSUME Inv, NEW T, NEW h, NEW p, Layout(disk, T, h, p, 0), Marked(used, T, h), NextFree # 0,
           NEW k \in Nat, NEW E, E = [disk EXCEPT ![NextFree] = ZeroBlock]
    PROVE  \E g, q : Given(disk, E, used, T, h, p, NextFree, k, g, q)
<1> DEFINE g == [h EXCEPT ![NextFree] = InCall]
           q == [p EXCEPT ![NextFree] = k]
<1>0. /\ Maps(disk, T, h, p) /\ Disk(disk) /\ T \subseteq Blocks
      /\ h \in [Blocks -> Blocks \X Nat] /\ p \in [Blocks -> Nat]
  BY DEF Layout, Maps
<1>1. /\ NextFree \in Blocks /\ NextFree >= FIRST_BLOCK /\ NextFree # Root
      /\ NextFree \notin T /\ h[NextFree] = Nobody
  BY <1>0, FreeBlock
<1>2. Disk(E) /\ E[NextFree] = ZeroBlock /\ \A b \in Blocks \ {NextFree} : E[b] = disk[b]
  BY <1>0, <1>1, ConstantTypes DEF Disk
<1>3. /\ g \in [Blocks -> Blocks \X Nat] /\ q \in [Blocks -> Nat]
      /\ g[NextFree] = InCall /\ q[NextFree] = k
      /\ \A b \in Blocks \ {NextFree} : g[b] = h[b] /\ q[b] = p[b]
  BY <1>0, <1>1, Pairs
<1> HIDE DEF g, q
<1>4. Layout(E, T, h, p, 0)
  <2>1. \A d \in T : E[d].magic = disk[d].magic /\ E[d].ents = disk[d].ents
    BY <1>0, <1>1, <1>2
  <2>2. \A b \in Blocks : h[b] \notin Marks /\ b \notin T /\ b >= FIRST_BLOCK =>
               E[b].magic = disk[b].magic /\ E[b].next = disk[b].next /\ E[b].data = disk[b].data
    BY <1>1, <1>2, Pairs
  <2>3. E[Root].magic = "dir" => disk[Root].magic = "dir"
    BY <1>1, <1>2, Numbers
  <2>4. SameTree(disk, E, T, h)
    BY <2>1, <2>2, <2>3 DEF SameTree
  <2> QED
    BY <1>2, <2>4, DiskFrame
<1>5. Remarks(h, p, g, q)
  BY <1>1, <1>3, Pairs DEF Remarks
<1>6. Layout(E, T, g, q, 0)
  BY <1>4, <1>5, Remarked
<1>7. Marked(used \cup {NextFree}, T, g)
  BY <1>1, <1>3 DEF Marked
<1> QED
  BY <1>2, <1>3, <1>6, <1>7 DEF Given

LEMMA StoreTyped ==
    ASSUME Inv, op.call = "store"
    PROVE  /\ op \in StoreOps /\ op.written \in Nat /\ op.size \in Nat /\ op.slot \in Slots
           /\ op.cur \in Blocks /\ op.prev \in Blocks /\ op.first \in Blocks /\ op.dir \in Blocks
           /\ Length(op) \in Nat /\ Length(op) > 0
<1>1. op \in StoreOps
  BY OpKinds DEF Inv
<1>2. /\ op.written \in Nat /\ op.size \in Nat /\ op.slot \in Slots
      /\ op.cur \in Blocks /\ op.prev \in Blocks /\ op.first \in Blocks /\ op.dir \in Blocks
  BY <1>1, InputsAssumption DEF StoreOps
<1> QED
  BY <1>1, <1>2 DEF Length

(* What a step of the store loop leaves alone. *)
SameStore(D, E, o, r) ==
    /\ E[o.dir] = D[o.dir] /\ r.dir = o.dir /\ r.db = o.db /\ r.slot = o.slot /\ r.leaf = o.leaf
    /\ r.old = o.old /\ r.size = o.size /\ r.val = o.val

(* The part of StoreOk that is about the directory. *)
StoreDir(D, o, T) ==
    /\ o.dir \in T /\ o.db = D[o.dir] /\ o.old = Ent(D, o.dir, o.slot).bno
    /\ \/ Ent(D, o.dir, o.slot).name = ""
       \/ Ent(D, o.dir, o.slot).name = Kept(o) /\ Ent(D, o.dir, o.slot).type = "file"
    /\ Kept(o) \in Cut \/ \A j \in Slots : Ent(D, o.dir, j).name = Kept(o) => j = o.slot

LEMMA StoreDirFrame ==
    ASSUME NEW D, NEW E, NEW o, NEW r, NEW T, SameStore(D, E, o, r), StoreDir(D, o, T)
    PROVE  StoreDir(E, r, T) /\ Length(r) = Length(o)
<1>1. \A j : Ent(E, o.dir, j) = Ent(D, o.dir, j)
  BY DEF SameStore, Ent
<1> QED
  BY <1>1 DEF SameStore, StoreDir, Length, Kept

LEMMA StoreOkSplit ==
    ASSUME NEW D, NEW o, NEW T, NEW h, NEW p
    PROVE  StoreOk(D, o, T, h, p) <=>
             /\ StoreDir(D, o, T)
             /\ IF o.at = "commit" THEN o.written = Length(o) ELSE o.written < Length(o)
             /\ IF o.written = 0 THEN o.prev = 0 /\ o.at # "link"
                ELSE /\ h[o.prev] = InCall /\ p[o.prev] = o.written - 1 /\ o.prev # 0
                     /\ h[o.first] = InCall /\ p[o.first] = 0
             /\ o.at \in {"write", "link"} => h[o.cur] = InCall /\ p[o.cur] = o.written
             /\ o.at = "link" =>
                   /\ D[o.cur].magic = "data" /\ D[o.cur].next = 0
                   /\ o.size # 0 => D[o.cur].data = <<o.val, o.written>>
             /\ \A b \in Blocks : h[b] = InCall => Built(D, o, T, h, p, b)
BY DEF StoreOk, StoreDir

LEMMA StoreAllocTree ==
    ASSUME Inv, Inv', Settled, NEW T, NEW h, NEW p, Good(T, h, p), StoreAlloc
    PROVE  \E g, q : Good(T, g, q)'
<1>1. op.call = "store" /\ op.at = "alloc" /\ scan' = scan /\ fs_alloc_ready' = fs_alloc_ready
  BY DEF StoreAlloc, Take, ram
<1>2. /\ MapReady /\ Marked(used, T, h) /\ Layout(disk, T, h, p, Hang(op))
      /\ CallOk(disk, op, T, h, p) /\ NoHold(h, Old)
      /\ Maps(disk, T, h, p) /\ Disk(disk) /\ T \subseteq Blocks
      /\ \A b \in Blocks : h[b] \in Blocks \X Nat /\ p[b] \in Nat
  BY <1>1, InTheCall
<1>3. Layout(disk, T, h, p, 0) /\ StoreOk(disk, op, T, h, p) /\ scan' = <<>>
  BY <1>1, <1>2, CallKinds DEF MapReady
<1>4. CASE NextFree = 0
  <2> DEFINE g == Relabel(h, InCall, Nobody)
  <2>1. op' = Idle /\ disk' = disk /\ used' = used
    BY <1>4 DEF StoreAlloc, ram
  <2>2. /\ Layout(disk, T, g, p, 0) /\ Quiet(g) /\ NoHold(g, Old)
        /\ \A U : Marked(U, T, h) => Marked(U, T, g)
    BY <1>2, <1>3, Drop
  <2> HIDE DEF g
  <2>3. op'.call = "none"
    BY <2>1 DEF Idle
  <2>4. CallOk(disk', op', T, g, p) /\ Hang(op') = 0
    BY <2>2, <2>3, CallKinds
  <2>5. Good(T, g, p)'
    BY <1>2, <1>3, <2>1, <2>2, <2>4, GoodNext
  <2> QED
    BY <2>5
<1>5. CASE NextFree # 0
  <2> DEFINE b0 == NextFree
  <2>1. /\ op' = [op EXCEPT !.at = "write", !.cur = b0] /\ disk' = [disk EXCEPT ![b0] = ZeroBlock]
        /\ used' = used \cup {b0}
    BY <1>5 DEF StoreAlloc, Take
  <2>2. /\ b0 \in Blocks /\ b0 >= FIRST_BLOCK /\ b0 \notin T /\ h[b0] = Nobody
    BY <1>2, <1>5, FreeBlock
  <2>3. PICK g, q : Given(disk, disk', used, T, h, p, b0, op.written, g, q)
    <3>1. op.written \in Nat
      BY <1>1, StoreTyped
    <3> QED
      BY <1>2, <1>3, <1>5, <2>1, <3>1, Allocated
  <2>4. /\ op.written \in Nat /\ op.prev \in Blocks /\ op.first \in Blocks /\ op \in StoreOps
        /\ Length(op) \in Nat
    BY <1>1, StoreTyped
  <2> HIDE DEF b0
  <2> USE DEF Given
  <2>5. /\ op'.call = "store" /\ op'.at = "write" /\ op'.cur = b0 /\ op'.written = op.written
        /\ op'.prev = op.prev /\ op'.first = op.first /\ op'.size = op.size /\ op'.val = op.val
        /\ op'.dir = op.dir /\ op'.db = op.db /\ op'.slot = op.slot /\ op'.leaf = op.leaf
        /\ op'.old = op.old
    BY <1>1, <2>1, <2>4 DEF StoreOps
  <2>6. /\ StoreDir(disk, op, T) /\ op.written < Length(op)
        /\ IF op.written = 0 THEN op.prev = 0
           ELSE /\ h[op.prev] = InCall /\ p[op.prev] = op.written - 1 /\ op.prev # 0
                /\ h[op.first] = InCall /\ p[op.first] = 0
        /\ \A b \in Blocks : h[b] = InCall => Built(disk, op, T, h, p, b)
    BY <1>1, <1>3, StoreOkSplit
  <2>7. StoreDir(disk', op', T) /\ Length(op') = Length(op)
    <3>1. op.dir # b0 /\ op.dir \in Blocks
      BY <1>2, <2>2, <2>6 DEF StoreDir
    <3>2. SameStore(disk, disk', op, op')
      BY <2>3, <2>5, <3>1 DEF SameStore
    <3> QED
      BY <2>6, <3>2, StoreDirFrame
  <2>8. ASSUME NEW b \in Blocks, g[b] = InCall PROVE Built(disk', op', T, g, q, b)
    <3>1. CASE b = b0
      BY <2>2, <2>3, <2>5, <3>1 DEF Built
    <3>2. CASE b # b0
      <4>1. /\ Linked(disk, T, h, p, InCall, op.written, op, b)
            /\ p[b] + 1 = op.written => b = op.prev
            /\ b \notin T /\ b >= FIRST_BLOCK
        BY <1>1, <2>3, <2>6, <2>8, <3>2 DEF Built
      <4>2. disk[b].next \in Blocks /\ (h[disk[b].next] = InCall => disk[b].next # b0)
        BY <1>2, <2>2, DiskTyped, Pairs
      <4>3. g[b] = h[b] /\ q[b] = p[b] /\ disk'[b] = disk[b]
        BY <2>3, <3>2
      <4>4. Linked(disk', T, g, q, InCall, op'.written, op', b)
        BY <2>3, <2>5, <4>1, <4>2, <4>3 DEF Linked
      <4> QED
        BY <2>5, <4>1, <4>3, <4>4 DEF Built
    <3> QED
      BY <3>1, <3>2
  <2>9. StoreOk(disk', op', T, g, q)
    <3>1. op.written # 0 =>
             /\ g[op.prev] = InCall /\ q[op.prev] = op.written - 1 /\ op.prev # 0
             /\ g[op.first] = InCall /\ q[op.first] = 0
      BY <2>2, <2>3, <2>4, <2>6, Pairs
    <3> QED
      BY <2>3, <2>5, <2>6, <2>7, <2>8, <3>1, StoreOkSplit
  <2>10. NoHold(g, Old)
    BY <1>2, <2>3, Pairs DEF NoHold
  <2>11. CallOk(disk', op', T, g, q) /\ Hang(op') = 0
    BY <2>5, <2>9, <2>10, CallKinds
  <2>12. Good(T, g, q)'
    BY <1>3, <2>1, <2>3, <2>11, GoodNext
  <2> QED
    BY <2>12
<1> QED
  BY <1>4, <1>5

Put(D, E, c, B) == E = [D EXCEPT ![c] = B]

(* A write to a block that no entry has. *)
LEMMA CallWrite ==
    ASSUME NEW D, NEW T, NEW h, NEW p, NEW x, Layout(D, T, h, p, x), NEW c \in Blocks,
           h[c] \in Marks, c \notin T, c # Root, NEW B \in BlockType, NEW E, Put(D, E, c, B)
    PROVE  Layout(E, T, h, p, x) /\ E[c] = B /\ \A b \in Blocks \ {c} : E[b] = D[b]
<1>0. Disk(D) /\ T \subseteq Blocks
  BY DEF Layout, Maps
<1>1. Disk(E) /\ E[c] = B /\ \A b \in Blocks \ {c} : E[b] = D[b]
  BY <1>0 DEF Disk, Put
<1>2. SameTree(D, E, T, h)
  <2>1. \A d \in T : E[d] = D[d]
    BY <1>0, <1>1
  <2>2. \A b \in Blocks : h[b] \notin Marks => E[b] = D[b]
    BY <1>1
  <2>3. E[Root] = D[Root]
    BY <1>1, Numbers
  <2> QED
    BY <2>1, <2>2, <2>3 DEF SameTree
<1> QED
  BY <1>1, <1>2, DiskFrame

(* The state of a store between two of its steps. *)
LEMMA StoreState ==
    ASSUME Inv, Settled, NEW T, NEW h, NEW p, Good(T, h, p), op.call = "store"
    PROVE  /\ Layout(disk, T, h, p, 0) /\ Marked(used, T, h) /\ NoHold(h, Old)
           /\ scan = <<>> /\ StoreOk(disk, op, T, h, p)
           /\ Disk(disk) /\ T \subseteq Blocks /\ \A b \in Blocks : p[b] \in Nat
<1>1. /\ MapReady /\ Marked(used, T, h) /\ Layout(disk, T, h, p, Hang(op))
      /\ CallOk(disk, op, T, h, p) /\ NoHold(h, Old)
      /\ Disk(disk) /\ T \subseteq Blocks
      /\ \A b \in Blocks : h[b] \in Blocks \X Nat /\ p[b] \in Nat
  BY InTheCall
<1> QED
  BY <1>1, CallKinds DEF MapReady

LEMMA StoreNext ==
    ASSUME NEW T, NEW h, NEW p, scan' = <<>>, Layout(disk', T, h, p, 0), op'.call = "store",
           StoreOk(disk', op', T, h, p), NoHold(h, Old), Marked(used', T, h)
    PROVE  Good(T, h, p)'
<1>1. CallOk(disk', op', T, h, p) /\ Hang(op') = 0
  BY CallKinds
<1> QED
  BY <1>1, GoodNext

LEMMA StoreRoundFields ==
    ASSUME Inv, op.call = "store", StoreRound
    PROVE  /\ op'.call = "store" /\ op'.prev = op.cur /\ op'.written = op.written + 1
           /\ op'.first = IF op.prev = 0 THEN op.cur ELSE op.first
           /\ op'.at = IF op.written + 1 < op.size THEN "alloc" ELSE "commit"
           /\ op'.size = op.size /\ op'.val = op.val
           /\ op'.dir = op.dir /\ op'.db = op.db /\ op'.slot = op.slot /\ op'.leaf = op.leaf
           /\ op'.old = op.old
<1>1. op \in StoreOps
  BY StoreTyped
<1> QED
  BY <1>1 DEF StoreOps, StoreRound

LEMMA StoreWriteTree ==
    ASSUME Inv, Inv', Settled, NEW T, NEW h, NEW p, Good(T, h, p), StoreWrite
    PROVE  Good(T, h, p)'
<1> DEFINE c == op.cur
           B == DataBlock(Payload(op), op.written)
<1>1. /\ op.call = "store" /\ op.at = "write" /\ scan' = scan /\ used' = used
      /\ disk' = [disk EXCEPT ![c] = B]
  BY DEF StoreWrite, ram
<1>2. /\ Layout(disk, T, h, p, 0) /\ Marked(used, T, h) /\ NoHold(h, Old)
      /\ scan = <<>> /\ StoreOk(disk, op, T, h, p)
      /\ Disk(disk) /\ T \subseteq Blocks /\ \A b \in Blocks : p[b] \in Nat
  BY <1>1, StoreState
<1>3. /\ op \in StoreOps /\ op.written \in Nat /\ op.size \in Nat
      /\ op.cur \in Blocks /\ op.prev \in Blocks /\ op.first \in Blocks /\ op.dir \in Blocks
      /\ Length(op) \in Nat
  BY <1>1, StoreTyped
<1>4. /\ StoreDir(disk, op, T) /\ op.written < Length(op)
      /\ IF op.written = 0 THEN op.prev = 0
         ELSE /\ h[op.prev] = InCall /\ p[op.prev] = op.written - 1 /\ op.prev # 0
              /\ h[op.first] = InCall /\ p[op.first] = 0
      /\ h[c] = InCall /\ p[c] = op.written
      /\ \A b \in Blocks : h[b] = InCall => Built(disk, op, T, h, p, b)
  BY <1>1, <1>2, StoreOkSplit
<1>5. c \notin T /\ c >= FIRST_BLOCK /\ c # Root
  <2>1. Built(disk, op, T, h, p, c)
    BY <1>3, <1>4
  <2> QED
    BY <2>1, Numbers DEF Built
<1>6. /\ B \in BlockType /\ B.magic = "data" /\ B.next = 0
      /\ op.size # 0 => B.data = <<op.val, op.written>>
  <2>1. Payload(op) \in Contents \cup {"none"}
    BY <1>3 DEF Payload, StoreOps
  <2> QED
    BY <1>3, <2>1, ConstantTypes DEF DataBlock, Block, Payload
<1>7. Layout(disk', T, h, p, 0) /\ disk'[c] = B /\ \A b \in Blocks \ {c} : disk'[b] = disk[b]
  <2>1. c \in Blocks /\ h[c] \in Marks /\ c \notin T /\ c # Root /\ B \in BlockType
    BY <1>3, <1>4, <1>5, <1>6, Pairs
  <2>2. Put(disk, disk', c, B) /\ Layout(disk, T, h, p, 0)
    BY <1>1, <1>2 DEF Put
  <2> HIDE DEF B, c
  <2> QED
    BY <2>1, <2>2, CallWrite
<1> HIDE DEF B, c
<1>8. disk'[op.dir] = disk[op.dir]
  BY <1>3, <1>4, <1>5, <1>7 DEF StoreDir
<1>9. CASE op.prev # 0
  <2>1. op' = [op EXCEPT !.at = "link"]
    BY <1>9 DEF StoreWrite
  <2>2. /\ op'.call = "store" /\ op'.at = "link" /\ op'.cur = c /\ op'.written = op.written
        /\ op'.prev = op.prev /\ op'.first = op.first /\ op'.size = op.size /\ op'.val = op.val
        /\ op'.dir = op.dir /\ op'.db = op.db /\ op'.slot = op.slot /\ op'.leaf = op.leaf
        /\ op'.old = op.old
    BY <1>1, <1>3, <2>1 DEF StoreOps, c
  <2>3. StoreDir(disk', op', T) /\ Length(op') = Length(op)
    <3>1. SameStore(disk, disk', op, op')
      BY <1>8, <2>2 DEF SameStore
    <3> QED
      BY <1>4, <3>1, StoreDirFrame
  <2>4. ASSUME NEW b \in Blocks, h[b] = InCall PROVE Built(disk', op', T, h, p, b)
    <3>1. CASE b = c
      BY <1>4, <1>5, <2>2, <3>1 DEF Built
    <3>2. CASE b # c
      <4>1. /\ Linked(disk, T, h, p, InCall, op.written, op, b)
            /\ p[b] + 1 = op.written => b = op.prev
            /\ b \notin T /\ b >= FIRST_BLOCK
        BY <1>4, <2>4, <3>2 DEF Built, c
      <4>2. disk'[b] = disk[b]
        BY <1>7, <3>2
      <4>3. Linked(disk', T, h, p, InCall, op'.written, op', b)
        BY <2>2, <4>1, <4>2 DEF Linked
      <4> QED
        BY <2>2, <4>1, <4>3 DEF Built
    <3> QED
      BY <3>1, <3>2
  <2>5. StoreOk(disk', op', T, h, p)
    BY <1>4, <1>6, <1>7, <1>9, <2>2, <2>3, <2>4, StoreOkSplit
  <2> QED
    BY <1>1, <1>2, <1>7, <2>2, <2>5, StoreNext
<1>10. CASE op.prev = 0
  <2>1. StoreRound /\ op.written = 0
    BY <1>3, <1>4, <1>10 DEF StoreWrite
  <2>2. /\ op'.call = "store" /\ op'.prev = c /\ op'.written = 1 /\ op'.first = c
        /\ op'.at = IF 1 < op.size THEN "alloc" ELSE "commit"
        /\ op'.size = op.size /\ op'.val = op.val
        /\ op'.dir = op.dir /\ op'.db = op.db /\ op'.slot = op.slot /\ op'.leaf = op.leaf
        /\ op'.old = op.old
    BY <1>1, <1>10, <2>1, StoreRoundFields DEF c
  <2>3. StoreDir(disk', op', T) /\ Length(op') = Length(op)
    <3>1. SameStore(disk, disk', op, op')
      BY <1>8, <2>2 DEF SameStore
    <3> QED
      BY <1>4, <3>1, StoreDirFrame
  <2>4. ASSUME NEW b \in Blocks, h[b] = InCall PROVE Built(disk', op', T, h, p, b)
    <3>1. b = c
      BY <1>2, <1>4, <2>1, <2>4 DEF Built, Linked, c
    <3>2. Linked(disk', T, h, p, InCall, op'.written, op', b)
      BY <1>4, <1>5, <1>6, <1>7, <2>1, <2>2, <3>1 DEF Linked
    <3> QED
      BY <1>5, <2>2, <3>1, <3>2 DEF Built
  <2>5. op'.at \in {"alloc", "commit"} /\
        IF op'.at = "commit" THEN op'.written = Length(op') ELSE op'.written < Length(op')
    BY <1>3, <2>2, <2>3 DEF Length
  <2>6. h[op'.prev] = InCall /\ p[op'.prev] = op'.written - 1 /\ op'.prev # 0
        /\ h[op'.first] = InCall /\ p[op'.first] = 0 /\ op'.written # 0
    BY <1>3, <1>4, <1>5, <2>1, <2>2, Numbers DEF c
  <2>7. StoreOk(disk', op', T, h, p)
    BY <2>3, <2>4, <2>5, <2>6, StoreOkSplit
  <2> QED
    BY <1>1, <1>2, <1>7, <2>2, <2>7, StoreNext
<1> QED
  BY <1>9, <1>10

LEMMA StoreLinkTree ==
    ASSUME Inv, Inv', Settled, NEW T, NEW h, NEW p, Good(T, h, p), StoreLink
    PROVE  Good(T, h, p)'
<1> DEFINE c == op.cur
           a == op.prev
           B == [disk[a] EXCEPT !.next = c]
<1>1. /\ op.call = "store" /\ op.at = "link" /\ scan' = scan /\ used' = used
      /\ disk' = [disk EXCEPT ![a].next = c] /\ StoreRound
  BY DEF StoreLink, ram
<1>2. /\ Layout(disk, T, h, p, 0) /\ Marked(used, T, h) /\ NoHold(h, Old)
      /\ scan = <<>> /\ StoreOk(disk, op, T, h, p)
      /\ Disk(disk) /\ T \subseteq Blocks /\ \A b \in Blocks : p[b] \in Nat
  BY <1>1, StoreState
<1>3. /\ op \in StoreOps /\ op.written \in Nat /\ op.size \in Nat
      /\ op.cur \in Blocks /\ op.prev \in Blocks /\ op.first \in Blocks /\ op.dir \in Blocks
      /\ Length(op) \in Nat
  BY <1>1, StoreTyped
<1>4. /\ StoreDir(disk, op, T) /\ op.written < Length(op) /\ op.written # 0
      /\ h[a] = InCall /\ p[a] = op.written - 1 /\ a # 0
      /\ h[op.first] = InCall /\ p[op.first] = 0
      /\ h[c] = InCall /\ p[c] = op.written
      /\ disk[c].magic = "data" /\ disk[c].next = 0
      /\ op.size # 0 => disk[c].data = <<op.val, op.written>>
      /\ \A b \in Blocks : h[b] = InCall => Built(disk, op, T, h, p, b)
  BY <1>1, <1>2, StoreOkSplit
<1>5. a \notin T /\ a >= FIRST_BLOCK /\ a # Root /\ c \notin T /\ c >= FIRST_BLOCK /\ c # 0 /\ a # c
  BY <1>3, <1>4, Numbers DEF Built
<1>6. /\ B \in BlockType /\ B.magic = disk[a].magic /\ B.next = c /\ B.data = disk[a].data
  <2>1. disk[a] \in BlockType
    BY <1>2, <1>3, DiskTyped
  <2> QED
    BY <1>3, <2>1 DEF BlockType
<1>7. Layout(disk', T, h, p, 0) /\ disk'[a] = B /\ \A b \in Blocks \ {a} : disk'[b] = disk[b]
  <2>1. a \in Blocks /\ h[a] \in Marks /\ a \notin T /\ a # Root /\ B \in BlockType
    BY <1>3, <1>4, <1>5, <1>6, Pairs
  <2>2. Put(disk, disk', a, B) /\ Layout(disk, T, h, p, 0)
    BY <1>1, <1>2 DEF Put
  <2> HIDE DEF B, a
  <2> QED
    BY <2>1, <2>2, CallWrite
<1>0. c = op.cur /\ a = op.prev
  OBVIOUS
<1> HIDE DEF B, c, a
<1>8. disk'[op.dir] = disk[op.dir]
  BY <1>3, <1>4, <1>5, <1>7 DEF StoreDir
<1>9. /\ op'.call = "store" /\ op'.prev = c /\ op'.written = op.written + 1 /\ op'.first = op.first
      /\ op'.at = IF op.written + 1 < op.size THEN "alloc" ELSE "commit"
      /\ op'.size = op.size /\ op'.val = op.val
      /\ op'.dir = op.dir /\ op'.db = op.db /\ op'.slot = op.slot /\ op'.leaf = op.leaf
      /\ op'.old = op.old
  BY <1>0, <1>1, <1>4, StoreRoundFields
<1>10. StoreDir(disk', op', T) /\ Length(op') = Length(op)
  <2>1. SameStore(disk, disk', op, op')
    BY <1>8, <1>9 DEF SameStore
  <2> QED
    BY <1>4, <2>1, StoreDirFrame
<1>11. ASSUME NEW b \in Blocks, h[b] = InCall PROVE Built(disk', op', T, h, p, b)
  <2>1. CASE b = c
    <3>1. disk'[b] = disk[c]
      BY <1>5, <1>7, <2>1
    <3>2. Linked(disk', T, h, p, InCall, op'.written, op', b)
      BY <1>3, <1>4, <1>5, <1>9, <2>1, <3>1 DEF Linked
    <3> QED
      BY <1>5, <1>9, <2>1, <3>2 DEF Built
  <2>2. CASE b # c
    <3>1. /\ Linked(disk, T, h, p, InCall, op.written, op, b)
          /\ p[b] + 1 = op.written => b = a
          /\ b \notin T /\ b >= FIRST_BLOCK /\ p[b] \in Nat
      BY <1>0, <1>2, <1>4, <1>11, <2>2 DEF Built
    <3>2. Linked(disk', T, h, p, InCall, op'.written, op', b)
      <4>1. CASE b = a
        BY <1>3, <1>4, <1>6, <1>7, <1>9, <3>1, <4>1 DEF Linked
      <4>2. CASE b # a
        <5>1. disk'[b] = disk[b]
          BY <1>7, <4>2
        <5> QED
          BY <1>3, <1>9, <3>1, <4>2, <5>1 DEF Linked
      <4> QED
        BY <4>1, <4>2
    <3>3. p[b] + 1 # op'.written
      BY <1>3, <1>9, <3>1 DEF Linked
    <3> QED
      BY <3>1, <3>2, <3>3 DEF Built
  <2> QED
    BY <2>1, <2>2
<1>12. op'.at \in {"alloc", "commit"} /\
       IF op'.at = "commit" THEN op'.written = Length(op') ELSE op'.written < Length(op')
  BY <1>3, <1>4, <1>9, <1>10 DEF Length
<1>13. h[op'.prev] = InCall /\ p[op'.prev] = op'.written - 1 /\ op'.prev # 0
       /\ h[op'.first] = InCall /\ p[op'.first] = 0 /\ op'.written # 0
  BY <1>3, <1>4, <1>5, <1>9
<1>14. StoreOk(disk', op', T, h, p)
  BY <1>10, <1>11, <1>12, <1>13, StoreOkSplit
<1> QED
  BY <1>1, <1>2, <1>7, <1>9, <1>14, StoreNext

LEMMA RelabelAt ==
    ASSUME NEW h, NEW w, NEW v, NEW b \in Blocks
    PROVE  Relabel(h, w, v)[b] = IF h[b] = w THEN v ELSE h[b]
BY DEF Relabel

LEMMA MarkedRelabel ==
    ASSUME NEW U, NEW T, NEW h, NEW w, NEW v, Marked(U, T, h), w # Nobody
    PROVE  Marked(U, T, Relabel(h, w, v))
BY RelabelAt DEF Marked

LEMMA NoHoldRelabel ==
    ASSUME NEW h, NEW w, NEW v, NEW u, NoHold(h, u) \/ u = w, u # v
    PROVE  NoHold(Relabel(h, w, v), u)
BY RelabelAt DEF NoHold

(* The chain of an entry that has left its directory is handed to fs_free_chain. *)
LEMMA Freed ==
    ASSUME NEW D, NEW T, NEW h, NEW p, Layout(D, T, h, p, 0), Quiet(h), NEW e, e.bno \in Blocks,
           e.type = "file", Carried(D, T, h, p, 0, e, Old), NEW o, o.cur = e.bno
    PROVE  /\ Layout(D, T, Relabel(h, Old, InCall), p, 0)
           /\ FreeOk(D, o, T, Relabel(h, Old, InCall), p) /\ e.bno # 0
<1> DEFINE g == Relabel(h, Old, InCall)
<1>0. h \in [Blocks -> Blocks \X Nat] /\ p \in [Blocks -> Nat] /\ Disk(D)
  BY DEF Layout, Maps
<1>1. \A b \in Blocks : g[b] = IF h[b] = Old THEN InCall ELSE h[b]
  BY RelabelAt
<1>2. Remarks(h, p, g, p)
  BY <1>0, Pairs DEF Remarks, Relabel
<1> HIDE DEF g
<1>3. Layout(D, T, g, p, 0)
  BY <1>2, Remarked
<1>4. h[e.bno] = Old /\ p[e.bno] = 0
  BY DEF Carried, EntryOk
<1>5. ASSUME NEW b \in Blocks, g[b] = InCall
      PROVE  /\ b \notin T /\ b >= FIRST_BLOCK /\ D[b].magic = "data" /\ p[o.cur] <= p[b]
             /\ D[b].next = 0 \/ (g[D[b].next] = InCall /\ p[D[b].next] = p[b] + 1)
  <2>1. h[b] = Old
    BY <1>1, <1>5 DEF Quiet, NoHold
  <2>2. BlockOk(D, T, h, p, e, Old, b)
    BY <2>1 DEF Carried
  <2>3. Linked(D, T, h, p, Old, Length(e), e, b)
    BY <2>2 DEF BlockOk
  <2>4. D[b].next \in Blocks /\ p[b] \in Nat
    BY <1>0, DiskTyped
  <2>5. /\ b \notin T /\ b >= FIRST_BLOCK /\ D[b].magic = "data"
        /\ D[b].next = 0 \/ (h[D[b].next] = Old /\ p[D[b].next] = p[b] + 1)
    BY <2>3 DEF Linked
  <2>6. p[o.cur] <= p[b]
    BY <1>4, <2>4
  <2> QED
    BY <1>1, <2>4, <2>5, <2>6
<1>6. g[o.cur] = InCall
  BY <1>1, <1>4
<1>7. FreeOk(D, o, T, g, p)
  BY <1>5, <1>6 DEF FreeOk
<1>8. e.bno # 0
  BY <1>5, <1>6, Numbers
<1> QED
  BY <1>3, <1>7, <1>8 DEF g

(* fs_free_chain begins. *)
LEMMA FreeBegins ==
    ASSUME NEW T, NEW h, NEW p, Layout(disk', T, h, p, 0), Quiet(h), NEW e, e.bno \in Blocks,
           e.type = "file", Carried(disk', T, h, p, 0, e, Old), ThenFree(e.bno),
           scan' = <<>>, Marked(used', T, h)
    PROVE  \E g, q : Good(T, g, q)'
<1> DEFINE o == [call |-> "free", cur |-> e.bno]
           g == Relabel(h, Old, InCall)
<1>1. o.cur = e.bno
  OBVIOUS
<1>2. Layout(disk', T, g, p, 0) /\ FreeOk(disk', o, T, g, p) /\ e.bno # 0
  BY <1>1, Freed
<1>3. op' = o
  BY <1>2 DEF ThenFree
<1>4. Marked(used', T, g) /\ NoHold(g, Old)
  BY MarkedRelabel, NoHoldRelabel, Pairs
<1>5. o.call = "free"
  OBVIOUS
<1> HIDE DEF o, g
<1>6. CallOk(disk', op', T, g, p) /\ Hang(op') = 0
  BY <1>2, <1>3, <1>4, <1>5, CallKinds
<1>7. Good(T, g, p)'
  BY <1>2, <1>4, <1>6, GoodNext
<1> QED
  BY <1>7

(* A call ends. *)
LEMMA CallEnds ==
    ASSUME NEW T, NEW h, NEW p, Layout(disk', T, h, p, 0), Quiet(h), NoHold(h, Old), op' = Idle,
           scan' = <<>>, Marked(used', T, h)
    PROVE  Good(T, h, p)'
<1>1. op'.call = "none"
  BY DEF Idle
<1>2. CallOk(disk', op', T, h, p) /\ Hang(op') = 0
  BY <1>1, CallKinds
<1> QED
  BY <1>2, GoodNext

LEMMA StoreCommitTree ==
    ASSUME Inv, Inv', Settled, NEW T, NEW h, NEW p, Good(T, h, p), StoreCommit
    PROVE  \E g, q : Good(T, g, q)'
<1> DEFINE d == op.dir
           s == op.slot
           e == [name |-> copy_name20(op.leaf), type |-> "file", bno |-> op.first, size |-> op.size, val |-> op.val]
<1>1. /\ op.call = "store" /\ op.at = "commit" /\ scan' = scan /\ used' = used
      /\ disk' = [disk EXCEPT ![d] = [op.db EXCEPT !.ents[s] = e]] /\ ThenFree(op.old)
  BY DEF StoreCommit, ram
<1>2. /\ Layout(disk, T, h, p, 0) /\ Marked(used, T, h) /\ NoHold(h, Old)
      /\ scan = <<>> /\ StoreOk(disk, op, T, h, p)
      /\ Disk(disk) /\ T \subseteq Blocks /\ \A b \in Blocks : p[b] \in Nat
  BY <1>1, StoreState
<1>3. /\ op \in StoreOps /\ op.written \in Nat /\ op.size \in Nat /\ s \in Slots
      /\ op.first \in Blocks /\ d \in Blocks /\ Length(op) \in Nat /\ Length(op) > 0
  BY <1>1, StoreTyped
<1>4. /\ StoreDir(disk, op, T) /\ op.written = Length(op)
      /\ h[op.first] = InCall /\ p[op.first] = 0
      /\ \A b \in Blocks : h[b] = InCall => Built(disk, op, T, h, p, b)
  BY <1>1, <1>2, <1>3, StoreOkSplit
<1>5. /\ e \in EntryType /\ e.name = Kept(op) /\ e.name # "" /\ e.bno = op.first /\ e.type = "file"
      /\ e.size = op.size /\ e.val = op.val /\ Length(e) = Length(op)
  <2>1. op.leaf \in Names \cup LongNames
    BY <1>3 DEF StoreOps
  <2>2. copy_name20(op.leaf) \in Names /\ copy_name20(op.leaf) # ""
    BY <2>1, ShortIsName
  <2> QED
    BY <1>3, <2>2 DEF EntryType, StoreOps, Length, Kept
<1>6. /\ d \in T /\ op.db = disk[d] /\ op.old = Ent(disk, d, s).bno
      /\ \/ Ent(disk, d, s).name = ""
         \/ Ent(disk, d, s).name = Kept(op) /\ Ent(disk, d, s).type = "file"
      /\ Kept(op) \in Cut \/ \A j \in Slots : Ent(disk, d, j).name = Kept(op) => j = s
  BY <1>4 DEF StoreDir
<1> HIDE DEF e, d, s
<1>7. Carried(disk, T, h, p, 0, e, InCall)
  <2>1. EntryOk(T, h, p, 0, e, InCall)
    BY <1>4, <1>5 DEF EntryOk
  <2>2. ASSUME NEW b \in Blocks, h[b] = InCall PROVE BlockOk(disk, T, h, p, e, InCall, b)
    <3>1. Linked(disk, T, h, p, InCall, op.written, op, b)
      BY <1>1, <1>4, <2>2 DEF Built
    <3>2. Linked(disk, T, h, p, InCall, Length(e), e, b)
      BY <1>4, <1>5, <3>1 DEF Linked
    <3> QED
      BY <1>5, <3>2 DEF BlockOk
  <2> QED
    BY <2>1, <2>2 DEF Carried
<1>8. CASE Ent(disk, d, s).name = ""
  <2>1. Write(disk, disk', d, s, e) /\ (NoName(disk, d, e.name) \/ e.name \in Cut)
    BY <1>1, <1>5, <1>6, <1>8 DEF Write, NoName
  <2> DEFINE g == Relabel(h, InCall, <<d, s>>)
  <2>2. Layout(disk', T, g, p, 0)
    BY <1>2, <1>3, <1>5, <1>6, <1>7, <1>8, <2>1, EntryIn, Pairs
  <2>3. PICK k : k = g
    OBVIOUS
  <2>4. InCall # <<d, s>> /\ Old # <<d, s>>
    BY <1>2, <1>6, NotMarks, Pairs DEF Layout
  <2>5. Quiet(k) /\ NoHold(k, Old) /\ Marked(used', T, k)
    BY <1>1, <1>2, <2>3, <2>4, NoHoldRelabel, MarkedRelabel, Pairs DEF Quiet
  <2>6. op' = Idle
    <3>1. Ent(disk, d, s) = NoEntry
      BY <1>2, <1>3, <1>6, <1>8 DEF Layout, DirOk
    <3>2. op.old = 0
      BY <1>6, <3>1, Pairs
    <3> QED
      BY <1>1, <3>2 DEF ThenFree
  <2> HIDE DEF g
  <2>7. Good(T, k, p)'
    BY <1>1, <1>2, <2>2, <2>3, <2>5, <2>6, CallEnds
  <2> QED
    BY <2>7
<1>9. CASE Ent(disk, d, s).name # ""
  <2> DEFINE f == Ent(disk, d, s)
             D == [disk EXCEPT ![d] = [disk[d] EXCEPT !.ents[s] = NoEntry]]
             g == Relabel(h, <<d, s>>, Old)
             k == Relabel(g, InCall, <<d, s>>)
  <2>1. f.name = Kept(op) /\ f.type = "file" /\ f.bno \in Blocks
    BY <1>2, <1>3, <1>6, <1>9, DiskTyped
  <2>2. Write(disk, D, d, s, NoEntry)
    BY DEF Write
  <2>3. Layout(D, T, g, p, 0) /\ Carried(D, T, g, p, 0, f, Old)
    BY <1>2, <1>3, <1>6, <1>9, <2>2, EntryOut, Pairs
  <2>4. /\ \A b \in Blocks : disk[b].magic = D[b].magic /\ disk[b].next = D[b].next
                               /\ disk[b].data = D[b].data
        /\ \A i \in Slots : Ent(D, d, i) = IF i = s THEN NoEntry ELSE Ent(disk, d, i)
        /\ Disk(D)
    BY <1>2, <1>3, <2>2, Written, ConstantTypes
  <2>5. InCall # <<d, s>> /\ Old # <<d, s>> /\ <<d, s>> # Nobody
    BY <1>2, <1>6, NotMarks, Pairs DEF Layout
  <2>6. \A b \in Blocks : g[b] = InCall <=> h[b] = InCall
    BY <2>5, Pairs DEF Relabel
  <2>7. Write(D, disk', d, s, e)
    <3>1. disk[d] \in BlockType /\ disk \in [Blocks -> BlockType]
      BY <1>2, <1>3, DiskTyped DEF Disk
    <3>2. [[disk[d] EXCEPT !.ents[s] = NoEntry] EXCEPT !.ents[s] = e] = [disk[d] EXCEPT !.ents[s] = e]
      BY <1>3, <3>1 DEF BlockType
    <3>3. D[d] = [disk[d] EXCEPT !.ents[s] = NoEntry]
      BY <1>3, <3>1
    <3>4. disk' = [disk EXCEPT ![d] = [disk[d] EXCEPT !.ents[s] = e]]
      BY <1>1, <1>6
    <3> QED
      BY <1>3, <3>1, <3>2, <3>3, <3>4 DEF Write
  <2> HIDE DEF D, g, f
  <2>8. Carried(D, T, g, p, 0, e, InCall)
    <3>1. EntryOk(T, g, p, 0, e, InCall)
      BY <1>3, <1>4, <1>5, <2>6 DEF EntryOk
    <3>2. ASSUME NEW b \in Blocks, g[b] = InCall PROVE BlockOk(D, T, g, p, e, InCall, b)
      <4>1. BlockOk(disk, T, h, p, e, InCall, b)
        BY <1>7, <2>6, <3>2 DEF Carried
      <4>2. disk[b].next \in Blocks
        BY <1>2, DiskTyped
      <4>3. g[disk[b].next] = InCall <=> h[disk[b].next] = InCall
        BY <2>6, <4>2
      <4> QED
        BY <2>4, <4>1, <4>3 DEF BlockOk, Linked
    <3> QED
      BY <3>1, <3>2 DEF Carried
  <2>9. (NoName(D, d, e.name) \/ e.name \in Cut) /\ Ent(D, d, s).name = ""
    BY <1>3, <1>5, <1>6, <2>4, Pairs DEF NoName
  <2>10. Layout(disk', T, k, p, 0)
    BY <1>3, <1>5, <1>6, <2>3, <2>7, <2>8, <2>9, EntryIn, Pairs
  <2>11. \A b \in Blocks : k[b] = Old <=> g[b] = Old
    BY <2>5, Pairs DEF Relabel
  <2>12. Quiet(k) /\ Marked(used', T, k)
    <3>1. Marked(used, T, g)
      BY <1>2, <2>5, MarkedRelabel DEF g
    <3>2. Marked(used, T, k)
      BY <3>1, MarkedRelabel, Pairs
    <3> QED
      BY <1>1, <2>5, <3>2, NoHoldRelabel DEF Quiet
  <2>13. Carried(disk', T, k, p, 0, f, Old)
    <3>0. \A b \in Blocks : disk'[b].magic = D[b].magic /\ disk'[b].next = D[b].next
                               /\ disk'[b].data = D[b].data
      <4>1. Disk(D) /\ d \in Blocks /\ s \in Slots /\ e \in EntryType /\ Write(D, disk', d, s, e)
        BY <1>3, <1>5, <2>4, <2>7
      <4> QED
        BY <4>1, Written
    <3> HIDE DEF k
    <3>1. EntryOk(T, k, p, 0, f, Old)
      BY <2>1, <2>3, <2>11 DEF EntryOk, Carried
    <3>2. ASSUME NEW b \in Blocks, k[b] = Old PROVE BlockOk(disk', T, k, p, f, Old, b)
      <4>1. BlockOk(D, T, g, p, f, Old, b)
        BY <2>3, <2>11, <3>2 DEF Carried
      <4>2. D[b].next \in Blocks
        BY <2>4, DiskTyped
      <4>3. k[D[b].next] = Old <=> g[D[b].next] = Old
        BY <2>11, <4>2
      <4> QED
        BY <3>0, <4>1, <4>3 DEF BlockOk, Linked
    <3> QED
      BY <3>1, <3>2 DEF Carried
  <2>14. ThenFree(f.bno)
    BY <1>1, <1>6 DEF f
  <2>15. PICK m, u : m = k /\ u = f
    OBVIOUS
  <2> HIDE DEF k
  <2> QED
    BY <1>1, <1>2, <2>1, <2>10, <2>12, <2>13, <2>14, <2>15, FreeBegins
<1> QED
  BY <1>8, <1>9

-----------------------------------------------------------------------------
(* fs_free_chain and remove_entry_named                                       *)

LEMMA MarkedLess ==
    ASSUME NEW U, NEW T, NEW h, NEW V, V \subseteq T, NEW g, NEW c, Marked(U, T, h), c >= FIRST_BLOCK,
           c \notin V, c \in Blocks, \A b \in Blocks : g[b] # Nobody => h[b] # Nobody /\ b # c
    PROVE  Marked(U \ {c}, V, g)
<1>1. c \notin Reserved
  BY Numbers DEF Reserved
<1> QED
  BY <1>1 DEF Marked

LEMMA DropMark ==
    ASSUME NEW D, NEW T, NEW h, NEW p, NEW x, Layout(D, T, h, p, x), NEW w \in Marks
    PROVE  Layout(D, T, Relabel(h, w, Nobody), p, x)
<1> DEFINE g == Relabel(h, w, Nobody)
<1>1. h \in [Blocks -> Blocks \X Nat] /\ p \in [Blocks -> Nat]
  BY DEF Layout, Maps
<1>2. Remarks(h, p, g, p)
  BY <1>1, Pairs DEF Remarks, Relabel
<1> HIDE DEF g
<1> QED
  BY <1>2, Remarked DEF g

LEMMA FreeStepTree ==
    ASSUME Inv, Inv', Settled, NEW T, NEW h, NEW p, Good(T, h, p), FreeStep
    PROVE  \E g, q : Good(T, g, q)'
<1>1. op.call = "free" /\ scan' = scan /\ disk' = disk /\ Bfree(op.cur)
  BY DEF FreeStep
<1>2. /\ MapReady /\ Marked(used, T, h) /\ Layout(disk, T, h, p, Hang(op))
      /\ CallOk(disk, op, T, h, p) /\ NoHold(h, Old)
      /\ Disk(disk) /\ \A b \in Blocks : h[b] \in Blocks \X Nat /\ p[b] \in Nat
  BY <1>1, InTheCall
<1>3. Layout(disk, T, h, p, 0) /\ FreeOk(disk, op, T, h, p) /\ scan' = <<>>
  BY <1>1, <1>2, CallKinds DEF MapReady
<1>4. PICK c : c = op.cur
  OBVIOUS
<1>5. c \in Blocks /\ disk[c].next \in Blocks
  <2>1. op \in FreeOps
    BY <1>1, OpKinds DEF Inv
  <2>2. c \in Blocks
    BY <1>4, <2>1 DEF FreeOps
  <2> QED
    BY <1>2, <2>2, DiskTyped
<1>6. /\ h[c] = InCall
      /\ \A b \in Blocks : h[b] = InCall =>
          /\ b \notin T /\ b >= FIRST_BLOCK /\ disk[b].magic = "data" /\ p[c] <= p[b]
          /\ disk[b].next = 0 \/ (h[disk[b].next] = InCall /\ p[disk[b].next] = p[b] + 1)
  BY <1>3, <1>4 DEF FreeOk
<1>7. c \notin T /\ c >= FIRST_BLOCK /\ disk[c].magic = "data" /\ c \in Nat
  BY <1>5, <1>6, Numbers
<1>8. used' = used \ {c} /\ ThenFree(disk[c].next)
  BY <1>1, <1>4, <1>7, Numbers DEF FreeStep, Bfree
<1>9. CASE disk[c].next = 0
  <2> DEFINE g == Relabel(h, InCall, Nobody)
  <2>1. Layout(disk', T, g, p, 0) /\ Quiet(g) /\ NoHold(g, Old)
    BY <1>1, <1>2, <1>3, Drop
  <2>2. \A b \in Blocks : g[b] # Nobody => h[b] # Nobody /\ b # c
    BY <1>6, RelabelAt
  <2> HIDE DEF g
  <2>3. Marked(used', T, g)
    BY <1>2, <1>5, <1>7, <1>8, <2>2, MarkedLess
  <2>4. Good(T, g, p)'
    BY <1>3, <1>8, <1>9, <2>1, <2>3, CallEnds DEF ThenFree
  <2> QED
    BY <2>4
<1>10. CASE disk[c].next # 0
  <2> DEFINE g == [b \in Blocks |-> IF h[b] = InCall /\ p[b] <= p[c] THEN Nobody ELSE h[b]]
             n == disk[c].next
  <2>1. h \in [Blocks -> Blocks \X Nat] /\ p \in [Blocks -> Nat]
    BY <1>3 DEF Layout, Maps
  <2>2. Remarks(h, p, g, p)
    BY <2>1, Pairs DEF Remarks
  <2>3. \A b \in Blocks : g[b] = IF h[b] = InCall /\ p[b] <= p[c] THEN Nobody ELSE h[b]
    OBVIOUS
  <2> HIDE DEF g
  <2>4. Layout(disk', T, g, p, 0)
    BY <1>1, <1>3, <2>2, Remarked
  <2>5. NoHold(g, Old)
    BY <1>2, <2>3, Pairs DEF NoHold
  <2>6. Marked(used', T, g)
    <3>1. \A b \in Blocks : g[b] # Nobody => h[b] # Nobody /\ b # c
      BY <1>2, <1>5, <1>6, <2>3
    <3> QED
      BY <1>2, <1>5, <1>7, <1>8, <3>1, MarkedLess
  <2>7. op'.call = "free" /\ op'.cur = n
    BY <1>8, <1>10 DEF ThenFree
  <2>8. h[n] = InCall /\ p[n] = p[c] + 1 /\ n \in Blocks /\ p[c] \in Nat
    BY <1>2, <1>5, <1>6, <1>10
  <2> HIDE DEF n
  <2>9. g[n] = InCall
    BY <2>3, <2>8
  <2>10. ASSUME NEW b \in Blocks, g[b] = InCall
         PROVE  /\ b \notin T /\ b >= FIRST_BLOCK /\ disk[b].magic = "data" /\ p[n] <= p[b]
                /\ disk[b].next = 0 \/ (g[disk[b].next] = InCall /\ p[disk[b].next] = p[b] + 1)
    <3>1. h[b] = InCall /\ ~ (p[b] <= p[c]) /\ p[b] \in Nat
      BY <1>2, <2>3, <2>10, Pairs
    <3>2. disk[b].next \in Blocks
      BY <1>2, DiskTyped
    <3>3. disk[b].next # 0 => g[disk[b].next] = InCall /\ p[disk[b].next] = p[b] + 1
      BY <1>6, <2>3, <2>8, <3>1, <3>2
    <3> QED
      BY <1>6, <2>8, <3>1, <3>3
  <2>11. FreeOk(disk', op', T, g, p)
    BY <1>1, <2>7, <2>9, <2>10 DEF FreeOk
  <2>12. CallOk(disk', op', T, g, p) /\ Hang(op') = 0
    BY <2>5, <2>7, <2>11, CallKinds
  <2>13. Good(T, g, p)'
    BY <1>3, <2>4, <2>6, <2>12, GoodNext
  <2> QED
    BY <2>13
<1> QED
  BY <1>9, <1>10

(* The block of a directory whose entry is gone leaves the tree. *)
LEMMA RemovedDir ==
    ASSUME NEW E, NEW T, NEW h, NEW p, Layout(E, T, h, p, 0), NEW e, Carried(E, T, h, p, 0, e, Old),
           e.type = "dir", NEW c \in Blocks, c = e.bno, c # 0
    PROVE  /\ Layout(E, T \ {c}, Keep(h, T \ {c}, Blocks \ {c}), p, 0)
           /\ c >= FIRST_BLOCK /\ c \in T
<1> DEFINE U == T \ {c}
           K == Blocks \ {c}
<1>0. /\ Disk(E) /\ Maps(E, T, h, p) /\ T \subseteq Blocks
      /\ E[Root].magic = "dir" => Root \in T
  BY DEF Layout, Maps
<1>1. h[c] = Old /\ c >= FIRST_BLOCK /\ c \in T
  BY DEF Carried, EntryOk
<1>2. E[Root].magic = "dir" => Root \in U
  BY <1>0, <1>1, Numbers
<1>3. ASSUME NEW d \in U, NEW i \in Slots, Ent(E, d, i).name # "", Ent(E, d, i).bno # 0
      PROVE  Ent(E, d, i).bno \in K /\ (Ent(E, d, i).type = "dir" => Ent(E, d, i).bno \in U)
  <2> DEFINE f == Ent(E, d, i)
  <2>1. EntryOk(T, h, p, 0, f, <<d, i>>) /\ f \in EntryType /\ f.bno \in Blocks
    BY <1>0, <1>3, DiskTyped DEF Layout, DirOk
  <2>2. <<d, i>> # Old
    BY <1>0, NotMarks, Pairs
  <2> HIDE DEF f
  <2>3. f.type \in {"file", "dir"}
    BY <2>1 DEF EntryType
  <2>4. f.bno # 0 => f.bno # c /\ (f.type = "dir" => f.bno \in T)
    BY <1>1, <2>1, <2>2, <2>3 DEF EntryOk
  <2> QED
    BY <1>3, <2>1, <2>4 DEF f
<1>4. ASSUME NEW b \in Blocks, NEW d \in U, NEW i \in Slots, h[b] = <<d, i>>, Ent(E, d, i).type = "file"
      PROVE  E[b].next = 0 \/ E[b].next \in K
  <2>1. d \in T
    OBVIOUS
  <2>2. E[b].next \in Blocks /\ (E[b].next = 0 \/ h[E[b].next] = <<d, i>>)
    BY <1>4, <2>1, HighBlock
  <2>3. <<d, i>> # Old
    BY <1>0, NotMarks, Pairs
  <2> QED
    BY <1>1, <2>2, <2>3
<1>5. Closed(E, h, U, K)
  BY <1>3, <1>4 DEF Closed
<1>6. U \subseteq T
  OBVIOUS
<1> HIDE DEF U, K
<1>7. Layout(E, U, Keep(h, U, K), p, 0)
  BY <1>2, <1>5, <1>6, Fewer
<1> QED
  BY <1>1, <1>7 DEF U, K

LEMMA KeepFacts ==
    ASSUME NEW D, NEW T, NEW h, NEW p, Maps(D, T, h, p), NEW U, U \subseteq T, NEW K
    PROVE  /\ Quiet(Keep(h, U, K)) /\ NoHold(Keep(h, U, K), Old)
           /\ \A b \in Blocks : Keep(h, U, K)[b] # Nobody => b \in K /\ h[b] # Nobody
<1> DEFINE g == Keep(h, U, K)
<1>1. \A b \in Blocks : g[b] = IF b \in K /\ h[b] \in U \X Slots THEN h[b] ELSE Nobody
  BY DEF Keep
<1> HIDE DEF g
<1>2. ASSUME NEW w \in U \X Slots PROVE w # InCall /\ w # Old /\ w # Nobody
  <2>1. PICK d \in U, i \in Slots : w = <<d, i>>
    OBVIOUS
  <2>2. d \in T
    OBVIOUS
  <2>3. <<d, i>> \notin Marks
    BY <2>2, NotMarks
  <2> QED
    BY <2>1, <2>3, Pairs
<1>3. NoHold(g, InCall) /\ NoHold(g, Old)
  BY <1>1, <1>2, Pairs DEF NoHold
<1> QED
  BY <1>1, <1>2, <1>3 DEF Quiet, g

LEMMA RemoveTree ==
    ASSUME Inv, Inv', NEW T, NEW h, NEW p, Good(T, h, p), NEW d \in T, NEW n \in Names, Remove(d, n)
    PROVE  \E U, g, q : Good(U, g, q)'
<1> DEFINE i == FindEntry(disk[d], n)
           e == disk[d].ents[i]
<1>1. /\ i # 0 /\ disk' = [disk EXCEPT ![d].ents[i] = NoEntry]
      /\ IF e.type = "dir" THEN Bfree(e.bno) /\ op' = op ELSE ThenFree(e.bno) /\ used' = used
      /\ scan' = <<>> /\ op = Idle /\ MapReady
  BY DEF Remove, CanCall, ram, MapReady
<1>2. /\ Layout(disk, T, h, p, 0) /\ Marked(used, T, h) /\ Quiet(h) /\ NoHold(h, Old)
      /\ Maps(disk, T, h, p) /\ Disk(disk) /\ T \subseteq Blocks
  BY <1>1, AtCall
<1>3. d \in Blocks
  BY <1>2
<1>4. Lookup(disk, d, n)
  BY <1>3, FoundEntry
<1>5. i \in Slots /\ e = Ent(disk, d, i) /\ Ent(disk, d, i).name # ""
  BY <1>1, <1>4, NamesAssumption DEF Ent, Lookup
<1>6. PICK s, f : s = i /\ f = e
  OBVIOUS
<1> HIDE DEF i, e
<1>7. s \in Slots /\ f = Ent(disk, d, s) /\ f.name # "" /\ f \in EntryType /\ f.bno \in Blocks
  <2>1. s \in Slots /\ f = Ent(disk, d, s) /\ Ent(disk, d, s).name # ""
    BY <1>5, <1>6
  <2> QED
    BY <1>2, <1>3, <2>1, DiskTyped
<1>8. Write(disk, disk', d, s, NoEntry)
  BY <1>1, <1>6 DEF Write
<1> DEFINE g == Relabel(h, <<d, s>>, Old)
<1>9. Layout(disk', T, g, p, 0) /\ Carried(disk', T, g, p, 0, f, Old)
  BY <1>2, <1>7, <1>8, EntryOut, Pairs
<1>10. Quiet(g) /\ Marked(used, T, g) /\ Maps(disk', T, g, p)
  <2>1. <<d, s>> # Nobody
    BY <1>2, NotMarks, Pairs
  <2> QED
    BY <1>2, <1>9, <2>1, NoHoldRelabel, MarkedRelabel, Pairs DEF Quiet, Layout
<1> HIDE DEF g
<1>11. CASE f.type # "dir"
  <2>1. f.type = "file" /\ ThenFree(f.bno) /\ used' = used
    BY <1>1, <1>6, <1>7, <1>11 DEF EntryType
  <2>2. \E k, q : Good(T, k, q)'
    BY <1>1, <1>7, <1>9, <1>10, <2>1, FreeBegins
  <2> QED
    BY <2>2
<1>12. CASE f.type = "dir" /\ f.bno = 0
  <2>1. used' = used /\ op' = Idle
    BY <1>1, <1>6, <1>12, Numbers DEF Bfree
  <2> DEFINE k == Relabel(g, Old, Nobody)
  <2>2. Layout(disk', T, k, p, 0)
    BY <1>9, DropMark, Pairs
  <2>3. Quiet(k) /\ NoHold(k, Old) /\ Marked(used', T, k)
    BY <1>10, <2>1, NoHoldRelabel, MarkedRelabel, Pairs DEF Quiet
  <2> HIDE DEF k
  <2>4. PICK m : m = k
    OBVIOUS
  <2>5. Good(T, m, p)'
    BY <1>1, <2>1, <2>2, <2>3, <2>4, CallEnds
  <2> QED
    BY <2>5
<1>13. CASE f.type = "dir" /\ f.bno # 0
  <2> DEFINE c == f.bno
             U == T \ {c}
             K == Blocks \ {c}
             k == Keep(g, U, K)
  <2>1. c \in Blocks /\ c # 0
    BY <1>7, <1>13
  <2>2. Layout(disk', U, k, p, 0) /\ c >= FIRST_BLOCK /\ c \in T
    BY <1>9, <1>13, <2>1, RemovedDir
  <2>6. U \subseteq T /\ c \notin U /\ c \notin K
    OBVIOUS
  <2>9. c = f.bno
    OBVIOUS
  <2> HIDE DEF K, U, c
  <2>3. used' = used \ {c} /\ op' = Idle
    <3>1. c \in Nat /\ ~ (c < FIRST_BLOCK)
      BY <2>1, <2>2, Numbers
    <3> QED
      BY <1>1, <1>6, <1>13, <2>9, <3>1 DEF Bfree
  <2>4. /\ Quiet(k) /\ NoHold(k, Old)
        /\ \A b \in Blocks : k[b] # Nobody => b \in K /\ g[b] # Nobody
    BY <1>10, <2>6, KeepFacts
  <2> HIDE DEF k
  <2>5. Marked(used', U, k)
    BY <1>10, <2>1, <2>2, <2>3, <2>4, <2>6, MarkedLess
  <2>7. PICK m, V : m = k /\ V = U
    OBVIOUS
  <2>8. Good(V, m, p)'
    BY <1>1, <2>2, <2>3, <2>4, <2>5, <2>7, CallEnds
  <2> QED
    BY <2>8
<1> QED
  BY <1>11, <1>12, <1>13

-----------------------------------------------------------------------------
(* mkdir                                                                      *)

LEMMA MkdirTyped ==
    ASSUME Inv, op.call = "mkdir"
    PROVE  /\ op \in MkdirOps /\ op.slot \in Slots /\ op.cur \in Blocks /\ op.dir \in Blocks
           /\ op.name \in Names
<1>1. op \in MkdirOps
  BY OpKinds DEF Inv
<1> QED
  BY <1>1 DEF MkdirOps

LEMMA MkdirBeginTree ==
    ASSUME Inv, Inv', NEW T, NEW h, NEW p, Good(T, h, p), NEW d \in T, NEW n \in Names,
           NEW checked, MkdirBegin(d, n, checked)
    PROVE  \E g, q : Good(T, g, q)'
<1> DEFINE f == FindFreeEntry(disk[d])
           c == NextFree
<1>1. /\ FindEntry(disk[d], n) = 0 /\ f # 0
      /\ IF c = 0 THEN disk' = disk /\ used' = used
         ELSE used' = used \cup {c} /\ disk' = [disk EXCEPT ![c] = ZeroBlock]
      /\ op' = [call |-> "mkdir", at |-> "entry", dir |-> d, db |-> disk[d],
                slot |-> f, name |-> n, cur |-> c]
      /\ scan' = <<>> /\ op = Idle /\ MapReady
  BY DEF MkdirBegin, CanCall, ram, MapReady, Take
<1>2. /\ Layout(disk, T, h, p, 0) /\ Marked(used, T, h) /\ Quiet(h) /\ NoHold(h, Old)
      /\ Maps(disk, T, h, p) /\ Disk(disk) /\ T \subseteq Blocks
  BY <1>1, AtCall
<1>3. d \in Blocks
  BY <1>2
<1>4. Lookup(disk, d, n)
  BY <1>3, FoundEntry
<1>5. Ent(disk, d, f).name = "" /\ NoName(disk, d, n)
  BY <1>1, <1>4 DEF NoName, Lookup
<1> HIDE DEF f, c
<1>6. /\ op'.call = "mkdir" /\ op'.at = "entry" /\ op'.dir = d /\ op'.db = disk[d] /\ op'.slot = f
      /\ op'.name = n /\ op'.cur = c
  BY <1>1
<1>7. Hang(op') = 0
  BY <1>6, CallKinds
<1>8. CASE c = 0
  <2>1. disk' = disk /\ used' = used
    BY <1>1, <1>8
  <2>2. MkdirOk(disk', op', T, h, p)
    BY <1>2, <1>5, <1>6, <1>8, <2>1 DEF MkdirOk, Quiet, NoHold
  <2>3. CallOk(disk', op', T, h, p)
    BY <1>2, <1>6, <2>2, CallKinds
  <2>4. Good(T, h, p)'
    BY <1>1, <1>2, <1>7, <2>1, <2>3, GoodNext
  <2> QED
    BY <2>4
<1>9. CASE c # 0
  <2>1. used' = used \cup {c} /\ disk' = [disk EXCEPT ![c] = ZeroBlock]
    BY <1>1, <1>9
  <2>2. /\ c \in Blocks /\ c >= FIRST_BLOCK /\ c \notin T /\ h[c] = Nobody
    BY <1>2, <1>9, FreeBlock DEF c
  <2>3. PICK g, q : Given(disk, disk', used, T, h, p, c, 0, g, q)
    BY <1>2, <1>9, <2>1, Allocated DEF c
  <2>4. /\ Layout(disk', T, g, q, 0) /\ Marked(used', T, g)
        /\ g[c] = InCall /\ disk'[c] = ZeroBlock
        /\ \A b \in Blocks \ {c} : g[b] = h[b] /\ disk'[b] = disk[b]
    BY <2>1, <2>3 DEF Given
  <2>5. NoHold(g, Old)
    BY <1>2, <2>2, <2>4, Pairs DEF NoHold
  <2>6. disk'[d] = disk[d] /\ \A j : Ent(disk', d, j) = Ent(disk, d, j)
    BY <1>3, <2>2, <2>4 DEF Ent
  <2>7. \A b \in Blocks : g[b] = InCall => b = c
    BY <1>2, <2>4 DEF Quiet, NoHold
  <2>8. disk'[c].magic = "zero"
    BY <2>4 DEF ZeroBlock, Block
  <2>9. MkdirOk(disk', op', T, g, q)
    BY <1>5, <1>6, <1>9, <2>2, <2>4, <2>6, <2>7, <2>8 DEF MkdirOk, NoName
  <2>10. CallOk(disk', op', T, g, q)
    BY <1>6, <2>5, <2>9, CallKinds
  <2>11. Good(T, g, q)'
    BY <1>1, <1>7, <2>4, <2>10, GoodNext
  <2> QED
    BY <2>11
<1> QED
  BY <1>8, <1>9

LEMMA MkdirEntryTree ==
    ASSUME Inv, Inv', Settled, NEW T, NEW h, NEW p, Good(T, h, p), MkdirEntry
    PROVE  \E g, q : Good(T, g, q)'
<1> DEFINE d == op.dir
           s == op.slot
           c == op.cur
           e == [NoEntry EXCEPT !.name = op.name, !.type = "dir", !.bno = op.cur]
<1>1. /\ op.call = "mkdir" /\ op.at = "entry" /\ scan' = scan /\ used' = used
      /\ disk' = [disk EXCEPT ![d] = [op.db EXCEPT !.ents[s] = e]] /\ op' = [op EXCEPT !.at = "block"]
  BY DEF MkdirEntry, ram
<1>2. /\ MapReady /\ Marked(used, T, h) /\ Layout(disk, T, h, p, Hang(op))
      /\ CallOk(disk, op, T, h, p) /\ NoHold(h, Old)
      /\ Disk(disk) /\ T \subseteq Blocks
  BY <1>1, InTheCall
<1>3. Layout(disk, T, h, p, 0) /\ MkdirOk(disk, op, T, h, p) /\ scan' = <<>>
  BY <1>1, <1>2, CallKinds DEF MapReady
<1>4. op \in MkdirOps /\ s \in Slots /\ c \in Blocks /\ d \in Blocks /\ op.name \in Names
  BY <1>1, MkdirTyped
<1>5. /\ d \in T /\ (c # 0 => c \notin T /\ c >= FIRST_BLOCK /\ disk[c].magic = "zero" /\ h[c] = InCall)
      /\ op.db = disk[d] /\ Ent(disk, d, s).name = "" /\ NoName(disk, d, op.name)
      /\ \A b \in Blocks : h[b] = InCall => b = c /\ b # 0
  BY <1>1, <1>3 DEF MkdirOk
<1>6. /\ e \in EntryType /\ e.name = op.name /\ e.name # "" /\ e.bno = c /\ e.type = "dir"
  BY <1>4, NamesAssumption DEF EntryType, NoEntry
<1>7. /\ op'.call = "mkdir" /\ op'.at = "block" /\ op'.dir = d /\ op'.slot = s /\ op'.cur = c
  BY <1>1, <1>4 DEF MkdirOps
<1> HIDE DEF e, d, s, c
<1>8. Carried(disk, T, h, p, c, e, InCall)
  BY <1>5, <1>6 DEF Carried, EntryOk, BlockOk
<1>9. Write(disk, disk', d, s, e)
  BY <1>1, <1>5 DEF Write
<1> DEFINE g == Relabel(h, InCall, <<d, s>>)
<1>10. Layout(disk', T, g, p, c)
  BY <1>3, <1>4, <1>5, <1>6, <1>8, <1>9, EntryIn, Pairs
<1>11. InCall # <<d, s>> /\ Old # <<d, s>>
  BY <1>3, <1>5, NotMarks, Pairs DEF Layout
<1>12. Quiet(g) /\ NoHold(g, Old) /\ Marked(used', T, g)
  BY <1>1, <1>2, <1>11, NoHoldRelabel, MarkedRelabel, Pairs DEF Quiet
<1>13. c # 0 => g[c] = <<d, s>>
  BY <1>4, <1>5 DEF Relabel
<1> HIDE DEF g
<1>14. /\ \A b \in Blocks \ {d} : disk'[b] = disk[b]
       /\ Ent(disk', d, s) = e
  <2>1. /\ \A b \in Blocks \ {d} : disk'[b] = disk[b]
        /\ \A x \in Blocks, i \in Slots : Ent(disk', x, i) = IF x = d /\ i = s THEN e ELSE Ent(disk, x, i)
    <3>1. Disk(disk) /\ d \in Blocks /\ s \in Slots /\ e \in EntryType /\ Write(disk, disk', d, s, e)
      BY <1>2, <1>4, <1>6, <1>9
    <3> QED
      BY <3>1, Written
  <2> QED
    BY <1>4, <2>1
<1>15. MkdirOk(disk', op', T, g, p)
  <2>1. c # 0 => disk'[c].magic = "zero"
    BY <1>4, <1>5, <1>14
  <2> QED
    BY <1>5, <1>6, <1>7, <1>12, <1>13, <1>14, <2>1 DEF MkdirOk
<1>16. CallOk(disk', op', T, g, p) /\ Hang(op') = c
  BY <1>7, <1>12, <1>15, CallKinds
<1>17. PICK k : k = g
  OBVIOUS
<1>18. Good(T, k, p)'
  BY <1>3, <1>10, <1>12, <1>16, <1>17, GoodNext
<1> QED
  BY <1>18

LEMMA MkdirBlockTree ==
    ASSUME Inv, Inv', Settled, NEW T, NEW h, NEW p, Good(T, h, p), MkdirBlock
    PROVE  \E U, g, q : Good(U, g, q)'
<1> DEFINE d == op.dir
           s == op.slot
           c == op.cur
<1>1. /\ op.call = "mkdir" /\ op.at = "block" /\ scan' = scan /\ used' = used
      /\ disk' = [disk EXCEPT ![c] = DirBlock(d)] /\ op' = Idle
  BY DEF MkdirBlock, ram
<1>2. /\ MapReady /\ Marked(used, T, h) /\ Layout(disk, T, h, p, Hang(op))
      /\ CallOk(disk, op, T, h, p) /\ NoHold(h, Old)
      /\ Maps(disk, T, h, p) /\ Disk(disk) /\ T \subseteq Blocks
  BY <1>1, InTheCall
<1>3. Layout(disk, T, h, p, c) /\ MkdirOk(disk, op, T, h, p) /\ scan' = <<>>
  BY <1>1, <1>2, CallKinds DEF MapReady
<1>4. s \in Slots /\ c \in Blocks /\ d \in Blocks
  BY <1>1, MkdirTyped
<1>5. /\ d \in T /\ Quiet(h)
      /\ c # 0 => /\ c \notin T /\ c >= FIRST_BLOCK
                  /\ h[c] = <<d, s>> /\ Ent(disk, d, s).type = "dir"
  BY <1>1, <1>3 DEF MkdirOk
<1> HIDE DEF c, d, s
<1>6. CASE c = 0
  <2>1. Disk(disk') /\ \A b \in Blocks \ {0} : disk'[b] = disk[b]
    BY <1>1, <1>2, <1>4, <1>6, ConstantTypes DEF Disk
  <2>2. \A b \in T : b # 0 /\ b \in Blocks
    BY <1>2, Numbers DEF Maps
  <2>3. SameTree(disk, disk', T, h)
    <3>1. \A b \in T : disk'[b] = disk[b]
      BY <2>1, <2>2
    <3>2. \A b \in Blocks : b >= FIRST_BLOCK => disk'[b] = disk[b]
      BY <2>1, Numbers
    <3>3. disk'[Root] = disk[Root]
      BY <2>1, Numbers
    <3> QED
      BY <3>1, <3>2, <3>3 DEF SameTree
  <2>4. Layout(disk', T, h, p, 0)
    BY <1>3, <1>6, <2>1, <2>3, DiskFrame
  <2>5. Good(T, h, p)'
    BY <1>1, <1>2, <1>3, <1>5, <2>4, CallEnds
  <2> QED
    BY <2>5
<1>7. CASE c # 0
  <2>1. PICK U : U = T \cup {c}
    OBVIOUS
  <2>2. Layout(disk', U, h, p, 0)
    BY <1>1, <1>3, <1>4, <1>5, <1>7, <2>1, NewDir
  <2>3. Marked(used', U, h)
    <3>1. h[c] # Nobody
      BY <1>2, <1>5, <1>7, NotMarks, Pairs
    <3> QED
      BY <1>1, <1>2, <1>4, <2>1, <3>1 DEF Marked
  <2>4. Good(U, h, p)'
    BY <1>1, <1>2, <1>3, <1>5, <2>2, <2>3, CallEnds
  <2> QED
    BY <2>4
<1> QED
  BY <1>6, <1>7

-----------------------------------------------------------------------------
(* move_entry_named                                                           *)

LEMMA CarriedName ==
    ASSUME NEW D, NEW T, NEW h, NEW p, NEW x, NEW e, NEW f, NEW v, Carried(D, T, h, p, x, e, v),
           f.type = e.type, f.bno = e.bno, f.size = e.size, f.val = e.val
    PROVE  Carried(D, T, h, p, x, f, v)
<1>1. EntryOk(T, h, p, x, f, v)
  BY DEF Carried, EntryOk
<1>2. ASSUME NEW b \in Blocks, h[b] = v PROVE BlockOk(D, T, h, p, f, v, b)
  <2>1. BlockOk(D, T, h, p, e, v, b)
    BY <1>2 DEF Carried
  <2> QED
    BY <2>1 DEF BlockOk, Linked, Length
<1> QED
  BY <1>1, <1>2 DEF Carried

LEMMA MoveIntoTree ==
    ASSUME Inv, NEW T, NEW h, NEW p, Good(T, h, p), op = Idle, MapReady, scan' = <<>>, used' = used,
           NEW ds \in T, NEW i \in Slots, Ent(disk, ds, i).name # "", NEW dd \in T, NEW nd \in Names,
           MoveInto(ds, i, dd, nd)
    PROVE  \E g, q : Good(T, g, q)'
<1>1. /\ Layout(disk, T, h, p, 0) /\ Marked(used, T, h) /\ Quiet(h) /\ NoHold(h, Old)
      /\ Maps(disk, T, h, p) /\ Disk(disk) /\ T \subseteq Blocks
  BY AtCall
<1>2. ds \in Blocks /\ dd \in Blocks
  BY <1>1
<1>3. Lookup(disk, dd, nd)
  BY <1>2, FoundEntry
<1>4. PICK e, f : e = Ent(disk, ds, i) /\ f = [Ent(disk, ds, i) EXCEPT !.name = nd]
  OBVIOUS
<1>5. /\ e \in EntryType /\ f \in EntryType /\ f.name = nd /\ f.name # ""
      /\ f.type = e.type /\ f.bno = e.bno /\ f.size = e.size /\ f.val = e.val
  <2>1. e \in EntryType
    BY <1>1, <1>2, <1>4, DiskTyped
  <2>2. f = [e EXCEPT !.name = nd]
    BY <1>4
  <2> QED
    BY <2>1, <2>2, NamesAssumption DEF EntryType
<1>6. CASE ds = dd
  <2>1. /\ FindEntry(disk[dd], nd) \in {0, i}
        /\ disk' = [disk EXCEPT ![ds].ents[i].name = nd] /\ op' = Idle
    BY <1>6 DEF MoveInto
  <2>2. Write(disk, disk', ds, i, f)
    BY <1>4, <2>1 DEF Write, Ent
  <2>3. \A j \in Slots : Ent(disk, ds, j).name = f.name => j = i \/ f.name \in Cut
    <3>1. CASE FindEntry(disk[dd], nd) = 0
      BY <1>3, <1>5, <1>6, <3>1 DEF Lookup
    <3>2. CASE FindEntry(disk[dd], nd) = i /\ i # 0
      <4>1. Ent(disk, ds, i).name = f.name
        BY <1>3, <1>5, <1>6, <3>2 DEF Lookup
      <4>2. DirOk(disk, T, h, p, 0, ds)
        BY <1>1 DEF Layout
      <4> QED
        BY <1>5, <4>1, <4>2 DEF DirOk
    <3> QED
      BY <2>1, <3>1, <3>2
  <2>4. Layout(disk', T, h, p, 0)
    BY <1>1, <1>4, <1>5, <2>2, <2>3, Renamed
  <2>5. Good(T, h, p)'
    BY <1>1, <2>1, <2>4, CallEnds
  <2> QED
    BY <2>5
<1>7. CASE ds # dd
  <2>1. PICK s : s = FindFreeEntry(disk[dd])
    OBVIOUS
  <2>2. /\ FindEntry(disk[dd], nd) = 0 /\ s # 0
        /\ disk' = [disk EXCEPT ![ds].ents[i] = NoEntry]
        /\ op' = [call |-> "move", at |-> "dst", dir |-> dd, cur |-> e.bno, type |-> e.type,
                  db |-> [disk[dd] EXCEPT !.ents[s] = f]]
    BY <1>4, <1>7, <2>1 DEF MoveInto, Ent
  <2>3. Write(disk, disk', ds, i, NoEntry)
    BY <2>2 DEF Write
  <2> DEFINE g == Relabel(h, <<ds, i>>, InCall)
  <2>4. Layout(disk', T, g, p, 0) /\ Carried(disk', T, g, p, 0, e, InCall)
    BY <1>1, <1>4, <2>3, EntryOut, Pairs DEF Quiet
  <2>5. NoHold(g, Old) /\ Marked(used', T, g)
    <3>1. <<ds, i>> # Nobody
      BY <1>1, NotMarks, Pairs
    <3> QED
      BY <1>1, <3>1, NoHoldRelabel, MarkedRelabel, Pairs
  <2> HIDE DEF g
  <2>6. Carried(disk', T, g, p, 0, f, InCall)
    BY <1>5, <2>4, CarriedName
  <2>7. disk'[dd] = disk[dd] /\ \A j : Ent(disk', dd, j) = Ent(disk, dd, j)
    BY <1>1, <1>2, <1>7, <2>2 DEF Disk, Ent
  <2>8. s \in Slots /\ Ent(disk', dd, s).name = "" /\ NoName(disk', dd, f.name)
    BY <1>3, <1>5, <2>1, <2>2, <2>7 DEF NoName, Lookup
  <2>9. op'.call = "move" /\ op'.at = "dst" /\ op'.dir = dd /\ op'.db = [disk'[dd] EXCEPT !.ents[s] = f]
    BY <2>2, <2>7
  <2>10. Moving(disk', op', T, g, p, s, f)
    BY <1>5, <2>6, <2>8, <2>9 DEF Moving
  <2>11. MoveOk(disk', op', T, g, p)
    BY <1>5, <2>8, <2>9, <2>10 DEF MoveOk
  <2>12. CallOk(disk', op', T, g, p) /\ Hang(op') = 0
    BY <2>5, <2>9, <2>11, CallKinds
  <2>13. Good(T, g, p)'
    BY <2>4, <2>5, <2>12, GoodNext DEF g
  <2> QED
    BY <2>13
<1> QED
  BY <1>6, <1>7

LEMMA MoveTree ==
    ASSUME Inv, Inv', NEW T, NEW h, NEW p, Good(T, h, p), NEW ds \in T, NEW ns \in Names,
           NEW dd \in T, NEW nd \in Names, Move(ds, ns, dd, nd)
    PROVE  \E g, q : Good(T, g, q)'
<1> DEFINE i == FindEntry(disk[ds], ns)
           j == FindEntry(disk[dd], nd)
           t == disk[dd].ents[j]
<1>1. /\ i # 0 /\ scan' = <<>> /\ used' = used /\ op = Idle /\ MapReady
      /\ IF j # 0 /\ t.type = "dir" THEN IsDir(t.bno) /\ MoveInto(ds, i, t.bno, ns)
         ELSE MoveInto(ds, i, dd, nd)
  BY DEF Move, CanCall, ram, MapReady
<1>2. /\ Layout(disk, T, h, p, 0) /\ Disk(disk) /\ T \subseteq Blocks
  BY <1>1, AtCall
<1>3. ds \in Blocks /\ dd \in Blocks
  BY <1>2
<1>4. Lookup(disk, ds, ns)
  BY <1>3, FoundEntry
<1>5. Lookup(disk, dd, nd)
  BY <1>3, FoundEntry
<1>6. i \in Slots /\ Ent(disk, ds, i).name # ""
  BY <1>1, <1>4, NamesAssumption DEF Lookup
<1>7. CASE ~ (j # 0 /\ t.type = "dir")
  <2>1. MoveInto(ds, i, dd, nd)
    BY <1>1, <1>7
  <2>2. PICK k : k = i
    OBVIOUS
  <2> HIDE DEF i
  <2> QED
    BY <1>1, <1>6, <2>1, <2>2, MoveIntoTree
<1>8. CASE j # 0 /\ t.type = "dir"
  <2>1. IsDir(t.bno) /\ MoveInto(ds, i, t.bno, ns)
    BY <1>1, <1>8
  <2>2. j \in Slots /\ t = Ent(disk, dd, j) /\ Ent(disk, dd, j).name # ""
    BY <1>5, <1>8, NamesAssumption DEF Ent, Lookup
  <2>3. PICK k, m, u : k = i /\ m = j /\ u = t
    OBVIOUS
  <2> HIDE DEF i, j, t
  <2>4. u.bno \in T
    <3>1. EntryOk(T, h, p, 0, Ent(disk, dd, m), <<dd, m>>)
      BY <1>2, <2>2, <2>3 DEF Layout, DirOk
    <3>2. u.bno # 0 /\ u.type = "dir" /\ u = Ent(disk, dd, m)
      BY <1>8, <2>1, <2>2, <2>3 DEF IsDir
    <3> QED
      BY <3>1, <3>2 DEF EntryOk
  <2>5. PICK w : w = u.bno
    OBVIOUS
  <2>6. MoveInto(ds, k, w, ns) /\ k \in Slots /\ Ent(disk, ds, k).name # "" /\ w \in T
    BY <1>6, <2>1, <2>3, <2>4, <2>5
  <2> QED
    BY <1>1, <2>6, MoveIntoTree
<1> QED
  BY <1>7, <1>8

LEMMA MoveDstTree ==
    ASSUME Inv, Inv', Settled, NEW T, NEW h, NEW p, Good(T, h, p), MoveDst
    PROVE  \E g, q : Good(T, g, q)'
<1> DEFINE d == op.dir
<1>1. /\ op.call = "move" /\ op.at = "dst" /\ scan' = scan /\ used' = used
      /\ disk' = [disk EXCEPT ![d] = op.db]
      /\ op' = IF op.type = "dir" /\ op.cur # 0 THEN [op EXCEPT !.at = "parent"] ELSE Idle
  BY DEF MoveDst, ram
<1>2. /\ MapReady /\ Marked(used, T, h) /\ Layout(disk, T, h, p, Hang(op))
      /\ CallOk(disk, op, T, h, p) /\ NoHold(h, Old)
      /\ Maps(disk, T, h, p) /\ Disk(disk) /\ T \subseteq Blocks
  BY <1>1, InTheCall
<1>3. Layout(disk, T, h, p, 0) /\ MoveOk(disk, op, T, h, p) /\ scan' = <<>>
  BY <1>1, <1>2, CallKinds DEF MapReady
<1>4. op \in MoveOps
  BY <1>1, OpKinds DEF Inv
<1>5. d \in T /\ d \in Blocks /\ \E f \in Slots, e \in EntryType : Moving(disk, op, T, h, p, f, e)
  BY <1>1, <1>2, <1>3 DEF MoveOk
<1>6. PICK f \in Slots, e \in EntryType : Moving(disk, op, T, h, p, f, e)
  BY <1>5
<1>7. /\ Ent(disk, d, f).name = "" /\ e.name # "" /\ NoName(disk, d, e.name)
      /\ op.db = [disk[d] EXCEPT !.ents[f] = e]
      /\ Carried(disk, T, h, p, 0, e, InCall)
  BY <1>6 DEF Moving
<1> HIDE DEF d
<1>8. Write(disk, disk', d, f, e)
  BY <1>1, <1>7 DEF Write
<1> DEFINE g == Relabel(h, InCall, <<d, f>>)
<1>9. Layout(disk', T, g, p, 0)
  BY <1>3, <1>5, <1>6, <1>7, <1>8, EntryIn, Pairs
<1>10. InCall # <<d, f>> /\ Old # <<d, f>>
  BY <1>2, <1>5, NotMarks, Pairs
<1>11. Quiet(g) /\ NoHold(g, Old) /\ Marked(used', T, g)
  BY <1>1, <1>2, <1>10, NoHoldRelabel, MarkedRelabel, Pairs DEF Quiet
<1>12. PICK k : k = g
  OBVIOUS
<1> HIDE DEF g
<1>13. CASE op.type = "dir" /\ op.cur # 0
  <2>1. op'.call = "move" /\ op'.at = "parent" /\ op'.dir = d
    BY <1>1, <1>4, <1>13 DEF MoveOps, d
  <2>2. MoveOk(disk', op', T, k, p)
    BY <1>5, <1>11, <1>12, <2>1 DEF MoveOk
  <2>3. CallOk(disk', op', T, k, p) /\ Hang(op') = 0
    BY <1>11, <1>12, <2>1, <2>2, CallKinds
  <2>4. Good(T, k, p)'
    BY <1>3, <1>9, <1>11, <1>12, <2>3, GoodNext
  <2> QED
    BY <2>4
<1>14. CASE ~ (op.type = "dir" /\ op.cur # 0)
  <2>1. op' = Idle
    BY <1>1, <1>14
  <2>2. Good(T, k, p)'
    BY <1>3, <1>9, <1>11, <1>12, <2>1, CallEnds
  <2> QED
    BY <2>2
<1> QED
  BY <1>13, <1>14

LEMMA MoveParentTree ==
    ASSUME Inv, Inv', Settled, NEW T, NEW h, NEW p, Good(T, h, p), MoveParent
    PROVE  Good(T, h, p)'
<1>1. /\ op.call = "move" /\ op.at = "parent" /\ scan' = scan /\ used' = used /\ op' = Idle
      /\ disk' = IF IsDir(op.cur) THEN [disk EXCEPT ![op.cur].parent = op.dir] ELSE disk
  BY DEF MoveParent, ram
<1>2. /\ MapReady /\ Marked(used, T, h) /\ Layout(disk, T, h, p, Hang(op))
      /\ CallOk(disk, op, T, h, p) /\ NoHold(h, Old)
      /\ Maps(disk, T, h, p) /\ Disk(disk) /\ T \subseteq Blocks
  BY <1>1, InTheCall
<1>3. Layout(disk, T, h, p, 0) /\ MoveOk(disk, op, T, h, p) /\ scan' = <<>>
  BY <1>1, <1>2, CallKinds DEF MapReady
<1>4. op \in MoveOps
  BY <1>1, OpKinds DEF Inv
<1>5. op.cur \in Blocks /\ Quiet(h)
  BY <1>1, <1>3, <1>4 DEF MoveOps, MoveOk
<1>6. Disk(disk')
  BY DEF Inv, TypeOK, Disk
<1>7. \A b \in Blocks : /\ disk'[b].magic = disk[b].magic /\ disk'[b].ents = disk[b].ents
                         /\ disk'[b].next = disk[b].next /\ disk'[b].data = disk[b].data
  <2>1. CASE ~ IsDir(op.cur)
    BY <1>1, <2>1
  <2>2. CASE IsDir(op.cur)
    <3>1. \A b \in Blocks \ {op.cur} : disk'[b] = disk[b]
      BY <1>1, <1>2, <2>2 DEF Disk
    <3>2. disk'[op.cur] = [disk[op.cur] EXCEPT !.parent = op.dir] /\ disk[op.cur] \in BlockType
      BY <1>1, <1>2, <1>5, <2>2 DEF Disk
    <3>3. LET b == op.cur IN /\ disk'[b].magic = disk[b].magic /\ disk'[b].ents = disk[b].ents
                             /\ disk'[b].next = disk[b].next /\ disk'[b].data = disk[b].data
      BY <3>2 DEF BlockType
    <3> QED
      BY <3>1, <3>3
  <2> QED
    BY <2>1, <2>2
<1>8. SameTree(disk, disk', T, h)
  BY <1>2, <1>7, Numbers DEF SameTree
<1>9. Layout(disk', T, h, p, 0)
  BY <1>3, <1>6, <1>8, DiskFrame
<1> QED
  BY <1>1, <1>2, <1>3, <1>5, <1>9, CallEnds

-----------------------------------------------------------------------------
(* Functions defined by recursion over the naturals.                          *)

Recurs(f, n, a, s) == \A k \in 0 .. n : f[k] = IF k = 0 THEN a ELSE s[<<k, f[k - 1]>>]

LEMMA RecursUnique ==
    ASSUME NEW a, NEW s, NEW m \in Nat, NEW n \in Nat, NEW f, NEW g, Recurs(f, m, a, s), Recurs(g, n, a, s),
           NEW k \in Nat, k <= m, k <= n
    PROVE  f[k] = g[k]
<1> DEFINE B == {j \in 0 .. k : f[j] # g[j]}
<1>1. SUFFICES ASSUME f[k] # g[k] PROVE FALSE
  OBVIOUS
<1>2. B \subseteq Nat /\ B # {}
  BY <1>1
<1>3. PICK x \in B : \A y \in B : x <= y
  <2> HIDE DEF B
  <2> QED
    BY <1>2, LeastNat
<1>4. x \in 0 .. k /\ f[x] # g[x] /\ x \in 0 .. m /\ x \in 0 .. n
  BY <1>3
<1>5. x # 0
  BY <1>4 DEF Recurs
<1>6. x - 1 \in 0 .. k /\ ~ (x <= x - 1)
  BY <1>4, <1>5
<1>7. f[x - 1] = g[x - 1]
  BY <1>3, <1>6
<1>8. f[x] = s[<<x, f[x - 1]>>] /\ g[x] = s[<<x, g[x - 1]>>]
  BY <1>4, <1>5 DEF Recurs
<1> QED
  BY <1>4, <1>7, <1>8

LEMMA RecursExists ==
    ASSUME NEW V, NEW a \in V, NEW s \in [Nat \X V -> V], NEW n \in Nat
    PROVE  \E f \in [0 .. n -> V] : Recurs(f, n, a, s)
<1> DEFINE B == {k \in Nat : ~ \E f \in [0 .. k -> V] : Recurs(f, k, a, s)}
<1>1. SUFFICES ASSUME B # {} PROVE FALSE
  OBVIOUS
<1>2. B \subseteq Nat
  OBVIOUS
<1>3. PICK x \in B : \A y \in B : x <= y
  <2> HIDE DEF B
  <2> QED
    BY <1>1, <1>2, LeastNat
<1>4. CASE x = 0
  <2> DEFINE f == [k \in 0 .. 0 |-> a]
  <2>1. f \in [0 .. 0 -> V] /\ Recurs(f, 0, a, s)
    BY DEF Recurs
  <2> QED
    BY <1>3, <1>4, <2>1
<1>5. CASE x # 0
  <2>1. x - 1 \in Nat /\ ~ (x <= x - 1)
    BY <1>5
  <2>2. x - 1 \notin B
    BY <1>3, <2>1
  <2>3. PICK g \in [0 .. x - 1 -> V] : Recurs(g, x - 1, a, s)
    BY <2>1, <2>2
  <2> DEFINE f == [k \in 0 .. x |-> IF k = x THEN s[<<x, g[x - 1]>>] ELSE g[k]]
  <2>4. \A k \in 0 .. x - 1 : g[k] = IF k = 0 THEN a ELSE s[<<k, g[k - 1]>>]
    BY <2>3 DEF Recurs
  <2>5. ASSUME NEW k \in 0 .. x PROVE f[k] = IF k = 0 THEN a ELSE s[<<k, f[k - 1]>>]
    <3>1. CASE k = x
      <4>1. f[x] = s[<<x, g[x - 1]>>]
        BY <2>1
      <4>2. f[x - 1] = g[x - 1]
        BY <2>1
      <4> HIDE DEF f
      <4> QED
        BY <1>5, <3>1, <4>1, <4>2
    <3>2. CASE k # x
      <4>1. k \in 0 .. x - 1 /\ (k # 0 => k - 1 \in 0 .. x /\ k - 1 # x)
        BY <2>1, <3>2
      <4>2. f[k] = g[k] /\ (k # 0 => f[k - 1] = g[k - 1])
        BY <3>2, <4>1
      <4> QED
        BY <2>4, <4>1, <4>2
    <3> QED
      BY <3>1, <3>2
  <2>6. g[x - 1] \in V /\ <<x, g[x - 1]>> \in Nat \X V
    BY <2>1
  <2>7. s[<<x, g[x - 1]>>] \in V
    BY <2>6
  <2>8. f \in [0 .. x -> V]
    BY <2>1, <2>7
  <2> HIDE DEF f
  <2>9. Recurs(f, x, a, s)
    BY <2>5 DEF Recurs
  <2> QED
    BY <2>8, <2>9
<1> QED
  BY <1>4, <1>5

RecOf(f, V, a, s) ==
    f \in [Nat -> V] /\ \A k \in Nat : f[k] = IF k = 0 THEN a ELSE s[<<k, f[k - 1]>>]

LEMMA RecFun ==
    ASSUME NEW V, NEW a \in V, NEW s \in [Nat \X V -> V]
    PROVE  \E f : RecOf(f, V, a, s)
<1> DEFINE R(n) == CHOOSE g \in [0 .. n -> V] : Recurs(g, n, a, s)
           f == [k \in Nat |-> R(k)[k]]
<1>1. ASSUME NEW n \in Nat PROVE R(n) \in [0 .. n -> V] /\ Recurs(R(n), n, a, s)
  BY RecursExists
<1> HIDE DEF R
<1>2. f \in [Nat -> V]
  BY <1>1
<1>3. ASSUME NEW k \in Nat PROVE f[k] = IF k = 0 THEN a ELSE s[<<k, f[k - 1]>>]
  <2>1. f[k] = IF k = 0 THEN a ELSE s[<<k, R(k)[k - 1]>>]
    BY <1>1 DEF Recurs
  <2>2. CASE k # 0
    <3>1. k - 1 \in Nat /\ k - 1 <= k /\ k - 1 <= k - 1
      BY <2>2
    <3>2. R(k)[k - 1] = R(k - 1)[k - 1]
      BY <1>1, <3>1, RecursUnique
    <3>3. f[k - 1] = R(k - 1)[k - 1]
      BY <3>1
    <3> QED
      BY <2>1, <3>2, <3>3
  <2> QED
    BY <2>1, <2>2
<1> HIDE DEF f
<1>4. RecOf(f, V, a, s)
  BY <1>2, <1>3 DEF RecOf
<1> QED
  BY <1>4

-----------------------------------------------------------------------------
(* The directories by depth.                                                  *)

\* the directories that the entries of the directories in D name
Below(D) == {b \in {e.bno : e \in UNION {Subdirs(d) : d \in D}} : IsDir(b)}

Top == {b \in {Root} : IsDir(b)}

LEMMA BelowFacts ==
    ASSUME Disk(disk), NEW D \in SUBSET Blocks
    PROVE  /\ Below(D) \in SUBSET Blocks /\ Top \in SUBSET Blocks
           /\ \A b : b \in Below(D) <=>
                 /\ IsDir(b)
                 /\ \E d \in D, i \in Slots : /\ Ent(disk, d, i).name # "" /\ Ent(disk, d, i).type = "dir"
                                              /\ Ent(disk, d, i).bno = b
           /\ \A b : b \in Top <=> b = Root /\ IsDir(Root)
<1>1. \A d \in D : \A e : e \in Subdirs(d) <=>
           \E i \in Slots : e = Ent(disk, d, i) /\ e.name # "" /\ e.type = "dir"
  BY DEF Subdirs, Children, Ent
<1>2. \A b : b \in Below(D) <=>
         IsDir(b) /\ \E d \in D : \E e \in Subdirs(d) : e.bno = b
  BY DEF Below
<1>3. \A b : b \in Below(D) <=>
                 /\ IsDir(b)
                 /\ \E d \in D, i \in Slots : /\ Ent(disk, d, i).name # "" /\ Ent(disk, d, i).type = "dir"
                                              /\ Ent(disk, d, i).bno = b
  <2> SUFFICES ASSUME NEW b
               PROVE  b \in Below(D) <=>
                 /\ IsDir(b)
                 /\ \E d \in D, i \in Slots : /\ Ent(disk, d, i).name # "" /\ Ent(disk, d, i).type = "dir"
                                              /\ Ent(disk, d, i).bno = b
    OBVIOUS
  <2>1. ASSUME b \in Below(D)
        PROVE  /\ IsDir(b)
               /\ \E d \in D, i \in Slots : /\ Ent(disk, d, i).name # "" /\ Ent(disk, d, i).type = "dir"
                                            /\ Ent(disk, d, i).bno = b
    <3>1. IsDir(b) /\ \E d \in D : \E e \in Subdirs(d) : e.bno = b
      BY <1>2, <2>1
    <3>4. PICK d \in D : \E e \in Subdirs(d) : e.bno = b
      BY <3>1
    <3>2. PICK e \in Subdirs(d) : e.bno = b
      BY <3>4
    <3>3. PICK i \in Slots : e = Ent(disk, d, i) /\ e.name # "" /\ e.type = "dir"
      BY <1>1, <3>2
    <3> QED
      BY <3>1, <3>2, <3>3
  <2>2. ASSUME IsDir(b), NEW d \in D, NEW i \in Slots, Ent(disk, d, i).name # "",
               Ent(disk, d, i).type = "dir", Ent(disk, d, i).bno = b
        PROVE  b \in Below(D)
    <3>1. Ent(disk, d, i) \in Subdirs(d)
      BY <1>1, <2>2
    <3> QED
      BY <1>2, <2>2, <3>1
  <2> QED
    BY <2>1, <2>2
<1>4. Below(D) \in SUBSET Blocks
  <2>1. ASSUME NEW b \in Below(D) PROVE b \in Blocks
    <3>1. PICK d \in D, i \in Slots : Ent(disk, d, i).bno = b
      BY <1>3
    <3> QED
      BY <3>1, DiskTyped
  <2> QED
    BY <2>1
<1> QED
  BY <1>3, <1>4, Numbers DEF Top

AtDef(f) == f = [k \in Nat |-> IF k = 0 THEN Top ELSE Below(f[k - 1])]

LEMMA DirsAtDef ==
    ASSUME Disk(disk)
    PROVE  /\ DirsAt \in [Nat -> SUBSET Blocks]
           /\ DirsAt[0] = Top /\ \A k \in Nat : DirsAt[k + 1] = Below(DirsAt[k])
<1> DEFINE V == SUBSET Blocks
           s == [x \in Nat \X V |-> Below(x[2])]
<1>1. Top \in V /\ \A D \in V : Below(D) \in V
  BY BelowFacts
<1>2. s \in [Nat \X V -> V] /\ \A k \in Nat, D \in V : s[<<k, D>>] = Below(D)
  <2>1. ASSUME NEW x \in Nat \X V PROVE Below(x[2]) \in V
    BY <1>1
  <2> QED
    BY <2>1
<1> HIDE DEF s, V
<1>3. PICK f : RecOf(f, V, Top, s)
  BY <1>1, <1>2, RecFun
<1>4. ASSUME NEW k \in Nat PROVE f[k] = IF k = 0 THEN Top ELSE Below(f[k - 1])
  <2>1. f[k] = IF k = 0 THEN Top ELSE s[<<k, f[k - 1]>>]
    BY <1>3 DEF RecOf
  <2>2. k # 0 => f[k - 1] \in V
    BY <1>3 DEF RecOf
  <2> QED
    BY <1>2, <2>1, <2>2
<1>5. AtDef(f)
  <2>1. f = [k \in Nat |-> f[k]]
    BY <1>3 DEF RecOf
  <2> QED
    BY <1>4, <2>1 DEF AtDef
<1> DEFINE g == CHOOSE u : AtDef(u)
<1>6. AtDef(g)
  BY <1>5
<1>7. DirsAt = g
  BY DEF DirsAt, AtDef, Top, Below
<1> HIDE DEF g
<1>8. AtDef(DirsAt)
  BY <1>6, <1>7
<1>9. \A k \in Nat : DirsAt[k] = IF k = 0 THEN Top ELSE Below(DirsAt[k - 1])
  BY <1>8 DEF AtDef
<1>10. DirsAt[0] = Top /\ \A k \in Nat : DirsAt[k + 1] = Below(DirsAt[k])
  BY <1>9
<1>11. \A k \in Nat : DirsAt[k] \in V
  <2> DEFINE B == {k \in Nat : DirsAt[k] \notin V}
  <2>1. SUFFICES ASSUME B # {} PROVE FALSE
    OBVIOUS
  <2>2. PICK x \in B : \A y \in B : x <= y
    <3>1. B \subseteq Nat
      OBVIOUS
    <3> HIDE DEF B
    <3> QED
      BY <2>1, <3>1, LeastNat
  <2>3. x # 0
    BY <1>1, <1>10
  <2>4. x - 1 \in Nat /\ ~ (x <= x - 1) /\ x - 1 + 1 = x
    BY <2>3
  <2>5. DirsAt[x - 1] \in V
    BY <2>2, <2>4
  <2> QED
    BY <1>1, <1>10, <2>4, <2>5
<1>12. DirsAt = [k \in Nat |-> DirsAt[k]]
  BY <1>8 DEF AtDef
<1> QED
  BY <1>10, <1>11, <1>12 DEF V

WithinDef(f) == f = [k \in Nat |-> IF k = 0 THEN Top ELSE f[k - 1] \cup Below(f[k - 1])]

LEMMA DirsWithinDef ==
    ASSUME Disk(disk)
    PROVE  /\ DirsWithin \in [Nat -> SUBSET Blocks]
           /\ DirsWithin[0] = Top
           /\ \A k \in Nat : DirsWithin[k + 1] = DirsWithin[k] \cup Below(DirsWithin[k])
<1> DEFINE V == SUBSET Blocks
           s == [x \in Nat \X V |-> x[2] \cup Below(x[2])]
<1>1. Top \in V /\ \A D \in V : D \cup Below(D) \in V
  BY BelowFacts
<1>2. s \in [Nat \X V -> V] /\ \A k \in Nat, D \in V : s[<<k, D>>] = D \cup Below(D)
  <2>1. ASSUME NEW x \in Nat \X V PROVE x[2] \cup Below(x[2]) \in V
    BY <1>1
  <2> QED
    BY <2>1
<1> HIDE DEF s, V
<1>3. PICK f : RecOf(f, V, Top, s)
  BY <1>1, <1>2, RecFun
<1>4. ASSUME NEW k \in Nat PROVE f[k] = IF k = 0 THEN Top ELSE f[k - 1] \cup Below(f[k - 1])
  <2>1. f[k] = IF k = 0 THEN Top ELSE s[<<k, f[k - 1]>>]
    BY <1>3 DEF RecOf
  <2>2. k # 0 => f[k - 1] \in V
    BY <1>3 DEF RecOf
  <2> QED
    BY <1>2, <2>1, <2>2
<1>5. WithinDef(f)
  <2>1. f = [k \in Nat |-> f[k]]
    BY <1>3 DEF RecOf
  <2> QED
    BY <1>4, <2>1 DEF WithinDef
<1> DEFINE g == CHOOSE u : WithinDef(u)
<1>6. WithinDef(g)
  BY <1>5
<1>7. DirsWithin = g
  BY DEF DirsWithin, WithinDef, Top, Below
<1> HIDE DEF g
<1>8. WithinDef(DirsWithin)
  BY <1>6, <1>7
<1>9. \A k \in Nat : DirsWithin[k] = IF k = 0 THEN Top ELSE DirsWithin[k - 1] \cup Below(DirsWithin[k - 1])
  BY <1>8 DEF WithinDef
<1>10. DirsWithin[0] = Top /\ \A k \in Nat : DirsWithin[k + 1] = DirsWithin[k] \cup Below(DirsWithin[k])
  <2>1. ASSUME NEW k \in Nat PROVE DirsWithin[k + 1] = DirsWithin[k] \cup Below(DirsWithin[k])
    <3>1. k + 1 \in Nat /\ k + 1 # 0 /\ (k + 1) - 1 = k
      OBVIOUS
    <3>2. DirsWithin[k + 1] = DirsWithin[(k + 1) - 1] \cup Below(DirsWithin[(k + 1) - 1])
      BY <1>9, <3>1
    <3> QED
      BY <3>1, <3>2
  <2>2. DirsWithin[0] = Top
    BY <1>9
  <2> QED
    BY <2>1, <2>2
<1>11. \A k \in Nat : DirsWithin[k] \in V
  <2> DEFINE B == {k \in Nat : DirsWithin[k] \notin V}
  <2>1. SUFFICES ASSUME B # {} PROVE FALSE
    OBVIOUS
  <2>2. PICK x \in B : \A y \in B : x <= y
    <3>1. B \subseteq Nat
      OBVIOUS
    <3> HIDE DEF B
    <3> QED
      BY <2>1, <3>1, LeastNat
  <2>3. x # 0
    BY <1>1, <1>10
  <2>4. x - 1 \in Nat /\ ~ (x <= x - 1) /\ x - 1 + 1 = x
    BY <2>3
  <2>5. DirsWithin[x - 1] \in V
    BY <2>2, <2>4
  <2> QED
    BY <1>1, <1>10, <2>4, <2>5
<1>12. DirsWithin = [k \in Nat |-> DirsWithin[k]]
  BY <1>8 DEF WithinDef
<1> QED
  BY <1>10, <1>11, <1>12 DEF V

-----------------------------------------------------------------------------
(* The entries that fs_scan_dir meets.                                        *)

\* q lists the named ones of the first k entries of b
Listed(b, q, k) ==
    /\ q \in Seq(EntryType)
    /\ \A j \in 1 .. Len(q) : \E i \in 1 .. k : q[j] = Ent(disk, b, i) /\ Ent(disk, b, i).name # ""
    /\ \A i \in 1 .. k : Ent(disk, b, i).name # "" => \E j \in 1 .. Len(q) : q[j] = Ent(disk, b, i)

UptoDef(b, f) ==
    f = [i \in 0 .. MAX_DIR_ENTRIES |->
           IF i = 0 THEN <<>>
           ELSE IF disk[b].ents[i].name = "" THEN f[i - 1]
           ELSE Append(f[i - 1], disk[b].ents[i])]

LEMMA ListedStep ==
    ASSUME Disk(disk), NEW b \in Blocks, NEW k \in Slots, NEW q, Listed(b, q, k - 1)
    PROVE  Listed(b, IF Ent(disk, b, k).name = "" THEN q ELSE Append(q, Ent(disk, b, k)), k)
<1> DEFINE e == Ent(disk, b, k)
<1>0. k \in Nat \ {0} /\ e \in EntryType /\ q \in Seq(EntryType) /\ Len(q) \in Nat
  <2>1. k \in Nat \ {0}
    BY Numbers
  <2>2. e \in EntryType
    BY DiskTyped
  <2>3. q \in Seq(EntryType)
    BY DEF Listed
  <2> QED
    BY <2>1, <2>2, <2>3
<1>1. \A i \in 1 .. k : i \in 1 .. k - 1 \/ i = k
  BY <1>0
<1>4. \A i \in 1 .. k - 1 : i \in 1 .. k
  BY <1>0
<1>2. CASE e.name = ""
  BY <1>0, <1>1, <1>2, <1>4 DEF Listed
<1>3. CASE e.name # ""
  <2> DEFINE r == Append(q, e)
  <2>1. r \in Seq(EntryType) /\ Len(r) = Len(q) + 1 /\ r[Len(q) + 1] = e
        /\ \A j \in 1 .. Len(q) : r[j] = q[j]
    BY <1>0
  <2> HIDE DEF r
  <2>2. ASSUME NEW j \in 1 .. Len(r)
        PROVE  \E i \in 1 .. k : r[j] = Ent(disk, b, i) /\ Ent(disk, b, i).name # ""
    <3>0. j \in 1 .. Len(q) \/ j = Len(q) + 1
      BY <1>0, <2>1, <2>2
    <3>1. CASE j = Len(q) + 1
      <4>1. r[j] = Ent(disk, b, k) /\ k \in 1 .. k
        BY <1>0, <2>1, <3>1
      <4> QED
        BY <1>3, <4>1
    <3>2. CASE j \in 1 .. Len(q)
      BY <1>4, <2>1, <3>2 DEF Listed
    <3> QED
      BY <3>0, <3>1, <3>2
  <2>3. ASSUME NEW i \in 1 .. k, Ent(disk, b, i).name # ""
        PROVE  \E j \in 1 .. Len(r) : r[j] = Ent(disk, b, i)
    <3>1. CASE i = k
      <4>1. Len(q) + 1 \in 1 .. Len(r)
        BY <1>0, <2>1
      <4> QED
        BY <2>1, <3>1, <4>1
    <3>2. CASE i \in 1 .. k - 1
      <4>1. PICK j \in 1 .. Len(q) : q[j] = Ent(disk, b, i)
        BY <2>3, <3>2 DEF Listed
      <4>2. j \in 1 .. Len(r) /\ r[j] = q[j]
        BY <1>0, <2>1, <4>1
      <4> QED
        BY <4>1, <4>2
    <3> QED
      BY <1>1, <3>1, <3>2
  <2>4. Listed(b, r, k)
    BY <2>1, <2>2, <2>3 DEF Listed
  <2> QED
    BY <1>3, <2>4 DEF r
<1> QED
  BY <1>2, <1>3

LEMMA NamedFacts ==
    ASSUME Disk(disk), NEW b \in Blocks
    PROVE  Listed(b, NamedEntries(b), MAX_DIR_ENTRIES)
<1> DEFINE V == Seq(EntryType)
           s == [x \in Nat \X V |-> IF x[1] \in Slots /\ Ent(disk, b, x[1]).name # ""
                                    THEN Append(x[2], Ent(disk, b, x[1])) ELSE x[2]]
<1>1. \A k \in Nat, q \in V : k \in Slots => Append(q, Ent(disk, b, k)) \in V
  <2>1. \A k \in Slots : Ent(disk, b, k) \in EntryType
    BY DiskTyped
  <2> QED
    BY <2>1
<1>2. /\ s \in [Nat \X V -> V]
      /\ \A k \in Slots, q \in V :
            s[<<k, q>>] = IF Ent(disk, b, k).name = "" THEN q ELSE Append(q, Ent(disk, b, k))
  <2>1. ASSUME NEW x \in Nat \X V PROVE x[1] \in Nat /\ x[2] \in V
    OBVIOUS
  <2>2. s \in [Nat \X V -> V]
    BY <1>1, <2>1
  <2>3. ASSUME NEW k \in Slots, NEW q \in V
        PROVE  s[<<k, q>>] = IF Ent(disk, b, k).name = "" THEN q ELSE Append(q, Ent(disk, b, k))
    <3>1. <<k, q>> \in Nat \X V
      BY Numbers
    <3> QED
      BY <3>1
  <2> QED
    BY <2>2, <2>3
<1>3. <<>> \in V
  OBVIOUS
<1> HIDE DEF s, V
<1>4. PICK f : RecOf(f, V, <<>>, s)
  BY <1>2, <1>3, RecFun
<1> DEFINE u == [i \in 0 .. MAX_DIR_ENTRIES |-> f[i]]
           g == CHOOSE w : UptoDef(b, w)
<1>0. MAX_DIR_ENTRIES \in Nat /\ 0 \in 0 .. MAX_DIR_ENTRIES /\ MAX_DIR_ENTRIES \in 0 .. MAX_DIR_ENTRIES
  BY LimitsAssumption
<1>5. ASSUME NEW i \in 0 .. MAX_DIR_ENTRIES
      PROVE  u[i] = IF i = 0 THEN <<>>
                    ELSE IF disk[b].ents[i].name = "" THEN u[i - 1]
                    ELSE Append(u[i - 1], disk[b].ents[i])
  <2>1. i \in Nat /\ f[i] = IF i = 0 THEN <<>> ELSE s[<<i, f[i - 1]>>]
    BY <1>0, <1>4 DEF RecOf
  <2>2. CASE i = 0
    BY <2>1, <2>2
  <2>3. CASE i # 0
    <3>1. i \in Slots /\ i - 1 \in Nat /\ i - 1 \in 0 .. MAX_DIR_ENTRIES
      BY <1>0, <2>3 DEF Slots
    <3>2. f[i - 1] \in V /\ u[i - 1] = f[i - 1] /\ u[i] = f[i]
      BY <1>4, <3>1 DEF RecOf
    <3>3. f[i] = IF Ent(disk, b, i).name = "" THEN f[i - 1] ELSE Append(f[i - 1], Ent(disk, b, i))
      BY <1>2, <2>1, <2>3, <3>1, <3>2
    <3> HIDE DEF u
    <3> QED
      BY <2>3, <3>2, <3>3 DEF Ent
  <2> QED
    BY <2>2, <2>3
<1>6. u = [i \in 0 .. MAX_DIR_ENTRIES |-> u[i]]
  OBVIOUS
<1> HIDE DEF u
<1>7. UptoDef(b, u)
  BY <1>5, <1>6 DEF UptoDef
<1>8. UptoDef(b, g)
  BY <1>7
<1>9. NamedEntries(b) = g[MAX_DIR_ENTRIES]
  BY DEF NamedEntries, UptoDef
<1> HIDE DEF g
<1>10. ASSUME NEW i \in 0 .. MAX_DIR_ENTRIES
       PROVE  g[i] = IF i = 0 THEN <<>>
                     ELSE IF Ent(disk, b, i).name = "" THEN g[i - 1]
                     ELSE Append(g[i - 1], Ent(disk, b, i))
  BY <1>8 DEF UptoDef, Ent
<1> DEFINE B == {k \in 0 .. MAX_DIR_ENTRIES : ~ Listed(b, g[k], k)}
<1>11. B = {}
  <2>1. SUFFICES ASSUME B # {} PROVE FALSE
    OBVIOUS
  <2>2. PICK x \in B : \A y \in B : x <= y
    <3>1. B \subseteq Nat
      BY <1>0
    <3> HIDE DEF B
    <3> QED
      BY <2>1, <3>1, LeastNat
  <2>3. CASE x = 0
    <3>1. g[0] = <<>>
      BY <1>0, <1>10
    <3>3. <<>> \in Seq(EntryType) /\ Len(<<>>) = 0 /\ 1 .. 0 = {}
      OBVIOUS
    <3>2. Listed(b, <<>>, 0)
      BY <3>3 DEF Listed
    <3> QED
      BY <2>2, <2>3, <3>1, <3>2
  <2>4. CASE x # 0
    <3>1. x \in Slots /\ x - 1 \in 0 .. MAX_DIR_ENTRIES /\ ~ (x <= x - 1)
      BY <1>0, <2>4 DEF Slots
    <3>2. Listed(b, g[x - 1], x - 1)
      BY <2>2, <3>1
    <3>3. g[x] = IF Ent(disk, b, x).name = "" THEN g[x - 1] ELSE Append(g[x - 1], Ent(disk, b, x))
      BY <1>10, <2>4
    <3>4. Listed(b, g[x], x)
      BY <3>1, <3>2, <3>3, ListedStep
    <3> QED
      BY <2>2, <3>4
  <2> QED
    BY <2>3, <2>4
<1> QED
  BY <1>0, <1>9, <1>11

-----------------------------------------------------------------------------
(* Format, the reboot and the scan of fs_rebuild_alloc_state.                 *)

LEMMA SameDirs ==
    ASSUME disk' = disk
    PROVE  DirsAt' = DirsAt
BY DEF DirsAt, IsDir, Subdirs, Children

(* The state between two calls, with or without a map. *)
LEMMA FormatTree ==
    ASSUME Inv, Format
    PROVE  \E T, h, p : Good(T, h, p)'
<1> DEFINE h == [b \in Blocks |-> Nobody]
           p == [b \in Blocks |-> 0]
<1>1. /\ disk' = [disk EXCEPT ![Root] = DirBlock(Root)] /\ used' = Reserved
      /\ op' = Idle /\ scan' = <<>> /\ Disk(disk)
  BY DEF Format, Inv, TypeOK, Disk
<1>2. Layout(disk', {Root}, h, p, 0)
  BY <1>1, RootOnly
<1>3. Quiet(h) /\ NoHold(h, Old) /\ Marked(used', {Root}, h)
  <2>1. Root \in Reserved
    BY Numbers DEF Reserved
  <2> QED
    BY <1>1, <2>1, Pairs DEF Quiet, NoHold, Marked
<1>4. Good({Root}, h, p)'
  BY <1>1, <1>2, <1>3, CallEnds
<1> QED
  BY <1>4

LEMMA CrashTree ==
    ASSUME Inv, NEW T, NEW h, NEW p, Good(T, h, p), Crash, ~ torn'
    PROVE  \E g : Good(T, g, p)'
<1>1. /\ disk' = disk /\ op' = Idle /\ scan' = <<>> /\ ~ fs_alloc_ready'
      /\ ~ (op.call = "mkdir" /\ op.at = "block")
  BY Zenon DEF Crash
<1>2. Layout(disk, T, h, p, Hang(op)) /\ Hang(op) = 0 /\ NoHold(h, Old)
  BY <1>1, CallKinds DEF Good, Hang
<1> DEFINE g == Relabel(h, InCall, Nobody)
<1>3. Layout(disk', T, g, p, 0) /\ Quiet(g) /\ NoHold(g, Old)
  BY <1>1, <1>2, Drop
<1> HIDE DEF g
<1>4. op'.call = "none"
  BY <1>1 DEF Idle
<1>5. CallOk(disk', op', T, g, p) /\ Hang(op') = 0
  BY <1>3, <1>4, CallKinds
<1>6. Good(T, g, p)'
  BY <1>1, <1>3, <1>5 DEF Good, MapReady
<1> QED
  BY <1>6

(* The state in which the scan may begin or go on. *)
LEMMA BetweenCalls ==
    ASSUME Inv, Settled, NEW T, NEW h, NEW p, Good(T, h, p), ~ MapReady
    PROVE  /\ op = Idle /\ Layout(disk, T, h, p, 0) /\ Quiet(h) /\ NoHold(h, Old)
           /\ Maps(disk, T, h, p) /\ Disk(disk) /\ T \subseteq Blocks
           /\ \A d \in T : disk[d].magic = "dir" /\ (d = Root \/ d >= FIRST_BLOCK)
           /\ disk[Root].magic = "dir" => Root \in T
<1>1. op = Idle
  BY DEF Settled
<1>2. op.call = "none"
  BY <1>1 DEF Idle
<1>3. Layout(disk, T, h, p, 0) /\ Quiet(h) /\ NoHold(h, Old)
  BY <1>2, CallKinds DEF Good
<1>4. Maps(disk, T, h, p)
  BY <1>3 DEF Layout
<1> QED
  BY <1>1, <1>3, <1>4 DEF Maps

(* The state in which the scan has still to go on. *)
LEMMA ScanGoesOn ==
    ASSUME NEW T, NEW h, NEW p, Layout(disk, T, h, p, 0), Quiet(h), NoHold(h, Old), op = Idle,
           disk' = disk, op' = op, scan' # <<>>, fs_alloc_ready',
           Scanning(disk, DirsAt, used', scan', T, h)
    PROVE  Good(T, h, p)'
<1>1. op'.call = "none"
  BY DEF Idle
<1>2. CallOk(disk', op', T, h, p) /\ Hang(op') = 0
  BY <1>1, CallKinds
<1>3. DirsAt' = DirsAt
  BY SameDirs
<1>4. Scanning(disk', DirsAt', used', scan', T, h)
  BY <1>3
<1> QED
  BY <1>2, <1>4 DEF Good, MapReady

LEMMA RebuildBeginTree ==
    ASSUME Inv, Settled, NEW T, NEW h, NEW p, Good(T, h, p), RebuildBegin
    PROVE  \E U, g, q : Good(U, g, q)'
<1> DEFINE w == [type |-> "dir", bno |-> Root, depth |-> 0]
<1>1. /\ used' = Reserved /\ fs_alloc_ready' /\ disk' = disk /\ op' = op
      /\ scan' = IF IsDir(Root) THEN <<w>> ELSE <<>>
      /\ ~ MapReady
  BY DEF RebuildBegin, MapReady
<1>2. /\ op = Idle /\ Layout(disk, T, h, p, 0) /\ Quiet(h) /\ NoHold(h, Old)
      /\ Maps(disk, T, h, p) /\ Disk(disk) /\ T \subseteq Blocks
      /\ \A d \in T : disk[d].magic = "dir" /\ (d = Root \/ d >= FIRST_BLOCK)
      /\ disk[Root].magic = "dir" => Root \in T
  BY <1>1, BetweenCalls
<1>3. CASE ~ IsDir(Root)
  <2> DEFINE g == [b \in Blocks |-> Nobody]
             q == [b \in Blocks |-> 0]
  <2>1. disk[Root].magic # "dir" /\ scan' = <<>>
    BY <1>1, <1>3, Numbers DEF IsDir
  <2>2. Layout(disk', {}, g, q, 0)
    BY <1>1, <1>2, <2>1, NoTree
  <2>3. Quiet(g) /\ NoHold(g, Old) /\ Marked(used', {}, g)
    BY <1>1, Pairs DEF Quiet, NoHold, Marked
  <2>4. Good({}, g, q)'
    BY <1>1, <1>2, <2>1, <2>2, <2>3, CallEnds
  <2> QED
    BY <2>4
<1>4. CASE IsDir(Root)
  <2>1. scan' = <<w>> /\ Root \in T /\ scan' # <<>> /\ Len(scan') = 1 /\ scan'[1] = w
    BY <1>1, <1>2, <1>4 DEF IsDir
  <2>2. scan' \in Seq(ScanItems)
    <3>1. w \in ScanItems
      BY Numbers, LimitsAssumption DEF ScanItems
    <3> HIDE DEF w
    <3> QED
      BY <2>1, <3>1
  <2>3. ItemOk(disk, DirsAt, T, h, w)
    <3>1. Root \in DirsAt[0]
      BY <1>2, <1>4, DirsAtDef DEF Top
    <3> QED
      BY <2>1, <3>1 DEF ItemOk
  <2>4. ASSUME NEW d \in T \cap Reserved PROVE d = Root
    BY <1>2, Numbers DEF Reserved
  <2>5. ASSUME NEW b \in Reserved, b \in Blocks, NEW d \in T, NEW i \in Slots, h[b] = <<d, i>>,
               Ent(disk, d, i).type = "file"
        PROVE  FALSE
    <3>1. b >= FIRST_BLOCK
      BY <1>2, <2>5, HighBlock
    <3> QED
      BY <3>1, Numbers DEF Reserved
  <2>6. w.depth = 0
    OBVIOUS
  <2> HIDE DEF w
  <2>7. Scanning(disk, DirsAt, Reserved, scan', T, h)
    BY <2>1, <2>2, <2>3, <2>4, <2>5, <2>6 DEF Scanning
  <2>8. Good(T, h, p)'
    BY <1>1, <1>2, <2>1, <2>7, ScanGoesOn
  <2> QED
    BY <2>8
<1> QED
  BY <1>3, <1>4

(* The calls in N are those in Q and then those after the first in S. *)
Follows(S, Q, N) ==
    /\ N \in Seq(ScanItems)
    /\ \A j \in 1 .. Len(N) : \/ \E m \in 1 .. Len(Q) : N[j] = Q[m]
                              \/ \E m \in 1 .. Len(S) : N[j] = S[m]
    /\ \A c, t : Waits(S, c, t) => (c = S[1].bno /\ t = S[1].type) \/ Waits(N, c, t)
    /\ \A c, t : Waits(Q, c, t) => Waits(N, c, t)

LEMMA Unfolded ==
    ASSUME NEW S \in Seq(ScanItems), S # <<>>, NEW Q \in Seq(ScanItems)
    PROVE  Follows(S, Q, Q \o Tail(S))
<1> DEFINE R == Tail(S)
           N == Q \o R
<1>1. /\ R \in Seq(ScanItems) /\ Len(S) \in Nat \ {0} /\ Len(R) = Len(S) - 1
      /\ \A m \in 1 .. Len(R) : R[m] = S[m + 1] /\ m + 1 \in 1 .. Len(S)
  OBVIOUS
<1>2. /\ N \in Seq(ScanItems) /\ Len(N) = Len(Q) + Len(R) /\ Len(Q) \in Nat /\ Len(R) \in Nat
      /\ \A j \in 1 .. Len(N) : N[j] = IF j <= Len(Q) THEN Q[j] ELSE R[j - Len(Q)]
  BY <1>1
<1> HIDE DEF R, N
<1>3. ASSUME NEW j \in 1 .. Len(N)
      PROVE  (\E m \in 1 .. Len(Q) : N[j] = Q[m]) \/ (\E m \in 1 .. Len(S) : N[j] = S[m])
  <2>1. CASE j <= Len(Q)
    <3>1. j \in 1 .. Len(Q) /\ N[j] = Q[j]
      BY <1>2, <2>1
    <3> QED
      BY <3>1
  <2>2. CASE ~ (j <= Len(Q))
    <3>1. j - Len(Q) \in 1 .. Len(R) /\ N[j] = R[j - Len(Q)]
      BY <1>2, <2>2
    <3>2. N[j] = S[j - Len(Q) + 1] /\ j - Len(Q) + 1 \in 1 .. Len(S)
      BY <1>1, <3>1
    <3> QED
      BY <3>2
  <2> QED
    BY <2>1, <2>2
<1>4. ASSUME NEW c, NEW t, Waits(S, c, t), ~ (c = S[1].bno /\ t = S[1].type)
      PROVE  Waits(N, c, t)
  <2>1. PICK j \in 1 .. Len(S) : S[j].bno = c /\ S[j].type = t
    BY <1>4 DEF Waits
  <2>2. j # 1 /\ j - 1 \in 1 .. Len(R) /\ j - 1 + 1 = j
    BY <1>1, <1>4, <2>1
  <2>3. R[j - 1] = S[j]
    BY <1>1, <2>2
  <2>4. /\ Len(Q) + (j - 1) \in 1 .. Len(N) /\ ~ (Len(Q) + (j - 1) <= Len(Q))
        /\ (Len(Q) + (j - 1)) - Len(Q) = j - 1
    BY <1>2, <2>2
  <2>5. N[Len(Q) + (j - 1)] = S[j]
    BY <1>2, <2>3, <2>4
  <2> QED
    BY <2>1, <2>4, <2>5 DEF Waits
<1>5. ASSUME NEW c, NEW t, Waits(Q, c, t) PROVE Waits(N, c, t)
  <2>1. PICK j \in 1 .. Len(Q) : Q[j].bno = c /\ Q[j].type = t
    BY <1>5 DEF Waits
  <2>2. j \in 1 .. Len(N) /\ N[j] = Q[j]
    BY <1>2
  <2> QED
    BY <2>1, <2>2 DEF Waits
<1> QED
  BY <1>2, <1>3, <1>4, <1>5 DEF Follows, N, R

(* The first call of the scan is made: it marks the blocks in V and leaves Q. *)
FirstCall(D, A, U, S, T, h, Q, V) ==
    /\ U \subseteq V /\ (S[1].bno = 0 \/ S[1].bno \in V)
    /\ \A j \in 1 .. Len(Q) : ItemOk(D, A, T, h, Q[j])
    /\ \A d \in T \cap V : (d \in U /\ ~ (d = Root /\ S[1].depth = 0)) \/ Expanded(D, V, Q, d)
    /\ \A b \in (V \ U) \cap Blocks, d \in T, i \in Slots :
          h[b] = <<d, i>> /\ Ent(D, d, i).type = "file" =>
              D[b].next = 0 \/ D[b].next \in V \/ Waits(Q, D[b].next, "file")

LEMMA Scanned ==
    ASSUME NEW D, NEW A, NEW U, NEW S, NEW T, NEW h, Scanning(D, A, U, S, T, h), NEW Q, NEW V,
           FirstCall(D, A, U, S, T, h, Q, V), NEW N, Follows(S, Q, N)
    PROVE  Scanning(D, A, V, N, T, h)
<1>1. N \in Seq(ScanItems) /\ Reserved \subseteq V /\ U \subseteq V
  BY DEF Scanning, FirstCall, Follows
<1>2. ASSUME NEW c, NEW t, Waits(S, c, t) PROVE c = 0 \/ c \in V \/ Waits(N, c, t)
  BY <1>2 DEF FirstCall, Follows
<1>3. \A j \in 1 .. Len(N) : ItemOk(D, A, T, h, N[j])
  BY DEF Scanning, FirstCall, Follows
<1>4. ASSUME NEW d \in T \cap V PROVE Expanded(D, V, N, d)
  <2>1. CASE Expanded(D, V, Q, d)
    BY <2>1 DEF Expanded, Follows
  <2>2. CASE d \in U /\ ~ (d = Root /\ S[1].depth = 0)
    <3>1. Expanded(D, U, S, d)
      BY <2>2 DEF Scanning
    <3> QED
      BY <1>1, <1>2, <3>1 DEF Expanded
  <2> QED
    BY <2>1, <2>2 DEF FirstCall
<1>5. ASSUME NEW b \in V \cap Blocks, NEW d \in T, NEW i \in Slots, h[b] = <<d, i>>,
             Ent(D, d, i).type = "file"
      PROVE  D[b].next = 0 \/ D[b].next \in V \/ Waits(N, D[b].next, "file")
  <2>1. CASE b \in U
    <3>1. D[b].next = 0 \/ D[b].next \in U \/ Waits(S, D[b].next, "file")
      BY <1>5, <2>1 DEF Scanning
    <3> QED
      BY <1>1, <1>2, <3>1
  <2>2. CASE b \notin U
    <3>1. D[b].next = 0 \/ D[b].next \in V \/ Waits(Q, D[b].next, "file")
      BY <1>5, <2>2 DEF FirstCall
    <3> QED
      BY <3>1 DEF Follows
  <2> QED
    BY <2>1, <2>2
<1> QED
  BY <1>1, <1>3, <1>4, <1>5 DEF Scanning

(* When no call is left the map has what the tree is made of. *)
LEMMA ScanEnds ==
    ASSUME NEW T, NEW h, NEW p, Layout(disk, T, h, p, 0), op = Idle, disk' = disk, op' = op,
           scan' = <<>>, Scanning(disk, DirsAt, used', scan', T, h)
    PROVE  \E U, g : Good(U, g, p)'
<1> DEFINE K == used'
           U == T \cap K
           g == Keep(h, U, K)
<1>0. Len(scan') = 0 /\ 1 .. 0 = {}
  OBVIOUS
<1>1. /\ Reserved \subseteq K /\ Maps(disk, T, h, p) /\ U \subseteq T /\ Disk(disk)
      /\ disk[Root].magic = "dir" => Root \in T
  BY DEF Scanning, Layout, Maps
<1>2. disk[Root].magic = "dir" => Root \in U
  BY <1>1, Numbers DEF Reserved
<1>3. \A c, t : ~ Waits(scan', c, t)
  BY <1>0 DEF Waits
<1>4. ASSUME NEW d \in U, NEW i \in Slots, Ent(disk, d, i).name # "", Ent(disk, d, i).bno # 0
      PROVE  Ent(disk, d, i).bno \in K /\ (Ent(disk, d, i).type = "dir" => Ent(disk, d, i).bno \in U)
  <2>1. Expanded(disk, used', scan', d)
    BY <1>0 DEF Scanning
  <2>2. Ent(disk, d, i).bno \in K
    BY <1>3, <1>4, <2>1 DEF Expanded
  <2>3. EntryOk(T, h, p, 0, Ent(disk, d, i), <<d, i>>)
    BY <1>4 DEF Layout, DirOk
  <2>4. Ent(disk, d, i).type = "dir" => Ent(disk, d, i).bno \in T
    BY <1>4, <2>3 DEF EntryOk
  <2> QED
    BY <2>2, <2>4
<1>5. ASSUME NEW b \in K \cap Blocks, NEW d \in U, NEW i \in Slots, h[b] = <<d, i>>,
             Ent(disk, d, i).type = "file"
      PROVE  disk[b].next = 0 \/ disk[b].next \in K
  BY <1>3, <1>5 DEF Scanning
<1>6. Closed(disk, h, U, K)
  <2> HIDE DEF U, K
  <2> QED
    BY <1>4, <1>5 DEF Closed
<1>7. PICK W, L : W = U /\ L = K
  OBVIOUS
<1>8. /\ W \subseteq T /\ Closed(disk, h, W, L) /\ (disk[Root].magic = "dir" => Root \in W)
      /\ Reserved \subseteq used' /\ L = used' /\ W \subseteq used'
  BY <1>1, <1>2, <1>6, <1>7
<1> HIDE DEF U, K, g
<1>9. Layout(disk', W, Keep(h, W, L), p, 0)
  BY <1>8, Fewer
<1>10. /\ Quiet(Keep(h, W, L)) /\ NoHold(Keep(h, W, L), Old)
       /\ \A b \in Blocks : Keep(h, W, L)[b] # Nobody => b \in L
  BY <1>1, <1>8, KeepFacts
<1>11. Marked(used', W, Keep(h, W, L))
  BY <1>8, <1>10 DEF Marked
<1>12. Good(W, Keep(h, W, L), p)'
  BY <1>9, <1>10, <1>11, CallEnds
<1> QED
  BY <1>12

(* One call of the scan. *)
LEMMA ScanStep ==
    ASSUME Inv, Settled, NEW T, NEW h, NEW p, Good(T, h, p), scan # <<>>, NEW Q \in Seq(ScanItems),
           disk' = disk, op' = op, fs_alloc_ready' = fs_alloc_ready, scan' = Q \o Tail(scan),
           FirstCall(disk, DirsAt, used, scan, T, h, Q, used')
    PROVE  \E U, g : Good(U, g, p)'
<1>1. /\ op = Idle /\ Layout(disk, T, h, p, 0) /\ Quiet(h) /\ NoHold(h, Old)
  BY BetweenCalls DEF MapReady
<1>2. fs_alloc_ready /\ Scanning(disk, DirsAt, used, scan, T, h)
  BY DEF Good
<1>3. Follows(scan, Q, scan')
  BY <1>2, Unfolded DEF Scanning
<1>4. Scanning(disk, DirsAt, used', scan', T, h)
  BY <1>2, <1>3, Scanned
<1>5. CASE scan' = <<>>
  BY <1>1, <1>4, <1>5, ScanEnds
<1>6. CASE scan' # <<>>
  <2>1. Good(T, h, p)'
    BY <1>1, <1>2, <1>4, <1>6, ScanGoesOn
  <2> QED
    BY <2>1
<1> QED
  BY <1>5, <1>6

(* What the scan may rely on about its first call. *)
LEMMA ScanHead ==
    ASSUME Inv, Settled, NEW T, NEW h, NEW p, Good(T, h, p), scan # <<>>
    PROVE  /\ Scanning(disk, DirsAt, used, scan, T, h)
           /\ scan[1] = Head(scan) /\ Head(scan) \in ScanItems
           /\ ItemOk(disk, DirsAt, T, h, Head(scan))
           /\ <<>> \o Tail(scan) = Tail(scan) /\ <<>> \in Seq(ScanItems)
<1>1. Scanning(disk, DirsAt, used, scan, T, h)
  BY DEF Good
<1>2. scan \in Seq(ScanItems)
  BY <1>1 DEF Scanning
<1>3. scan[1] = Head(scan) /\ Head(scan) \in ScanItems /\ 1 \in 1 .. Len(scan)
  BY <1>2
<1>4. ItemOk(disk, DirsAt, T, h, Head(scan))
  BY <1>1, <1>3 DEF Scanning
<1>5. <<>> \o Tail(scan) = Tail(scan) /\ <<>> \in Seq(ScanItems)
  BY <1>2
<1> QED
  BY <1>1, <1>3, <1>4, <1>5

(* What fs_scan_dir calls for the entries of a directory. *)
LEMMA CallsOfDir ==
    ASSUME NEW T, NEW h, NEW p, Layout(disk, T, h, p, 0), NEW b \in T, NEW k \in Nat,
           k <= SCAN_DEPTH, b \in DirsAt[k]
    PROVE  LET Q == ScanCalls(b, k)
           IN /\ Q \in Seq(ScanItems)
              /\ \A j \in 1 .. Len(Q) : ItemOk(disk, DirsAt, T, h, Q[j])
              /\ \A U : Expanded(disk, U, Q, b)
<1> DEFINE s == NamedEntries(b)
           Q == ScanCalls(b, k)
<1>0. /\ Disk(disk) /\ Maps(disk, T, h, p) /\ T \subseteq Blocks /\ b \in Blocks
      /\ \A d \in T : disk[d].magic = "dir" /\ d # 0
  BY Numbers DEF Layout, Maps
<1>1. Listed(b, s, MAX_DIR_ENTRIES)
  BY <1>0, NamedFacts
<1>2. /\ s \in Seq(EntryType)
      /\ \A j \in 1 .. Len(s) : \E i \in Slots : s[j] = Ent(disk, b, i) /\ Ent(disk, b, i).name # ""
      /\ \A i \in Slots : Ent(disk, b, i).name # "" => \E j \in 1 .. Len(s) : s[j] = Ent(disk, b, i)
  BY <1>1 DEF Listed, Slots
<1>3. Q = [j \in DOMAIN s |-> [type |-> s[j].type, bno |-> s[j].bno, depth |-> k + 1]]
  BY DEF ScanCalls
<1> HIDE DEF s, Q
<1>4. DOMAIN s = 1 .. Len(s) /\ Len(s) \in Nat /\ \A j \in 1 .. Len(s) : s[j] \in EntryType
  <2>1. s \in Seq(EntryType)
    BY <1>2
  <2> QED
    BY <2>1
<1>5. ASSUME NEW j \in 1 .. Len(s)
      PROVE  [type |-> s[j].type, bno |-> s[j].bno, depth |-> k + 1] \in ScanItems
  <2>1. s[j].type \in {"file", "dir"} /\ s[j].bno \in Blocks
    BY <1>4 DEF EntryType
  <2>2. k + 1 \in 0 .. SCAN_DEPTH + 1
    BY LimitsAssumption
  <2> QED
    BY <2>1, <2>2 DEF ScanItems
<1>6. /\ Q \in Seq(ScanItems) /\ Len(Q) = Len(s)
      /\ \A j \in 1 .. Len(s) :
            Q[j].type = s[j].type /\ Q[j].bno = s[j].bno /\ Q[j].depth = k + 1
  <2>1. Q \in [1 .. Len(s) -> ScanItems]
    BY <1>3, <1>4, <1>5
  <2>2. Q \in Seq(ScanItems) /\ Len(Q) = Len(s)
    BY <1>4, <2>1
  <2>3. ASSUME NEW j \in 1 .. Len(s)
        PROVE  Q[j].type = s[j].type /\ Q[j].bno = s[j].bno /\ Q[j].depth = k + 1
    BY <1>3, <1>4
  <2> QED
    BY <2>2, <2>3
<1>7. ASSUME NEW j \in 1 .. Len(Q) PROVE ItemOk(disk, DirsAt, T, h, Q[j])
  <2>1. PICK i \in Slots : s[j] = Ent(disk, b, i) /\ Ent(disk, b, i).name # ""
    BY <1>2, <1>6
  <2> DEFINE e == Ent(disk, b, i)
  <2>2. EntryOk(T, h, p, 0, e, <<b, i>>)
    BY <2>1 DEF Layout, DirOk
  <2>0. k + 1 # 0
    OBVIOUS
  <2>3. Q[j].type = e.type /\ Q[j].bno = e.bno /\ Q[j].depth = k + 1 /\ k + 1 # 0
    <3>1. j \in 1 .. Len(s)
      BY <1>6
    <3>2. Q[j].type = s[j].type /\ Q[j].bno = s[j].bno /\ Q[j].depth = k + 1
      BY <1>6, <3>1
    <3> QED
      BY <2>0, <2>1, <3>2
  <2>4. ASSUME e.type = "dir", e.bno # 0 PROVE e.bno \in T /\ e.bno \in DirsAt[k + 1]
    <3>1. e.bno \in T
      BY <2>2, <2>4 DEF EntryOk
    <3>2. IsDir(e.bno)
      BY <1>0, <3>1 DEF IsDir
    <3>3. DirsAt[k + 1] = Below(DirsAt[k]) /\ DirsAt[k] \in SUBSET Blocks
      BY <1>0, DirsAtDef
    <3>4. e.bno \in Below(DirsAt[k])
      BY <1>0, <2>1, <2>4, <3>2, <3>3, BelowFacts
    <3> QED
      BY <3>1, <3>3, <3>4
  <2>5. e.type = "file" => h[e.bno] = <<b, i>>
    BY <2>2 DEF EntryOk
  <2>6. Q[j].type = "file" => \E d \in T, m \in Slots : h[Q[j].bno] = <<d, m>> /\ Ent(disk, d, m).type = "file"
    BY <2>3, <2>5
  <2> QED
    BY <2>3, <2>4, <2>6 DEF ItemOk
<1>8. ASSUME NEW U PROVE Expanded(disk, U, Q, b)
  <2>1. ASSUME NEW i \in Slots, Ent(disk, b, i).name # ""
        PROVE  Waits(Q, Ent(disk, b, i).bno, Ent(disk, b, i).type)
    <3>1. PICK j \in 1 .. Len(s) : s[j] = Ent(disk, b, i)
      BY <1>2, <2>1
    <3>2. j \in 1 .. Len(Q) /\ Q[j].bno = Ent(disk, b, i).bno /\ Q[j].type = Ent(disk, b, i).type
      BY <1>6, <3>1
    <3> QED
      BY <3>2 DEF Waits
  <2> QED
    BY <2>1 DEF Expanded
<1> QED
  BY <1>6, <1>7, <1>8 DEF Q

LEMMA ScanDirTree ==
    ASSUME Inv, Settled, Shallow, ~ torn, NEW T, NEW h, NEW p, Good(T, h, p), ScanDir
    PROVE  \E U, g : Good(U, g, p)'
<1> DEFINE w == Head(scan)
           b == w.bno
           k == w.depth
<1>1. /\ scan # <<>> /\ w.type = "dir"
      /\ IF b \in 1 .. FS_MAX_BLOCKS - 1 /\ k <= SCAN_DEPTH /\ (k = 0 \/ b \notin used) /\ IsDir(b)
         THEN used' = used \cup {b} /\ scan' = ScanCalls(b, k) \o Tail(scan)
         ELSE used' = used /\ scan' = Tail(scan)
      /\ disk' = disk /\ op' = op /\ fs_alloc_ready' = fs_alloc_ready
  BY DEF ScanDir
<1>2. /\ Scanning(disk, DirsAt, used, scan, T, h) /\ scan[1] = w /\ w \in ScanItems
      /\ ItemOk(disk, DirsAt, T, h, w)
      /\ <<>> \o Tail(scan) = Tail(scan) /\ <<>> \in Seq(ScanItems)
  BY <1>1, ScanHead
<1>3. /\ Layout(disk, T, h, p, 0) /\ Disk(disk) /\ T \subseteq Blocks
      /\ \A d \in T : disk[d].magic = "dir"
  BY <1>1, BetweenCalls DEF MapReady
<1>4. b \in Blocks /\ k \in 0 .. SCAN_DEPTH + 1 /\ SCAN_DEPTH \in Nat
  BY <1>2, LimitsAssumption DEF ScanItems
<1>5. /\ b # 0 => b \in T /\ b \in DirsAt[k]
      /\ k = 0 => b = Root
  BY <1>1, <1>2 DEF ItemOk
<1> HIDE DEF w, b, k
<1>6. CASE b \in 1 .. FS_MAX_BLOCKS - 1 /\ k <= SCAN_DEPTH /\ (k = 0 \/ b \notin used) /\ IsDir(b)
  <2> DEFINE Q == ScanCalls(b, k)
  <2>1. used' = used \cup {b} /\ scan' = Q \o Tail(scan)
    BY <1>1, <1>6
  <2>2. b \in T /\ b \in DirsAt[k] /\ k \in Nat /\ k <= SCAN_DEPTH
    BY <1>4, <1>5, <1>6
  <2>3. /\ Q \in Seq(ScanItems)
        /\ \A j \in 1 .. Len(Q) : ItemOk(disk, DirsAt, T, h, Q[j])
        /\ \A U : Expanded(disk, U, Q, b)
    BY <1>3, <2>2, CallsOfDir
  <2> HIDE DEF Q
  <2>4. \A d \in T \cap used' : (d \in used /\ ~ (d = Root /\ k = 0)) \/ Expanded(disk, used', Q, d)
    BY <1>5, <2>1, <2>3
  <2>5. ASSUME NEW c \in (used' \ used) \cap Blocks, NEW d \in T, NEW i \in Slots, h[c] = <<d, i>>,
               Ent(disk, d, i).type = "file"
        PROVE  FALSE
    <3>1. c = b
      BY <2>1, <2>5
    <3>2. c \notin T
      BY <1>3, <2>5, HighBlock
    <3> QED
      BY <2>2, <3>1, <3>2
  <2>6. FirstCall(disk, DirsAt, used, scan, T, h, Q, used')
    BY <1>2, <2>1, <2>3, <2>4, <2>5 DEF FirstCall, b, k
  <2> QED
    BY <1>1, <2>1, <2>3, <2>6, ScanStep
<1>7. CASE ~ (b \in 1 .. FS_MAX_BLOCKS - 1 /\ k <= SCAN_DEPTH /\ (k = 0 \/ b \notin used) /\ IsDir(b))
  <2>1. used' = used /\ scan' = Tail(scan)
    BY <1>1, <1>7
  <2>2. (b = 0 \/ b \in used) /\ k # 0
    <3>1. CASE b = 0
      BY <1>5, <3>1, Numbers
    <3>2. CASE b # 0
      <4>1. b \in 1 .. FS_MAX_BLOCKS - 1
        BY <1>4, <3>2, BlocksAssumption DEF Blocks
      <4>2. IsDir(b)
        BY <1>3, <1>5, <3>2 DEF IsDir
      <4>3. k # SCAN_DEPTH + 1
        BY <1>5, <3>2 DEF Shallow
      <4>4. k <= SCAN_DEPTH
        BY <1>4, <4>3
      <4> QED
        BY <1>7, <4>1, <4>2, <4>4
    <3> QED
      BY <3>1, <3>2
  <2>3. FirstCall(disk, DirsAt, used, scan, T, h, <<>>, used')
    <3>1. Len(<<>>) = 0 /\ 1 .. 0 = {}
      OBVIOUS
    <3> QED
      BY <1>2, <2>1, <2>2, <3>1 DEF FirstCall, b, k
  <2>4. scan' = <<>> \o Tail(scan)
    BY <1>2, <2>1
  <2> QED
    BY <1>1, <1>2, <2>3, <2>4, ScanStep
<1> QED
  BY <1>6, <1>7

LEMMA ScanChainTree ==
    ASSUME Inv, Settled, NEW T, NEW h, NEW p, Good(T, h, p), ScanChain
    PROVE  \E U, g : Good(U, g, p)'
<1> DEFINE w == Head(scan)
           b == w.bno
           n == ChainNext(b)
           v == [w EXCEPT !.bno = n]
<1>1. /\ scan # <<>> /\ w.type = "file"
      /\ IF b \in FIRST_BLOCK .. FS_MAX_BLOCKS - 1 /\ b \notin used
         THEN used' = used \cup {b} /\ scan' = IF n = 0 THEN Tail(scan) ELSE <<v>> \o Tail(scan)
         ELSE used' = used /\ scan' = Tail(scan)
      /\ disk' = disk /\ op' = op /\ fs_alloc_ready' = fs_alloc_ready
  BY DEF ScanChain
<1>2. /\ Scanning(disk, DirsAt, used, scan, T, h) /\ scan[1] = w /\ w \in ScanItems
      /\ ItemOk(disk, DirsAt, T, h, w)
      /\ <<>> \o Tail(scan) = Tail(scan) /\ <<>> \in Seq(ScanItems)
  BY <1>1, ScanHead
<1>3. Layout(disk, T, h, p, 0)
  BY <1>1, BetweenCalls DEF MapReady
<1>4. b \in Blocks /\ w.depth # 0
  BY <1>1, <1>2 DEF ScanItems, ItemOk
<1>5. PICK d \in T, i \in Slots : h[b] = <<d, i>> /\ Ent(disk, d, i).type = "file"
  BY <1>1, <1>2 DEF ItemOk
<1>6. /\ b >= FIRST_BLOCK /\ b # 0 /\ b \notin T
      /\ disk[b].magic = "data" /\ disk[b].next \in Blocks /\ disk[b].next # b
      /\ disk[b].next = 0 \/ h[disk[b].next] = <<d, i>>
  BY <1>3, <1>4, <1>5, HighBlock
<1>7. n = disk[b].next
  BY <1>6 DEF ChainNext
<1>8. n # 0 => v \in ScanItems /\ ItemOk(disk, DirsAt, T, h, v) /\ v.bno = n /\ v.type = "file"
  <2>1. v \in ScanItems /\ v.bno = n /\ v.type = "file" /\ v.depth = w.depth
    BY <1>1, <1>2, <1>6, <1>7 DEF ScanItems
  <2> HIDE DEF v
  <2>2. ASSUME n # 0 PROVE ItemOk(disk, DirsAt, T, h, v)
    <3>1. h[v.bno] = <<d, i>>
      BY <1>6, <1>7, <2>1, <2>2
    <3> QED
      BY <1>4, <1>5, <2>1, <3>1 DEF ItemOk
  <2> QED
    BY <2>1, <2>2
<1>9. Len(<<>>) = 0 /\ 1 .. 0 = {}
  OBVIOUS
<1> HIDE DEF w, b, n, v
<1>10. CASE b \in FIRST_BLOCK .. FS_MAX_BLOCKS - 1 /\ b \notin used
  <2> DEFINE Q == IF n = 0 THEN <<>> ELSE <<v>>
  <2>1. used' = used \cup {b} /\ scan' = Q \o Tail(scan)
    BY <1>1, <1>2, <1>10
  <2>2. /\ Q \in Seq(ScanItems) /\ \A j \in 1 .. Len(Q) : ItemOk(disk, DirsAt, T, h, Q[j])
        /\ n = 0 \/ Waits(Q, n, "file")
    <3>1. CASE n = 0
      BY <1>9, <3>1
    <3>2. CASE n # 0
      <4>1. Q = <<v>> /\ v \in ScanItems /\ ItemOk(disk, DirsAt, T, h, v) /\ v.bno = n /\ v.type = "file"
        BY <1>8, <3>2
      <4> HIDE DEF Q
      <4>2. Q \in Seq(ScanItems) /\ Len(Q) = 1 /\ Q[1] = v /\ 1 \in 1 .. 1 /\ \A j \in 1 .. 1 : j = 1
        BY <4>1
      <4> QED
        BY <4>1, <4>2 DEF Waits
    <3> QED
      BY <3>1, <3>2
  <2> HIDE DEF Q
  <2>3. \A x \in T \cap used' : x \in used /\ ~ (x = Root /\ w.depth = 0)
    BY <1>4, <1>6, <2>1
  <2>4. \A c \in (used' \ used) \cap Blocks : disk[c].next = 0 \/ Waits(Q, disk[c].next, "file")
    BY <1>7, <2>1, <2>2
  <2>5. FirstCall(disk, DirsAt, used, scan, T, h, Q, used')
    BY <1>2, <2>1, <2>2, <2>3, <2>4 DEF FirstCall, b
  <2> QED
    BY <1>1, <2>1, <2>2, <2>5, ScanStep
<1>11. CASE ~ (b \in FIRST_BLOCK .. FS_MAX_BLOCKS - 1 /\ b \notin used)
  <2>1. used' = used /\ scan' = <<>> \o Tail(scan)
    BY <1>1, <1>2, <1>11
  <2>2. b \in used
    BY <1>4, <1>6, <1>11, BlocksAssumption DEF Blocks
  <2>3. FirstCall(disk, DirsAt, used, scan, T, h, <<>>, used')
    BY <1>2, <1>4, <1>9, <2>1, <2>2 DEF FirstCall, b
  <2> QED
    BY <1>1, <1>2, <2>1, <2>3, ScanStep
<1> QED
  BY <1>10, <1>11

-----------------------------------------------------------------------------
(* Every step keeps the tree.                                                 *)

LEMMA SettledKept ==
    ASSUME Settled, [Next]_vars
    PROVE  Settled'
<1>1. ASSUME scan' = scan, fs_alloc_ready' = fs_alloc_ready, MapReady PROVE Settled'
  BY <1>1 DEF Settled, MapReady
<1>2. ASSUME op' = Idle PROVE Settled'
  BY <1>2 DEF Settled
<1>3. CASE UNCHANGED vars
  BY <1>3 DEF vars, Settled, MapReady
<1>4. CASE Format
  BY <1>2, <1>4 DEF Format
<1>5. ASSUME NEW d \in Dirs, NEW n \in Names \cup LongNames, NEW k \in StoreSizes, NEW v \in Contents,
             StoreBegin(d, n, k, v)
      PROVE  Settled'
  BY <1>1, <1>5 DEF StoreBegin, CanCall, MapReady, ram
<1>6. ASSUME NEW d \in Dirs, NEW n \in Names, NEW checked \in BOOLEAN, MkdirBegin(d, n, checked)
      PROVE  Settled'
  <2>1. MapReady /\ scan' = scan
    BY <1>6 DEF MkdirBegin, CanCall, MapReady
  <2>2. fs_alloc_ready' = fs_alloc_ready
    BY <1>6 DEF MkdirBegin, Take, ram
  <2> QED
    BY <1>1, <2>1, <2>2
<1>7. ASSUME NEW d \in Dirs, NEW n \in Names, Remove(d, n) PROVE Settled'
  <2>1. MapReady /\ scan' = scan
    BY <1>7 DEF Remove, CanCall, MapReady
  <2>2. fs_alloc_ready' = fs_alloc_ready
    BY <1>7 DEF Remove, Bfree, ram
  <2> QED
    BY <1>1, <2>1, <2>2
<1>8. ASSUME NEW d \in Dirs, NEW n \in Names, NEW dd \in Dirs, NEW nd \in Names, Move(d, n, dd, nd)
      PROVE  Settled'
  BY <1>1, <1>8 DEF Move, CanCall, MapReady, ram
<1>9. CASE Continue
  <2>1. op.call # "none"
    BY <1>9 DEF Continue, StoreAlloc, StoreWrite, StoreLink, StoreCommit, FreeStep, MkdirEntry,
               MkdirBlock, MoveDst, MoveParent
  <2>2. MapReady
    BY <2>1 DEF Settled, Idle
  <2>3. scan' = scan /\ fs_alloc_ready' = fs_alloc_ready
    BY <1>9 DEF Continue, StoreAlloc, StoreWrite, StoreLink, StoreCommit, FreeStep, MkdirEntry,
               MkdirBlock, MoveDst, MoveParent, ram, Take, Bfree
  <2> QED
    BY <1>1, <2>2, <2>3
<1>10. CASE Crash
  BY <1>2, <1>10 DEF Crash
<1>11. CASE RebuildBegin \/ ScanDir \/ ScanChain
  <2>1. ~ MapReady /\ op' = op
    BY <1>11 DEF RebuildBegin, ScanDir, ScanChain, MapReady
  <2> QED
    BY <1>2, <2>1 DEF Settled
<1>12. CASE Calls
  BY <1>4, <1>5, <1>6, <1>7, <1>8, <1>12, Zenon DEF Calls
<1> QED
  BY <1>3, <1>9, <1>10, <1>11, <1>12 DEF Next

(* Every directory that a path can name is in T. *)
LEMMA DirsInTree ==
    ASSUME NEW T, NEW h, NEW p, Good(T, h, p)
    PROVE  /\ Dirs \subseteq T /\ \A k \in Nat : DirsWithin[k] \subseteq T
           /\ T \subseteq Blocks /\ Disk(disk)
<1>1. /\ Layout(disk, T, h, p, Hang(op)) /\ CallOk(disk, op, T, h, p)
      /\ Maps(disk, T, h, p) /\ Disk(disk) /\ T \subseteq Blocks
      /\ disk[Root].magic = "dir" => Root \in T
  BY DEF Good, Layout, Maps
<1>2. ASSUME NEW b, IsDir(b) PROVE b # Hang(op)
  <2>1. SUFFICES ASSUME op.call = "mkdir", op.at = "block", b = op.cur PROVE FALSE
    BY <1>2 DEF Hang, IsDir
  <2>2. disk[b].magic = "zero"
    BY <1>1, <1>2, <2>1, CallKinds DEF MkdirOk, IsDir
  <2> QED
    BY <1>2, <2>2 DEF IsDir
<1>3. ASSUME NEW D \in SUBSET Blocks, D \subseteq T PROVE Below(D) \subseteq T
  <2>1. SUFFICES ASSUME NEW b \in Below(D) PROVE b \in T
    OBVIOUS
  <2>2. IsDir(b) /\ \E d \in D, i \in Slots : /\ Ent(disk, d, i).name # "" /\ Ent(disk, d, i).type = "dir"
                                              /\ Ent(disk, d, i).bno = b
    BY <1>1, <2>1, BelowFacts
  <2>3. PICK d \in D, i \in Slots : /\ Ent(disk, d, i).name # "" /\ Ent(disk, d, i).type = "dir"
                                    /\ Ent(disk, d, i).bno = b
    BY <2>2
  <2>4. d \in T /\ b # 0 /\ b # Hang(op)
    BY <1>2, <1>3, <2>2 DEF IsDir
  <2>5. EntryOk(T, h, p, Hang(op), Ent(disk, d, i), <<d, i>>)
    BY <1>1, <2>3, <2>4 DEF Layout, DirOk
  <2> QED
    BY <2>3, <2>4, <2>5 DEF EntryOk
<1>4. ASSUME NEW k \in Nat PROVE DirsWithin[k] \subseteq T
  <2> DEFINE B == {m \in Nat : ~ (DirsWithin[m] \subseteq T)}
  <2>0. SUFFICES ASSUME B # {} PROVE FALSE
    OBVIOUS
  <2>1. PICK x \in B : \A y \in B : x <= y
    <3>1. B \subseteq Nat
      OBVIOUS
    <3> HIDE DEF B
    <3> QED
      BY <2>0, <3>1, LeastNat
  <2>2. x # 0
    <3>1. Top \subseteq T
      BY <1>1 DEF Top, IsDir
    <3> QED
      BY <1>1, <2>1, <3>1, DirsWithinDef
  <2>3. x - 1 \in Nat /\ ~ (x <= x - 1) /\ (x - 1) + 1 = x
    BY <2>2
  <2>4. DirsWithin[x - 1] \subseteq T /\ DirsWithin[x - 1] \in SUBSET Blocks
    BY <1>1, <2>1, <2>3, DirsWithinDef
  <2>5. DirsWithin[x] = DirsWithin[x - 1] \cup Below(DirsWithin[x - 1])
    BY <1>1, <2>3, DirsWithinDef
  <2>6. Below(DirsWithin[x - 1]) \subseteq T
    BY <1>3, <2>4
  <2> QED
    BY <2>1, <2>4, <2>5, <2>6
<1> QED
  BY <1>1, <1>4, BlocksAssumption DEF Dirs

LEMMA TreeKept ==
    ASSUME Inv, Inv', Settled, Shallow, NEW T, NEW h, NEW p, Good(T, h, p), Next, ~ torn, ~ torn'
    PROVE  \E U, g, q : Good(U, g, q)'
<1>1. Dirs \subseteq T
  BY DirsInTree
<1>2. ASSUME NEW d \in Dirs, NEW n \in Names \cup LongNames, NEW k \in StoreSizes, NEW v \in Contents,
             StoreBegin(d, n, k, v)
      PROVE  \E U, g, q : Good(U, g, q)'
  <2>1. d \in T
    BY <1>1
  <2>2. Good(T, h, p)'
    BY <1>2, <2>1, StoreBeginTree
  <2> QED
    BY <2>2
<1>3. ASSUME NEW d \in Dirs, NEW n \in Names, NEW checked \in BOOLEAN, MkdirBegin(d, n, checked)
      PROVE  \E U, g, q : Good(U, g, q)'
  <2>1. d \in T
    BY <1>1
  <2>2. \E g, q : Good(T, g, q)'
    BY <1>3, <2>1, MkdirBeginTree
  <2> QED
    BY <2>2
<1>4. ASSUME NEW d \in Dirs, NEW n \in Names, Remove(d, n)
      PROVE  \E U, g, q : Good(U, g, q)'
  <2>1. d \in T
    BY <1>1
  <2> QED
    BY <1>4, <2>1, RemoveTree
<1>5. ASSUME NEW d \in Dirs, NEW n \in Names, NEW dd \in Dirs, NEW nd \in Names, Move(d, n, dd, nd)
      PROVE  \E U, g, q : Good(U, g, q)'
  <2>1. d \in T /\ dd \in T
    BY <1>1
  <2>2. \E g, q : Good(T, g, q)'
    BY <1>5, <2>1, MoveTree
  <2> QED
    BY <2>2
<1>6. CASE Format
  BY <1>6, FormatTree
<1>7. CASE Calls
  BY <1>2, <1>3, <1>4, <1>5, <1>6, <1>7, Zenon DEF Calls
<1>8. CASE StoreAlloc \/ StoreWrite \/ StoreLink
  <2>1. CASE StoreAlloc
    <3>1. \E g, q : Good(T, g, q)'
      BY <2>1, StoreAllocTree
    <3> QED
      BY <3>1
  <2>2. CASE StoreWrite
    BY <2>2, StoreWriteTree
  <2>3. CASE StoreLink
    BY <2>3, StoreLinkTree
  <2> QED
    BY <1>8, <2>1, <2>2, <2>3
<1>9. CASE StoreCommit \/ FreeStep
  BY <1>9, StoreCommitTree, FreeStepTree, Zenon
<1>10. CASE MkdirEntry \/ MkdirBlock
  BY <1>10, MkdirEntryTree, MkdirBlockTree, Zenon
<1>11. CASE MoveDst \/ MoveParent
  BY <1>11, MoveDstTree, MoveParentTree, Zenon
<1>12. CASE Continue
  BY <1>8, <1>9, <1>10, <1>11, <1>12 DEF Continue
<1>13. CASE Crash
  BY <1>13, CrashTree, Zenon
<1>14. CASE RebuildBegin
  BY <1>14, RebuildBeginTree
<1>15. CASE ScanDir \/ ScanChain
  BY <1>15, ScanDirTree, ScanChainTree, Zenon
<1> QED
  BY <1>7, <1>12, <1>13, <1>14, <1>15 DEF Next

LEMMA TornStays ==
    ASSUME [Next]_vars, ~ torn'
    PROVE  ~ torn
<1>1. CASE Crash
  BY <1>1, Zenon DEF Crash
<1>2. CASE UNCHANGED torn
  BY <1>2
<1>3. CASE Calls
  BY <1>2, <1>3 DEF Calls, Format, StoreBegin, MkdirBegin, Remove, Move
<1>4. CASE Continue
  BY <1>2, <1>4 DEF Continue, StoreAlloc, StoreWrite, StoreLink, StoreCommit, FreeStep, MkdirEntry,
               MkdirBlock, MoveDst, MoveParent
<1>5. CASE RebuildBegin \/ ScanDir \/ ScanChain
  BY <1>2, <1>5 DEF RebuildBegin, ScanDir, ScanChain
<1>6. CASE UNCHANGED vars
  BY <1>2, <1>6 DEF vars
<1> QED
  BY <1>1, <1>3, <1>4, <1>5, <1>6 DEF Next

LEMMA TreeStutters ==
    ASSUME NEW T, NEW h, NEW p, Good(T, h, p), UNCHANGED vars
    PROVE  Good(T, h, p)'
<1>1. /\ disk' = disk /\ op' = op /\ used' = used /\ scan' = scan /\ fs_alloc_ready' = fs_alloc_ready
      /\ DirsAt' = DirsAt
  BY SameDirs DEF vars
<1> QED
  BY <1>1 DEF Good, MapReady

(* The tree, the holds of its blocks and the call in progress fit together    *)
(* (TreeInv) after every step of the file system calls, the reboot and the    *)
(* scan, as long as fs_scan_dir's depth limit lets it reach every directory.  *)
THEOREM TreeInductive == Spec /\ []Shallow => []TreeInv
<1>1. Init => TreeInv
  <2> SUFFICES ASSUME Init PROVE TreeInv
    OBVIOUS
  <2>1. Inv
    BY InitKeeps
  <2>2. op = Idle /\ scan = <<>> /\ fs_alloc_ready = FALSE /\ op.call = "none"
        /\ disk = [b \in Blocks |-> ZeroBlock] /\ Disk(disk)
    BY <2>1 DEF Init, Idle, Inv, TypeOK, Disk
  <2>3. disk[Root].magic # "dir"
    BY <2>2, Numbers DEF ZeroBlock, Block
  <2> DEFINE g == [b \in Blocks |-> Nobody]
             q == [b \in Blocks |-> 0]
  <2>4. Layout(disk, {}, g, q, 0)
    BY <2>2, <2>3, NoTree
  <2>5. Quiet(g) /\ NoHold(g, Old)
    BY Pairs DEF Quiet, NoHold
  <2> HIDE DEF g, q
  <2>6. CallOk(disk, op, {}, g, q) /\ Hang(op) = 0
    BY <2>2, <2>5, CallKinds
  <2>7. Good({}, g, q)
    BY <2>2, <2>4, <2>6 DEF Good, MapReady
  <2>8. \E T, h, p : Good(T, h, p)
    BY <2>7
  <2> QED
    BY <2>1, <2>2, <2>8 DEF TreeInv, Settled
<1>2. TreeInv /\ Shallow /\ Inv' /\ [Next]_vars => TreeInv'
  <2> SUFFICES ASSUME TreeInv, Shallow, Inv', [Next]_vars PROVE TreeInv'
    OBVIOUS
  <2>1. Inv /\ Settled /\ Settled'
    BY SettledKept DEF TreeInv
  <2>2. ASSUME ~ torn' PROVE \E T, h, p : Good(T, h, p)'
    <3>0. ~ torn
      BY <2>2, TornStays
    <3>1. PICK T, h, p : Good(T, h, p)
      BY <3>0 DEF TreeInv
    <3>2. CASE Next
      BY <2>1, <2>2, <3>0, <3>1, <3>2, TreeKept
    <3>3. CASE UNCHANGED vars
      <4>1. Good(T, h, p)'
        BY <3>1, <3>3, TreeStutters
      <4> QED
        BY <4>1
    <3> QED
      BY <3>2, <3>3
  <2> QED
    BY <2>1, <2>2 DEF TreeInv
<1>3. Spec => []Inv
  BY Inductive
<1> QED
  BY <1>1, <1>2, <1>3, PTL DEF Spec

-----------------------------------------------------------------------------
(* The chain of a file.                                                       *)

(* A lists the n blocks of the chain that entry e, with the hold w, starts. *)
Chain(D, h, p, w, e, n, A) ==
    /\ A \in [Nat -> Blocks] /\ A[0] = e.bno
    /\ \A k \in 0 .. n - 1 :
          /\ h[A[k]] = w /\ p[A[k]] = k /\ A[k] # 0 /\ A[k] >= FIRST_BLOCK
          /\ D[A[k]].magic = "data" /\ (e.size # 0 => D[A[k]].data = <<e.val, k>>)
          /\ D[A[k]].next = IF k + 1 = n THEN 0 ELSE A[k + 1]

LEMMA SizeTyped ==
    ASSUME NEW r \in EntryType
    PROVE  r.size \in Nat
<1>1. r.size \in StoreSizes \cup {0}
  BY DEF EntryType
<1>2. \A z \in StoreSizes \cup {0} : z \in Nat
  BY InputsAssumption
<1> QED
  BY <1>1, <1>2

FileAt(D, d, i) == Ent(D, d, i).name # "" /\ Ent(D, d, i).type = "file"

LEMMA Chained ==
    ASSUME NEW D, NEW T, NEW h, NEW p, NEW x, Layout(D, T, h, p, x), NEW d \in T, NEW i \in Slots,
           FileAt(D, d, i)
    PROVE  /\ Length(Ent(D, d, i)) \in Nat \ {0}
           /\ \E A : Chain(D, h, p, <<d, i>>, Ent(D, d, i), Length(Ent(D, d, i)), A)
<1> DEFINE e == Ent(D, d, i)
           n == Length(e)
           w == <<d, i>>
           s == [y \in Nat \X Blocks |-> D[y[2]].next]
<1>0. /\ Disk(D) /\ T \subseteq Blocks /\ h \in [Blocks -> Blocks \X Nat] /\ p \in [Blocks -> Nat]
      /\ DirOk(D, T, h, p, x, d)
  BY DEF Layout, Maps
<1>1. e \in EntryType /\ e.bno \in Blocks
  BY <1>0, DiskTyped
<1>2. EntryOk(T, h, p, x, e, w)
  BY <1>0 DEF DirOk, FileAt
<1>3. h[e.bno] = w /\ p[e.bno] = 0
  BY <1>2 DEF EntryOk, FileAt
<1>4. n \in Nat \ {0}
  <2>1. e.size \in Nat
    BY <1>1, SizeTyped
  <2> QED
    BY <2>1 DEF Length
<1>5. ASSUME NEW b \in Blocks, h[b] = w PROVE Linked(D, T, h, p, w, n, e, b)
  <2>1. HeldOk(D, T, h, p, b)
    BY DEF Layout
  <2>2. BlockOk(D, T, h, p, e, w, b)
    BY <1>5, <2>1 DEF HeldOk
  <2> QED
    BY <2>2 DEF BlockOk, FileAt
<1>6. s \in [Nat \X Blocks -> Blocks] /\ \A k \in Nat, b \in Blocks : s[<<k, b>>] = D[b].next
  <2>1. ASSUME NEW y \in Nat \X Blocks PROVE D[y[2]].next \in Blocks
    BY <1>0, DiskTyped
  <2> QED
    BY <2>1
<1> HIDE DEF s
<1>7. PICK A : RecOf(A, Blocks, e.bno, s)
  BY <1>1, <1>6, RecFun
<1>8. A \in [Nat -> Blocks] /\ A[0] = e.bno /\ \A k \in Nat : A[k + 1] = D[A[k]].next
  <2>1. A \in [Nat -> Blocks] /\ \A k \in Nat : A[k] = IF k = 0 THEN e.bno ELSE s[<<k, A[k - 1]>>]
    BY <1>7 DEF RecOf
  <2>2. ASSUME NEW k \in Nat PROVE A[k + 1] = D[A[k]].next
    <3>1. k + 1 \in Nat /\ k + 1 # 0 /\ (k + 1) - 1 = k /\ A[k] \in Blocks
      BY <2>1
    <3>2. A[k + 1] = s[<<k + 1, A[(k + 1) - 1]>>]
      BY <2>1, <3>1
    <3>3. A[k + 1] = s[<<k + 1, A[k]>>]
      BY <3>1, <3>2
    <3> QED
      BY <1>6, <3>1, <3>3
  <2> QED
    BY <2>1, <2>2
<1> HIDE DEF e, n, w
<1>9. \A k \in 0 .. n - 1 : h[A[k]] = w /\ p[A[k]] = k
  <2> DEFINE B == {k \in 0 .. n - 1 : ~ (h[A[k]] = w /\ p[A[k]] = k)}
  <2>0. SUFFICES ASSUME B # {} PROVE FALSE
    OBVIOUS
  <2>1. PICK y \in B : \A z \in B : y <= z
    <3>1. B \subseteq Nat
      BY <1>4
    <3> HIDE DEF B
    <3> QED
      BY <2>0, <3>1, LeastNat
  <2>2. y # 0
    BY <1>3, <1>8, <2>1
  <2>3. y - 1 \in 0 .. n - 1 /\ ~ (y <= y - 1) /\ (y - 1) + 1 = y /\ y # n /\ y - 1 \in Nat
    BY <1>4, <2>1, <2>2
  <2>4. h[A[y - 1]] = w /\ p[A[y - 1]] = y - 1
    BY <2>1, <2>3
  <2>5. A[y - 1] \in Blocks /\ A[y] = D[A[y - 1]].next
    BY <1>8, <2>3
  <2>6. Linked(D, T, h, p, w, n, e, A[y - 1])
    BY <1>5, <2>4, <2>5
  <2>7. h[A[y]] = w /\ p[A[y]] = y
    BY <2>3, <2>4, <2>5, <2>6 DEF Linked
  <2> QED
    BY <2>1, <2>7
<1>10. ASSUME NEW k \in 0 .. n - 1
       PROVE  /\ h[A[k]] = w /\ p[A[k]] = k /\ A[k] # 0 /\ A[k] >= FIRST_BLOCK
              /\ D[A[k]].magic = "data" /\ (e.size # 0 => D[A[k]].data = <<e.val, k>>)
              /\ D[A[k]].next = IF k + 1 = n THEN 0 ELSE A[k + 1]
  <2>1. A[k] \in Blocks /\ h[A[k]] = w /\ p[A[k]] = k /\ A[k + 1] = D[A[k]].next
    BY <1>4, <1>8, <1>9
  <2>2. Linked(D, T, h, p, w, n, e, A[k])
    BY <1>5, <2>1
  <2>3. A[k] >= FIRST_BLOCK => A[k] # 0
    BY <2>1, Numbers
  <2> QED
    BY <2>1, <2>2, <2>3 DEF Linked
<1>11. Chain(D, h, p, w, e, n, A)
  BY <1>8, <1>10 DEF Chain
<1> QED
  BY <1>4, <1>11 DEF e, n, w

(* The first m + 1 blocks of a chain. *)
UpTo(A, m) == {A[k] : k \in 0 .. m}

(* A chain is as long as it has blocks, and not longer than the disk. *)
LEMMA ChainSize ==
    ASSUME NEW D, NEW h, NEW p \in [Blocks -> Nat], NEW w, NEW e, NEW n \in Nat \ {0}, NEW A,
           Chain(D, h, p, w, e, n, A)
    PROVE  n <= FS_MAX_BLOCKS /\ Cardinality(UpTo(A, n - 1)) = n
<1> DEFINE S == 0 .. n - 1
           R == {A[k] : k \in S}
           f == [k \in S |-> A[k]]
<1>1. \A k \in S : A[k] \in Blocks /\ p[A[k]] = k
  BY DEF Chain
<1>2. IsFiniteSet(S) /\ Cardinality(S) = n
  <2>1. 0 \in Int /\ n - 1 \in Int /\ ~ (0 > n - 1) /\ (n - 1) - 0 + 1 = n
    OBVIOUS
  <2> QED
    BY <2>1, FS_Interval
<1>3. IsFiniteSet(Blocks) /\ Cardinality(Blocks) = FS_MAX_BLOCKS
  <2>1. /\ 0 \in Int /\ FS_MAX_BLOCKS - 1 \in Int /\ ~ (0 > FS_MAX_BLOCKS - 1)
        /\ (FS_MAX_BLOCKS - 1) - 0 + 1 = FS_MAX_BLOCKS
    BY BlocksAssumption
  <2> QED
    BY <2>1, FS_Interval DEF Blocks
<1> HIDE DEF S
<1>4. f \in [S -> R] /\ f \in [S -> Blocks] /\ \A t \in R : \E k \in S : f[k] = t
  BY <1>1
<1>5. \A j, k \in S : f[j] = f[k] => j = k
  <2>1. \A k \in S : p[f[k]] = k
    BY <1>1
  <2> HIDE DEF f
  <2> QED
    BY <2>1
<1> HIDE DEF f, R
<1>6. f \in Surjection(S, R) /\ f \in Injection(S, R) /\ f \in Injection(S, Blocks)
  BY <1>4, <1>5 DEF Surjection, Injection, IsInjective
<1>7. Cardinality(R) = Cardinality(S)
  BY <1>2, <1>6, FS_Surjection
<1>8. Cardinality(S) <= Cardinality(Blocks)
  BY <1>3, <1>6, FS_Injection
<1> QED
  BY <1>2, <1>3, <1>7, <1>8 DEF R, S, UpTo

-----------------------------------------------------------------------------
(* The functions that ChainWithin and LoadFileBytes define by recursion.      *)

Links(D) == {disk[c].next : c \in {x \in D : disk[x].magic = "data"}}

WithinOf(b, f) == f = [k \in Nat |-> IF k = 0 THEN {b} \ {0} ELSE f[k - 1] \cup (Links(f[k - 1]) \ {0})]

Reach(b, f) ==
    /\ f[0] = {b} \ {0} /\ \A k \in Nat : f[k + 1] = f[k] \cup (Links(f[k]) \ {0})
    /\ ChainWithin(b) = f[FS_MAX_BLOCKS]

LEMMA ChainWithinDef ==
    ASSUME Disk(disk), NEW b \in Blocks
    PROVE  \E f : Reach(b, f)
<1> DEFINE V == SUBSET Blocks
           a == {b} \ {0}
           s == [x \in Nat \X V |-> x[2] \cup (Links(x[2]) \ {0})]
<1>1. a \in V /\ \A D \in V : D \cup (Links(D) \ {0}) \in V
  <2>1. ASSUME NEW D \in V, NEW c \in Links(D) PROVE c \in Blocks
    BY DiskTyped DEF Links
  <2> QED
    BY <2>1
<1>2. s \in [Nat \X V -> V] /\ \A k \in Nat, D \in V : s[<<k, D>>] = D \cup (Links(D) \ {0})
  <2>1. ASSUME NEW x \in Nat \X V PROVE x[2] \cup (Links(x[2]) \ {0}) \in V
    BY <1>1
  <2> QED
    BY <2>1
<1> HIDE DEF s, V, a
<1>3. PICK f : RecOf(f, V, a, s)
  BY <1>1, <1>2, RecFun
<1>4. ASSUME NEW k \in Nat PROVE f[k] = IF k = 0 THEN a ELSE f[k - 1] \cup (Links(f[k - 1]) \ {0})
  <2>1. f[k] = IF k = 0 THEN a ELSE s[<<k, f[k - 1]>>]
    BY <1>3 DEF RecOf
  <2>2. k # 0 => f[k - 1] \in V
    BY <1>3 DEF RecOf
  <2> QED
    BY <1>2, <2>1, <2>2
<1>5. WithinOf(b, f)
  <2>1. f = [k \in Nat |-> f[k]]
    BY <1>3 DEF RecOf
  <2> QED
    BY <1>4, <2>1 DEF WithinOf, a
<1> DEFINE g == CHOOSE u : WithinOf(b, u)
<1>6. WithinOf(b, g)
  BY <1>5
<1>7. ChainWithin(b) = g[FS_MAX_BLOCKS]
  BY DEF ChainWithin, WithinOf, Links
<1> HIDE DEF g
<1>8. \A k \in Nat : g[k] = IF k = 0 THEN {b} \ {0} ELSE g[k - 1] \cup (Links(g[k - 1]) \ {0})
  BY <1>6 DEF WithinOf
<1>9. g[0] = {b} \ {0}
  BY <1>8
<1>10. ASSUME NEW k \in Nat PROVE g[k + 1] = g[k] \cup (Links(g[k]) \ {0})
  <2>1. k + 1 \in Nat /\ k + 1 # 0 /\ (k + 1) - 1 = k
    OBVIOUS
  <2>2. g[k + 1] = g[(k + 1) - 1] \cup (Links(g[(k + 1) - 1]) \ {0})
    BY <1>8, <2>1
  <2> QED
    BY <2>1, <2>2
<1>11. Reach(b, g)
  BY <1>7, <1>9, <1>10 DEF Reach
<1> QED
  BY <1>11

LEMMA ChainLinks ==
    ASSUME NEW h, NEW p, NEW w, NEW e, NEW n \in Nat \ {0}, NEW A, Chain(disk, h, p, w, e, n, A),
           NEW m \in 0 .. n - 1
    PROVE  UpTo(A, m) \cup (Links(UpTo(A, m)) \ {0}) = UpTo(A, IF m + 1 = n THEN m ELSE m + 1)
<1>0. m \in Nat
  OBVIOUS
<1>1. ASSUME NEW k \in 0 .. m
      PROVE  /\ A[k] # 0 /\ disk[A[k]].magic = "data" /\ k \in 0 .. n - 1
             /\ disk[A[k]].next = IF k + 1 = n THEN 0 ELSE A[k + 1]
  <2>1. k \in 0 .. n - 1
    BY <1>0
  <2> QED
    BY <2>1 DEF Chain
<1>2. \A k \in 0 .. n - 1 : A[k] # 0
  BY DEF Chain
<1>3. \A c : c \in UpTo(A, m) <=> \E k \in 0 .. m : c = A[k]
  BY DEF UpTo
<1>4. \A c : c \in Links(UpTo(A, m)) <=> \E k \in 0 .. m : c = disk[A[k]].next
  BY <1>1, <1>3 DEF Links
<1>5. CASE m + 1 = n
  <2>1. ASSUME NEW c \in Links(UpTo(A, m)) \ {0} PROVE c \in UpTo(A, m)
    <3>1. PICK k \in 0 .. m : c = disk[A[k]].next
      BY <1>4, <2>1
    <3>2. k + 1 # n /\ c = A[k + 1]
      BY <1>1, <2>1, <3>1
    <3>3. k + 1 \in 0 .. m
      BY <1>0, <1>5, <3>1, <3>2
    <3> QED
      BY <1>3, <3>2, <3>3
  <2> QED
    BY <1>5, <2>1
<1>6. CASE m + 1 # n
  <2>0. m + 1 \in 0 .. n - 1 /\ \A k \in 0 .. m : k + 1 # n /\ k + 1 \in 0 .. m + 1 /\ k \in 0 .. m + 1
    BY <1>0, <1>6
  <2>1. \A c : c \in UpTo(A, m + 1) <=> \E k \in 0 .. m + 1 : c = A[k]
    BY DEF UpTo
  <2>2. ASSUME NEW c \in Links(UpTo(A, m)) PROVE c \in UpTo(A, m + 1)
    <3>1. PICK k \in 0 .. m : c = disk[A[k]].next
      BY <1>4, <2>2
    <3>2. c = A[k + 1] /\ k + 1 \in 0 .. m + 1
      BY <1>1, <2>0, <3>1
    <3> QED
      BY <2>1, <3>2
  <2>3. ASSUME NEW c \in UpTo(A, m) PROVE c \in UpTo(A, m + 1)
    BY <1>3, <2>0, <2>1
  <2>4. ASSUME NEW c \in UpTo(A, m + 1) PROVE c \in UpTo(A, m) \/ c \in Links(UpTo(A, m)) \ {0}
    <3>1. PICK k \in 0 .. m + 1 : c = A[k]
      BY <2>1, <2>4
    <3>2. CASE k \in 0 .. m
      BY <1>3, <3>1, <3>2
    <3>3. CASE k \notin 0 .. m
      <4>1. k = m + 1 /\ m \in 0 .. m
        BY <1>0, <3>1, <3>3
      <4>2. c = disk[A[m]].next /\ c # 0
        BY <1>1, <1>2, <1>6, <2>0, <3>1, <4>1
      <4> QED
        BY <1>4, <4>1, <4>2
    <3> QED
      BY <3>2, <3>3
  <2>5. UpTo(A, m) \cup (Links(UpTo(A, m)) \ {0}) = UpTo(A, m + 1)
    BY <2>2, <2>3, <2>4
  <2> QED
    BY <1>6, <2>5
<1> QED
  BY <1>5, <1>6

LEMMA ChainWithinIs ==
    ASSUME Disk(disk), NEW h, NEW p \in [Blocks -> Nat], NEW w, NEW e, NEW n \in Nat \ {0}, NEW A,
           Chain(disk, h, p, w, e, n, A)
    PROVE  ChainWithin(e.bno) = UpTo(A, n - 1) /\ Cardinality(ChainWithin(e.bno)) = n
<1>1. A \in [Nat -> Blocks] /\ A[0] = e.bno /\ e.bno \in Blocks
  BY DEF Chain
<1>2. PICK f : Reach(e.bno, f)
  BY <1>1, ChainWithinDef
<1>3. /\ f[0] = {e.bno} \ {0} /\ \A k \in Nat : f[k + 1] = f[k] \cup (Links(f[k]) \ {0})
      /\ ChainWithin(e.bno) = f[FS_MAX_BLOCKS]
  BY <1>2 DEF Reach
<1> DEFINE M(k) == IF k <= n - 1 THEN k ELSE n - 1
           B == {k \in Nat : f[k] # UpTo(A, M(k))}
<1>4. B = {}
  <2>0. SUFFICES ASSUME B # {} PROVE FALSE
    OBVIOUS
  <2>1. PICK y \in B : \A z \in B : y <= z
    <3>1. B \subseteq Nat
      OBVIOUS
    <3> HIDE DEF B
    <3> QED
      BY <2>0, <3>1, LeastNat
  <2>2. y # 0
    <3>1. UpTo(A, 0) = {A[0]}
      BY DEF UpTo
    <3>2. A[0] # 0 /\ M(0) = 0
      <4>1. 0 \in 0 .. n - 1
        OBVIOUS
      <4> QED
        BY <4>1 DEF Chain
    <3> QED
      BY <1>1, <1>3, <2>1, <3>1, <3>2
  <2>3. y - 1 \in Nat /\ ~ (y <= y - 1) /\ (y - 1) + 1 = y
    BY <2>2
  <2>4. f[y - 1] = UpTo(A, M(y - 1))
    BY <2>1, <2>3
  <2>5. f[y] = f[y - 1] \cup (Links(f[y - 1]) \ {0})
    BY <1>3, <2>3
  <2>6. M(y - 1) \in 0 .. n - 1 /\ M(y) = IF M(y - 1) + 1 = n THEN M(y - 1) ELSE M(y - 1) + 1
    BY <2>3
  <2> HIDE DEF M
  <2>7. f[y] = UpTo(A, M(y))
    BY <2>4, <2>5, <2>6, ChainLinks
  <2> QED
    BY <2>1, <2>7
<1>5. n <= FS_MAX_BLOCKS /\ Cardinality(UpTo(A, n - 1)) = n
  BY ChainSize
<1>6. FS_MAX_BLOCKS \in Nat /\ M(FS_MAX_BLOCKS) = n - 1
  BY <1>5, BlocksAssumption
<1>7. f[FS_MAX_BLOCKS] = UpTo(A, M(FS_MAX_BLOCKS))
  BY <1>4, <1>6
<1> QED
  BY <1>3, <1>5, <1>6, <1>7

AtOf(e, f) ==
    f = [k \in 0 .. e.size |->
           IF k = 0 THEN e.bno
           ELSE LET b == f[k - 1]
                IN IF b = 0 \/ disk[b].magic # "data" THEN 0 ELSE disk[b].next]

LEMMA LoadIs ==
    ASSUME Disk(disk), NEW h, NEW p, NEW w, NEW e, e.size \in Nat, NEW A,
           Chain(disk, h, p, w, e, Length(e), A)
    PROVE  LoadFileBytes(e) = [k \in 1 .. e.size |-> <<e.val, k - 1>>]
<1>1. PICK z \in Nat : z = e.size
  OBVIOUS
<1>2. PICK n \in Nat \ {0} : n = Length(e)
  BY <1>1 DEF Length
<1> DEFINE u == [k \in 0 .. z |-> IF k < n THEN A[k] ELSE 0]
           g == CHOOSE f : AtOf(e, f)
<1>3. (z # 0 => n = z) /\ (z = 0 => n = 1) /\ Chain(disk, h, p, w, e, n, A)
  BY <1>1, <1>2 DEF Length
<1>4. /\ A[0] = e.bno
      /\ \A k \in 0 .. n - 1 :
            /\ A[k] # 0 /\ disk[A[k]].magic = "data" /\ (z # 0 => disk[A[k]].data = <<e.val, k>>)
            /\ disk[A[k]].next = IF k + 1 = n THEN 0 ELSE A[k + 1]
  BY <1>1, <1>3 DEF Chain
<1>5. /\ u[0] = e.bno
      /\ \A k \in 1 .. z :
            /\ u[k - 1] # 0 /\ disk[u[k - 1]].magic = "data" /\ u[k] = disk[u[k - 1]].next
            /\ disk[u[k - 1]].data = <<e.val, k - 1>>
  <2>1. u[0] = e.bno
    BY <1>4
  <2>2. ASSUME NEW k \in 1 .. z
        PROVE  /\ u[k - 1] # 0 /\ disk[u[k - 1]].magic = "data" /\ u[k] = disk[u[k - 1]].next
               /\ disk[u[k - 1]].data = <<e.val, k - 1>>
    <3>1. z # 0 /\ n = z /\ k \in Nat /\ k - 1 \in 0 .. n - 1 /\ k - 1 \in 0 .. z /\ k \in 0 .. z
          /\ (k - 1) + 1 = k /\ k - 1 < n
      BY <1>3
    <3>2. u[k - 1] = A[k - 1] /\ u[k] = IF k = n THEN 0 ELSE A[k]
      BY <3>1
    <3>3. /\ A[k - 1] # 0 /\ disk[A[k - 1]].magic = "data" /\ disk[A[k - 1]].data = <<e.val, k - 1>>
          /\ disk[A[k - 1]].next = IF k = n THEN 0 ELSE A[k]
      BY <1>4, <3>1
    <3> HIDE DEF u
    <3> QED
      BY <3>2, <3>3
  <2> QED
    BY <2>1, <2>2
<1>6. u = [k \in 0 .. e.size |-> u[k]]
  BY <1>1
<1> HIDE DEF u
<1>7. ASSUME NEW k \in 0 .. e.size
      PROVE  u[k] = IF k = 0 THEN e.bno
                    ELSE LET b == u[k - 1]
                         IN IF b = 0 \/ disk[b].magic # "data" THEN 0 ELSE disk[b].next
  <2>1. k = 0 \/ k \in 1 .. z
    BY <1>1
  <2>2. k \in 1 .. z => k # 0
    OBVIOUS
  <2> QED
    BY <1>5, <2>1, <2>2
<1>8. AtOf(e, u)
  BY <1>6, <1>7 DEF AtOf
<1>9. AtOf(e, g)
  BY <1>8
<1>10. LoadFileBytes(e) =
         [k \in 1 .. Cardinality({i \in 1 .. e.size : g[i - 1] # 0}) |-> disk[g[k - 1]].data]
  BY DEF LoadFileBytes, AtOf
<1> HIDE DEF g
<1>11. ASSUME NEW k \in 0 .. z
       PROVE  g[k] = IF k = 0 THEN e.bno
                     ELSE IF g[k - 1] = 0 \/ disk[g[k - 1]].magic # "data" THEN 0 ELSE disk[g[k - 1]].next
  BY <1>1, <1>9 DEF AtOf
<1> DEFINE B == {k \in 0 .. z : g[k] # u[k]}
<1>12. B = {}
  <2>0. SUFFICES ASSUME B # {} PROVE FALSE
    OBVIOUS
  <2>1. PICK y \in B : \A x \in B : y <= x
    <3>1. B \subseteq Nat
      OBVIOUS
    <3> HIDE DEF B
    <3> QED
      BY <2>0, <3>1, LeastNat
  <2>2. y # 0
    BY <1>5, <1>11, <2>1
  <2>3. y - 1 \in 0 .. z /\ ~ (y <= y - 1) /\ y \in 1 .. z /\ y \in 0 .. z
    BY <2>1, <2>2
  <2>4. g[y - 1] = u[y - 1]
    BY <2>1, <2>3
  <2>5. g[y] = IF g[y - 1] = 0 \/ disk[g[y - 1]].magic # "data" THEN 0 ELSE disk[g[y - 1]].next
    BY <1>11, <2>2, <2>3
  <2>6. u[y - 1] # 0 /\ disk[u[y - 1]].magic = "data" /\ u[y] = disk[u[y - 1]].next
    BY <1>5, <2>3
  <2>7. g[y] = u[y]
    BY <2>4, <2>5, <2>6
  <2> QED
    BY <2>1, <2>7
<1>13. \A k \in 1 .. z : g[k - 1] # 0 /\ disk[g[k - 1]].data = <<e.val, k - 1>>
  <2>1. ASSUME NEW k \in 1 .. z PROVE g[k - 1] = u[k - 1]
    <3>1. k - 1 \in 0 .. z
      OBVIOUS
    <3> QED
      BY <1>12, <3>1
  <2> QED
    BY <1>5, <2>1
<1>14. {i \in 1 .. z : g[i - 1] # 0} = 1 .. z
  BY <1>13
<1>15. Cardinality(1 .. z) = z
  <2>1. 1 \in Int /\ z \in Int /\ (1 > z => z = 0) /\ (~ (1 > z) => z - 1 + 1 = z)
    OBVIOUS
  <2>2. Cardinality(1 .. z) = IF 1 > z THEN 0 ELSE z - 1 + 1
    BY <2>1, FS_Interval
  <2> QED
    BY <2>1, <2>2
<1>16. LoadFileBytes(e) = [k \in 1 .. z |-> disk[g[k - 1]].data]
  BY <1>1, <1>10, <1>14, <1>15
<1>17. [k \in 1 .. z |-> disk[g[k - 1]].data] = [k \in 1 .. z |-> <<e.val, k - 1>>]
  BY <1>13
<1> QED
  BY <1>1, <1>16, <1>17

-----------------------------------------------------------------------------
(* What TreeInv says of the properties.                                       *)

(* A file's chain, as its entry leads to it. *)
FileOk(T, h, d, i, e) ==
    /\ \A b \in ChainWithin(e.bno) : b \in Blocks /\ h[b] = <<d, i>> /\ b >= FIRST_BLOCK /\ b \notin T
    /\ e.bno \in ChainWithin(e.bno)
    /\ \A b \in ChainWithin(e.bno) : disk[b].next = 0 \/ disk[b].next \in ChainWithin(e.bno)
    /\ Cardinality(ChainWithin(e.bno)) = Length(e)
    /\ LoadFileBytes(e) = [k \in 1 .. e.size |-> <<e.val, k - 1>>]

LEMMA FileHolds ==
    ASSUME NEW T, NEW h, NEW p, Good(T, h, p), NEW d \in T, NEW i \in Slots, FileAt(disk, d, i)
    PROVE  FileOk(T, h, d, i, Ent(disk, d, i))
<1> DEFINE e == Ent(disk, d, i)
           n == Length(e)
<1>1. Layout(disk, T, h, p, Hang(op))
  BY DEF Good
<1>2. Disk(disk) /\ p \in [Blocks -> Nat] /\ T \subseteq Blocks
  BY <1>1 DEF Layout, Maps
<1>3. n \in Nat \ {0} /\ \E A : Chain(disk, h, p, <<d, i>>, e, n, A)
  BY <1>1, Chained
<1>4. PICK A : Chain(disk, h, p, <<d, i>>, e, n, A)
  BY <1>3
<1>5. ChainWithin(e.bno) = UpTo(A, n - 1) /\ Cardinality(ChainWithin(e.bno)) = n
  BY <1>2, <1>3, <1>4, ChainWithinIs
<1>6. e.size \in Nat
  <2>1. e \in EntryType
    BY <1>2, DiskTyped
  <2> QED
    BY <2>1, SizeTyped
<1>7. LoadFileBytes(e) = [k \in 1 .. e.size |-> <<e.val, k - 1>>]
  BY <1>2, <1>4, <1>6, LoadIs
<1>8. ASSUME NEW b \in ChainWithin(e.bno)
      PROVE  b \in Blocks /\ h[b] = <<d, i>> /\ b >= FIRST_BLOCK /\ b \notin T
  <2>1. PICK k \in 0 .. n - 1 : b = A[k]
    BY <1>5 DEF UpTo
  <2>2. h[b] = <<d, i>> /\ b \in Blocks
    BY <1>3, <1>4, <2>1 DEF Chain
  <2>3. b >= FIRST_BLOCK /\ b \notin T
    <3>1. Ent(disk, d, i).type = "file"
      BY DEF FileAt
    <3> QED
      BY <1>1, <2>2, <3>1, HighBlock
  <2> QED
    BY <2>2, <2>3
<1>9. e.bno \in ChainWithin(e.bno)
  <2>1. A[0] = e.bno /\ 0 \in 0 .. n - 1
    BY <1>3, <1>4 DEF Chain
  <2> QED
    BY <1>5, <2>1 DEF UpTo
<1>10. ASSUME NEW b \in ChainWithin(e.bno)
       PROVE  disk[b].next = 0 \/ disk[b].next \in ChainWithin(e.bno)
  <2>1. PICK k \in 0 .. n - 1 : b = A[k]
    BY <1>5 DEF UpTo
  <2>2. disk[b].next = IF k + 1 = n THEN 0 ELSE A[k + 1]
    BY <1>4, <2>1 DEF Chain
  <2>3. k + 1 # n => k + 1 \in 0 .. n - 1
    <3> HIDE DEF n
    <3> QED
      BY <1>3
  <2> QED
    BY <1>5, <2>2, <2>3 DEF UpTo
<1> HIDE DEF e
<1> QED
  BY <1>5, <1>7, <1>8, <1>9, <1>10 DEF FileOk, e

-----------------------------------------------------------------------------
(* What the tree says of the blocks and of the files.                         *)

LEMMA FileEntriesAre ==
    ASSUME NEW e
    PROVE  e \in FileEntries <=> \E d \in Dirs, i \in Slots : e = Ent(disk, d, i) /\ FileAt(disk, d, i)
<1>1. \A d : e \in Children(d) <=> e.name # "" /\ \E i \in Slots : e = Ent(disk, d, i)
  BY DEF Children, Ent
<1>2. e \in FileEntries <=> \E d \in Dirs : e \in Children(d) /\ e.type = "file"
  BY DEF FileEntries
<1>3. ASSUME e \in FileEntries
      PROVE  \E d \in Dirs, i \in Slots : e = Ent(disk, d, i) /\ FileAt(disk, d, i)
  <2>1. PICK d \in Dirs : e \in Children(d) /\ e.type = "file"
    BY <1>2, <1>3
  <2>2. PICK i \in Slots : e = Ent(disk, d, i)
    BY <1>1, <2>1
  <2>3. e.name # ""
    BY <1>1, <2>1
  <2>4. FileAt(disk, d, i)
    BY <2>1, <2>2, <2>3 DEF FileAt
  <2> QED
    BY <2>2, <2>4
<1>4. ASSUME NEW d \in Dirs, NEW i \in Slots, e = Ent(disk, d, i), FileAt(disk, d, i)
      PROVE  e \in FileEntries
  BY <1>1, <1>2, <1>4 DEF FileAt
<1> QED
  BY <1>3, <1>4

(* A file that a path can name. *)
LEMMA NamedFile ==
    ASSUME NEW T, NEW h, NEW p, Good(T, h, p), NEW e \in FileEntries
    PROVE  \E d \in T, i \in Slots : d \in Dirs /\ e = Ent(disk, d, i) /\ FileOk(T, h, d, i, e)
<1>1. PICK d \in Dirs, i \in Slots : e = Ent(disk, d, i) /\ FileAt(disk, d, i)
  BY FileEntriesAre
<1>2. d \in T
  BY DirsInTree
<1>3. FileOk(T, h, d, i, e)
  BY <1>1, <1>2, FileHolds
<1> QED
  BY <1>1, <1>2, <1>3

LEMMA MarkedTree ==
    ASSUME NEW T, NEW h, NEW p, Good(T, h, p), MapReady
    PROVE  TreeBlocks \subseteq used
<1>1. Marked(used, T, h) /\ Maps(disk, T, h, p)
  BY DEF Good, Layout
<1>2. Dirs \subseteq used
  BY <1>1, DirsInTree DEF Marked
<1>3. ASSUME NEW e \in FileEntries, NEW b \in ChainWithin(e.bno) PROVE b \in used
  <2>1. PICK d \in T, i \in Slots : FileOk(T, h, d, i, e)
    BY NamedFile
  <2>2. b \in Blocks /\ h[b] = <<d, i>>
    BY <2>1 DEF FileOk
  <2>3. <<d, i>> # Nobody
    BY <1>1, NotMarks DEF Nobody
  <2> QED
    BY <1>1, <2>2, <2>3 DEF Marked
<1> QED
  BY <1>2, <1>3 DEF TreeBlocks

LEMMA IntactFiles ==
    ASSUME NEW T, NEW h, NEW p, Good(T, h, p), NEW e \in FileEntries
    PROVE  /\ LoadFileBytes(e) = [k \in 1 .. e.size |-> <<e.val, k - 1>>]
           /\ Cardinality(ChainWithin(e.bno)) = IF e.size = 0 THEN 1 ELSE e.size
           /\ ChainWithin(e.bno) \cap (Dirs \cup Reserved) = {}
<1>1. PICK d \in T, i \in Slots : FileOk(T, h, d, i, e)
  BY NamedFile
<1>2. /\ LoadFileBytes(e) = [k \in 1 .. e.size |-> <<e.val, k - 1>>]
      /\ Cardinality(ChainWithin(e.bno)) = IF e.size = 0 THEN 1 ELSE e.size
  BY <1>1 DEF FileOk, Length
<1>3. ASSUME NEW b \in ChainWithin(e.bno) PROVE b \notin Dirs /\ b \notin Reserved
  <2>1. b \in Blocks /\ b >= FIRST_BLOCK /\ b \notin T
    BY <1>1 DEF FileOk
  <2>2. b \notin Reserved
    BY <2>1, Numbers DEF Reserved
  <2> QED
    BY <2>1, <2>2, DirsInTree
<1> QED
  BY <1>2, <1>3

LEMMA OwnersDiffer ==
    ASSUME NEW T, NEW h, NEW p, Good(T, h, p), NEW d \in Dirs, NEW x \in Dirs, NEW i \in Slots,
           NEW j \in Slots, Ent(disk, d, i).name # "", Ent(disk, x, j).name # "", <<d, i>> # <<x, j>>
    PROVE  LET e == Ent(disk, d, i)
               f == Ent(disk, x, j)
           IN /\ d = x => e.name # f.name \/ e.name \in Cut
              /\ e.bno # 0 => e.bno # f.bno
              /\ e.type = "file" /\ f.type = "file" => ChainWithin(e.bno) \cap ChainWithin(f.bno) = {}
<1> DEFINE e == Ent(disk, d, i)
           f == Ent(disk, x, j)
<1>1. Layout(disk, T, h, p, Hang(op)) /\ d \in T /\ x \in T /\ T \subseteq Blocks /\ Disk(disk)
  BY DirsInTree DEF Good
<1>2. DirOk(disk, T, h, p, Hang(op), d) /\ DirOk(disk, T, h, p, Hang(op), x)
  BY <1>1 DEF Layout
<1>3. d = x => e.name # f.name \/ e.name \in Cut
  BY <1>2 DEF DirOk
<1>4. ASSUME NEW y \in T, NEW k \in Slots, Ent(disk, y, k).name # "", Ent(disk, y, k).bno # 0
      PROVE  h[Ent(disk, y, k).bno] = <<y, k>>
  <2> DEFINE r == Ent(disk, y, k)
  <2>1. DirOk(disk, T, h, p, Hang(op), y) /\ y \in Blocks
    BY <1>1 DEF Layout
  <2>2. EntryOk(T, h, p, Hang(op), r, <<y, k>>)
    BY <1>4, <2>1 DEF DirOk
  <2>3. r.type \in {"file", "dir"}
    <3>1. r \in EntryType
      BY <1>1, <2>1, DiskTyped
    <3> HIDE DEF r
    <3> QED
      BY <3>1 DEF EntryType
  <2> QED
    BY <1>4, <2>2, <2>3 DEF EntryOk
<1>5. e.bno # 0 => e.bno # f.bno
  BY <1>1, <1>4
<1>6. ASSUME e.type = "file", f.type = "file", NEW b \in ChainWithin(e.bno), b \in ChainWithin(f.bno)
      PROVE  FALSE
  <2>1. FileAt(disk, d, i) /\ FileAt(disk, x, j)
    BY <1>6 DEF FileAt
  <2>2. FileOk(T, h, d, i, e) /\ FileOk(T, h, x, j, f)
    BY <1>1, <2>1, FileHolds
  <2>3. h[b] = <<d, i>> /\ h[b] = <<x, j>>
    BY <1>6, <2>2 DEF FileOk
  <2> QED
    BY <2>3
<1> QED
  BY <1>3, <1>5, <1>6

(* Whenever the block map is in use, it marks every directory and every data  *)
(* block that a path reaches: balloc never hands out a block of the tree, for *)
(* every disk, directory and file size and any number of calls and reboots.   *)
THEOREM TreeAlwaysMarked == Spec /\ []Shallow => []TreeMarked
<1>1. TreeInv => TreeMarked
  BY MarkedTree DEF TreeInv, TreeMarked
<1> QED
  BY <1>1, TreeInductive, PTL

(* load_file_bytes reads for every entry what one store_file_bytes wrote for  *)
(* it, to the end of a chain as long as the entry says, at every moment, also *)
(* after a reboot between any two disk writes of any call.                    *)
THEOREM FilesStayIntact == Spec /\ []Shallow => []FileIntact
<1>1. TreeInv => FileIntact
  BY IntactFiles DEF TreeInv, FileIntact
<1> QED
  BY <1>1, TreeInductive, PTL

(* No block has two owners: two entries never name the same block or share a  *)
(* block of their chains, no chain runs through a directory or a reserved     *)
(* block, and no name is twice in a directory unless copy_name20 cut a longer *)
(* one to it, so remove_entry_named and fs_free_chain never free what another *)
(* path still uses.                                                           *)
THEOREM BlocksHaveOneOwner == Spec /\ []Shallow => []OneOwner
<1>1. TreeInv => OneOwner
  <2> SUFFICES ASSUME TreeInv, ~ torn PROVE OneOwner
    BY DEF OneOwner
  <2>1. PICK T, h, p : Good(T, h, p)
    BY DEF TreeInv
  <2>2. \A e \in FileEntries : ChainWithin(e.bno) \cap (Dirs \cup Reserved) = {}
    BY <2>1, IntactFiles
  <2>3. ASSUME NEW d \in Dirs, NEW x \in Dirs, NEW i \in Slots, NEW j \in Slots
        PROVE  LET e == disk[d].ents[i]
                   f == disk[x].ents[j]
               IN e.name # "" /\ f.name # "" /\ <<d, i>> # <<x, j>> =>
                     /\ d = x => e.name # f.name \/ e.name \in Cut
                     /\ e.bno # 0 => e.bno # f.bno
                     /\ e.type = "file" /\ f.type = "file" =>
                           ChainWithin(e.bno) \cap ChainWithin(f.bno) = {}
    <3>1. disk[d].ents[i] = Ent(disk, d, i) /\ disk[x].ents[j] = Ent(disk, x, j)
      BY DEF Ent
    <3>2. ASSUME Ent(disk, d, i).name # "", Ent(disk, x, j).name # "", <<d, i>> # <<x, j>>
          PROVE  LET e == Ent(disk, d, i)
                     f == Ent(disk, x, j)
                 IN /\ d = x => e.name # f.name \/ e.name \in Cut
                    /\ e.bno # 0 => e.bno # f.bno
                    /\ e.type = "file" /\ f.type = "file" =>
                          ChainWithin(e.bno) \cap ChainWithin(f.bno) = {}
      BY <2>1, <3>2, OwnersDiffer
    <3> QED
      BY <3>1, <3>2
  <2> QED
    BY <2>2, <2>3 DEF OneOwner
<1> QED
  BY <1>1, TreeInductive, PTL

-----------------------------------------------------------------------------
(* The scan marks nothing but the tree.                                       *)

(* A set that grew has more elements. *)
LEMMA Grows ==
    ASSUME NEW S, NEW R, S \subseteq R, S # R, IsFiniteSet(R)
    PROVE  /\ Cardinality(S) \in Nat /\ Cardinality(R) \in Nat
           /\ Cardinality(S) + 1 <= Cardinality(R)
<1>1. IsFiniteSet(S) /\ Cardinality(S) <= Cardinality(R) /\ Cardinality(S) # Cardinality(R)
  BY FS_Subset
<1>2. Cardinality(S) \in Nat /\ Cardinality(R) \in Nat
  BY <1>1, FS_CardinalityType
<1> QED
  BY <1>1, <1>2

(* Every directory that an entry of a directory names has a path too. *)
LEMMA DirsClosed ==
    ASSUME Disk(disk)
    PROVE  Dirs \in SUBSET Blocks /\ Below(Dirs) \subseteq Dirs /\ Top \subseteq Dirs
<1> DEFINE W(k) == DirsWithin[k]
           Grown(k) == W(k + 1) # W(k) => Cardinality(W(k + 1)) >= k + 1
           B == {k \in Nat : ~ Grown(k)}
           C == {k \in Nat : ~ (Top \subseteq W(k))}
           N == FS_MAX_BLOCKS
<1>1. /\ \A k \in Nat : W(k) \in SUBSET Blocks /\ W(k + 1) = W(k) \cup Below(W(k))
      /\ W(0) = Top
  BY DirsWithinDef
<1> HIDE DEF W
<1>2. IsFiniteSet(Blocks) /\ Cardinality(Blocks) = N /\ N \in Nat
  <2>1. 0 \in Int /\ N - 1 \in Int /\ ~ (0 > N - 1) /\ (N - 1) - 0 + 1 = N
    BY BlocksAssumption
  <2> QED
    BY <2>1, FS_Interval, BlocksAssumption DEF Blocks
<1>3. \A k \in Nat : IsFiniteSet(W(k)) /\ Cardinality(W(k)) \in Nat /\ Cardinality(W(k)) <= N
  BY <1>1, <1>2, FS_Subset, FS_CardinalityType
<1>4. ASSUME NEW k \in Nat, W(k + 1) # W(k)
      PROVE  Cardinality(W(k)) + 1 <= Cardinality(W(k + 1))
  <2>1. k + 1 \in Nat /\ W(k) \subseteq W(k + 1)
    BY <1>1
  <2> QED
    BY <1>3, <1>4, <2>1, Grows
<1>5. B = {}
  <2>0. SUFFICES ASSUME B # {} PROVE FALSE
    OBVIOUS
  <2>1. PICK y \in B : \A z \in B : y <= z
    <3>1. B \subseteq Nat
      OBVIOUS
    <3> HIDE DEF B
    <3> QED
      BY <2>0, <3>1, LeastNat
  <2>2. y \in Nat /\ W(y + 1) # W(y) /\ ~ (Cardinality(W(y + 1)) >= y + 1)
    BY <2>1
  <2>3. Cardinality(W(y)) \in Nat /\ Cardinality(W(y + 1)) \in Nat
        /\ Cardinality(W(y)) + 1 <= Cardinality(W(y + 1))
    BY <1>3, <1>4, <2>2
  <2>4. y # 0
    BY <2>2, <2>3
  <2>5. y - 1 \in Nat /\ ~ (y <= y - 1) /\ (y - 1) + 1 = y
    BY <2>2, <2>4
  <2>6. Grown(y - 1)
    BY <2>1, <2>5
  <2>7. W(y) # W(y - 1)
    <3>1. SUFFICES ASSUME W(y) = W(y - 1) PROVE FALSE
      OBVIOUS
    <3>2. W(y) = W(y - 1) \cup Below(W(y - 1)) /\ W(y + 1) = W(y) \cup Below(W(y))
      BY <1>1, <2>2, <2>5
    <3> QED
      BY <2>2, <3>1, <3>2
  <2>8. Cardinality(W(y)) >= y
    BY <2>5, <2>6, <2>7
  <2> QED
    BY <2>2, <2>3, <2>8
<1>6. W(N + 1) = W(N)
  <2>1. SUFFICES ASSUME W(N + 1) # W(N) PROVE FALSE
    OBVIOUS
  <2>2. Grown(N)
    BY <1>2, <1>5
  <2>3. Cardinality(W(N + 1)) >= N + 1
    BY <2>1, <2>2
  <2>4. Cardinality(W(N + 1)) \in Nat /\ Cardinality(W(N + 1)) <= N
    BY <1>2, <1>3
  <2> QED
    BY <1>2, <2>3, <2>4
<1>7. C = {}
  <2>0. SUFFICES ASSUME C # {} PROVE FALSE
    OBVIOUS
  <2>1. PICK y \in C : \A z \in C : y <= z
    <3>1. C \subseteq Nat
      OBVIOUS
    <3> HIDE DEF C
    <3> QED
      BY <2>0, <3>1, LeastNat
  <2>2. y # 0
    BY <1>1, <2>1
  <2>3. y - 1 \in Nat /\ ~ (y <= y - 1) /\ (y - 1) + 1 = y
    BY <2>2
  <2>4. Top \subseteq W(y - 1)
    BY <2>1, <2>3
  <2>5. W(y) = W(y - 1) \cup Below(W(y - 1))
    BY <1>1, <2>3
  <2> QED
    BY <2>1, <2>4, <2>5
<1>8. W(N) = Dirs
  BY <1>1, <1>2 DEF Dirs, W
<1>9. Top \subseteq W(N) /\ W(N) \in SUBSET Blocks /\ Below(W(N)) \subseteq W(N)
  BY <1>1, <1>2, <1>6, <1>7
<1> QED
  BY <1>8, <1>9

LEMMA SameBlocks ==
    ASSUME disk' = disk
    PROVE  TreeBlocks' = TreeBlocks /\ Dirs' = Dirs /\ FileEntries' = FileEntries
           /\ \A b : ChainWithin(b)' = ChainWithin(b)
<1>1. DirsWithin' = DirsWithin
  BY DEF DirsWithin, IsDir, Subdirs, Children
<1>2. Dirs' = Dirs
  BY <1>1 DEF Dirs
<1>3. \A b : Children(b)' = Children(b)
  BY DEF Children
<1>4. FileEntries' = FileEntries
  BY <1>2, <1>3 DEF FileEntries
<1>5. \A b : ChainWithin(b)' = ChainWithin(b)
  BY DEF ChainWithin
<1>6. TreeBlocks' = TreeBlocks
  BY <1>2, <1>4, <1>5 DEF TreeBlocks
<1> QED
  BY <1>2, <1>4, <1>5, <1>6

(* The scan marks and will mark only directories in Y and file blocks in X. *)
ItemIn(Y, X, w) == (w.type = "dir" /\ w.bno # 0 => w.bno \in Y) /\ (w.type = "file" => w.bno \in X)

Only(Y, X, U, S) == U \subseteq Reserved \cup Y \cup X /\ \A j \in 1 .. Len(S) : ItemIn(Y, X, S[j])

FileBlocks == UNION {ChainWithin(e.bno) : e \in FileEntries}

OnlyTree == ~ torn /\ scan # <<>> => Only(Dirs, FileBlocks, used, scan)

LEMMA OnlySame ==
    ASSUME disk' = disk
    PROVE  Dirs' = Dirs /\ FileBlocks' = FileBlocks
BY SameBlocks DEF FileBlocks

LEMMA OnlyFollows ==
    ASSUME NEW Y, NEW X, NEW U, NEW S, Only(Y, X, U, S), NEW Q, NEW N, Follows(S, Q, N),
           \A j \in 1 .. Len(Q) : ItemIn(Y, X, Q[j]), NEW b, b \in Y \cup X
    PROVE  Only(Y, X, U, N) /\ Only(Y, X, U \cup {b}, N)
BY DEF Only, Follows

LEMMA RebuildBeginOnly ==
    ASSUME Inv, RebuildBegin
    PROVE  Only(Dirs, FileBlocks, used', scan')
<1> DEFINE w == [type |-> "dir", bno |-> Root, depth |-> 0]
<1>1. used' = Reserved /\ scan' = IF IsDir(Root) THEN <<w>> ELSE <<>>
  BY DEF RebuildBegin
<1>2. Disk(disk)
  BY DEF Inv, TypeOK, Disk
<1>3. CASE ~ IsDir(Root)
  <2>1. Len(scan') = 0 /\ 1 .. 0 = {}
    BY <1>1, <1>3
  <2> QED
    BY <1>1, <2>1 DEF Only
<1>4. CASE IsDir(Root)
  <2>1. Len(scan') = 1 /\ scan'[1] = w /\ \A j \in 1 .. 1 : j = 1
    BY <1>1, <1>4
  <2>2. Root \in Dirs
    BY <1>2, <1>4, DirsClosed DEF Top
  <2>3. ItemIn(Dirs, FileBlocks, w)
    BY <2>2 DEF ItemIn
  <2> QED
    BY <1>1, <2>1, <2>3 DEF Only
<1> QED
  BY <1>3, <1>4

LEMMA CallsOnly ==
    ASSUME NEW T, NEW h, NEW p, Good(T, h, p), op = Idle, NEW b \in Dirs, NEW k
    PROVE  LET Q == ScanCalls(b, k) IN \A j \in 1 .. Len(Q) : ItemIn(Dirs, FileBlocks, Q[j])
<1> DEFINE s == NamedEntries(b)
           Q == ScanCalls(b, k)
<1>0. /\ Layout(disk, T, h, p, 0) /\ Disk(disk) /\ T \subseteq Blocks /\ b \in T
      /\ \A d \in T : disk[d].magic = "dir"
  <2>1. op.call = "none"
    BY DEF Idle
  <2>2. Layout(disk, T, h, p, 0)
    BY <2>1, CallKinds DEF Good
  <2> QED
    BY <2>2, DirsInTree DEF Layout, Maps
<1>1. Listed(b, s, MAX_DIR_ENTRIES)
  BY <1>0, NamedFacts
<1>2. s \in Seq(EntryType)
  BY <1>1 DEF Listed
<1>3. Q = [j \in DOMAIN s |-> [type |-> s[j].type, bno |-> s[j].bno, depth |-> k + 1]]
  BY DEF ScanCalls
<1> HIDE DEF s, Q
<1>4. DOMAIN s = 1 .. Len(s) /\ Len(s) \in Nat
  BY <1>2
<1>5. Len(Q) = Len(s)
  BY <1>3, <1>4
<1>6. ASSUME NEW j \in 1 .. Len(Q) PROVE ItemIn(Dirs, FileBlocks, Q[j])
  <2>1. j \in 1 .. Len(s)
    BY <1>5
  <2>2. Q[j].type = s[j].type /\ Q[j].bno = s[j].bno
    BY <1>3, <1>4, <2>1
  <2>3. PICK i \in Slots : s[j] = Ent(disk, b, i) /\ Ent(disk, b, i).name # ""
    BY <1>1, <2>1 DEF Listed, Slots
  <2> DEFINE e == Ent(disk, b, i)
  <2>4. Q[j].type = e.type /\ Q[j].bno = e.bno
    BY <2>2, <2>3
  <2>5. ASSUME e.type = "dir", e.bno # 0 PROVE e.bno \in Dirs
    <3>1. EntryOk(T, h, p, 0, e, <<b, i>>)
      BY <1>0, <2>3 DEF Layout, DirOk
    <3>2. e.bno \in T
      BY <2>5, <3>1 DEF EntryOk
    <3>3. IsDir(e.bno)
      BY <1>0, <2>5, <3>2 DEF IsDir
    <3>4. Dirs \in SUBSET Blocks /\ Below(Dirs) \subseteq Dirs
      BY <1>0, DirsClosed
    <3>5. e.bno \in Below(Dirs)
      BY <1>0, <2>3, <2>5, <3>3, <3>4, BelowFacts
    <3> QED
      BY <3>4, <3>5
  <2>6. ASSUME e.type = "file" PROVE e.bno \in FileBlocks
    <3>1. FileAt(disk, b, i)
      BY <2>3, <2>6 DEF FileAt
    <3>2. e \in FileEntries
      BY <3>1, FileEntriesAre
    <3>3. FileOk(T, h, b, i, e)
      BY <1>0, <3>1, FileHolds
    <3>4. e.bno \in ChainWithin(e.bno)
      BY <3>3 DEF FileOk
    <3> HIDE DEF e
    <3> QED
      BY <3>2, <3>4 DEF FileBlocks
  <2> QED
    BY <2>4, <2>5, <2>6 DEF ItemIn
<1> QED
  BY <1>6 DEF Q

LEMMA ScanDirOnly ==
    ASSUME Inv, Settled, NEW T, NEW h, NEW p, Good(T, h, p), Only(Dirs, FileBlocks, used, scan), ScanDir
    PROVE  Only(Dirs, FileBlocks, used', scan')
<1> DEFINE b == Head(scan).bno
           k == Head(scan).depth
           Q == ScanCalls(b, k)
<1>1. /\ scan # <<>> /\ Head(scan).type = "dir"
      /\ \/ /\ b \in 1 .. FS_MAX_BLOCKS - 1 /\ k <= SCAN_DEPTH /\ IsDir(b)
            /\ used' = used \cup {b} /\ scan' = Q \o Tail(scan)
         \/ used' = used /\ scan' = Tail(scan)
  BY DEF ScanDir
<1>2. /\ Scanning(disk, DirsAt, used, scan, T, h) /\ scan[1] = Head(scan)
      /\ Head(scan) \in ScanItems /\ ItemOk(disk, DirsAt, T, h, Head(scan))
      /\ <<>> \o Tail(scan) = Tail(scan) /\ <<>> \in Seq(ScanItems)
  BY <1>1, ScanHead
<1>3. scan \in Seq(ScanItems) /\ 1 \in 1 .. Len(scan)
  <2>1. scan \in Seq(ScanItems)
    BY <1>2 DEF Scanning
  <2> QED
    BY <1>1, <2>1
<1>4. op = Idle /\ Layout(disk, T, h, p, 0)
  BY <1>1, BetweenCalls DEF MapReady
<1>5. b # 0 => b \in Dirs /\ b \in T /\ b \in DirsAt[k]
  BY <1>1, <1>2, <1>3 DEF Only, ItemIn, ItemOk
<1> HIDE DEF b, k
<1>6. CASE /\ b \in 1 .. FS_MAX_BLOCKS - 1 /\ k <= SCAN_DEPTH /\ IsDir(b)
           /\ used' = used \cup {b} /\ scan' = Q \o Tail(scan)
  <2>1. b \in Dirs /\ b \in T /\ b \in DirsAt[k]
    BY <1>5, <1>6
  <2>0. k \in Nat
    BY <1>2, LimitsAssumption DEF ScanItems, k
  <2>2. Q \in Seq(ScanItems)
    BY <1>4, <1>6, <2>0, <2>1, CallsOfDir
  <2>3. \A j \in 1 .. Len(Q) : ItemIn(Dirs, FileBlocks, Q[j])
    BY <1>4, <2>1, CallsOnly
  <2> HIDE DEF Q
  <2>4. Follows(scan, Q, scan')
    BY <1>1, <1>3, <1>6, <2>2, Unfolded
  <2>5. b \in Dirs \cup FileBlocks
    BY <2>1
  <2> QED
    BY <1>6, <2>3, <2>4, <2>5, OnlyFollows
<1>7. CASE used' = used /\ scan' = Tail(scan)
  <2>1. Follows(scan, <<>>, scan')
    <3>1. Follows(scan, <<>>, <<>> \o Tail(scan))
      BY <1>1, <1>2, <1>3, Unfolded
    <3> QED
      BY <1>2, <1>7, <3>1
  <2>2. Len(<<>>) = 0 /\ 1 .. 0 = {}
    OBVIOUS
  <2> QED
    BY <1>7, <2>1, <2>2 DEF Only, Follows
<1> QED
  BY <1>1, <1>6, <1>7

LEMMA ScanChainOnly ==
    ASSUME Inv, Settled, NEW T, NEW h, NEW p, Good(T, h, p), Only(Dirs, FileBlocks, used, scan), ScanChain
    PROVE  Only(Dirs, FileBlocks, used', scan')
<1> DEFINE w == Head(scan)
           b == w.bno
           n == ChainNext(b)
           v == [w EXCEPT !.bno = n]
<1>1. /\ scan # <<>> /\ w.type = "file"
      /\ \/ used' = used \cup {b} /\ scan' = IF n = 0 THEN Tail(scan) ELSE <<v>> \o Tail(scan)
         \/ used' = used /\ scan' = Tail(scan)
  BY DEF ScanChain
<1>2. /\ Scanning(disk, DirsAt, used, scan, T, h) /\ scan[1] = w /\ w \in ScanItems
      /\ <<>> \o Tail(scan) = Tail(scan) /\ <<>> \in Seq(ScanItems)
  BY <1>1, ScanHead
<1>3. scan \in Seq(ScanItems) /\ 1 \in 1 .. Len(scan)
  <2>1. scan \in Seq(ScanItems)
    BY <1>2 DEF Scanning
  <2> QED
    BY <1>1, <2>1
<1>4. b \in FileBlocks
  BY <1>1, <1>2, <1>3 DEF Only, ItemIn
<1>5. PICK e \in FileEntries : b \in ChainWithin(e.bno)
  BY <1>4 DEF FileBlocks
<1>6. PICK d \in T, i \in Slots : FileOk(T, h, d, i, e)
  BY NamedFile
<1>7. n # 0 => n \in ChainWithin(e.bno) /\ n \in Blocks
  BY <1>5, <1>6 DEF FileOk, ChainNext
<1>8. n # 0 => n \in FileBlocks /\ n \in Blocks
  BY <1>7 DEF FileBlocks
<1>9. n # 0 => v \in ScanItems /\ ItemIn(Dirs, FileBlocks, v)
  <2>1. n # 0 => v \in ScanItems /\ v.bno = n /\ v.type = "file"
    BY <1>1, <1>2, <1>8 DEF ScanItems
  <2> HIDE DEF v
  <2> QED
    BY <1>8, <2>1 DEF ItemIn
<1>10. Len(<<>>) = 0 /\ 1 .. 0 = {}
  OBVIOUS
<1> HIDE DEF w, b, n, v
<1>11. ASSUME NEW Q \in Seq(ScanItems), \A j \in 1 .. Len(Q) : ItemIn(Dirs, FileBlocks, Q[j]),
              scan' = Q \o Tail(scan), used' = used \/ used' = used \cup {b}
       PROVE  Only(Dirs, FileBlocks, used', scan')
  <2>1. Follows(scan, Q, scan')
    BY <1>1, <1>3, <1>11, Unfolded
  <2>2. b \in Dirs \cup FileBlocks
    BY <1>4
  <2>3. Only(Dirs, FileBlocks, used, scan') /\ Only(Dirs, FileBlocks, used \cup {b}, scan')
    BY <1>11, <2>1, <2>2, OnlyFollows
  <2> QED
    BY <1>11, <2>3
<1>12. CASE scan' = Tail(scan)
  <2>1. scan' = <<>> \o Tail(scan) /\ (used' = used \/ used' = used \cup {b})
    BY <1>1, <1>2, <1>12
  <2> QED
    BY <1>2, <1>10, <1>11, <2>1
<1>13. CASE scan' # Tail(scan)
  <2>1. n # 0 /\ scan' = <<v>> \o Tail(scan) /\ used' = used \cup {b}
    BY <1>1, <1>13
  <2> DEFINE Q == <<v>>
  <2>2. Q \in Seq(ScanItems) /\ Len(Q) = 1 /\ Q[1] = v /\ \A j \in 1 .. 1 : j = 1
    BY <1>9, <2>1
  <2>3. scan' = Q \o Tail(scan)
    BY <2>1
  <2> HIDE DEF Q
  <2>4. \A j \in 1 .. Len(Q) : ItemIn(Dirs, FileBlocks, Q[j])
    BY <1>9, <2>1, <2>2
  <2> QED
    BY <1>11, <2>1, <2>2, <2>3, <2>4
<1> QED
  BY <1>12, <1>13

(* Only these actions run while there is something to scan. *)
LEMMA NoScan ==
    ASSUME Settled, Next, ~ (RebuildBegin \/ ScanDir \/ ScanChain)
    PROVE  scan' = <<>> /\ (scan = <<>> \/ ~ fs_alloc_ready')
<1>1. CASE Crash
  BY <1>1 DEF Crash
<1>2. CASE Calls
  BY <1>2 DEF Calls, Format, StoreBegin, MkdirBegin, Remove, Move, CanCall
<1>3. CASE Continue
  <2>1. op.call # "none" /\ scan' = scan
    BY <1>3 DEF Continue, StoreAlloc, StoreWrite, StoreLink, StoreCommit, FreeStep, MkdirEntry,
               MkdirBlock, MoveDst, MoveParent
  <2>2. scan = <<>>
    BY <2>1 DEF Settled, Idle, MapReady
  <2> QED
    BY <2>1, <2>2
<1> QED
  BY <1>1, <1>2, <1>3 DEF Next

LEMMA OnlyKept ==
    ASSUME TreeInv, OnlyTree, Next, ~ torn', scan' # <<>> \/ (scan # <<>> /\ fs_alloc_ready')
    PROVE  disk' = disk /\ Only(Dirs, FileBlocks, used', scan')
<1>1. Inv /\ Settled /\ ~ torn /\ (RebuildBegin \/ ScanDir \/ ScanChain)
  BY NoScan, TornStays DEF TreeInv
<1>2. PICK T, h, p : Good(T, h, p)
  BY <1>1 DEF TreeInv
<1>3. disk' = disk
  BY <1>1 DEF RebuildBegin, ScanDir, ScanChain
<1>4. CASE RebuildBegin
  BY <1>1, <1>3, <1>4, RebuildBeginOnly
<1>5. CASE ScanDir \/ ScanChain
  <2>1. Only(Dirs, FileBlocks, used, scan)
    BY <1>1, <1>5 DEF OnlyTree, ScanDir, ScanChain
  <2> QED
    BY <1>1, <1>2, <1>3, <1>5, <2>1, ScanDirOnly, ScanChainOnly
<1> QED
  BY <1>1, <1>4, <1>5

(* As long as a scan runs, it marks nothing but blocks of the tree. *)
LEMMA OnlyInductive == Spec /\ []Shallow => []OnlyTree
<1>1. Init => OnlyTree
  BY DEF Init, OnlyTree
<1>2. TreeInv /\ OnlyTree /\ [Next]_vars => OnlyTree'
  <2> SUFFICES ASSUME TreeInv, OnlyTree, [Next]_vars, ~ torn', scan' # <<>>
               PROVE  Only(Dirs', FileBlocks', used', scan')
    BY DEF OnlyTree
  <2>1. CASE Next
    <3>1. disk' = disk /\ Only(Dirs, FileBlocks, used', scan')
      BY <2>1, OnlyKept
    <3> QED
      BY <3>1, OnlySame
  <2>2. CASE UNCHANGED vars
    <3>1. disk' = disk /\ used' = used /\ scan' = scan /\ torn' = torn
      BY <2>2 DEF vars
    <3> QED
      BY <3>1, OnlySame DEF OnlyTree
  <2> QED
    BY <2>1, <2>2
<1> QED
  BY <1>1, <1>2, TreeInductive, PTL DEF Spec

(* fs_rebuild_alloc_state, with the early returns of fs_scan_dir and          *)
(* fs_scan_chain on marked blocks, ends with a map that marks the reserved    *)
(* blocks and exactly the blocks of the tree: none is lost, none leaks.       *)
THEOREM RebuildIsExact == Spec /\ []Shallow => RebuildExact
<1>1. TreeInv /\ OnlyTree /\ TreeInv' /\ TreeMarked' /\ [Next]_vars =>
        [scan # <<>> /\ scan' = <<>> /\ fs_alloc_ready' /\ ~ torn => used' = Reserved \cup TreeBlocks]_vars
  <2> SUFFICES ASSUME TreeInv, OnlyTree, TreeInv', TreeMarked', [Next]_vars, ~ UNCHANGED vars,
                      scan # <<>>, scan' = <<>>, fs_alloc_ready', ~ torn
               PROVE  used' = Reserved \cup TreeBlocks
    OBVIOUS
  <2>0. Next
    OBVIOUS
  <2>1. RebuildBegin \/ ScanDir \/ ScanChain
    BY <2>0, NoScan DEF TreeInv
  <2>2. ~ torn'
    BY <2>1 DEF RebuildBegin, ScanDir, ScanChain
  <2>3. disk' = disk /\ Only(Dirs, FileBlocks, used', scan')
    BY <2>0, <2>2, OnlyKept
  <2>4. used' \subseteq Reserved \cup TreeBlocks
    BY <2>3 DEF Only, TreeBlocks, FileBlocks
  <2>5. MapReady'
    BY DEF MapReady
  <2>6. TreeInv' => (\E T, h, p : Good(T, h, p)')
    BY <2>2 DEF TreeInv
  <2>7. PICK T, h, p : Good(T, h, p)'
    BY <2>6
  <2>8. TreeBlocks' \subseteq used'
    BY <2>2, <2>5 DEF TreeMarked
  <2>9. Reserved \subseteq used'
    BY <2>5, <2>7 DEF Good, Marked
  <2> QED
    BY <2>3, <2>4, <2>8, <2>9, SameBlocks
<1> QED
  BY <1>1, TreeInductive, TreeAlwaysMarked, OnlyInductive, PTL DEF Spec, RebuildExact

=============================================================================

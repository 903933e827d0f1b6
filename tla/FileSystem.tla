----------------------------- MODULE FileSystem -----------------------------
(***************************************************************************)
(* The on-disk file system of vibeos (fs.c, and the mkdir, cd and format   *)
(* commands of user_cmd.c and user_fs_shell.c): directory blocks, chains   *)
(* of data blocks, and a block map that exists in RAM only and is rebuilt  *)
(* by scanning the tree after a reboot.                                    *)
(*                                                                         *)
(* No call of fs.c gives up the CPU, so calls do not interleave with each  *)
(* other; the machine may stop between any two disk writes of a call.  One *)
(* action is what a call does up to and including one disk write.  Calls   *)
(* that return an error before they write anything are not shown.          *)
(*                                                                         *)
(* A path is resolved to a directory of the tree and a leaf name; a window *)
(* whose working directory has been removed is outside this model.  The    *)
(* parsers of paths refuse a segment of 20 characters and more, so only a  *)
(* store that is given a bare name, without / or ~, sees a long one.  Time *)
(* stamps and modes are left out, and a size is counted in payload blocks. *)
(* val is the content a store put under an entry, which the disk does not  *)
(* record; it is compared with the data of the blocks.                     *)
(***************************************************************************)
EXTENDS Integers, Sequences, FiniteSets

CONSTANTS
    FS_MAX_BLOCKS,
    FIRST_BLOCK,        \* 60: the blocks below it are never allocated
    MAX_DIR_ENTRIES,
    SCAN_DEPTH,         \* 32: how deep fs_scan_dir descends
    CLIMB_GUARD,        \* 64: how far fs_dir_is_ancestor climbs
    Names,              \* leaf names that fit an entry: 1 to 19 characters
    LongNames,          \* leaf names of 20 characters and more
    Short,              \* what copy_name20 keeps of each of those
    Contents,           \* what a caller may store in a file
    StoreSizes,         \* sizes passed to store_file_bytes, in blocks
    MaxCalls,           \* bound on the calls of a behaviour
    MaxCrashes          \* bound on its reboots

ASSUME BlocksAssumption == FIRST_BLOCK \in Nat /\ FS_MAX_BLOCKS \in Nat
                           /\ 1 < FIRST_BLOCK /\ FIRST_BLOCK <= FS_MAX_BLOCKS
ASSUME LimitsAssumption == MAX_DIR_ENTRIES \in Nat \ {0} /\ SCAN_DEPTH \in Nat /\ CLIMB_GUARD \in Nat
ASSUME NamesAssumption == "" \notin Names \cup LongNames /\ Names \cap LongNames = {}
                          /\ Short \in [LongNames -> Names]
ASSUME InputsAssumption == StoreSizes \subseteq Nat /\ MaxCalls \in Nat /\ MaxCrashes \in Nat

VARIABLES
    disk,               \* the blocks of the disk
    used,               \* fs_block_map: the blocks whose bit is set
    next_free_block,
    fs_alloc_ready,
    scan,               \* the pending calls of fs_scan_dir and fs_scan_chain
    op,                 \* the call in progress and its locals
    calls, crashes,     \* calls and reboots so far
    torn                \* history: a reboot hit mkdir between its two writes

vars == <<disk, used, next_free_block, fs_alloc_ready, scan, op, calls, crashes, torn>>

ram == <<used, next_free_block, fs_alloc_ready>>

Blocks   == 0 .. FS_MAX_BLOCKS - 1
Reserved == 0 .. FIRST_BLOCK - 1
Root     == 1
Slots    == 1 .. MAX_DIR_ENTRIES

-----------------------------------------------------------------------------
(* Blocks and directory entries.  A block is zeroed, a directory or data.    *)

NoEntry == [name |-> "", type |-> "file", bno |-> 0, size |-> 0, val |-> "none"]
NoEnts  == [i \in Slots |-> NoEntry]

Block(magic, parent, ents, next, data) ==
    [magic |-> magic, parent |-> parent, ents |-> ents, next |-> next, data |-> data]

ZeroBlock       == Block("zero", 0, NoEnts, 0, <<"none", 0>>)
DirBlock(p)     == Block("dir", p, NoEnts, 0, <<"none", 0>>)
DataBlock(v, i) == Block("data", 0, NoEnts, 0, <<v, i>>)

IsDir(b) == b # 0 /\ disk[b].magic = "dir"

\* find_entry_index and find_free_entry_index; 0 stands for -1
First(S) == IF S = {} THEN 0 ELSE CHOOSE i \in S : \A j \in S : i <= j
FindEntry(db, n)  == First({i \in Slots : db.ents[i].name = n})
FindFreeEntry(db) == First({i \in Slots : db.ents[i].name = ""})

copy_name20(n) == IF n \in LongNames THEN Short[n] ELSE n

\* the names an entry may get from a longer one
Cut == {Short[n] : n \in LongNames}

\* dir_block_is_empty
DirIsEmpty(b) == disk[b].magic = "dir" /\ disk[b].ents = NoEnts

Children(b) == {e \in {disk[b].ents[i] : i \in Slots} : e.name # ""}

Subdirs(b)  == {e \in Children(b) : e.type = "dir"}

\* The directories a path from the root can name, by increasing depth.
DirsWithin[k \in Nat] ==
    IF k = 0 THEN {b \in {Root} : IsDir(b)}
    ELSE LET D == DirsWithin[k - 1]
         IN D \cup {b \in {e.bno : e \in UNION {Subdirs(d) : d \in D}} : IsDir(b)}

Dirs == Blocks \cap DirsWithin[FS_MAX_BLOCKS]

-----------------------------------------------------------------------------
(* The block allocator.                                                      *)

\* Seeded fault: the search runs one block too far.
BadNextFree == First({b \in 0 .. FS_MAX_BLOCKS : b >= next_free_block /\ b \notin used})

\* balloc's search; 0: the disk is full
NextFree == First({b \in Blocks : b >= next_free_block /\ b \notin used})

\* balloc's effect on the map
Take(b) ==
    /\ used' = used \cup {b}
    /\ next_free_block' = b + 1
    /\ UNCHANGED fs_alloc_ready

\* Seeded fault: a freed block below the hint does not lower it.
BadBfree(b) ==
    /\ used' = used \ {b}
    /\ UNCHANGED <<next_free_block, fs_alloc_ready>>

\* bfree; the reserved blocks are never freed
Bfree(b) ==
    /\ IF b < FIRST_BLOCK THEN UNCHANGED <<used, next_free_block>>
       ELSE /\ used' = used \ {b}
            /\ next_free_block' = IF b < next_free_block THEN b ELSE next_free_block
    /\ UNCHANGED fs_alloc_ready

-----------------------------------------------------------------------------
Idle == [call |-> "none"]

CountCall == calls < MaxCalls /\ calls' = calls + 1

CanCall == CountCall /\ op = Idle /\ fs_alloc_ready /\ scan = <<>>

Init ==
    /\ disk = [b \in Blocks |-> ZeroBlock]
    /\ used = {}
    /\ next_free_block = FIRST_BLOCK
    /\ fs_alloc_ready = FALSE
    /\ scan = <<>>
    /\ op = Idle
    /\ calls = 0
    /\ crashes = 0
    /\ torn = FALSE

\* fs_format_root: only the root is written, the old blocks keep their content
Format ==
    /\ op = Idle /\ scan = <<>>
    /\ disk' = [disk EXCEPT ![Root] = DirBlock(Root)]
    /\ used' = Reserved
    /\ next_free_block' = FIRST_BLOCK
    /\ fs_alloc_ready' = TRUE
    /\ UNCHANGED <<scan, op, calls, crashes, torn>>

-----------------------------------------------------------------------------
(* store_file_bytes: allocate and write the new chain, commit the directory  *)
(* entry with one write, then free the chain the entry had before.  The old  *)
(* entry is looked up under the leaf as it is given.                         *)

StoreBegin(d, n, k, v) ==
    /\ CanCall
    /\ LET db == disk[d]
           i  == FindEntry(db, n)
           s  == IF i # 0 THEN i ELSE FindFreeEntry(db)
       IN /\ s # 0
          /\ i # 0 => db.ents[i].type = "file"
          /\ op' = [call |-> "store", at |-> "alloc", dir |-> d, db |-> db, slot |-> s,
                    leaf |-> n, size |-> k, val |-> v, old |-> db.ents[s].bno,
                    first |-> 0, prev |-> 0, cur |-> 0, written |-> 0]
    /\ UNCHANGED <<disk, ram, scan, crashes, torn>>

StoreAlloc ==
    /\ op.call = "store" /\ op.at = "alloc"
    /\ LET b == NextFree
       IN IF b = 0
          THEN op' = Idle /\ UNCHANGED <<disk, ram>>
          ELSE /\ Take(b)
               /\ disk' = [disk EXCEPT ![b] = ZeroBlock]
               /\ op' = [op EXCEPT !.at = "write", !.cur = b]
    /\ UNCHANGED <<scan, calls, crashes, torn>>

\* Seeded fault: the entry gets the last block of the chain.
BadStoreRound ==
    op' = [op EXCEPT !.first   = op.cur,
                     !.prev    = op.cur,
                     !.written = op.written + 1,
                     !.at      = IF op.written + 1 < op.size THEN "alloc" ELSE "commit"]

\* the locals at the end of a round of the loop
StoreRound ==
    op' = [op EXCEPT !.first   = IF op.prev = 0 THEN op.cur ELSE op.first,
                     !.prev    = op.cur,
                     !.written = op.written + 1,
                     !.at      = IF op.written + 1 < op.size THEN "alloc" ELSE "commit"]

\* the chunk that goes into a block; an empty file has a block without one
Payload(o) == IF o.size = 0 THEN "none" ELSE o.val

StoreWrite ==
    /\ op.call = "store" /\ op.at = "write"
    /\ disk' = [disk EXCEPT ![op.cur] = DataBlock(Payload(op), op.written)]
    /\ IF op.prev # 0 THEN op' = [op EXCEPT !.at = "link"] ELSE StoreRound
    /\ UNCHANGED <<ram, scan, calls, crashes, torn>>

StoreLink ==
    /\ op.call = "store" /\ op.at = "link"
    /\ disk' = [disk EXCEPT ![op.prev].next = op.cur]
    /\ StoreRound
    /\ UNCHANGED <<ram, scan, calls, crashes, torn>>

\* fs_free_chain, entered with the first block of the chain
ThenFree(b) == op' = IF b = 0 THEN Idle ELSE [call |-> "free", cur |-> b]

StoreCommit ==
    /\ op.call = "store" /\ op.at = "commit"
    /\ disk' = [disk EXCEPT ![op.dir] =
                  [op.db EXCEPT !.ents[op.slot] =
                     [name |-> copy_name20(op.leaf), type |-> "file", bno |-> op.first,
                      size |-> op.size, val |-> op.val]]]
    /\ ThenFree(op.old)
    /\ UNCHANGED <<ram, scan, calls, crashes, torn>>

\* one round of fs_free_chain: the link is read, then the block is freed
FreeStep ==
    /\ op.call = "free"
    /\ Bfree(op.cur)
    /\ ThenFree(IF disk[op.cur].magic = "data" THEN disk[op.cur].next ELSE 0)
    /\ UNCHANGED <<disk, scan, calls, crashes, torn>>

\* remove_entry_named
Remove(d, n) ==
    /\ CanCall
    /\ LET i == FindEntry(disk[d], n)
           e == disk[d].ents[i]
       IN /\ i # 0
          /\ e.type = "dir" => DirIsEmpty(e.bno)
          /\ disk' = [disk EXCEPT ![d].ents[i] = NoEntry]
          /\ IF e.type = "dir"
             THEN Bfree(e.bno) /\ UNCHANGED op
             ELSE ThenFree(e.bno) /\ UNCHANGED ram
    /\ UNCHANGED <<scan, crashes, torn>>

-----------------------------------------------------------------------------
(* mkdir: the entry is written before the block it names.  The mkdir command *)
(* does not look at balloc's result; local_mkdir_path (checked) does.        *)

MkdirBegin(d, n, checked) ==
    /\ CanCall
    /\ FindEntry(disk[d], n) = 0
    /\ FindFreeEntry(disk[d]) # 0
    /\ LET b == NextFree
       IN /\ b = 0 => ~ checked
          /\ IF b = 0 THEN UNCHANGED <<disk, ram>>
             ELSE Take(b) /\ disk' = [disk EXCEPT ![b] = ZeroBlock]
          /\ op' = [call |-> "mkdir", at |-> "entry", dir |-> d, db |-> disk[d],
                    slot |-> FindFreeEntry(disk[d]), name |-> n, cur |-> b]
    /\ UNCHANGED <<scan, crashes, torn>>

MkdirEntry ==
    /\ op.call = "mkdir" /\ op.at = "entry"
    /\ disk' = [disk EXCEPT ![op.dir] =
                  [op.db EXCEPT !.ents[op.slot] =
                     [NoEntry EXCEPT !.name = op.name, !.type = "dir", !.bno = op.cur]]]
    /\ op' = [op EXCEPT !.at = "block"]
    /\ UNCHANGED <<ram, scan, calls, crashes, torn>>

MkdirBlock ==
    /\ op.call = "mkdir" /\ op.at = "block"
    /\ disk' = [disk EXCEPT ![op.cur] = DirBlock(op.dir)]
    /\ op' = Idle
    /\ UNCHANGED <<ram, scan, calls, crashes, torn>>

-----------------------------------------------------------------------------
(* move_entry_named: the source directory is written first, the destination  *)
(* second, the parent link of a moved directory last.                        *)

\* the blocks fs_dir_is_ancestor looks at, climbing from b
Climb(b) ==
    LET Up[k \in 0 .. CLIMB_GUARD - 1] ==
          IF k = 0 THEN b
          ELSE LET c == Up[k - 1]
               IN IF c = Root \/ ~ IsDir(c) THEN c
                  ELSE IF disk[c].parent = 0 THEN Root ELSE disk[c].parent
    IN {Up[k] : k \in 0 .. CLIMB_GUARD - 1}

IsAncestor(a, b) == a \in Climb(b) \ {0}

\* Seeded fault: the entry stays in the source directory.
BadMoveInto(ds, i, dd, nd) ==
    /\ ds # dd
    /\ FindEntry(disk[dd], nd) = 0 /\ FindFreeEntry(disk[dd]) # 0
    /\ disk' = [disk EXCEPT ![dd].ents[FindFreeEntry(disk[dd])] =
                               [disk[ds].ents[i] EXCEPT !.name = nd]]
    /\ UNCHANGED op

\* dd and nd are the destination after an existing directory has been entered
MoveInto(ds, i, dd, nd) ==
    LET e == disk[ds].ents[i]
        j == FindEntry(disk[dd], nd)
        f == FindFreeEntry(disk[dd])
    IN IF ds = dd
       THEN /\ j \in {0, i}
            /\ disk' = [disk EXCEPT ![ds].ents[i].name = nd]
            /\ UNCHANGED op
       ELSE /\ j = 0 /\ f # 0
            /\ disk' = [disk EXCEPT ![ds].ents[i] = NoEntry]
            /\ op' = [call |-> "move", at |-> "dst", dir |-> dd, cur |-> e.bno, type |-> e.type,
                      db |-> [disk[dd] EXCEPT !.ents[f] = [e EXCEPT !.name = nd]]]

Move(ds, ns, dd, nd) ==
    /\ CanCall
    /\ <<ds, ns>> # <<dd, nd>>
    /\ LET i == FindEntry(disk[ds], ns)
           j == FindEntry(disk[dd], nd)
           e == disk[ds].ents[i]
           t == disk[dd].ents[j]
       IN /\ i # 0
          /\ IF j # 0 /\ t.type = "dir"
             THEN /\ e.type = "dir" => ~ IsAncestor(e.bno, t.bno)
                  /\ IsDir(t.bno)
                  /\ MoveInto(ds, i, t.bno, ns)
             ELSE MoveInto(ds, i, dd, nd)
    /\ UNCHANGED <<ram, scan, crashes, torn>>

MoveDst ==
    /\ op.call = "move" /\ op.at = "dst"
    /\ disk' = [disk EXCEPT ![op.dir] = op.db]
    /\ op' = IF op.type = "dir" /\ op.cur # 0 THEN [op EXCEPT !.at = "parent"] ELSE Idle
    /\ UNCHANGED <<ram, scan, calls, crashes, torn>>

MoveParent ==
    /\ op.call = "move" /\ op.at = "parent"
    /\ disk' = IF IsDir(op.cur) THEN [disk EXCEPT ![op.cur].parent = op.dir] ELSE disk
    /\ op' = Idle
    /\ UNCHANGED <<ram, scan, calls, crashes, torn>>

-----------------------------------------------------------------------------
(* A reboot loses the RAM; the first call after it rebuilds the block map.   *)

Crash ==
    /\ crashes < MaxCrashes
    /\ crashes' = crashes + 1
    /\ torn' = (torn \/ (op.call = "mkdir" /\ op.at = "block"))
    /\ used' = {}
    /\ next_free_block' = FIRST_BLOCK
    /\ fs_alloc_ready' = FALSE
    /\ scan' = <<>>
    /\ op' = Idle
    /\ UNCHANGED <<disk, calls>>

\* fs_rebuild_alloc_state up to its call of fs_scan_dir
RebuildBegin ==
    /\ ~ fs_alloc_ready
    /\ used' = Reserved
    /\ next_free_block' = FIRST_BLOCK
    /\ fs_alloc_ready' = TRUE
    /\ scan' = IF IsDir(Root) THEN <<[type |-> "dir", bno |-> Root, depth |-> 0]>> ELSE <<>>
    /\ UNCHANGED <<disk, op, calls, crashes, torn>>

\* Seeded fault: the loop over the entries ends at the first empty slot.
BadNamedEntries(b) ==
    SubSeq(disk[b].ents, 1, IF FindFreeEntry(disk[b]) = 0 THEN MAX_DIR_ENTRIES
                            ELSE FindFreeEntry(disk[b]) - 1)

\* the entries of b without the empty ones, as fs_scan_dir's loop meets them
NamedEntries(b) ==
    LET Upto[i \in 0 .. MAX_DIR_ENTRIES] ==
            IF i = 0 THEN <<>>
            ELSE IF disk[b].ents[i].name = "" THEN Upto[i - 1]
            ELSE Append(Upto[i - 1], disk[b].ents[i])
    IN Upto[MAX_DIR_ENTRIES]

\* what fs_scan_dir calls for each entry of b, in the order of the entries
ScanCalls(b, depth) ==
    LET s == NamedEntries(b)
    IN [i \in DOMAIN s |-> [type |-> s[i].type, bno |-> s[i].bno, depth |-> depth + 1]]

\* one call of fs_scan_dir without the calls it makes
ScanDir ==
    /\ scan # <<>> /\ Head(scan).type = "dir"
    /\ LET b == Head(scan).bno
           k == Head(scan).depth
       IN IF b \in 1 .. FS_MAX_BLOCKS - 1 /\ k <= SCAN_DEPTH
             /\ (k = 0 \/ b \notin used) /\ IsDir(b)
          THEN used' = used \cup {b} /\ scan' = ScanCalls(b, k) \o Tail(scan)
          ELSE used' = used /\ scan' = Tail(scan)
    /\ UNCHANGED <<disk, next_free_block, fs_alloc_ready, op, calls, crashes, torn>>

\* Seeded fault: only the first block of a chain is marked.
BadChainNext(b) == 0

\* the block fs_scan_chain looks at after b; 0: none
ChainNext(b) ==
    IF disk[b].magic # "data" \/ disk[b].next = b THEN 0 ELSE disk[b].next

\* one round of fs_scan_chain
ScanChain ==
    /\ scan # <<>> /\ Head(scan).type = "file"
    /\ LET b == Head(scan).bno
       IN IF b \in FIRST_BLOCK .. FS_MAX_BLOCKS - 1 /\ b \notin used
          THEN /\ used' = used \cup {b}
               /\ scan' = IF ChainNext(b) = 0 THEN Tail(scan)
                          ELSE <<[Head(scan) EXCEPT !.bno = ChainNext(b)]>> \o Tail(scan)
          ELSE used' = used /\ scan' = Tail(scan)
    /\ UNCHANGED <<disk, next_free_block, fs_alloc_ready, op, calls, crashes, torn>>

-----------------------------------------------------------------------------
Calls ==
    \/ Format
    \/ \E d \in Dirs, n \in Names \cup LongNames, k \in StoreSizes, v \in Contents :
          StoreBegin(d, n, k, v)
    \/ \E d \in Dirs, n \in Names :
          \/ \E checked \in BOOLEAN : MkdirBegin(d, n, checked)
          \/ Remove(d, n)
          \/ \E dd \in Dirs, nd \in Names : Move(d, n, dd, nd)

Continue ==
    \/ StoreAlloc \/ StoreWrite \/ StoreLink \/ StoreCommit
    \/ FreeStep
    \/ MkdirEntry \/ MkdirBlock
    \/ MoveDst \/ MoveParent

Next == Calls \/ Continue \/ Crash \/ RebuildBegin \/ ScanDir \/ ScanChain

Spec == Init /\ [][Next]_vars

-----------------------------------------------------------------------------
\* load_file_bytes: the chunks read for an entry, until its size is reached
\* or its chain ends
LoadFileBytes(e) ==
    LET At[k \in 0 .. e.size] ==
            IF k = 0 THEN e.bno
            ELSE LET b == At[k - 1]
                 IN IF b = 0 \/ disk[b].magic # "data" THEN 0 ELSE disk[b].next
    IN [k \in 1 .. Cardinality({i \in 1 .. e.size : At[i - 1] # 0}) |-> disk[At[k - 1]].data]

\* The blocks of the chain that starts at b.
ChainWithin(b) ==
    LET Links(D) == {disk[c].next : c \in {x \in D : disk[x].magic = "data"}}
        C[k \in Nat] == IF k = 0 THEN {b} \ {0}
                        ELSE LET D == C[k - 1] IN D \cup (Links(D) \ {0})
    IN C[FS_MAX_BLOCKS]

FileEntries == UNION {{e \in Children(d) : e.type = "file"} : d \in Dirs}

\* The directories a path of k names leads to.
DirsAt[k \in Nat] ==
    IF k = 0 THEN {b \in {Root} : IsDir(b)}
    ELSE {b \in {e.bno : e \in UNION {Subdirs(d) : d \in DirsAt[k - 1]}} : IsDir(b)}

\* No directory lies too deep for fs_scan_dir.  (A torn mkdir may make loops.)
Shallow == ~ torn => DirsAt[SCAN_DEPTH + 1] = {}

\* The blocks the tree on disk is made of.
TreeBlocks == Dirs \cup UNION {ChainWithin(e.bno) : e \in FileEntries}

EntryType ==
    [name : Names \cup {""}, type : {"file", "dir"}, bno : Blocks,
     size : StoreSizes \cup {0}, val : Contents \cup {"none"}]

BlockType ==
    [magic : {"zero", "dir", "data"}, parent : Blocks, ents : [Slots -> EntryType],
     next : Blocks, data : (Contents \cup {"none"}) \X Nat]

FreeOps == [call : {"free"}, cur : Blocks]

StoreOps ==
    [call : {"store"}, at : {"alloc", "write", "link", "commit"}, dir : Blocks,
     db : BlockType, slot : Slots, leaf : Names \cup LongNames, size : StoreSizes, val : Contents,
     old : Blocks, first : Blocks, prev : Blocks, cur : Blocks, written : Nat]

MkdirOps ==
    [call : {"mkdir"}, at : {"entry", "block"}, dir : Blocks, db : BlockType,
     slot : Slots, name : Names, cur : Blocks]

MoveOps ==
    [call : {"move"}, at : {"dst", "parent"}, dir : Blocks, cur : Blocks,
     type : {"file", "dir"}, db : BlockType]

(* Every variable and every local of the call in progress keeps its type: no *)
(* block number read from a directory, a chain or balloc is off the disk.    *)
TypeOK ==
    /\ disk \in [Blocks -> BlockType]
    /\ used \subseteq Blocks
    /\ next_free_block \in FIRST_BLOCK .. FS_MAX_BLOCKS
    /\ fs_alloc_ready \in BOOLEAN
    /\ op \in {Idle} \cup FreeOps \cup StoreOps \cup MkdirOps \cup MoveOps
    /\ calls \in 0 .. MaxCalls
    /\ crashes \in 0 .. MaxCrashes
    /\ torn \in BOOLEAN

MapReady == fs_alloc_ready /\ scan = <<>>

(* No block of the tree is ever handed out again: whenever the block map is  *)
(* in use, it marks every directory and every data block a path can reach.   *)
TreeMarked == MapReady /\ ~ torn => TreeBlocks \subseteq used

(* Every file reads back exactly what some store_file_bytes wrote for it,    *)
(* block by block and to the end of its chain, at every moment and after a   *)
(* reboot between any two disk writes: the new chain is complete before the  *)
(* entry names it and is not reused while the entry does.                    *)
FileIntact ==
    ~ torn => \A e \in FileEntries :
        /\ LoadFileBytes(e) = [k \in 1 .. e.size |-> <<e.val, k - 1>>]
        /\ Cardinality(ChainWithin(e.bno)) = IF e.size = 0 THEN 1 ELSE e.size

(* The tree is a tree: no block has two owners among the directory entries   *)
(* and the chains that start at them, so no removal frees what another path  *)
(* still uses, and no name occurs twice in a directory, unless it is what    *)
(* copy_name20 keeps of a longer one.  (The directory that the mkdir command *)
(* "creates" on a full disk names block 0 and owns none.)                    *)
OneOwner ==
    ~ torn =>
        /\ \A d, x \in Dirs : \A i, j \in Slots :
              LET e == disk[d].ents[i]
                  f == disk[x].ents[j]
              IN e.name # "" /\ f.name # "" /\ <<d, i>> # <<x, j>> =>
                    /\ d = x => e.name # f.name \/ e.name \in Cut
                    /\ e.bno # 0 => e.bno # f.bno
                    /\ e.type = "file" /\ f.type = "file" =>
                          ChainWithin(e.bno) \cap ChainWithin(f.bno) = {}
        /\ \A e \in FileEntries : ChainWithin(e.bno) \cap (Dirs \cup Reserved) = {}

(* balloc says "disk full" only when every block is marked: the hint never   *)
(* hides a free block below it.                                              *)
HintExact == \A b \in FIRST_BLOCK .. next_free_block - 1 : b \in used

(* The scan of fs_rebuild_alloc_state, with its early returns on marked      *)
(* blocks, marks exactly the blocks the tree is made of.  (Once a reboot has *)
(* torn a mkdir, a chain may come to run through a directory, and the scan   *)
(* returns early at a directory that it has marked as part of a chain.)      *)
RebuildExact ==
    [][scan # <<>> /\ scan' = <<>> /\ fs_alloc_ready' /\ ~ torn => used' = Reserved \cup TreeBlocks]_vars

(* What the mv command reports with ">> Moved.": the entry that              *)
(* move_entry_named has moved without an error is still in the tree.         *)
MoveKeepsEntry ==
    [][op.call = "move" /\ op' = Idle /\ crashes' = crashes =>
          \E d \in Dirs' : \E e \in Children(d)' : e.type = op.type /\ e.bno = op.cur]_vars

=============================================================================

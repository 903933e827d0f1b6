----------------------------- MODULE PageAlloc -----------------------------
(***************************************************************************)
(* The kernel heap of vibeos (alloc.c): a bitmap of 4 KB pages, first-fit  *)
(* malloc with a header at the start of the first page of a block, and a   *)
(* free that trusts nothing but that header.                               *)
(*                                                                         *)
(* Addresses are byte offsets from HEAP_START, which os.ld aligns to a     *)
(* page.  malloc and free mask the machine interrupts while they touch the *)
(* bitmap and never yield, so no other call runs between the steps of the  *)
(* search.  A payload is assumed not to forge a header: ALLOC_MAGIC is at  *)
(* a page start only where malloc put it.                                  *)
(***************************************************************************)
EXTENDS Integers, FiniteSets

CONSTANTS
    PAGE_SIZE, ALLOC_HEADER_SIZE,
    WORD,               \* 2^32: the range of uint32_t
    HeapPages,          \* _heap_total_pages
    DmaBase, DmaEnd,    \* bytes the USB controller owns (FPGA_USB_DMA_CPU_*)
    Sizes               \* sizes passed to malloc

\* page_init: the bitmap has one bit per page and lies at the heap start.
BitmapBytes == (HeapPages + 7) \div 8
FirstPage   == (BitmapBytes + PAGE_SIZE - 1) \div PAGE_SIZE
AllocPages  == HeapPages - FirstPage
Pages       == 0 .. HeapPages - 1
BlockPages  == FirstPage .. HeapPages - 1

ASSUME PageAssumption  == PAGE_SIZE \in Nat \ {0} /\ ALLOC_HEADER_SIZE \in Nat /\ WORD \in Nat \ {0}
ASSUME HeapAssumption  == HeapPages \in Nat /\ FirstPage \in Nat /\ FirstPage < HeapPages
\* the heap size is a uint32_t that page_init divides by PAGE_SIZE; the header is
\* 16 bytes of a 4096-byte page
ASSUME WordAssumption  == HeapPages * PAGE_SIZE <= WORD /\ ALLOC_HEADER_SIZE < PAGE_SIZE
ASSUME DmaAssumption   == DmaBase \in Int /\ DmaEnd \in Int
ASSUME SizesAssumption == Sizes \subseteq 0 .. WORD - 1

VARIABLES
    used,       \* the pages whose bit is set in _bitmap
    hdr,        \* the header at the start of each page; npages = 0: no magic
    pc,         \* "idle", or "search" inside malloc's loop
    page,       \* malloc's loop variable
    want,       \* malloc's npages
    req,        \* malloc's size, 0 replaced by 1
    live        \* history: pages of the block a caller owns from this page on

vars == <<used, hdr, pc, page, want, req, live>>

NoHeader == [npages |-> 0, req_size |-> 0]

-----------------------------------------------------------------------------
\* _reserve_page_range: rounded outwards to pages and clipped to the heap
ReservedPages ==
    LET s == DmaBase \div PAGE_SIZE
        e == (DmaEnd + PAGE_SIZE - 1) \div PAGE_SIZE
    IN IF DmaEnd <= DmaBase THEN {} ELSE {p \in Pages : s <= p /\ p < e}

\* page_init: every bit set, then cleared from the first page after the bitmap
BootUsed == (Pages \ BlockPages) \cup ReservedPages

Span(p, n) == p .. p + n - 1

FreeRun(p, n) == p + n <= HeapPages /\ Span(p, n) \cap used = {}

\* Seeded fault: the header is not counted.
BadPagesForSize(bytes) ==
    ((bytes - ALLOC_HEADER_SIZE + PAGE_SIZE - 1) % WORD) \div PAGE_SIZE

\* _pages_for_size, in 32-bit arithmetic
PagesForSize(bytes) == ((bytes + PAGE_SIZE - 1) % WORD) \div PAGE_SIZE

\* malloc(0) asks for one byte
AskedSize(size) == IF size = 0 THEN 1 ELSE size

\* Seeded fault: the wrap of the rounding to 0 pages is not noticed.
BadRejected(size) ==
    \/ AskedSize(size) > WORD - 1 - ALLOC_HEADER_SIZE
    \/ PagesForSize(AskedSize(size) + ALLOC_HEADER_SIZE) > AllocPages

\* malloc's early returns of NULL
Rejected(size) ==
    \/ AskedSize(size) > WORD - 1 - ALLOC_HEADER_SIZE
    \/ LET n == PagesForSize(AskedSize(size) + ALLOC_HEADER_SIZE)
       IN n = 0 \/ n > AllocPages

-----------------------------------------------------------------------------
Init ==
    /\ used = BootUsed
    /\ hdr = [p \in Pages |-> NoHeader]
    /\ pc = "idle"
    /\ page = 0
    /\ want = 0
    /\ req = 0
    /\ live = [p \in Pages |-> 0]

\* malloc up to its loop
Malloc(size) ==
    /\ pc = "idle"
    /\ ~ Rejected(size)
    /\ pc' = "search"
    /\ want' = PagesForSize(AskedSize(size) + ALLOC_HEADER_SIZE)
    /\ req' = AskedSize(size)
    /\ page' = FirstPage
    /\ UNCHANGED <<used, hdr, live>>

\* malloc returns NULL before its loop
MallocRejected(size) ==
    /\ pc = "idle"
    /\ Rejected(size)
    /\ UNCHANGED vars

\* malloc returns and its locals are gone
Return ==
    /\ pc' = "idle"
    /\ page' = 0
    /\ want' = 0
    /\ req' = 0

UsedOffsets == {j \in 0 .. want - 1 : page + j \in used}

\* Seeded fault: the loop goes on behind the whole window.
BadSkipTo == page + want

\* page += j for the first used page of the window, then the loop's page++
SkipTo == page + (CHOOSE j \in UsedOffsets : \A k \in UsedOffsets : j <= k) + 1

\* one round of malloc's loop: the window holds a used page
SearchSkip ==
    /\ pc = "search"
    /\ page + want <= HeapPages
    /\ UsedOffsets # {}
    /\ page' = SkipTo
    /\ UNCHANGED <<used, hdr, pc, want, req, live>>

\* one round of malloc's loop: the window is free and becomes a block
SearchFound ==
    /\ pc = "search"
    /\ page + want <= HeapPages
    /\ UsedOffsets = {}
    /\ used' = used \cup Span(page, want)
    /\ hdr' = [hdr EXCEPT ![page] = [npages |-> want, req_size |-> req]]
    /\ live' = [live EXCEPT ![page] = want]
    /\ Return

\* the loop ends and malloc returns NULL
SearchFail ==
    /\ pc = "search"
    /\ page + want > HeapPages
    /\ Return
    /\ UNCHANGED <<used, hdr, live>>

\* free's checks on a pointer behind the header of page p
Accepted(p) ==
    /\ p \in BlockPages
    /\ hdr[p].npages # 0
    /\ p + hdr[p].npages <= HeapPages

\* Seeded fault: the magic number survives free.
BadClearHeader(p) == hdr

ClearHeader(p) == [hdr EXCEPT ![p] = NoHeader]

Free(p) ==
    /\ pc = "idle"
    /\ Accepted(p)
    /\ used' = used \ Span(p, hdr[p].npages)
    /\ hdr' = ClearHeader(p)
    /\ live' = [live EXCEPT ![p] = 0]
    /\ UNCHANGED <<pc, page, want, req>>

\* free(NULL), a second free of a block, a pointer outside the heap
FreeIgnored(p) ==
    /\ pc = "idle"
    /\ ~ Accepted(p)
    /\ UNCHANGED vars

Next ==
    \/ \E size \in Sizes : Malloc(size) \/ MallocRejected(size)
    \/ SearchSkip
    \/ SearchFound
    \/ SearchFail
    \/ \E p \in 0 .. HeapPages : Free(p) \/ FreeIgnored(p)

Spec == Init /\ [][Next]_vars

-----------------------------------------------------------------------------
(* Every variable keeps its C type; inside malloc's loop the page under      *)
(* inspection lies in the heap and at least one page is asked for.           *)
TypeOK ==
    /\ used \subseteq Pages
    /\ hdr \in [Pages -> [npages : 0 .. HeapPages, req_size : Nat]]
    /\ pc \in {"idle", "search"}
    /\ page \in 0 .. HeapPages
    /\ want \in 0 .. HeapPages
    /\ pc = "search" => page \in FirstPage .. HeapPages /\ want \in 1 .. HeapPages
    /\ req \in Nat
    /\ live \in [Pages -> 0 .. HeapPages]

(* The bitmap says exactly who owns what: the blocks callers own never       *)
(* overlap each other, the bitmap pages or the reserved pages, every page of *)
(* theirs is marked and every other page is free.  A second free, or a free  *)
(* of a block whose first page has since become the middle of another block, *)
(* would break it.                                                           *)
BitmapExact ==
    /\ \A p \in Pages : live[p] > 0 => Span(p, live[p]) \subseteq Pages \ BootUsed
    /\ \A p, r \in Pages : live[p] > 0 /\ live[r] > 0 /\ p # r =>
          Span(p, live[p]) \cap Span(r, live[r]) = {}
    /\ used = BootUsed \cup UNION {Span(p, live[p]) : p \in Pages}

(* The block is large enough for the request and its header, whatever the    *)
(* 32-bit rounding in _pages_for_size does near the top of the range, and a  *)
(* request is refused before the search only if no heap of this size could   *)
(* ever hold it.  No byte of it belongs to the USB controller, although the  *)
(* controller's buffers need not start or end on a page boundary.            *)
BlockUsable ==
    /\ \A p \in Pages : live[p] > 0 => live[p] * PAGE_SIZE >= hdr[p].req_size + ALLOC_HEADER_SIZE
    /\ \A size \in Sizes : Rejected(size) => size + ALLOC_HEADER_SIZE > AllocPages * PAGE_SIZE
    /\ \A p \in Pages : \A b \in (p * PAGE_SIZE) .. ((p + live[p]) * PAGE_SIZE - 1) :
          b < DmaBase \/ b >= DmaEnd

(* malloc is first fit although its loop skips pages: it takes the lowest    *)
(* run of free pages that fits, and returns NULL only if there is none.      *)
FirstFit ==
    [][/\ SearchFound => \A p \in BlockPages : p < page => ~ FreeRun(p, want)
       /\ SearchFail  => \A p \in BlockPages : ~ FreeRun(p, want)]_vars

=============================================================================

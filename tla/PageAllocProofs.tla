-------------------------- MODULE PageAllocProofs --------------------------
(***************************************************************************)
(* Proofs about PageAlloc, for every heap size, every reserved range and   *)
(* every set of requests.                                                  *)
(***************************************************************************)
EXTENDS PageAlloc, WellFoundedInduction, TLAPS

(* A non-empty set of naturals has a least element. *)
LEMMA LeastNat ==
    ASSUME NEW T, T \subseteq Nat, T # {}
    PROVE  \E x \in T : \A y \in T : x <= y
<1> DEFINE Less == OpToRel(<, Nat)
<1>1. IsWellFoundedOn(Less, Nat)
  BY NatLessThanWellFounded, Zenon
<1>2. \A x, y \in Nat : y < x => <<y, x>> \in Less
  BY DEF OpToRel
<1> HIDE DEF Less
<1>3. PICK x \in T : \A y \in T : ~ (<<y, x>> \in Less)
  BY <1>1, WFMin, Zenon
<1>4. ASSUME NEW y \in T PROVE x <= y
  <2>1. x \in Nat /\ y \in Nat
    OBVIOUS
  <2>2. ~ (y < x)
    BY <1>2, <1>3, <2>1
  <2> QED
    BY <2>1, <2>2
<1> QED
  BY <1>4

(* free finds the length malloc gave out, and no header outlives its block.  *)
HeadersExact == \A p \in Pages : hdr[p].npages = live[p]

(* No run that fits starts below the page malloc's loop has reached.         *)
Scanned == pc = "search" => \A p \in BlockPages : p < page => ~ FreeRun(p, want)

IInv == TypeOK /\ BitmapExact /\ HeadersExact /\ Scanned

(* BitmapExact page by page, the form the proofs work with.                  *)
Owned(x) == \E p \in Pages : x \in Span(p, live[p])

LEMMA UsedPointwise ==
    ASSUME BitmapExact
    PROVE  \A x : x \in used <=> x \in BootUsed \/ Owned(x)
  BY DEF BitmapExact, Owned

(* The pages that are in use at boot are pages of the heap, and the first    *)
(* page of a block is never one of them.                                     *)
LEMMA BootPages == BootUsed \subseteq Pages /\ BlockPages \subseteq Pages /\ BlockPages \subseteq Nat
  BY HeapAssumption DEF BootUsed, ReservedPages, BlockPages, Pages

LEMMA InitIInv == Init => IInv
<1> SUFFICES ASSUME Init PROVE IInv
  OBVIOUS
<1>1. TypeOK
  BY BootPages, HeapAssumption DEF Init, TypeOK, NoHeader
<1>2. BitmapExact
  <2>1. \A p \in Pages : live[p] = 0 /\ p \in Nat
    BY HeapAssumption DEF Init, Pages
  <2>2. \A p \in Pages : Span(p, live[p]) = {}
    BY <2>1 DEF Span
  <2>3. UNION {Span(p, live[p]) : p \in Pages} = {}
    BY <2>2
  <2> QED BY <2>1, <2>3 DEF BitmapExact, Init
<1>3. HeadersExact /\ Scanned
  BY DEF Init, HeadersExact, Scanned, NoHeader
<1> QED
  BY <1>1, <1>2, <1>3 DEF IInv

(* A window with a used page at offset j, and none below j, rules out every  *)
(* start up to and including that page.                                      *)
LEMMA SkipOK ==
    ASSUME IInv, SearchSkip
    PROVE  /\ page' \in FirstPage .. HeapPages
           /\ \A p \in BlockPages : p < page' => ~ FreeRun(p, want)
<1> DEFINE j == CHOOSE k \in UsedOffsets : \A i \in UsedOffsets : k <= i
<1>1. pc = "search" /\ UsedOffsets # {} /\ UsedOffsets \subseteq Nat
  BY DEF SearchSkip, UsedOffsets
<1>2. j \in UsedOffsets
  <2>1. \E k \in UsedOffsets : \A i \in UsedOffsets : k <= i
    BY <1>1, LeastNat
  <2> QED BY <2>1
<1>3. page' = page + j + 1
  BY DEF SearchSkip, SkipTo
<1>4. /\ page \in FirstPage .. HeapPages /\ want \in 1 .. HeapPages
      /\ j \in 0 .. want - 1 /\ page + j \in used /\ page + want <= HeapPages
  BY <1>1, <1>2 DEF IInv, TypeOK, SearchSkip, UsedOffsets
<1> HIDE DEF j
<1>5. page' \in FirstPage .. HeapPages
  BY <1>3, <1>4, HeapAssumption
<1>6. ASSUME NEW p \in BlockPages, p < page', FreeRun(p, want) PROVE FALSE
  <2>1. p \in Nat /\ page \in Nat /\ j \in Nat /\ want \in Nat
    BY <1>4, BootPages, HeapAssumption
  <2>2. CASE p < page
    BY <1>1, <1>6, <2>2 DEF IInv, Scanned
  <2>3. CASE p >= page
    <3>1. page + j \in Span(p, want)
      BY <1>3, <1>4, <1>6, <2>1, <2>3 DEF Span
    <3> QED BY <1>4, <1>6, <3>1 DEF FreeRun
  <2> QED BY <2>1, <2>2, <2>3
<1> QED
  BY <1>5, <1>6

(* The block malloc makes of a free window overlaps nothing that was used.   *)
LEMMA FoundOK ==
    ASSUME IInv, SearchFound
    PROVE  TypeOK' /\ BitmapExact' /\ HeadersExact'
<1>1. /\ page \in FirstPage .. HeapPages /\ want \in 1 .. HeapPages
      /\ page + want <= HeapPages /\ page \in Pages
      /\ used' = used \cup Span(page, want)
      /\ live' = [live EXCEPT ![page] = want]
      /\ hdr' = [hdr EXCEPT ![page] = [npages |-> want, req_size |-> req]]
  <2>1. page \in FirstPage .. HeapPages /\ want \in 1 .. HeapPages /\ page + want <= HeapPages
    BY DEF IInv, TypeOK, SearchFound
  <2>2. page \in Pages
    BY <2>1, HeapAssumption DEF Pages
  <2> QED BY <2>1, <2>2 DEF SearchFound
<1>2. live \in [Pages -> 0 .. HeapPages] /\ used \subseteq Pages
  BY DEF IInv, TypeOK
<1>3. \A p \in Pages : live'[p] = IF p = page THEN want ELSE live[p]
  BY <1>1, <1>2
<1>4. Span(page, want) \subseteq Pages /\ Span(page, want) \cap used = {}
  <2>1. Span(page, want) \subseteq Pages
    BY <1>1, HeapAssumption DEF Span, Pages
  <2>2. ASSUME NEW x \in Span(page, want) PROVE x \notin used
    <3>1. x - page \in 0 .. want - 1 /\ page + (x - page) = x
      BY <1>1, HeapAssumption DEF Span
    <3> QED BY <3>1 DEF SearchFound, UsedOffsets
  <2> QED BY <2>1, <2>2
<1>5. live[page] = 0
  <2>1. page \in Nat /\ live[page] \in Nat /\ page \in Span(page, want)
    BY <1>1, <1>2, HeapAssumption DEF Span
  <2>2. SUFFICES ASSUME live[page] > 0 PROVE FALSE
    BY <2>1
  <2>3. page \in Span(page, live[page])
    BY <2>1, <2>2 DEF Span
  <2>4. page \in used
    BY <1>1, <2>3, UsedPointwise DEF IInv, Owned
  <2> QED BY <1>4, <2>1, <2>4
<1>6. ASSUME NEW p \in Pages, live[p] > 0 PROVE Span(p, live[p]) \subseteq used
  BY UsedPointwise DEF IInv, Owned
<1>7. TypeOK'
  <2>1. used' \subseteq Pages /\ live' \in [Pages -> 0 .. HeapPages]
    <3>1. used' \subseteq Pages
      BY <1>1, <1>2, <1>4
    <3>2. want \in 0 .. HeapPages
      BY <1>1, HeapAssumption
    <3>3. live' \in [Pages -> 0 .. HeapPages]
      BY <1>1, <1>2, <3>2
    <3> QED BY <3>1, <3>3
  <2>2. hdr' \in [Pages -> [npages : 0 .. HeapPages, req_size : Nat]]
    BY <1>1, HeapAssumption DEF IInv, TypeOK
  <2> QED BY <2>1, <2>2, HeapAssumption DEF TypeOK, SearchFound, Return
<1>8. BitmapExact'
  <2>1. ASSUME NEW p \in Pages, live'[p] > 0
        PROVE  Span(p, live'[p]) \subseteq Pages \ BootUsed
    <3>1. CASE p = page
      BY <1>3, <1>4, <3>1, UsedPointwise DEF IInv
    <3>2. CASE p # page
      BY <1>3, <2>1, <3>2 DEF IInv, BitmapExact
    <3> QED BY <3>1, <3>2
  <2>2. ASSUME NEW p \in Pages, NEW r \in Pages, live'[p] > 0, live'[r] > 0, p # r
        PROVE  Span(p, live'[p]) \cap Span(r, live'[r]) = {}
    <3>1. CASE p = page
      BY <1>3, <1>4, <1>6, <2>2, <3>1
    <3>2. CASE r = page
      BY <1>3, <1>4, <1>6, <2>2, <3>2
    <3>3. CASE p # page /\ r # page
      BY <1>3, <2>2, <3>3 DEF IInv, BitmapExact
    <3> QED BY <3>1, <3>2, <3>3
  <2>3. used' = BootUsed \cup UNION {Span(p, live'[p]) : p \in Pages}
    <3>1. ASSUME NEW x \in used' PROVE x \in BootUsed \/ \E p \in Pages : x \in Span(p, live'[p])
      <4>1. CASE x \in Span(page, want)
        BY <1>1, <1>3, <4>1
      <4>2. CASE x \in used
        <5>1. CASE x \in BootUsed
          BY <5>1
        <5>2. CASE Owned(x)
          <6>1. PICK p \in Pages : x \in Span(p, live[p])
            BY <5>2 DEF Owned
          <6>2. p # page
            BY <1>1, <1>5, <6>1, HeapAssumption DEF Span
          <6> QED BY <1>3, <6>1, <6>2
        <5> QED BY <4>2, <5>1, <5>2, UsedPointwise DEF IInv
      <4> QED BY <1>1, <4>1, <4>2
    <3>2. ASSUME NEW x, x \in BootUsed \/ \E p \in Pages : x \in Span(p, live'[p])
          PROVE  x \in used'
      BY <1>1, <1>3, <3>2, UsedPointwise DEF IInv, Owned
    <3> QED BY <3>1, <3>2
  <2> QED BY <2>1, <2>2, <2>3 DEF BitmapExact
<1>9. HeadersExact'
  BY <1>1, <1>3 DEF IInv, TypeOK, HeadersExact
<1> QED
  BY <1>7, <1>8, <1>9

(* free gives back exactly the pages malloc handed out.                      *)
LEMMA FreeOK ==
    ASSUME IInv, NEW p \in 0 .. HeapPages, Free(p)
    PROVE  TypeOK' /\ BitmapExact' /\ HeadersExact'
<1>1. /\ p \in Pages /\ live[p] > 0 /\ hdr[p].npages = live[p]
      /\ used' = used \ Span(p, live[p])
      /\ live' = [live EXCEPT ![p] = 0]
      /\ hdr' = [hdr EXCEPT ![p] = NoHeader]
  <2>1. p \in Pages /\ hdr[p].npages # 0 /\ hdr[p].npages = live[p]
    BY BootPages DEF Free, Accepted, IInv, HeadersExact
  <2>2. live[p] \in 0 .. HeapPages
    BY <2>1 DEF IInv, TypeOK
  <2> QED BY <2>1, <2>2, HeapAssumption DEF Free, ClearHeader
<1>2. live \in [Pages -> 0 .. HeapPages] /\ used \subseteq Pages
  BY DEF IInv, TypeOK
<1>3. \A r \in Pages : live'[r] = IF r = p THEN 0 ELSE live[r]
  BY <1>1, <1>2
<1>4. Span(p, 0) = {}
  BY <1>1, HeapAssumption DEF Span, Pages
<1>5. TypeOK'
  <2>1. used' \subseteq Pages /\ live' \in [Pages -> 0 .. HeapPages]
    <3>1. used' \subseteq Pages
      BY <1>1, <1>2
    <3>2. 0 \in 0 .. HeapPages
      BY HeapAssumption
    <3>3. live' \in [Pages -> 0 .. HeapPages]
      BY <1>1, <1>2, <3>2
    <3> QED BY <3>1, <3>3
  <2>2. hdr' \in [Pages -> [npages : 0 .. HeapPages, req_size : Nat]]
    BY <1>1, HeapAssumption DEF IInv, TypeOK, NoHeader
  <2> QED BY <2>1, <2>2 DEF TypeOK, Free, IInv
<1>6. BitmapExact'
  <2>1. ASSUME NEW r \in Pages, live'[r] > 0
        PROVE  live'[r] = live[r] /\ r # p /\ live[r] > 0
    BY <1>3, <2>1
  <2>2. \A r \in Pages : live'[r] > 0 => Span(r, live'[r]) \subseteq Pages \ BootUsed
    BY <2>1 DEF IInv, BitmapExact
  <2>3. \A r, t \in Pages : live'[r] > 0 /\ live'[t] > 0 /\ r # t =>
            Span(r, live'[r]) \cap Span(t, live'[t]) = {}
    BY <2>1 DEF IInv, BitmapExact
  <2>4. used' = BootUsed \cup UNION {Span(r, live'[r]) : r \in Pages}
    <3>1. ASSUME NEW x \in used' PROVE x \in BootUsed \/ \E r \in Pages : x \in Span(r, live'[r])
      <4>1. x \in used /\ x \notin Span(p, live[p])
        BY <1>1
      <4>2. CASE x \in BootUsed
        BY <4>2
      <4>3. CASE Owned(x)
        <5>1. PICK r \in Pages : x \in Span(r, live[r])
          BY <4>3 DEF Owned
        <5>2. r # p
          BY <4>1, <5>1
        <5> QED BY <1>3, <5>1, <5>2
      <4> QED BY <4>1, <4>2, <4>3, UsedPointwise DEF IInv
    <3>2. ASSUME NEW x, x \in BootUsed PROVE x \in used'
      <4>1. x \notin Span(p, live[p])
        BY <1>1, <3>2 DEF IInv, BitmapExact
      <4> QED BY <1>1, <3>2, <4>1, UsedPointwise DEF IInv
    <3>3. ASSUME NEW x, NEW r \in Pages, x \in Span(r, live'[r]) PROVE x \in used'
      <4>1. r # p
        BY <1>3, <1>4, <3>3
      <4>2. live'[r] = live[r] /\ live[r] \in 0 .. HeapPages /\ r \in Nat
        BY <1>2, <1>3, <4>1, HeapAssumption DEF Pages
      <4>3. live[r] > 0
        BY <3>3, <4>2, HeapAssumption DEF Span
      <4>4. x \in used
        BY <3>3, <4>2, UsedPointwise DEF IInv, Owned
      <4>5. x \notin Span(p, live[p])
        BY <1>1, <3>3, <4>1, <4>2, <4>3 DEF IInv, BitmapExact
      <4> QED BY <1>1, <4>4, <4>5
    <3> QED BY <3>1, <3>2, <3>3
  <2> QED BY <2>2, <2>3, <2>4 DEF BitmapExact
<1>7. HeadersExact'
  BY <1>1, <1>3 DEF IInv, TypeOK, HeadersExact, NoHeader
<1> QED
  BY <1>5, <1>6, <1>7

LEMMA NextIInv == IInv /\ [Next]_vars => IInv'
<1> SUFFICES ASSUME IInv, [Next]_vars PROVE IInv'
  OBVIOUS
<1>1. ASSUME NEW size \in Sizes, Malloc(size) PROVE IInv'
  <2> DEFINE n == PagesForSize(AskedSize(size) + ALLOC_HEADER_SIZE)
  <2>1. AskedSize(size) \in Nat
    BY SizesAssumption, PageAssumption DEF AskedSize
  <2>2. n \in Nat
    <3> DEFINE b == AskedSize(size) + ALLOC_HEADER_SIZE + PAGE_SIZE - 1
    <3>1. b \in Int
      BY <2>1, PageAssumption
    <3> HIDE DEF b
    <3>2. b % WORD \in Nat
      BY <3>1, PageAssumption
    <3>3. (b % WORD) \div PAGE_SIZE \in Nat
      BY <3>2, PageAssumption
    <3> QED BY <3>3 DEF PagesForSize, b
  <2>3. n \in 1 .. HeapPages
    <3>1. n # 0 /\ ~ (n > AllocPages)
      BY <1>1 DEF Malloc, Rejected
    <3> HIDE DEF n
    <3> QED BY <2>2, <3>1, HeapAssumption DEF AllocPages
  <2>4. /\ want' = n /\ page' = FirstPage /\ req' = AskedSize(size) /\ pc' = "search"
        /\ used' = used /\ hdr' = hdr /\ live' = live
    BY <1>1 DEF Malloc
  <2> HIDE DEF n
  <2>5. TypeOK'
    BY <2>1, <2>3, <2>4, HeapAssumption DEF IInv, TypeOK
  <2>6. Scanned'
    BY <2>4, HeapAssumption DEF Scanned, BlockPages
  <2> QED BY <2>4, <2>5, <2>6 DEF IInv, BitmapExact, HeadersExact
<1>2. CASE SearchSkip
  <2>1. TypeOK'
    BY <1>2, SkipOK, HeapAssumption DEF SearchSkip, IInv, TypeOK
  <2>2. Scanned'
    BY <1>2, SkipOK DEF SearchSkip, Scanned, FreeRun
  <2> QED BY <1>2, <2>1, <2>2 DEF SearchSkip, IInv, BitmapExact, HeadersExact
<1>3. CASE SearchFound
  BY <1>3, FoundOK DEF IInv, Scanned, SearchFound, Return
<1>4. CASE SearchFail
  BY <1>4, HeapAssumption
  DEF SearchFail, Return, IInv, TypeOK, BitmapExact, HeadersExact, Scanned
<1>5. ASSUME NEW p \in 0 .. HeapPages, Free(p) PROVE IInv'
  BY <1>5, FreeOK DEF IInv, Scanned, Free
<1>6. ASSUME UNCHANGED vars PROVE IInv'
  BY <1>6 DEF vars, IInv, TypeOK, BitmapExact, HeadersExact, Scanned, FreeRun
<1> QED
  BY <1>1, <1>2, <1>3, <1>4, <1>5, <1>6 DEF Next, MallocRejected, FreeIgnored

(* IInv holds in every reachable state.                                      *)
THEOREM Inductive == Spec => []IInv
  BY InitIInv, NextIInv, PTL DEF Spec

(* The variables of alloc.c keep their types: in particular malloc's loop    *)
(* variable never leaves the heap and a block never has 0 pages.             *)
THEOREM TypeCorrect == Spec => []TypeOK
  BY Inductive, PTL DEF IInv

(* No sequence of malloc and free, double frees included, makes two blocks   *)
(* overlap, hands out a reserved page or leaks one.                          *)
THEOREM BitmapAlwaysExact == Spec => []BitmapExact
  BY Inductive, PTL DEF IInv

(* malloc is first fit, and returns NULL only when no run of free pages is   *)
(* long enough: its skips never jump over one.                               *)
THEOREM MallocIsFirstFit == Spec => FirstFit
<1>1. IInv /\ [Next]_vars =>
        [/\ SearchFound => \A p \in BlockPages : p < page => ~ FreeRun(p, want)
         /\ SearchFail  => \A p \in BlockPages : ~ FreeRun(p, want)]_vars
  <2> SUFFICES ASSUME IInv
               PROVE  /\ SearchFound => \A p \in BlockPages : p < page => ~ FreeRun(p, want)
                      /\ SearchFail  => \A p \in BlockPages : ~ FreeRun(p, want)
    OBVIOUS
  <2>1. SearchFound => \A p \in BlockPages : p < page => ~ FreeRun(p, want)
    BY DEF IInv, Scanned, SearchFound
  <2>2. ASSUME SearchFail, NEW p \in BlockPages PROVE ~ FreeRun(p, want)
    <3>1. page + want > HeapPages /\ page \in 0 .. HeapPages /\ want \in 0 .. HeapPages /\ p \in Nat
      BY <2>2, BootPages DEF SearchFail, IInv, TypeOK
    <3>2. CASE p < page
      BY <2>2, <3>2 DEF IInv, Scanned, SearchFail
    <3>3. CASE p >= page
      BY <3>1, <3>3, HeapAssumption DEF FreeRun
    <3> QED BY <3>1, <3>2, <3>3, HeapAssumption
  <2> QED BY <2>1, <2>2
<1> QED
  BY <1>1, Inductive, PTL DEF Spec, FirstFit

-----------------------------------------------------------------------------
(* Sizes and bytes.                                                          *)

LEMMA DivBounds ==
    ASSUME NEW a \in Int, NEW n \in Nat \ {0}
    PROVE  a \div n \in Int /\ (a \div n) * n <= a /\ a < (a \div n) * n + n
  OBVIOUS

LEMMA TimesMonotone ==
    ASSUME NEW a \in Int, NEW b \in Int, NEW n \in Nat, a <= b
    PROVE  a * n \in Int /\ b * n \in Int /\ a * n <= b * n
  OBVIOUS

LEMMA TimesNext ==
    ASSUME NEW a \in Int, NEW n \in Nat
    PROVE  (a + 1) * n = a * n + n
  OBVIOUS

LEMMA BitmapTakesAPage == FirstPage >= 1
<1>1. BitmapBytes \in Int /\ BitmapBytes >= 1
  BY HeapAssumption DEF BitmapBytes
<1> DEFINE b == BitmapBytes + PAGE_SIZE - 1
<1>2. b \in Int /\ b >= PAGE_SIZE
  BY <1>1, PageAssumption
<1> HIDE DEF b
<1>3. b < FirstPage * PAGE_SIZE + PAGE_SIZE
  BY <1>2, PageAssumption, DivBounds DEF FirstPage, b
<1>4. FirstPage # 0
  BY <1>2, <1>3, PageAssumption, HeapAssumption
<1> QED
  BY <1>4, HeapAssumption

(* The rounding of _pages_for_size, which wraps to 0 pages at the top of the *)
(* 32-bit range and nowhere else: what it answers holds the bytes, and would *)
(* not with a page less.                                                     *)
LEMMA PagesHold ==
    ASSUME NEW bytes \in Nat, bytes >= 1, bytes < WORD
    PROVE  LET n == PagesForSize(bytes) IN
           /\ n \in Nat
           /\ n # 0 => n * PAGE_SIZE >= bytes /\ (n - 1) * PAGE_SIZE < bytes
           /\ n = 0 => bytes + PAGE_SIZE > WORD
<1> DEFINE sum == bytes + PAGE_SIZE - 1
           n == PagesForSize(bytes)
<1>1. /\ PAGE_SIZE \in Nat /\ WORD \in Nat /\ PAGE_SIZE <= WORD
      /\ sum \in Nat /\ sum < 2 * WORD /\ sum >= PAGE_SIZE
  <2>1. PAGE_SIZE <= WORD
    BY PageAssumption, HeapAssumption, WordAssumption, TimesMonotone
  <2> QED BY <2>1, PageAssumption
<1>2. CASE sum < WORD
  <2> HIDE DEF sum
  <2>1. sum % WORD = sum
    BY <1>1, <1>2, PageAssumption
  <2>2. n = sum \div PAGE_SIZE
    BY <2>1 DEF PagesForSize, sum
  <2> HIDE DEF n
  <2>3. n \in Int /\ n * PAGE_SIZE <= sum /\ sum < n * PAGE_SIZE + PAGE_SIZE
    BY <1>1, <2>2, PageAssumption, DivBounds
  <2>4. n \in Nat /\ n # 0
    BY <1>1, <2>3, PageAssumption
  <2>5. n * PAGE_SIZE = (n - 1) * PAGE_SIZE + PAGE_SIZE
    BY <2>3, PageAssumption, TimesNext
  <2>6. n * PAGE_SIZE \in Int /\ (n - 1) * PAGE_SIZE \in Int
    BY <2>3, PageAssumption
  <2> QED BY <2>3, <2>4, <2>5, <2>6, PageAssumption DEF sum, n
<1>3. CASE sum >= WORD
  <2>1. sum - WORD \in Nat /\ sum - WORD < PAGE_SIZE /\ bytes + PAGE_SIZE > WORD
    BY <1>1, <1>3, PageAssumption
  <2> HIDE DEF sum
  <2>2. sum % WORD = sum - WORD
    BY <1>1, <1>3, PageAssumption
  <2>3. (sum - WORD) \div PAGE_SIZE = 0
    BY <2>1, PageAssumption
  <2>4. n = 0
    BY <2>2, <2>3 DEF PagesForSize, sum
  <2> QED BY <2>1, <2>4
<1> QED
  BY <1>1, <1>2, <1>3

(* malloc refuses before its search only what the whole heap cannot hold.    *)
LEMMA RefusesOnlyTooLarge ==
    ASSUME NEW size \in Sizes, Rejected(size)
    PROVE  size + ALLOC_HEADER_SIZE > AllocPages * PAGE_SIZE
<1> DEFINE bytes == AskedSize(size) + ALLOC_HEADER_SIZE
           room == AllocPages * PAGE_SIZE
<1>1. /\ size \in Nat /\ AskedSize(size) \in Nat \ {0} /\ bytes \in Nat /\ bytes >= 1
      /\ PAGE_SIZE \in Nat /\ WORD \in Nat /\ ALLOC_HEADER_SIZE \in Nat
      /\ AllocPages \in Nat /\ AllocPages >= 1
  BY SizesAssumption, PageAssumption, HeapAssumption DEF AskedSize, AllocPages
<1>2. room \in Nat /\ room >= PAGE_SIZE /\ room + PAGE_SIZE <= WORD
  <2>1. AllocPages + 1 <= HeapPages
    BY BitmapTakesAPage, HeapAssumption DEF AllocPages
  <2>2. (AllocPages + 1) * PAGE_SIZE <= HeapPages * PAGE_SIZE
    BY <1>1, <2>1, HeapAssumption, TimesMonotone
  <2>3. (AllocPages + 1) * PAGE_SIZE = room + PAGE_SIZE
    BY <1>1, TimesNext
  <2>4. 1 * PAGE_SIZE <= room /\ room \in Int
    BY <1>1, TimesMonotone
  <2>5. HeapPages * PAGE_SIZE \in Int
    BY HeapAssumption, PageAssumption
  <2> HIDE DEF room
  <2> QED BY <1>1, <2>2, <2>3, <2>4, <2>5, WordAssumption
<1>3. bytes > room
  <2>1. CASE bytes > WORD - 1
    <3> HIDE DEF room, bytes
    <3> QED BY <1>1, <1>2, <2>1, PageAssumption
  <2>2. CASE bytes <= WORD - 1
    <3> DEFINE n == PagesForSize(bytes)
    <3>1. n = 0 \/ n > AllocPages
      BY <1>1, <2>2 DEF Rejected
    <3>2. n \in Nat /\ (n # 0 => (n - 1) * PAGE_SIZE < bytes) /\ (n = 0 => bytes + PAGE_SIZE > WORD)
      BY <1>1, <2>2, PagesHold
    <3> HIDE DEF n
    <3>3. CASE n = 0
      <4> HIDE DEF room, bytes
      <4> QED BY <1>1, <1>2, <3>2, <3>3
    <3>4. CASE n > AllocPages
      <4>1. AllocPages <= n - 1 /\ n # 0
        BY <1>1, <3>2, <3>4
      <4>2. room <= (n - 1) * PAGE_SIZE /\ (n - 1) * PAGE_SIZE \in Int
        BY <1>1, <3>2, <4>1, TimesMonotone
      <4> HIDE DEF room, bytes
      <4> QED BY <1>1, <1>2, <3>2, <4>1, <4>2
    <3> QED BY <3>1, <3>3, <3>4
  <2> HIDE DEF bytes
  <2> QED BY <1>1, <2>1, <2>2
<1>4. size # 0
  <2> SUFFICES ASSUME size = 0 PROVE FALSE
    OBVIOUS
  <2>1. bytes <= PAGE_SIZE
    BY WordAssumption, PageAssumption DEF AskedSize
  <2> HIDE DEF room, bytes
  <2> QED BY <1>1, <1>2, <1>3, <2>1
<1> QED
  BY <1>3, <1>4 DEF AskedSize

(* While malloc searches, the pages it looks for hold the request and its    *)
(* header; so does every block it has handed out.                            *)
Roomy ==
    /\ pc = "search" => want * PAGE_SIZE >= req + ALLOC_HEADER_SIZE
    /\ \A p \in Pages : live[p] > 0 => live[p] * PAGE_SIZE >= hdr[p].req_size + ALLOC_HEADER_SIZE

LEMMA NextRoomy == IInv /\ Roomy /\ [Next]_vars => Roomy'
<1> SUFFICES ASSUME IInv, Roomy, [Next]_vars PROVE Roomy'
  OBVIOUS
<1>1. ASSUME NEW size \in Sizes, Malloc(size) PROVE Roomy'
  <2> DEFINE bytes == AskedSize(size) + ALLOC_HEADER_SIZE
  <2>1. bytes \in Nat /\ bytes >= 1
    BY SizesAssumption, PageAssumption DEF AskedSize
  <2>2. ~ Rejected(size) /\ want' = PagesForSize(bytes) /\ req' = AskedSize(size)
        /\ UNCHANGED <<hdr, live>>
    BY <1>1 DEF Malloc
  <2>3. bytes < WORD
    BY <2>2, SizesAssumption, PageAssumption DEF Rejected, AskedSize
  <2>4. want' # 0
    BY <2>2 DEF Rejected
  <2>5. want' * PAGE_SIZE >= bytes
    BY <2>1, <2>2, <2>3, <2>4, PagesHold
  <2> QED BY <2>2, <2>5 DEF Roomy
<1>2. CASE SearchSkip
  BY <1>2 DEF SearchSkip, Roomy
<1>3. CASE SearchFound
  <2>1. page \in Pages
    BY <1>3, HeapAssumption DEF SearchFound, IInv, TypeOK, Pages
  <2>2. /\ live' = [live EXCEPT ![page] = want] /\ pc' = "idle"
        /\ hdr' = [hdr EXCEPT ![page] = [npages |-> want, req_size |-> req]]
        /\ want * PAGE_SIZE >= req + ALLOC_HEADER_SIZE
    BY <1>3 DEF SearchFound, Return, Roomy
  <2>3. \A p \in Pages : live'[p] = (IF p = page THEN want ELSE live[p])
                      /\ hdr'[p].req_size = (IF p = page THEN req ELSE hdr[p].req_size)
    BY <2>1, <2>2 DEF IInv, TypeOK
  <2> QED BY <2>2, <2>3 DEF Roomy
<1>4. CASE SearchFail
  BY <1>4 DEF SearchFail, Return, Roomy
<1>5. ASSUME NEW p \in 0 .. HeapPages, Free(p) PROVE Roomy'
  <2>1. /\ live' = [live EXCEPT ![p] = 0] /\ hdr' = [hdr EXCEPT ![p] = NoHeader]
        /\ UNCHANGED <<pc, want, req>>
    BY <1>5 DEF Free, ClearHeader
  <2>2. \A r \in Pages : r # p => live'[r] = live[r] /\ hdr'[r] = hdr[r]
    BY <2>1 DEF IInv, TypeOK
  <2>3. p \in Pages => live'[p] = 0
    BY <2>1 DEF IInv, TypeOK
  <2> QED BY <2>1, <2>2, <2>3 DEF Roomy
<1>6. CASE UNCHANGED vars
  BY <1>6 DEF vars, Roomy
<1> QED
  BY <1>1, <1>2, <1>3, <1>4, <1>5, <1>6 DEF Next, MallocRejected, FreeIgnored

(* A page that is not in use at boot has no byte of the controller's.        *)
LEMMA PageOutsideDma ==
    ASSUME NEW q \in Pages, q \notin BootUsed, NEW b \in Int,
           q * PAGE_SIZE <= b, b < q * PAGE_SIZE + PAGE_SIZE
    PROVE  b < DmaBase \/ b >= DmaEnd
<1> DEFINE lo == DmaBase \div PAGE_SIZE
           hi == (DmaEnd + PAGE_SIZE - 1) \div PAGE_SIZE
<1>1. q \in Nat /\ PAGE_SIZE \in Nat \ {0} /\ DmaBase \in Int /\ DmaEnd \in Int
  BY HeapAssumption, PageAssumption, DmaAssumption DEF Pages
<1>2. DmaEnd <= DmaBase \/ q < lo \/ q >= hi
  <2>1. lo \in Int /\ hi \in Int
    BY <1>1, DivBounds
  <2> QED BY <1>1, <2>1 DEF BootUsed, ReservedPages
<1>3. CASE DmaEnd <= DmaBase
  BY <1>1, <1>3
<1>4. CASE q < lo
  <2>1. lo \in Int /\ lo * PAGE_SIZE <= DmaBase
    BY <1>1, DivBounds
  <2> HIDE DEF lo
  <2>2. (q + 1) * PAGE_SIZE <= lo * PAGE_SIZE /\ lo * PAGE_SIZE \in Int
    BY <1>1, <1>4, <2>1, TimesMonotone
  <2>3. (q + 1) * PAGE_SIZE = q * PAGE_SIZE + PAGE_SIZE
    BY <1>1, TimesNext
  <2>4. q * PAGE_SIZE \in Int
    BY <1>1
  <2> QED BY <1>1, <2>1, <2>2, <2>3, <2>4
<1>5. CASE q >= hi
  <2>1. hi \in Int /\ DmaEnd + PAGE_SIZE - 1 < hi * PAGE_SIZE + PAGE_SIZE
    BY <1>1, DivBounds
  <2> HIDE DEF hi
  <2>2. hi * PAGE_SIZE <= q * PAGE_SIZE /\ hi * PAGE_SIZE \in Int /\ q * PAGE_SIZE \in Int
    BY <1>1, <1>5, <2>1, TimesMonotone
  <2> QED BY <1>1, <2>1, <2>2
<1> QED
  BY <1>2, <1>3, <1>4, <1>5

LEMMA BytesOutsideDma ==
    ASSUME IInv, NEW p \in Pages,
           NEW b \in (p * PAGE_SIZE) .. ((p + live[p]) * PAGE_SIZE - 1)
    PROVE  b < DmaBase \/ b >= DmaEnd
<1> DEFINE q == b \div PAGE_SIZE
<1>1. p \in Nat /\ live[p] \in Nat /\ PAGE_SIZE \in Nat \ {0}
  BY HeapAssumption, PageAssumption DEF Pages, IInv, TypeOK
<1>2. p * PAGE_SIZE \in Int /\ (p + live[p]) * PAGE_SIZE \in Int
  BY <1>1
<1>3. b \in Int /\ p * PAGE_SIZE <= b /\ b < (p + live[p]) * PAGE_SIZE
  BY <1>2
<1>4. q \in Int /\ q * PAGE_SIZE <= b /\ b < q * PAGE_SIZE + PAGE_SIZE
  BY <1>1, <1>3, DivBounds
<1> HIDE DEF q
<1>5. q * PAGE_SIZE \in Int /\ (q + 1) * PAGE_SIZE = q * PAGE_SIZE + PAGE_SIZE
  BY <1>1, <1>4, TimesNext
<1>6. q >= p
  <2> SUFFICES ASSUME q + 1 <= p PROVE FALSE
    BY <1>1, <1>4
  <2>1. (q + 1) * PAGE_SIZE <= p * PAGE_SIZE
    BY <1>1, <1>4, TimesMonotone
  <2> QED BY <1>1, <1>2, <1>3, <1>4, <1>5, <2>1
<1>7. q < p + live[p]
  <2> SUFFICES ASSUME p + live[p] <= q PROVE FALSE
    BY <1>1, <1>4
  <2>1. (p + live[p]) * PAGE_SIZE <= q * PAGE_SIZE
    BY <1>1, <1>4, TimesMonotone
  <2> QED BY <1>1, <1>2, <1>3, <1>4, <1>5, <2>1
<1>8. q \in Span(p, live[p]) /\ live[p] > 0
  BY <1>1, <1>4, <1>6, <1>7 DEF Span
<1>9. q \in Pages /\ q \notin BootUsed
  BY <1>8 DEF IInv, BitmapExact
<1> QED
  BY <1>3, <1>4, <1>9, PageOutsideDma

(* A block holds what was asked for although the page count is computed in   *)
(* 32 bits, none of its bytes is the USB controller's, and only requests no  *)
(* heap of this size can hold are refused without a search.                  *)
THEOREM BlocksAreUsable == Spec => []BlockUsable
<1>1. Init => Roomy
  BY DEF Init, Roomy
<1>2. IInv /\ Roomy => BlockUsable
  BY RefusesOnlyTooLarge, BytesOutsideDma DEF Roomy, BlockUsable
<1> QED
  BY <1>1, <1>2, NextRoomy, Inductive, PTL DEF Spec

=============================================================================

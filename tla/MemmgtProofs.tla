---------------------------- MODULE MemmgtProofs ----------------------------
(***************************************************************************)
(* For any pool, page size and requests: the chunks of Memmgt tile the     *)
(* pool, and what programs have mapped never overlaps.  And for any pools  *)
(* and images of Loader: no module that init loads can reach another's     *)
(* memory.                                                                 *)
(***************************************************************************)
EXTENDS Loader, TLAPS

(* Lengths come to a whole number of pages.                                *)
LEMMA PagesNat ==
  ASSUME NEW length \in Nat
  PROVE  pages(length) \in Nat /\ pages_wanted(length) \in Nat \ {0}
<1>1. length + pagesz - 1 \in Nat
  BY PoolAssumption
<1>2. pages(length) \in Nat
  BY <1>1, PoolAssumption DEF pages
<1> QED BY <1>2 DEF pages_wanted

(* The chunks do not change with the statuses of the book.                 *)
LEMMA SameChunks ==
  ASSUME \A p \in Page : book'[p].len = book[p].len
  PROVE  Chunks' = Chunks
<1>1. ASSUME NEW S \in SUBSET Page PROVE Follows(book', S) <=> Follows(book, S)
  BY DEF Follows
<1> QED BY <1>1 DEF Chunks

(* Cutting a chunk adds one chunk, the rest, if there is one.              *)
LEMMA SplitChunks ==
  ASSUME TypeOK, Tiled, NEW page \in Chunks, NEW w \in Nat, 0 < w,
         w <= book[page].len, book' = Split(page, w)
  PROVE  /\ Chunks' = Chunks \cup {p \in {page + w} : w < book[page].len}
         /\ Follows(book', Chunks')
         /\ page + w \notin Chunks \/ w = book[page].len
         /\ w < book[page].len => page + w \in Page
<1> DEFINE len == book[page].len
           H   == Chunks \cup {p \in {page + w} : w < len}
<1>0. /\ pages_nb \in Nat /\ Chunks \subseteq Page /\ page \in Page /\ page \in Nat
      /\ \A p \in Page : book[p].len \in Nat
      /\ \A p \in Page : p \in Nat /\ p < pages_nb
  BY PoolAssumption DEF Chunks, Page, TypeOK
<1>1. page + len <= pages_nb /\ \A q \in Chunks : page < q => page + len <= q
  BY <1>0 DEF Tiled
<1>2. w < len => page + w \in Page /\ page + w \notin Chunks
  BY <1>0, <1>1 DEF Page
<1>3. /\ book'[page].len = w
      /\ w < len => book'[page + w].len = len - w
      /\ \A q \in Page : q # page /\ ~(q = page + w /\ w < len) => book'[q].len = book[q].len
  <2>1. book' = [p \in Page |->
                  IF p = page THEN [status |-> "used", len |-> w]
                  ELSE IF p = page + w /\ w < len
                         THEN [status |-> "unused", len |-> len - w]
                         ELSE book[p]]
    BY DEF Split
  <2> QED BY <2>1, <1>0, <1>2
<1>4. Follows(book', H)
  <2>1. 0 \in H
    BY DEF Tiled, Follows
  <2>2. ASSUME NEW p \in H PROVE p + book'[p].len \in H \cup {pages_nb}
    <3>1. CASE p = page
      <4>1. CASE w < len
        BY <3>1, <4>1, <1>3
      <4>2. CASE w = len
        BY <3>1, <4>2, <1>3 DEF Tiled, Follows
      <4> QED BY <4>1, <4>2, <1>0
    <3>2. CASE p # page /\ p \in Chunks
      <4>1. p + book[p].len \in Chunks \cup {pages_nb}
        BY <3>2 DEF Tiled, Follows
      <4>2. book'[p].len = book[p].len
        BY <3>2, <1>0, <1>2, <1>3
      <4> QED BY <4>1, <4>2
    <3>3. CASE p = page + w /\ w < len
      <4>1. page + len \in Chunks \cup {pages_nb}
        BY DEF Tiled, Follows
      <4>2. p + book'[p].len = page + len
        BY <3>3, <1>0, <1>3
      <4> QED BY <4>1, <4>2
    <3> QED BY <3>1, <3>2, <3>3
  <2> QED BY <2>1, <2>2 DEF Follows
<1>5. ASSUME NEW S \in SUBSET Page, Follows(book', S) PROVE H \subseteq S
  <2> DEFINE T == S \cap Chunks
  <2>0. 0 \in S /\ \A p \in S : p + book'[p].len \in S \cup {pages_nb}
    BY <1>5 DEF Follows
  <2>1. ASSUME NEW p \in T PROVE p + book[p].len \in T \cup {pages_nb}
    <3>1. p + book[p].len \in Chunks \cup {pages_nb}
      BY DEF Tiled, Follows
    <3>2. CASE p # page
      <4>1. book'[p].len = book[p].len
        BY <3>2, <1>0, <1>2, <1>3
      <4> QED BY <4>1, <3>1, <2>0
    <3>3. CASE p = page /\ w = len
      BY <3>1, <3>3, <2>0, <1>3
    <3>4. CASE p = page /\ w < len
      <4>1. page + w \in S
        <5>1. page + w \in S \cup {pages_nb}
          BY <3>4, <2>0, <1>3
        <5> QED BY <5>1, <3>4, <1>0, <1>2
      <4>2. (page + w) + (len - w) \in S \cup {pages_nb}
        BY <4>1, <3>4, <2>0, <1>3
      <4>3. (page + w) + (len - w) = p + book[p].len
        BY <3>4, <1>0
      <4> QED BY <4>2, <4>3, <3>1
    <3> QED BY <3>2, <3>3, <3>4, <1>0
  <2>2. Follows(book, T)
    BY <2>0, <2>1 DEF Follows, Tiled
  <2>3. Chunks \subseteq S
    BY <2>2, <1>0 DEF Chunks
  <2>4. w < len => page + w \in S
    <3>1. w < len => page + w \in S \cup {pages_nb}
      BY <2>0, <2>3, <1>3
    <3> QED BY <3>1, <1>0, <1>2
  <2> QED BY <2>3, <2>4
<1>6. H \subseteq Page
  BY <1>0, <1>2
<1>7. Chunks' = {p \in Page : \A S \in {T \in SUBSET Page : Follows(book', T)} : p \in S}
  BY DEF Chunks
<1>8. Chunks' = H
  BY <1>4, <1>5, <1>6, <1>7
<1> QED BY <1>0, <1>2, <1>4, <1>8

----------------------------------------------------------------------------
(* What a program got is a chunk that is in use, with a page to spare, ... *)
Owned ==
  \A a \in live : /\ a.page \in Chunks /\ book[a.page].status = "used"
                  /\ book[a.page].len = pages_wanted(a.length)

(* ... and it is the only one that got it.                                 *)
OneOwner == \A a, b \in live : a.page = b.page => a = b

(* The inductive invariant: every call of mmap and munmap keeps it.        *)
BookInv == TypeOK /\ Tiled /\ Owned /\ OneOwner /\ InUse /\ Scrubbed

LEMMA BookInvInit == minit => BookInv
<1> SUFFICES ASSUME minit PROVE BookInv
  OBVIOUS
<1>1. pages_nb \in Nat /\ 0 < pages_nb /\ 0 \in Page /\ pages_nb \notin Page
  BY PoolAssumption DEF Page
<1>2. TypeOK
  <2>1. book \in [Page -> [status : {"unused", "used"}, len : 0 .. pages_nb]]
    BY <1>1 DEF minit
  <2> QED BY <2>1 DEF minit, TypeOK
<1>3. Follows(book, {0})
  BY <1>1 DEF minit, Follows
<1>4. Chunks = {0}
  BY <1>1, <1>3 DEF Chunks, Follows
<1>5. Tiled
  BY <1>1, <1>3, <1>4 DEF Tiled, minit
<1> QED BY <1>1, <1>2, <1>4, <1>5 DEF BookInv, Owned, OneOwner, InUse, Scrubbed, minit

LEMMA mmapKeeps ==
  ASSUME BookInv, NEW length \in Lengths, mmap(length)
  PROVE  BookInv'
<1> DEFINE w == pages_wanted(length)
<1>1. PICK page \in Fits(w) : /\ book' = Split(page, w)
                              /\ live' = live \cup {[page |-> page, length |-> length]}
  BY DEF mmap
<1>2. /\ w \in Nat /\ 0 < w /\ w <= book[page].len
      /\ page \in Chunks /\ book[page].status = "unused"
  BY <1>1, PagesNat, LengthsAssumption DEF Fits
<1>3. dirty' = dirty /\ failed' = failed
  BY DEF mmap
<1>4. /\ TypeOK /\ Tiled /\ Owned /\ OneOwner /\ InUse /\ Scrubbed
      /\ pages_nb \in Nat /\ Chunks \subseteq Page /\ page \in Page
      /\ \A p \in Page : p \in Nat /\ p < pages_nb /\ book[p].len \in 0 .. pages_nb
  BY <1>2, PoolAssumption DEF BookInv, Chunks, Page, TypeOK
<1> DEFINE len == book[page].len
           a0  == [page |-> page, length |-> length]
<1>5. /\ Chunks' = Chunks \cup {p \in {page + w} : w < len}
      /\ Follows(book', Chunks')
      /\ page + w \notin Chunks \/ w = len
      /\ w < len => page + w \in Page
  BY <1>1, <1>2, <1>4, SplitChunks
<1>6. /\ book' = [p \in Page |->
                   IF p = page THEN [status |-> "used", len |-> w]
                   ELSE IF p = page + w /\ w < len
                          THEN [status |-> "unused", len |-> len - w]
                          ELSE book[p]]
  BY <1>1 DEF Split
<1>7. /\ book'[page] = [status |-> "used", len |-> w]
      /\ w < len => book'[page + w] = [status |-> "unused", len |-> len - w]
      /\ \A q \in Chunks : q # page => book'[q] = book[q]
  BY <1>2, <1>4, <1>5, <1>6
<1>8. TypeOK'
  <2>1. book' \in [Page -> [status : {"unused", "used"}, len : 0 .. pages_nb]]
    BY <1>2, <1>4, <1>6 DEF TypeOK
  <2> QED BY <2>1, <1>1, <1>3, <1>4 DEF TypeOK
<1>9. Tiled'
  <2>1. Follows(book', Chunks')
    BY <1>5
  <2>2. \A p \in Chunks : 0 < book[p].len /\ p + book[p].len <= pages_nb
    BY <1>4 DEF Tiled
  <2>3. \A p, q \in Chunks : p < q => p + book[p].len <= q
    BY <1>4 DEF Tiled
  <2>4. ASSUME NEW p \in Chunks' PROVE 0 < book'[p].len /\ p + book'[p].len <= pages_nb
    <3>1. CASE p = page
      BY <3>1, <1>2, <1>4, <1>7, <2>2
    <3>2. CASE p # page /\ p \in Chunks
      BY <3>2, <1>7, <2>2
    <3>3. CASE p = page + w /\ w < len
      BY <3>3, <1>2, <1>4, <1>7, <2>2
    <3> QED BY <3>1, <3>2, <3>3, <1>5
  <2>5. ASSUME NEW p \in Chunks', NEW q \in Chunks', p < q PROVE p + book'[p].len <= q
    <3>0. page + len <= pages_nb
      BY <1>2, <2>2
    <3>1. CASE p = page
      <4>1. CASE q \in Chunks
        BY <3>1, <4>1, <2>3, <2>5, <1>2, <1>4, <1>7
      <4>2. CASE q = page + w
        BY <3>1, <4>2, <1>7, <1>2, <1>4
      <4> QED BY <4>1, <4>2, <1>5
    <3>2. CASE p # page /\ p \in Chunks
      <4>1. CASE q \in Chunks
        BY <3>2, <4>1, <2>3, <2>5, <1>7
      <4>2. CASE q = page + w /\ w < len
        <5>1. p < page
          BY <3>2, <4>2, <2>3, <2>5, <1>2, <1>4
        <5>2. p + book[p].len <= page
          BY <5>1, <3>2, <2>3, <1>2
        <5> QED BY <5>2, <3>2, <4>2, <1>2, <1>4, <1>7
      <4> QED BY <4>1, <4>2, <1>5
    <3>3. CASE p = page + w /\ w < len
      <4>1. q \in Chunks /\ page < q
        BY <3>3, <2>5, <1>2, <1>4, <1>5
      <4>2. page + len <= q
        BY <4>1, <2>3, <1>2
      <4> QED BY <3>3, <4>2, <1>2, <1>4, <1>7
    <3> QED BY <3>1, <3>2, <3>3, <1>5
  <2> QED BY <2>1, <2>4, <2>5 DEF Tiled
<1>10. \A a \in live : a.page # page /\ a.page \in Chunks
  BY <1>2, <1>4 DEF Owned
<1>11. Owned'
  <2>1. ASSUME NEW a \in live
        PROVE  /\ a.page \in Chunks' /\ book'[a.page].status = "used"
               /\ book'[a.page].len = pages_wanted(a.length)
    BY <1>4, <1>5, <1>7, <1>10 DEF Owned
  <2>2. /\ a0.page \in Chunks' /\ book'[a0.page].status = "used"
        /\ book'[a0.page].len = pages_wanted(a0.length)
    BY <1>2, <1>5, <1>7
  <2> QED BY <2>1, <2>2, <1>1 DEF Owned
<1>12. OneOwner'
  BY <1>1, <1>4, <1>10 DEF OneOwner
<1>13. InUse'
  <2>1. {p \in Chunks' : book'[p].status = "used"}
          = {p \in Chunks : book[p].status = "used"} \cup {page}
    BY <1>2, <1>5, <1>7
  <2>2. {a.page : a \in live'} = {a.page : a \in live} \cup {page}
    <3>1. a0.page = page
      OBVIOUS
    <3>2. live' = live \cup {a0}
      BY <1>1
    <3> HIDE DEF a0
    <3> QED BY <3>1, <3>2
  <2> QED BY <2>1, <2>2, <1>4 DEF InUse
<1>14. Scrubbed'
  BY <1>1, <1>3, <1>4 DEF Scrubbed, Span, pages
<1> QED BY <1>8, <1>9, <1>11, <1>12, <1>13, <1>14 DEF BookInv

LEMMA munmapKeeps ==
  ASSUME BookInv, NEW a0 \in live, munmap(a0)
  PROVE  BookInv'
<1> DEFINE page == a0.page
<1>1. /\ book' = [book EXCEPT ![page].status = "unused"]
      /\ live' = live \ {a0} /\ dirty' = dirty \ Span(a0) /\ failed' = failed
  BY DEF munmap
<1>2. /\ TypeOK /\ Tiled /\ Owned /\ OneOwner /\ InUse /\ Scrubbed
      /\ Chunks \subseteq Page /\ page \in Chunks /\ page \in Page
  BY DEF BookInv, Chunks, Owned
<1>3. /\ book'[page].status = "unused"
      /\ \A p \in Page : book'[p].len = book[p].len
      /\ \A p \in Page : p # page => book'[p] = book[p]
      /\ book' \in [Page -> [status : {"unused", "used"}, len : 0 .. pages_nb]]
  BY <1>1, <1>2 DEF TypeOK
<1>4. Chunks' = Chunks
  BY <1>3, SameChunks
<1>5. TypeOK'
  BY <1>1, <1>2, <1>3 DEF TypeOK
<1>6. Tiled'
  <2>1. Follows(book', Chunks)
    BY <1>2, <1>3 DEF Tiled, Follows
  <2> QED BY <2>1, <1>2, <1>3, <1>4 DEF Tiled
<1>7. \A a \in live' : a \in live /\ a.page # page
  BY <1>1, <1>2 DEF OneOwner
<1>8. Owned'
  BY <1>2, <1>3, <1>4, <1>7 DEF Owned
<1>9. OneOwner'
  BY <1>2, <1>7 DEF OneOwner
<1>10. InUse'
  <2>1. {p \in Chunks : book'[p].status = "used"}
          = {p \in Chunks : book[p].status = "used"} \ {page}
    BY <1>2, <1>3
  <2>2. {a.page : a \in live'} = {a.page : a \in live} \ {page}
    BY <1>1, <1>7
  <2> QED BY <2>1, <2>2, <1>2, <1>4 DEF InUse
<1>11. Scrubbed'
  <2>1. ASSUME NEW p \in dirty' PROVE \E a \in live' : p \in Span(a)
    <3>1. p \in dirty /\ p \notin Span(a0)
      BY <1>1
    <3> QED BY <3>1, <1>1, <1>2 DEF Scrubbed
  <2> QED BY <2>1 DEF Scrubbed, Span
<1> QED BY <1>5, <1>6, <1>8, <1>9, <1>10, <1>11 DEF BookInv

(* A write dirties only pages of its program.                              *)
LEMMA WriteKeeps ==
  ASSUME BookInv, NEW a0 \in live, Write(a0)
  PROVE  BookInv'
<1>1. dirty' = dirty \cup Span(a0) /\ UNCHANGED <<book, live, failed>>
  BY DEF Write
<1>2. Span(a0) \subseteq Page
  BY DEF Span
<1>3. Scrubbed'
  BY <1>1 DEF BookInv, Scrubbed, Span
<1>4. Chunks' = Chunks
  BY <1>1 DEF Chunks
<1> QED BY <1>1, <1>2, <1>3, <1>4
        DEF BookInv, TypeOK, Tiled, Owned, OneOwner, InUse, Follows

(* Nothing but failed changes.                                             *)
LEMMA StoppedKeeps ==
  ASSUME BookInv, UNCHANGED <<book, live, dirty>>, failed' \in BOOLEAN
  PROVE  BookInv'
<1>1. Chunks' = Chunks
  BY DEF Chunks
<1> QED BY <1>1 DEF BookInv, TypeOK, Tiled, Owned, OneOwner, InUse, Scrubbed, Span, Follows

LEMMA BookInvStep == BookInv /\ [Next]_vars => BookInv'
<1> SUFFICES ASSUME BookInv, [Next]_vars PROVE BookInv'
  OBVIOUS
<1>0. failed \in BOOLEAN
  BY DEF BookInv, TypeOK
<1>1. ASSUME NEW length \in Lengths, mmap(length) PROVE BookInv'
  BY <1>1, mmapKeeps
<1>2. ASSUME NEW length \in Lengths, mmap_fails(length) PROVE BookInv'
  BY <1>0, <1>2, StoppedKeeps DEF mmap_fails, vars
<1>3. ASSUME NEW a \in live, munmap(a) PROVE BookInv'
  BY <1>3, munmapKeeps
<1>4. ASSUME NEW a \in live, munmap_fails(a) PROVE BookInv'
  BY <1>4, StoppedKeeps DEF munmap_fails
<1>5. ASSUME NEW a \in live, Write(a) PROVE BookInv'
  BY <1>5, WriteKeeps
<1>6. CASE Frozen
  BY <1>0, <1>6, StoppedKeeps DEF Frozen, vars
<1>7. CASE UNCHANGED vars
  BY <1>0, <1>7, StoppedKeeps DEF vars
<1> QED BY <1>1, <1>2, <1>3, <1>4, <1>5, <1>6, <1>7 DEF Next

(* The book invariant holds in every state of memmgt.                      *)
THEOREM BookInvariant == Spec => []BookInv
BY BookInvInit, BookInvStep, PTL DEF Spec

(* Every entry of the book and every mapping is within the pool.           *)
THEOREM TypeCorrect == Spec => []TypeOK
<1>1. BookInv => TypeOK
  BY DEF BookInv
<1> QED BY BookInvariant, <1>1, PTL

(* The chunks tile the pool, whatever programs map and unmap.              *)
THEOREM ChunksTile == Spec => []Tiled
<1>1. BookInv => Tiled
  BY DEF BookInv
<1> QED BY BookInvariant, <1>1, PTL

(* Two mappings never touch.                                               *)
LEMMA BookDisjoint == BookInv => Disjoint
<1> SUFFICES ASSUME BookInv, NEW a \in live, NEW b \in live, a # b
             PROVE  \/ a.page + pages(a.length) < b.page
                    \/ b.page + pages(b.length) < a.page
  BY DEF Disjoint
<1>1. a.page # b.page
  BY DEF BookInv, OneOwner
<1>2. /\ a.page \in Nat /\ b.page \in Nat /\ pages(a.length) \in Nat /\ pages(b.length) \in Nat
      /\ book[a.page].len = pages(a.length) + 1 /\ book[b.page].len = pages(b.length) + 1
      /\ a.page \in Chunks /\ b.page \in Chunks
  <2>1. live \subseteq [page : Page, length : Lengths] /\ Owned
    BY DEF BookInv, TypeOK
  <2>2. /\ a.page \in Nat /\ b.page \in Nat /\ a.length \in Nat /\ b.length \in Nat
    <3>1. a.page \in Page /\ b.page \in Page /\ a.length \in Lengths /\ b.length \in Lengths
      BY <2>1
    <3>2. Page \subseteq Nat
      BY PoolAssumption DEF Page
    <3> QED BY <3>1, <3>2, LengthsAssumption
  <2>3. pages(a.length) \in Nat /\ pages(b.length) \in Nat
    BY <2>2, PagesNat
  <2> QED BY <2>1, <2>2, <2>3 DEF Owned, pages_wanted
<1>3. a.page < b.page \/ b.page < a.page
  BY <1>1, <1>2
<1> QED BY <1>2, <1>3 DEF BookInv, Tiled

(* No page is given to two programs.                                       *)
THEOREM MappingsDisjoint == Spec => []Disjoint
BY BookInvariant, BookDisjoint, PTL

(* The book and the programs agree on what is in use.                      *)
THEOREM BookAgrees == Spec => []InUse
<1>1. BookInv => InUse
  BY DEF BookInv
<1> QED BY BookInvariant, <1>1, PTL

(* What programs wrote is zeroed before others get it.                     *)
THEOREM MemoryScrubbed == Spec => []Scrubbed
<1>1. BookInv => Scrubbed
  BY DEF BookInv
<1> QED BY BookInvariant, <1>1, PTL

----------------------------------------------------------------------------
(* The loader.                                                             *)

(* The rounding of load_module adds at most a page to a length.            *)
LEMMA UpSizeBound ==
  ASSUME NEW s \in Nat
  PROVE  upSize(s) \in Nat /\ upSize(s) <= pages(s) + 1
<1> DEFINE a == s \div pagesz
           b == (s + pagesz - 1) \div pagesz
<1>1. /\ pagesz \in Nat /\ 0 < pagesz /\ a \in Nat /\ b \in Nat
      /\ s + pagesz - 1 \in Nat
  BY PoolAssumption
<1>2. pagesz * a <= s
  BY <1>1
<1>3. s + pagesz - 1 < pagesz * (b + 1)
  BY <1>1
<1>4. ~(b + 1 <= a)
  <2> SUFFICES ASSUME b + 1 <= a PROVE FALSE
    OBVIOUS
  <2> HIDE DEF a, b
  <2>1. pagesz * (b + 1) <= pagesz * a
    BY <1>1
  <2> QED BY <1>1, <1>2, <1>3, <2>1
<1>5. a <= b
  <2> HIDE DEF a, b
  <2> QED BY <1>1, <1>4
<1> QED BY <1>1, <1>5 DEF upSize, pages

----------------------------------------------------------------------------
(* Capability c is to a mapping, and to at most k pages after its length.  *)
Backed(c, k) == \E a \in live : a.page = c.page /\ c.n <= pages(a.length) + k

(* Where the image and the stack of module m start.                        *)
Starts(m) == {m.image.page, m.stack.page}

(* The capabilities of a module come from one pool; those from memmgt are  *)
(* to mappings of init's.                                                  *)
ModuleInv ==
  \A m \in modules :
    /\ m.pcc.where = m.image.where /\ m.stack.where = m.image.where
    /\ m.image.where \in {"pool", "heap"}
    /\ m.pcc.page = m.image.page
    /\ m.image.where = "heap" => \A c \in CapsOf(m) : Backed(c, 1)

(* Two modules have no mapping in common, and only one is in init's pool.  *)
StartsApart ==
  \A m, n \in modules : m # n =>
    /\ m.image.where = "heap" \/ n.image.where = "heap"
    /\ m.image.where = "heap" /\ n.image.where = "heap" => Starts(m) \cap Starts(n) = {}

(* The same for the module that is being loaded.                           *)
LoadingInv ==
  /\ ~system_alloc /\ stage # "nssleep" => modules = {}
  /\ stage = "image" \/ stage = "nssleep" => image = NONE
  /\ stage \in {"copy", "stack"} =>
       /\ image \in Cap /\ pcc \in Cap
       /\ pcc.where = image.where /\ pcc.page = image.page
       /\ system_alloc <=> image.where = "heap"
       /\ image.where = "heap" =>
            /\ Backed(image, 0) /\ Backed(pcc, 1)
            /\ \A m \in modules : m.image.where = "heap" => image.page \notin Starts(m)

(* The inductive invariant.                                                *)
LoadInv == BookInv /\ LoadTypeOK /\ ModuleInv /\ StartsApart /\ LoadingInv

LEMMA LoadInvInit == init_alloc_init => LoadInv
<1> SUFFICES ASSUME init_alloc_init PROVE LoadInv
  OBVIOUS
<1>1. BookInv
  BY BookInvInit DEF init_alloc_init
<1>2. /\ pool_next = 0 /\ system_alloc = FALSE /\ stage = "image"
      /\ image = NONE /\ pcc = NONE /\ modules = {}
  BY DEF init_alloc_init
<1>3. LoadTypeOK
  <2>1. pool_next \in 0 .. pool_pages
    BY <1>2, LoaderAssumption
  <2> QED BY <1>1, <1>2, <2>1 DEF LoadTypeOK, BookInv
<1> QED BY <1>1, <1>2, <1>3 DEF LoadInv, ModuleInv, StartsApart, LoadingInv

----------------------------------------------------------------------------
(* Mappings in numbers.                                                    *)
LEMMA LiveNat ==
  ASSUME TypeOK, NEW a \in live
  PROVE  a.page \in Nat /\ a.length \in Lengths /\ a.length \in Nat /\ pages(a.length) \in Nat
<1>1. a.page \in Page /\ a.length \in Lengths
  BY DEF TypeOK
<1>2. Page \subseteq Nat
  BY PoolAssumption DEF Page
<1>3. a.page \in Nat /\ a.length \in Nat
  BY <1>1, <1>2, LengthsAssumption
<1> QED BY <1>1, <1>3, PagesNat

(* What mmap gives is new: nobody has it.                                  *)
LEMMA mmapNew ==
  ASSUME BookInv, NEW length \in Lengths, mmap(length)
  PROVE  /\ BookInv' /\ live \subseteq live'
         /\ \A a \in live' \ live : a.length = length /\ \A b \in live : a.page # b.page
<1>1. PICK page \in Fits(pages_wanted(length)) :
        live' = live \cup {[page |-> page, length |-> length]}
  BY DEF mmap
<1>2. page \in Chunks /\ book[page].status = "unused"
  BY <1>1 DEF Fits, mmap
<1>3. \A b \in live : b.page # page
  BY <1>2 DEF BookInv, Owned
<1>4. BookInv'
  BY mmapKeeps
<1> QED BY <1>1, <1>2, <1>3, <1>4

(* What a module has stays mapped while nothing is unmapped.               *)
LEMMA StillBacked ==
  ASSUME live \subseteq live', NEW c, NEW k, Backed(c, k)
  PROVE  Backed(c, k)'
BY DEF Backed, pages

LEMMA ModulesKept ==
  ASSUME ModuleInv, StartsApart, modules' = modules,
         \A m \in modules : \A c : m.image.where = "heap" /\ c \in CapsOf(m) /\ Backed(c, 1)
                                   => Backed(c, 1)'
  PROVE  ModuleInv' /\ StartsApart'
<1>1. StartsApart'
  BY DEF StartsApart, Starts
<1>2. ASSUME NEW m \in modules, m.image.where = "heap", NEW c \in CapsOf(m)
      PROVE  Backed(c, 1)'
  BY <1>2 DEF ModuleInv
<1>3. ModuleInv'
  BY <1>2 DEF ModuleInv, CapsOf
<1> QED BY <1>1, <1>3

(* Mapping a is the one just made for cap.                                 *)
New(a, cap, s) ==
  /\ a \in live' /\ a.page = cap.page /\ a.length = s
  /\ \A b \in live : b.page # cap.page

(* A block that the pool has room for ends within it.                      *)
LEMMA BlockInPool ==
  ASSUME NEW s \in Nat, pool_next \in Nat, HasRoom(s)
  PROVE  pool_next + pages(s) \in 0 .. pool_pages
<1> DEFINE b == pages(s)
<1>1. /\ pagesz \in Nat /\ 0 < pagesz /\ b \in Nat /\ pool_pages \in Nat
      /\ s + pagesz - 1 \in Nat
  BY PoolAssumption, LoaderAssumption, PagesNat
<1>2. pagesz * b <= s + pagesz - 1
  BY <1>1 DEF pages
<1>3. pool_next * pagesz + s < pool_pages * pagesz
  BY DEF HasRoom
<1> HIDE DEF b
<1>4. ~(pool_pages + 1 <= pool_next + b)
  <2> SUFFICES ASSUME pool_pages + 1 <= pool_next + b PROVE FALSE
    OBVIOUS
  <2>1. pagesz * (pool_pages + 1) <= pagesz * (pool_next + b)
    BY <1>1
  <2>2. pagesz * (pool_next + b) = pool_next * pagesz + pagesz * b
    BY <1>1
  <2>3. pagesz * (pool_pages + 1) = pool_pages * pagesz + pagesz
    BY <1>1
  <2> QED BY <1>1, <1>2, <1>3, <2>1, <2>2, <2>3
<1>5. pool_next + b <= pool_pages
  BY <1>1, <1>4
<1> QED BY <1>1, <1>5 DEF b

(* What init_alloc returns.                                                *)
LEMMA initAlloc ==
  ASSUME BookInv, LoadTypeOK, NEW s \in Lengths, NEW cap \in Caps(s), init_alloc(s, cap)
  PROVE  /\ BookInv' /\ live \subseteq live' /\ pool_next' \in 0 .. pool_pages
         /\ cap \in Cap
         /\ system_alloc <=> cap.where = "heap"
         /\ cap.where = "heap" =>
              /\ cap.n = pages(s)
              /\ \E a : New(a, cap, s)
<1>0. s \in Nat /\ pages(s) \in Nat /\ upSize(s) \in Nat /\ pool_next \in Nat
      /\ pool_next \in 0 .. pool_pages
  BY LengthsAssumption, LoaderAssumption, PagesNat, UpSizeBound DEF LoadTypeOK
<1>1. cap \in Cap
  BY <1>0, PoolAssumption DEF Caps, Cap, Page
<1>2. CASE ~system_alloc /\ cap = Block(s) /\ HasRoom(s)
           /\ pool_next' = pool_next + pages(s) /\ UNCHANGED vars
  <2>0. pool_next' \in 0 .. pool_pages
    BY <1>0, <1>2, BlockInPool
  <2>1. BookInv'
    BY <1>2, StoppedKeeps DEF vars, BookInv, TypeOK
  <2> QED BY <1>0, <1>1, <1>2, <2>0, <2>1 DEF Block, vars
<1>3. CASE /\ system_alloc /\ mmap(s) /\ UNCHANGED pool_next
           /\ [page |-> cap.page, length |-> s] \in live' \ live
           /\ cap = [where |-> "heap", page |-> cap.page, n |-> pages(s)]
  <2> DEFINE a == [page |-> cap.page, length |-> s]
  <2>1. a.page = cap.page /\ a.length = s /\ a \in live' \ live
    BY <1>3
  <2>2. /\ BookInv' /\ live \subseteq live'
        /\ \A b \in live : a.page # b.page
    BY <1>3, <2>1, mmapNew
  <2>3. cap.where = "heap" /\ cap.n = pages(s)
    BY <1>3
  <2> HIDE DEF a
  <2>4. New(a, cap, s)
    BY <2>1, <2>2 DEF New
  <2> QED BY <1>0, <1>1, <1>3, <2>1, <2>2, <2>3, <2>4
<1> QED BY <1>2, <1>3 DEF init_alloc

LEMMA LoadImageKeeps ==
  ASSUME LoadInv, NEW s \in Images, LoadImage(s)
  PROVE  LoadInv'
<1>1. PICK cap \in Caps(s) :
        /\ init_alloc(s, cap) /\ image' = cap
        /\ pcc' = [where |-> cap.where, page |-> cap.page, n |-> upSize(getlen(s, cap))]
  BY DEF LoadImage
<1>2. /\ stage = "image" /\ stage' = "copy" /\ system_alloc' = system_alloc /\ modules' = modules
      /\ s \in Lengths /\ s \in Nat
  BY LoaderAssumption, LengthsAssumption DEF LoadImage
<1>3. /\ BookInv' /\ live \subseteq live' /\ pool_next' \in 0 .. pool_pages
      /\ cap \in Cap
      /\ system_alloc <=> cap.where = "heap"
      /\ cap.where = "heap" =>
           /\ cap.n = pages(s)
           /\ \E a : New(a, cap, s)
  BY <1>1, <1>2, initAlloc DEF LoadInv
<1>4. ModuleInv' /\ StartsApart'
  BY <1>2, <1>3, StillBacked, ModulesKept DEF LoadInv
<1>5. ASSUME cap.where = "heap"
      PROVE  /\ Backed(image, 0)' /\ Backed(pcc, 1)'
             /\ \A m \in modules : m.image.where = "heap" => cap.page \notin Starts(m)
  <2>0. PICK a : New(a, cap, s)
    BY <1>3, <1>5
  <2>1. /\ a \in live' /\ a.page = cap.page /\ a.length = s
        /\ \A b \in live : b.page # cap.page
    BY <2>0 DEF New
  <2>2. Backed(image, 0)'
    BY <1>1, <1>2, <1>3, <1>5, <2>1, PagesNat DEF Backed, pages
  <2>3. pcc'.page = cap.page /\ pcc'.n <= pages(s) + 1
    BY <1>1, <1>2, <1>5, UpSizeBound DEF getlen
  <2>4. Backed(pcc, 1)'
    BY <2>1, <2>3 DEF Backed, pages
  <2>5. ASSUME NEW m \in modules, m.image.where = "heap" PROVE cap.page \notin Starts(m)
    <3>1. Backed(m.image, 1) /\ Backed(m.stack, 1)
      BY <2>5 DEF LoadInv, ModuleInv, CapsOf
    <3> QED BY <2>1, <3>1 DEF Backed, Starts
  <2> QED BY <2>2, <2>4, <2>5
<1>6. LoadingInv'
  <2>0. getlen(s, cap) \in Nat
    BY <1>2, <1>3, PoolAssumption DEF getlen, Cap
  <2>1. /\ image' \in Cap /\ pcc' \in Cap
        /\ pcc'.where = image'.where /\ pcc'.page = image'.page
    BY <1>1, <1>3, <2>0, UpSizeBound DEF Cap
  <2> QED BY <1>1, <1>2, <1>3, <1>5, <2>1 DEF LoadInv, LoadingInv, Starts
<1>7. LoadTypeOK'
  BY <1>2, <1>3, <1>6 DEF LoadInv, LoadTypeOK, BookInv, LoadingInv
<1> QED BY <1>3, <1>4, <1>6, <1>7 DEF LoadInv

(* The segments go into the image's own mapping.                           *)
LEMMA CopyImageKeeps ==
  ASSUME LoadInv, CopyImage
  PROVE  LoadInv'
<1>1. /\ stage = "copy" /\ stage' = "stack"
      /\ UNCHANGED <<book, live, failed, pool_next, system_alloc, image, pcc, modules>>
      /\ dirty' = IF image.where = "heap"
                    THEN dirty \cup {p \in Page : image.page <= p /\ p < image.page + image.n}
                    ELSE dirty
  BY DEF CopyImage
<1>2. \A p \in dirty' : p \in dirty \/ \E a \in live : p \in Span(a)
  <2>1. CASE image.where # "heap"
    BY <1>1, <2>1
  <2>2. CASE image.where = "heap"
    <3>1. PICK a \in live : a.page = image.page /\ image.n <= pages(a.length) + 0
      BY <1>1, <2>2 DEF LoadInv, LoadingInv, Backed
    <3>2. image.n \in Nat /\ image.page \in Nat /\ pages(a.length) \in Nat
      BY <1>1, LiveNat DEF LoadInv, LoadingInv, Cap, BookInv
    <3>3. ASSUME NEW p \in Page, image.page <= p, p < image.page + image.n PROVE p \in Span(a)
      <4>1. p \in Nat
        BY PoolAssumption DEF Page
      <4> QED BY <3>1, <3>2, <3>3, <4>1 DEF Span
    <3> QED BY <1>1, <2>2, <3>3
  <2> QED BY <2>1, <2>2
<1>3. BookInv'
  <2>1. Chunks' = Chunks
    BY <1>1 DEF Chunks
  <2>2. dirty' \subseteq Page
    BY <1>2 DEF LoadInv, BookInv, TypeOK, Span
  <2>3. TypeOK' /\ Scrubbed'
    BY <1>1, <1>2, <2>2 DEF LoadInv, BookInv, TypeOK, Scrubbed, Span
  <2> QED BY <1>1, <2>1, <2>3 DEF LoadInv, BookInv, Tiled, Owned, OneOwner, InUse, Follows
<1>4. ModuleInv' /\ StartsApart'
  BY <1>1, StillBacked, ModulesKept DEF LoadInv
<1>5. LoadingInv'
  <2>1. image.where = "heap" => Backed(image, 0)' /\ Backed(pcc, 1)'
    BY <1>1 DEF LoadInv, LoadingInv, Backed, pages
  <2> QED BY <1>1, <2>1 DEF LoadInv, LoadingInv, Starts
<1> QED BY <1>1, <1>3, <1>4, <1>5 DEF LoadInv, LoadTypeOK, BookInv

LEMMA LoadStackKeeps ==
  ASSUME LoadInv, LoadStack
  PROVE  LoadInv'
<1>1. PICK cap \in Caps(stack_size) :
        /\ init_alloc(stack_size, cap)
        /\ modules' = modules \cup {[image |-> image, pcc |-> pcc, stack |-> cap]}
  BY DEF LoadStack
<1> DEFINE m0 == [image |-> image, pcc |-> pcc, stack |-> cap]
<1>2. /\ stage = "stack" /\ stage' = (IF system_alloc THEN "image" ELSE "nssleep")
      /\ system_alloc' = system_alloc /\ image' = NONE /\ pcc' = NONE
      /\ stack_size \in Lengths /\ pages(stack_size) \in Nat
  BY LoaderAssumption, LengthsAssumption, PagesNat DEF LoadStack
<1>3. /\ BookInv' /\ live \subseteq live' /\ pool_next' \in 0 .. pool_pages
      /\ cap \in Cap
      /\ system_alloc <=> cap.where = "heap"
      /\ cap.where = "heap" =>
           /\ cap.n = pages(stack_size)
           /\ \E a : New(a, cap, stack_size)
  BY <1>1, <1>2, initAlloc DEF LoadInv
<1>4. /\ image \in Cap /\ pcc \in Cap /\ pcc.where = image.where /\ pcc.page = image.page
      /\ system_alloc <=> image.where = "heap"
      /\ ~system_alloc => modules = {}
      /\ image.where = "heap" =>
            /\ Backed(image, 0) /\ Backed(pcc, 1)
            /\ \A m \in modules : m.image.where = "heap" => image.page \notin Starts(m)
  BY <1>2 DEF LoadInv, LoadingInv
<1>5. m0.image = image /\ m0.pcc = pcc /\ m0.stack = cap /\ modules' = modules \cup {m0}
  BY <1>1
<1> HIDE DEF m0
<1>6. ASSUME image.where = "heap"
      PROVE  /\ \A c \in CapsOf(m0) : Backed(c, 1)'
             /\ \A m \in modules : m.image.where = "heap" => Starts(m) \cap Starts(m0) = {}
  <2>0. PICK a : New(a, cap, stack_size)
    BY <1>3, <1>4, <1>6
  <2>1. /\ a \in live' /\ a.page = cap.page /\ a.length = stack_size
        /\ \A b \in live : b.page # cap.page
    BY <2>0 DEF New
  <2>2. Backed(cap, 1)'
    <3>1. cap.n <= pages(a.length) + 1
      BY <1>2, <1>3, <1>4, <1>6, <2>1
    <3> QED BY <2>1, <3>1 DEF Backed, pages
  <2>3. Backed(image, 1)
    <3>1. PICK b \in live : b.page = image.page /\ image.n <= pages(b.length) + 0
      BY <1>4, <1>6 DEF Backed
    <3>2. image.n \in Nat /\ pages(b.length) \in Nat
      BY <1>4, LiveNat DEF Cap, LoadInv, BookInv
    <3> QED BY <3>1, <3>2 DEF Backed
  <2>4. ASSUME NEW c \in CapsOf(m0) PROVE Backed(c, 1)'
    <3>1. c = cap \/ Backed(c, 1)
      BY <1>4, <1>5, <1>6, <2>3 DEF CapsOf
    <3> QED BY <1>3, <2>2, <3>1, StillBacked
  <2>5. ASSUME NEW m \in modules, m.image.where = "heap" PROVE Starts(m) \cap Starts(m0) = {}
    <3>1. Backed(m.image, 1) /\ Backed(m.stack, 1)
      BY <2>5 DEF LoadInv, ModuleInv, CapsOf
    <3>2. cap.page \notin Starts(m)
      BY <2>1, <3>1 DEF Backed, Starts
    <3>3. image.page \notin Starts(m)
      BY <1>4, <1>6, <2>5
    <3> QED BY <1>5, <3>2, <3>3 DEF Starts
  <2> QED BY <2>4, <2>5
<1>7. ModuleInv'
  <2>1. ASSUME NEW m \in modules
        PROVE  /\ m.pcc.where = m.image.where /\ m.stack.where = m.image.where
               /\ m.image.where \in {"pool", "heap"} /\ m.pcc.page = m.image.page
               /\ m.image.where = "heap" => \A c \in CapsOf(m) : Backed(c, 1)'
    BY <1>3, StillBacked DEF LoadInv, ModuleInv
  <2>2. /\ m0.pcc.where = m0.image.where /\ m0.stack.where = m0.image.where
        /\ m0.image.where \in {"pool", "heap"} /\ m0.pcc.page = m0.image.page
        /\ m0.image.where = "heap" => \A c \in CapsOf(m0) : Backed(c, 1)'
    <3>1. cap.where = image.where /\ image.where \in {"pool", "heap"}
      BY <1>3, <1>4 DEF Cap
    <3> QED BY <1>4, <1>5, <1>6, <3>1
  <2> QED BY <1>5, <2>1, <2>2 DEF ModuleInv, CapsOf
<1>8. StartsApart'
  <2>1. ASSUME NEW m \in modules', NEW n \in modules', m # n
        PROVE  /\ m.image.where = "heap" \/ n.image.where = "heap"
               /\ m.image.where = "heap" /\ n.image.where = "heap" => Starts(m) \cap Starts(n) = {}
    <3>1. CASE m \in modules /\ n \in modules
      BY <2>1, <3>1 DEF LoadInv, StartsApart
    <3>2. CASE m = m0 /\ n \in modules
      BY <1>4, <1>5, <1>6, <3>2
    <3>3. CASE n = m0 /\ m \in modules
      BY <1>4, <1>5, <1>6, <3>3
    <3> QED BY <1>5, <2>1, <3>1, <3>2, <3>3
  <2> QED BY <2>1 DEF StartsApart, Starts
<1>9. LoadingInv'
  BY <1>2 DEF LoadingInv, LoadInv, LoadTypeOK
<1>10. LoadTypeOK'
  <2>1. m0 \in [image : Cap, pcc : Cap, stack : Cap]
    BY <1>2, <1>3, <1>4, NoneAssumption DEF m0, LoadInv, LoadTypeOK, LoadingInv
  <2> QED BY <1>2, <1>3, <1>5, <2>1 DEF LoadInv, LoadTypeOK, BookInv
<1> QED BY <1>3, <1>7, <1>8, <1>9, <1>10 DEF LoadInv

(* init stops, or goes on with memmgt.                                     *)
LEMMA OtherLoadKeeps ==
  ASSUME LoadInv, LoadFails \/ EnableSystem
  PROVE  LoadInv'
<1>1. /\ UNCHANGED <<book, live, dirty, image, pcc, modules, pool_next>>
      /\ failed' \in BOOLEAN
  BY DEF LoadFails, EnableSystem, lvars, vars, LoadInv, BookInv, TypeOK
<1>2. BookInv'
  BY <1>1, StoppedKeeps DEF LoadInv
<1>3. ModuleInv' /\ StartsApart'
  BY <1>1, StillBacked, ModulesKept DEF LoadInv
<1>4. CASE LoadFails
  <2>1. stage' = stage /\ system_alloc' = system_alloc
    BY <1>4 DEF LoadFails, lvars
  <2>2. LoadingInv'
    <3>1. image.where = "heap" => Backed(image, 0) = Backed(image, 0)' /\ Backed(pcc, 1) = Backed(pcc, 1)'
      BY <1>1 DEF Backed, pages
    <3> QED BY <1>1, <2>1, <3>1 DEF LoadInv, LoadingInv, Starts
  <2> QED BY <1>1, <1>2, <1>3, <2>1, <2>2 DEF LoadInv, LoadTypeOK, BookInv
<1>5. CASE EnableSystem
  <2>1. stage = "nssleep" /\ stage' = "image" /\ system_alloc' = TRUE
    BY <1>5 DEF EnableSystem
  <2> QED BY <1>1, <1>2, <1>3, <2>1 DEF LoadInv, LoadTypeOK, BookInv, LoadingInv
<1> QED BY <1>4, <1>5

(* A program that maps leaves all that was mapped as it was, ...           *)
LEMMA ProgramMapKeeps ==
  ASSUME LoadInv, NEW length \in Lengths, mmap(length), UNCHANGED lvars
  PROVE  LoadInv'
<1>1. BookInv' /\ live \subseteq live'
  BY mmapNew DEF LoadInv
<1>2. UNCHANGED <<pool_next, system_alloc, stage, image, pcc, modules>>
  BY DEF lvars
<1>3. ModuleInv' /\ StartsApart'
  BY <1>1, <1>2, StillBacked, ModulesKept DEF LoadInv
<1>4. LoadingInv'
  <2>1. /\ Backed(image, 0) => Backed(image, 0)'
        /\ Backed(pcc, 1) => Backed(pcc, 1)'
    BY <1>1, <1>2 DEF Backed, pages
  <2> QED BY <1>2, <2>1 DEF LoadInv, LoadingInv, Starts
<1> QED BY <1>1, <1>2, <1>3, <1>4 DEF LoadInv, LoadTypeOK, BookInv

(* ... one that unmaps takes nothing from a module, ...                    *)
LEMMA ProgramUnmapKeeps ==
  ASSUME LoadInv, NEW a0 \in Own, munmap(a0), UNCHANGED lvars
  PROVE  LoadInv'
<1>1. BookInv' /\ dirty' \subseteq dirty /\ live' = live \ {a0}
  BY munmapKeeps DEF LoadInv, munmap, Own
<1>2. UNCHANGED <<pool_next, system_alloc, stage, image, pcc, modules>>
  BY DEF lvars
<1>3. ASSUME NEW c, NEW k, Backed(c, k), c.page # a0.page PROVE Backed(c, k)'
  BY <1>1, <1>3 DEF Backed, pages
<1>4. ASSUME NEW m \in modules, m.image.where = "heap", NEW c \in CapsOf(m), Backed(c, 1)
      PROVE  Backed(c, 1)'
  <2>1. m.image \in OfModules /\ m.stack \in OfModules
    BY <1>4 DEF OfModules, LoadInv, ModuleInv
  <2>2. c.page # a0.page
    BY <2>1 DEF Own, CapsOf, LoadInv, ModuleInv
  <2> QED BY <1>3, <1>4, <2>2
<1>5. ModuleInv' /\ StartsApart'
  BY <1>2, <1>4, ModulesKept DEF LoadInv
<1>6. LoadingInv'
  <2>1. ASSUME stage \in {"copy", "stack"}, image.where = "heap"
        PROVE  Backed(image, 0)' /\ Backed(pcc, 1)'
    <3>1. image \in OfModules
      BY <2>1, NoneAssumption DEF OfModules, LoadInv, LoadingInv
    <3>2. image.page # a0.page /\ pcc.page = image.page /\ Backed(image, 0) /\ Backed(pcc, 1)
      BY <2>1, <3>1 DEF Own, LoadInv, LoadingInv
    <3> QED BY <1>1, <1>2, <3>2 DEF Backed, pages
  <2> QED BY <1>2, <2>1 DEF LoadInv, LoadingInv, Starts
<1> QED BY <1>1, <1>2, <1>5, <1>6 DEF LoadInv, LoadTypeOK, BookInv

(* ... and one that writes maps and unmaps nothing.                        *)
LEMMA ProgramWriteKeeps ==
  ASSUME LoadInv, NEW a0 \in live, Write(a0), UNCHANGED lvars
  PROVE  LoadInv'
<1>1. BookInv' /\ dirty' = dirty \cup Span(a0) /\ live' = live
  BY WriteKeeps DEF LoadInv, Write
<1>2. UNCHANGED <<pool_next, system_alloc, stage, image, pcc, modules>>
  BY DEF lvars
<1>3. ModuleInv' /\ StartsApart'
  BY <1>1, <1>2, StillBacked, ModulesKept DEF LoadInv
<1>4. LoadingInv'
  <2>1. /\ Backed(image, 0) => Backed(image, 0)'
        /\ Backed(pcc, 1) => Backed(pcc, 1)'
    BY <1>1, <1>2 DEF Backed, pages
  <2> QED BY <1>2, <2>1 DEF LoadInv, LoadingInv, Starts
<1> QED BY <1>1, <1>2, <1>3, <1>4 DEF LoadInv, LoadTypeOK, BookInv

LEMMA LoadStoppedKeeps ==
  ASSUME LoadInv, UNCHANGED <<book, live, dirty, lvars>>, failed' \in BOOLEAN
  PROVE  LoadInv'
<1>1. BookInv'
  BY StoppedKeeps DEF LoadInv
<1>2. UNCHANGED <<pool_next, system_alloc, stage, image, pcc, modules>>
  BY DEF lvars
<1>3. ModuleInv' /\ StartsApart'
  BY <1>2, StillBacked, ModulesKept DEF LoadInv
<1>4. LoadingInv'
  <2>1. /\ Backed(image, 0) => Backed(image, 0)'
        /\ Backed(pcc, 1) => Backed(pcc, 1)'
    BY <1>2 DEF Backed, pages
  <2> QED BY <1>2, <2>1 DEF LoadInv, LoadingInv, Starts
<1> QED BY <1>1, <1>2, <1>3, <1>4 DEF LoadInv, LoadTypeOK, BookInv

LEMMA LoadInvStep == LoadInv /\ [LoadNext]_<<vars, lvars>> => LoadInv'
<1> SUFFICES ASSUME LoadInv, [LoadNext]_<<vars, lvars>> PROVE LoadInv'
  OBVIOUS
<1>0. failed \in BOOLEAN
  BY DEF LoadInv, BookInv, TypeOK
<1>1. ASSUME NEW s \in Images, LoadImage(s) PROVE LoadInv'
  BY <1>1, LoadImageKeeps
<1>2. CASE CopyImage
  BY <1>2, CopyImageKeeps
<1>3. CASE LoadStack
  BY <1>3, LoadStackKeeps
<1>4. CASE EnableSystem \/ LoadFails
  BY <1>4, OtherLoadKeeps
<1>5. CASE ProgramStep
  <2>0. UNCHANGED lvars
    BY <1>5 DEF ProgramStep
  <2>1. ASSUME NEW length \in Lengths, mmap(length) PROVE LoadInv'
    BY <2>0, <2>1, ProgramMapKeeps
  <2>2. ASSUME NEW length \in Lengths, mmap_fails(length) PROVE LoadInv'
    BY <1>0, <2>0, <2>2, LoadStoppedKeeps DEF mmap_fails, vars
  <2>3. ASSUME NEW a \in Own, munmap(a) PROVE LoadInv'
    BY <2>0, <2>3, ProgramUnmapKeeps
  <2>4. ASSUME NEW a \in Own, munmap_fails(a) PROVE LoadInv'
    BY <2>0, <2>4, LoadStoppedKeeps DEF munmap_fails
  <2>5. ASSUME NEW a \in live, Write(a) PROVE LoadInv'
    BY <2>0, <2>5, ProgramWriteKeeps
  <2> QED BY <1>5, <2>1, <2>2, <2>3, <2>4, <2>5 DEF ProgramStep
<1>6. CASE Frozen /\ UNCHANGED lvars
  BY <1>0, <1>6, LoadStoppedKeeps DEF Frozen, vars
<1>7. CASE UNCHANGED <<vars, lvars>>
  BY <1>0, <1>7, LoadStoppedKeeps DEF vars
<1> QED BY <1>1, <1>2, <1>3, <1>4, <1>5, <1>6, <1>7 DEF LoadNext, LoadStep

----------------------------------------------------------------------------
(* The invariant holds in every state while init loads.                    *)
THEOREM LoadInvariant == LoadSpec => []LoadInv
BY LoadInvInit, LoadInvStep, PTL DEF LoadSpec

(* What a capability to at most a page more than a mapping covers lies     *)
(* within the chunk of that mapping.                                       *)
LEMMA BackedInChunk ==
  ASSUME BookInv, NEW a \in live, NEW c \in Cap, a.page = c.page, c.n <= pages(a.length) + 1
  PROVE  /\ c.page + c.n <= pages_nb
         /\ \A b \in live : a.page < b.page => c.page + c.n <= b.page
<1>1. /\ a.page \in Chunks /\ book[a.page].len = pages(a.length) + 1
  BY DEF BookInv, Owned, pages_wanted
<1>2. a.page \in Nat /\ pages(a.length) \in Nat /\ c.n \in Nat /\ c.page \in Nat
  BY LiveNat DEF Cap, BookInv
<1>3. a.page + book[a.page].len <= pages_nb
  BY <1>1 DEF BookInv, Tiled
<1>4. ASSUME NEW b \in live, a.page < b.page PROVE c.page + c.n <= b.page
  <2>1. b.page \in Chunks /\ b.page \in Nat
    BY LiveNat DEF BookInv, Owned
  <2>2. a.page + book[a.page].len <= b.page
    BY <1>1, <1>4, <2>1 DEF BookInv, Tiled
  <2> QED BY <1>1, <1>2, <2>1, <2>2
<1> QED BY <1>1, <1>2, <1>3, <1>4, PoolAssumption

LEMMA InvApart == LoadInv => ModulesApart
<1> SUFFICES ASSUME LoadInv PROVE ModulesApart
  OBVIOUS
<1>0. BookInv /\ modules \subseteq [image : Cap, pcc : Cap, stack : Cap]
  BY DEF LoadInv, LoadTypeOK
<1>1. ASSUME NEW m \in modules, NEW c \in CapsOf(m)
      PROVE  /\ c \in Cap /\ c.where = m.image.where /\ c.page \in Starts(m)
             /\ c.where = "heap" => \E a \in live : a.page = c.page /\ c.n <= pages(a.length) + 1
  BY <1>0, <1>1 DEF CapsOf, Starts, LoadInv, ModuleInv, Backed
<1>2. ASSUME NEW m \in modules, NEW n \in modules, m # n, NEW c \in CapsOf(m), NEW d \in CapsOf(n)
      PROVE  c.where # d.where \/ c.page + c.n <= d.page \/ d.page + d.n <= c.page
  <2> SUFFICES ASSUME c.where = d.where PROVE c.page + c.n <= d.page \/ d.page + d.n <= c.page
    OBVIOUS
  <2>1. /\ c \in Cap /\ d \in Cap /\ c.where = m.image.where /\ d.where = n.image.where
        /\ c.page \in Starts(m) /\ d.page \in Starts(n)
    BY <1>1, <1>2
  <2>2. c.where = "heap" /\ d.where = "heap" /\ c.page # d.page
    BY <1>2, <2>1 DEF LoadInv, StartsApart
  <2>3. PICK a \in live : a.page = c.page /\ c.n <= pages(a.length) + 1
    BY <1>1, <1>2, <2>2
  <2>4. PICK b \in live : b.page = d.page /\ d.n <= pages(b.length) + 1
    BY <1>1, <1>2, <2>2
  <2>5. a.page \in Nat /\ b.page \in Nat
    BY <2>1, <2>3, <2>4 DEF Cap
  <2>6. a.page < b.page \/ b.page < a.page
    BY <2>2, <2>3, <2>4, <2>5
  <2> QED BY <1>0, <2>1, <2>3, <2>4, <2>6, BackedInChunk
<1>3. ASSUME NEW m \in modules, NEW c \in CapsOf(m), c.where = "heap"
      PROVE  /\ c.page + c.n <= pages_nb
             /\ \A a \in Own : c.page + c.n <= a.page \/ a.page + pages(a.length) <= c.page
  <2>1. /\ c \in Cap /\ c.where = m.image.where /\ c.page \in Starts(m)
    BY <1>1, <1>3
  <2>2. PICK a \in live : a.page = c.page /\ c.n <= pages(a.length) + 1
    BY <1>1, <1>3
  <2>3. ASSUME NEW b \in Own PROVE c.page + c.n <= b.page \/ b.page + pages(b.length) <= c.page
    <3>1. m.image \in OfModules /\ m.stack \in OfModules
      BY <1>3, <2>1 DEF OfModules, LoadInv, ModuleInv
    <3>2. b \in live /\ b.page # a.page
      BY <2>1, <2>2, <3>1 DEF Own, Starts
    <3>3. a.page \in Nat /\ b.page \in Nat /\ pages(b.length) \in Nat
      BY <1>0, <3>2, LiveNat DEF BookInv
    <3>4. CASE a.page < b.page
      BY <1>0, <2>1, <2>2, <3>2, <3>4, BackedInChunk
    <3>5. CASE b.page < a.page
      <4>1. a.page + pages(a.length) < b.page \/ b.page + pages(b.length) < a.page
        BY <1>0, <3>2, BookDisjoint DEF Disjoint
      <4>2. pages(a.length) \in Nat
        BY <1>0, LiveNat DEF BookInv
      <4> QED BY <2>2, <3>3, <3>5, <4>1, <4>2
    <3> QED BY <3>2, <3>3, <3>4, <3>5
  <2>4. c.page + c.n <= pages_nb
    BY <1>0, <2>1, <2>2, BackedInChunk
  <2> QED BY <2>3, <2>4
<1> QED BY <1>2, <1>3 DEF ModulesApart

(* No module's capabilities reach the memory of another, or of a program.  *)
THEOREM ModulesStayApart == LoadSpec => []ModulesApart
BY LoadInvariant, InvApart, PTL

(* Every variable has its type: init's pool does not run over.             *)
THEOREM LoadTypes == LoadSpec => []LoadTypeOK
<1>1. LoadInv => LoadTypeOK
  BY DEF LoadInv
<1> QED BY LoadInvariant, <1>1, PTL

(* What Memmgt promises to programs alone it keeps while init loads.       *)
THEOREM LoadKeepsBook == LoadSpec => [](Tiled /\ Disjoint /\ InUse /\ Scrubbed)
<1>1. LoadInv => Tiled /\ Disjoint /\ InUse /\ Scrubbed
  BY BookDisjoint DEF LoadInv, BookInv
<1> QED BY LoadInvariant, <1>1, PTL
=============================================================================

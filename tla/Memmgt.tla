------------------------------- MODULE Memmgt -------------------------------
(***************************************************************************)
(* The pages of memmgt/src/mmap.c: mmap and munmap serve the programs from *)
(* one pool of pages, which a book cuts into chunks.  The entry of a       *)
(* chunk's first page holds its status and length; the other entries are   *)
(* stale, and no chunk is ever merged with the next.  memmgt serves one    *)
(* message at a time (System), so each call is an action.                  *)
(***************************************************************************)
EXTENDS Naturals

CONSTANTS
  pages_nb,   \* pages of the pool
  pagesz,     \* bytes of a page (4096)
  Lengths     \* bytes the programs ask for

ASSUME PoolAssumption == pages_nb \in Nat \ {0} /\ pagesz \in Nat \ {0}
ASSUME LengthsAssumption == Lengths \subseteq Nat

Page == 0 .. pages_nb - 1

VARIABLES
  book,    \* status and length, by page
  live,    \* what programs got and did not unmap: first page and length
  dirty,   \* the pages programs wrote to since they were last zeroed
  failed   \* an assertion of memmgt failed, which stops the machine

vars == <<book, live, dirty, failed>>

(* Pages that length bytes fill, and what mmap takes: a page more, so that *)
(* dlmalloc does not merge two chunks.                                     *)
pages(length) == (length + pagesz - 1) \div pagesz

(* A plausible bug: length/pagesz is not rounded up.                       *)
pages_wanted_down(length) == length \div pagesz + 1

(* A plausible bug: the spare page is taken for waste.                     *)
pages_wanted_no_spare(length) == pages(length)

pages_wanted(length) == pages(length) + 1

Span(a) == {p \in Page : a.page <= p /\ p < a.page + pages(a.length)}

(* The chunks, by their first page: what a walk that starts at page 0 and  *)
(* adds the length of each chunk in the book b gets to.                    *)
Follows(b, S) == 0 \in S /\ \A p \in S : p + b[p].len \in S \cup {pages_nb}
Chunks == LET walks == {S \in SUBSET Page : Follows(book, S)}
          IN  {p \in Page : \A S \in walks : p \in S}

minit ==
  /\ book = [p \in Page |-> [status |-> "unused",
                             len |-> IF p = 0 THEN pages_nb ELSE 0]]
  /\ live = {} /\ dirty = {} /\ failed = FALSE

(* The chunks that have room; mmap takes the first.                        *)
Fits(wanted) == {p \in Chunks : book[p].status = "unused" /\ book[p].len >= wanted}

(* A plausible bug: the rest of a chunk gets the length of all of it.      *)
Split_whole(page, wanted) ==
  [p \in Page |->
     IF p = page THEN [status |-> "used", len |-> wanted]
     ELSE IF p = page + wanted /\ wanted < book[page].len
            THEN [status |-> "unused", len |-> book[page].len]
            ELSE book[p]]

Split(page, wanted) ==
  [p \in Page |->
     IF p = page THEN [status |-> "used", len |-> wanted]
     ELSE IF p = page + wanted /\ wanted < book[page].len
            THEN [status |-> "unused", len |-> book[page].len - wanted]
            ELSE book[p]]

mmap(length) ==
  /\ ~failed
  /\ LET fits == Fits(pages_wanted(length)) IN
     \E page \in fits :
        /\ \A p \in fits : page <= p
        /\ book' = Split(page, pages_wanted(length))
        /\ live' = live \cup {[page |-> page, length |-> length]}
  /\ UNCHANGED <<dirty, failed>>

(* Without room mmap returns MAP_FAILED.                                   *)
mmap_fails(length) == ~failed /\ Fits(pages_wanted(length)) = {} /\ UNCHANGED vars

(* A plausible bug: the chunk is not given back.                           *)
munmap_stays_used(a) ==
  /\ ~failed /\ pagesz * book[a.page].len = a.length + pagesz
  /\ live' = live \ {a}
  /\ dirty' = dirty \ Span(a)
  /\ UNCHANGED <<book, failed>>

(* A plausible bug: the memory is not cleared.                             *)
munmap_dirty(a) ==
  /\ ~failed /\ pagesz * book[a.page].len = a.length + pagesz
  /\ book' = [book EXCEPT ![a.page].status = "unused"]
  /\ live' = live \ {a}
  /\ UNCHANGED <<dirty, failed>>

(* A program unmaps what it got, which is zeroed.  A length that is not a  *)
(* multiple of the page size is not that of the chunk: munmap_fails.       *)
munmap(a) ==
  /\ ~failed /\ pagesz * book[a.page].len = a.length + pagesz
  /\ book' = [book EXCEPT ![a.page].status = "unused"]
  /\ live' = live \ {a}
  /\ dirty' = dirty \ Span(a)
  /\ UNCHANGED failed

munmap_fails(a) ==
  /\ ~failed /\ pagesz * book[a.page].len # a.length + pagesz
  /\ failed' = TRUE
  /\ UNCHANGED <<book, live, dirty>>

(* A program writes to its memory.                                         *)
Write(a) ==
  /\ ~failed
  /\ dirty' = dirty \cup Span(a)
  /\ UNCHANGED <<book, live, failed>>

(* A failed assertion is a panic, and the kernel freezes.                  *)
Frozen == failed /\ UNCHANGED vars

Next ==
  \/ \E length \in Lengths : mmap(length) \/ mmap_fails(length)
  \/ \E a \in live : munmap(a) \/ munmap_fails(a) \/ Write(a)
  \/ Frozen

Spec == minit /\ [][Next]_vars

----------------------------------------------------------------------------
(* Every variable has its type.                                            *)
TypeOK ==
  /\ book \in [Page -> [status : {"unused", "used"}, len : 0 .. pages_nb]]
  /\ live \subseteq [page : Page, length : Lengths]
  /\ dirty \subseteq Page
  /\ failed \in BOOLEAN

(* The chunks tile the pool: a walk of mmap always makes progress, lands   *)
(* on entries that are not stale and ends exactly at the end of the pool,  *)
(* after any sequence of splits and reuses.                                *)
Tiled ==
  /\ Follows(book, Chunks)
  /\ \A p \in Chunks : 0 < book[p].len /\ p + book[p].len <= pages_nb
  /\ \A p, q \in Chunks : p < q => p + book[p].len <= q

(* Two programs never get the same page, and the pages of one never adjoin *)
(* those of another: what is reused was unmapped before, and a chunk that  *)
(* is cut still has room for all it was cut for.                           *)
Disjoint ==
  \A a, b \in live : a # b =>
    \/ a.page + pages(a.length) < b.page
    \/ b.page + pages(b.length) < a.page

(* The book and the programs agree on what is in use: nothing is freed     *)
(* under its owner, and nothing stays used that nobody can unmap.          *)
InUse == {p \in Chunks : book[p].status = "used"} = {a.page : a \in live}

(* What one program wrote is never in what mmap gives to another.          *)
Scrubbed == \A p \in dirty : \E a \in live : p \in Span(a)
=============================================================================

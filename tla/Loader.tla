------------------------------- MODULE Loader -------------------------------
(***************************************************************************)
(* init loads the modules of its list (load_module, elf_loader_mem) while  *)
(* those that are loaded already run and use memmgt.  memmgt itself comes  *)
(* from a pool of init's (alloc.c), all others from memmgt.  A module gets *)
(* three capabilities: its image, the same memory to execute, with bounds  *)
(* that load_module computes anew, and its stack.  Bounds are in pages,    *)
(* where the code computes them in bytes and rounds them to pages.         *)
(***************************************************************************)
EXTENDS Memmgt

CONSTANTS
  pool_pages,   \* pages of init's pool (40)
  Images,       \* bytes a program of the list needs
  stack_size,   \* bytes of a stack
  NONE

ASSUME LoaderAssumption ==
  /\ pool_pages \in Nat
  /\ Images \subseteq Lengths /\ stack_size \in Lengths

VARIABLES
  pool_next,     \* first page of the pool that is free
  system_alloc,  \* does init use memmgt?
  stage,         \* what load_module does next
  image,         \* the capabilities it has for the module it loads:
  pcc,           \* its image, and the image to execute
  modules        \* the modules loaded, by their capabilities

lvars == <<pool_next, system_alloc, stage, image, pcc, modules>>

(* Pages of a capability, in init's pool or in that of memmgt (the heap).  *)
Cap == [where : {"pool", "heap"}, page : Nat, n : Nat]

ASSUME NoneAssumption == NONE \notin Cap

init_alloc_init ==
  /\ minit
  /\ pool_next = 0 /\ system_alloc = FALSE
  /\ stage = "image" /\ image = NONE /\ pcc = NONE
  /\ modules = {}

(* (s + 0x1000) & ~0xfff, in pages: one more than s fills, if it fills     *)
(* them.                                                                   *)
upSize(s) == s \div pagesz + 1

(* A plausible bug: the end of the pool is not looked at.                  *)
HasRoom_unchecked(s) == s >= 0

(* init_alloc_core: the bounds are rounded up with upSize, what is         *)
(* reserved is not.                                                        *)
HasRoom(s) == pool_next * pagesz + s < pool_pages * pagesz
Block(s) == [where |-> "pool", page |-> pool_next, n |-> upSize(s)]

(* The capability cap for s bytes, from memmgt once that runs.             *)
init_alloc(s, cap) ==
  \/ /\ ~system_alloc /\ HasRoom(s) /\ cap = Block(s)
     /\ pool_next' = pool_next + pages(s)
     /\ UNCHANGED vars
  \/ /\ system_alloc /\ mmap(s)
     /\ [page |-> cap.page, length |-> s] \in live' \ live
     /\ cap = [where |-> "heap", page |-> cap.page, n |-> pages(s)]
     /\ UNCHANGED pool_next

(* The pages a capability for s bytes may have.                            *)
Caps(s) == [where : {"pool"}, page : {pool_next}, n : {upSize(s)}]
             \cup [where : {"heap"}, page : Page, n : {pages(s)}]

(* The length of the capability to an image of s bytes.                    *)
getlen(s, cap) == IF cap.where = "pool" THEN cap.n * pagesz ELSE s

LoadImage(s) ==
  /\ ~failed /\ stage = "image" /\ stage' = "copy"
  /\ \E cap \in Caps(s) :
        /\ init_alloc(s, cap)
        /\ image' = cap
        /\ pcc' = [where |-> cap.where, page |-> cap.page, n |-> upSize(getlen(s, cap))]
  /\ UNCHANGED <<system_alloc, modules>>

(* elf_loader_mem copies the segments; the bss is left to the program,     *)
(* which clears it as it starts (crt_init_bss).                            *)
CopyImage ==
  /\ ~failed /\ stage = "copy" /\ stage' = "stack"
  /\ dirty' = IF image.where = "heap"
                THEN dirty \cup {p \in Page : image.page <= p /\ p < image.page + image.n}
                ELSE dirty
  /\ UNCHANGED <<book, live, failed, pool_next, system_alloc, image, pcc, modules>>

LoadStack ==
  /\ ~failed /\ stage = "stack" /\ stage' = IF system_alloc THEN "image" ELSE "nssleep"
  /\ \E cap \in Caps(stack_size) :
        /\ init_alloc(stack_size, cap)
        /\ modules' = modules \cup {[image |-> image, pcc |-> pcc, stack |-> cap]}
  /\ image' = NONE /\ pcc' = NONE
  /\ UNCHANGED system_alloc

(* Without memory load_module fails an assertion.                          *)
LoadFails ==
  /\ ~failed
  /\ \E s \in Images \cup {stack_size} :
        /\ (stage = "image" /\ s \in Images) \/ (stage = "stack" /\ s = stack_size)
        /\ IF system_alloc THEN Fits(pages_wanted(s)) = {} ELSE ~HasRoom(s)
  /\ failed' = TRUE
  /\ UNCHANGED <<book, live, dirty, lvars>>

(* init_alloc_enable_system, when memmgt has had time to start.            *)
EnableSystem ==
  /\ ~failed /\ stage = "nssleep" /\ stage' = "image"
  /\ system_alloc' = TRUE
  /\ UNCHANGED <<vars, pool_next, image, pcc, modules>>

LoadStep == (\E s \in Images : LoadImage(s)) \/ CopyImage \/ LoadStack \/ EnableSystem \/ LoadFails

----------------------------------------------------------------------------
(* The mappings init holds for modules.                                    *)
OfModules == {c \in {m.image : m \in modules} \cup {m.stack : m \in modules}
                      \cup ({image} \ {NONE}) : c.where = "heap"}

(* A module's program maps memory, and unmaps what it mapped.  It writes   *)
(* to that and to its own image and stack.                                 *)
Loaded == \E m \in modules : m.image.where = "heap"
Loading == {a \in live : image # NONE /\ a.page = image.page}
Own == {a \in live : \A c \in OfModules : a.page # c.page}

ProgramStep ==
  /\ Loaded
  /\ \/ \E length \in Lengths : mmap(length) \/ mmap_fails(length)
     \/ \E a \in Own : munmap(a) \/ munmap_fails(a)
     \/ \E a \in live : a \notin Loading /\ Write(a)
  /\ UNCHANGED lvars

LoadNext == LoadStep \/ ProgramStep \/ (Frozen /\ UNCHANGED lvars)

LoadSpec == init_alloc_init /\ [][LoadNext]_<<vars, lvars>>

----------------------------------------------------------------------------
(* Every variable has its type.                                            *)
LoadTypeOK ==
  /\ TypeOK
  /\ pool_next \in 0 .. pool_pages /\ system_alloc \in BOOLEAN
  /\ stage \in {"image", "copy", "stack", "nssleep"}
  /\ image \in Cap \cup {NONE} /\ pcc \in Cap \cup {NONE}
  /\ modules \subseteq [image : Cap, pcc : Cap, stack : Cap]

CapsOf(m) == {m.image, m.pcc, m.stack}

(* No module can read, write or execute memory of another module, nor what *)
(* a program has mapped, nor the book of memmgt, which follows the pages   *)
(* of the heap: the page that load_module's rounding may add to the bounds *)
(* of an image is the one that memmgt keeps between two chunks.            *)
ModulesApart ==
  /\ \A m, n \in modules : m # n =>
       \A c \in CapsOf(m), d \in CapsOf(n) :
          c.where # d.where \/ c.page + c.n <= d.page \/ d.page + d.n <= c.page
  /\ \A m \in modules : \A c \in CapsOf(m) : c.where = "heap" =>
       /\ c.page + c.n <= pages_nb
       /\ \A a \in Own : c.page + c.n <= a.page \/ a.page + pages(a.length) <= c.page
=============================================================================

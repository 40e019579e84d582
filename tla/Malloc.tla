------------------------------- MODULE Malloc -------------------------------
(***************************************************************************)
(* lib/alloc.c: malloc, calloc, realloc and free.                          *)
(*                                                                         *)
(* The unit of sizes and addresses is sizeof(__alloc_t), which is also     *)
(* __MIN_SMALL_SIZE (16 bytes on x86_64): the code tells sizes apart only  *)
(* by the number of units they fill.  A cell of memory is a header or what *)
(* the program stored.  A block goes by the address of its header          *)
(* (BLOCK_START); 0 is the null pointer.  Each call is one step: it runs   *)
(* under mutex_alloc (libpthread/pthread_sys_alloc.c) or in the only       *)
(* thread.  The options WANT_MALLOC_ZERO and WANT_FREE_OVERWRITE are off,  *)
(* as in dietfeatures.h.                                                   *)
(***************************************************************************)
EXTENDS Integers, Sequences, FiniteSets, FiniteSetsExt

CONSTANTS PageSize,  \* MEM_BLOCK_SIZE
          Pages,     \* the pages the kernel can hand out
          SizeMod,   \* size_t counts modulo SizeMod
          MaxBlocks, \* bound: the blocks the program holds at once
          Requests,  \* the sizes the program asks for
          Members,   \* the first argument of calloc
          Tags       \* what the program stores

ASSUME MallocAssumption ==
  /\ \E k \in 1..8 : PageSize = 2^k
  /\ Pages \in Nat \ {0} /\ MaxBlocks \in Nat
  /\ SizeMod \in Nat /\ SizeMod > (Pages + 1) * PageSize /\ SizeMod % PageSize = 0
  /\ Requests \subseteq 0..(SizeMod - 1) /\ Members \subseteq 0..(SizeMod - 1)

MaxSmall == PageSize \div 2

Arena == PageSize..((Pages + 1) * PageSize - 1)

Headers == [next : {0} \cup Arena, size : 0..(Pages * PageSize)]

(* A header is told from what the program stores. *)
ASSUME TagsAssumption == Tags \cap Headers = {}

PageStarts == {i * PageSize : i \in 1..Pages}

Header(next, size) == [next |-> next, size |-> size]

(* The kernel hands out zeroed pages; memset(ptr,0,size) gives the same. *)
Zero == Header(0, 0)

VARIABLES mem,     \* the mapped cells
          small,   \* __small_mem: the heads of the free lists
          blocks   \* the blocks the program holds: [req, known], known cells were set

vars == <<mem, small, blocks>>

heap == [mem |-> mem, small |-> small]

Init ==
  /\ mem = << >>
  /\ small = [i \in 0..7 |-> 0]
  /\ blocks = << >>

-----------------------------------------------------------------------------
(* Sizes. *)

(* How often n is shifted until nothing is left. *)
Shifts(n) == Min({i \in 0..8 : n \div 2 ^ i = 0})

(* Mutant: the size itself is masked and shifted, not the size less 1. *)
get_index_off(size) == Shifts(size % PageSize)

get_index(size) == Shifts((size - 1) % PageSize)

(* GET_SIZE *)
GetSize(size) == 2 ^ get_index(size)

(* PAGE_ALIGN, in the arithmetic of size_t *)
PageAlign(size) == (((size + PageSize - 1) % SizeMod) \div PageSize) * PageSize

-----------------------------------------------------------------------------
(* What the calls do to a heap h.  Each gives the set of possible outcomes:*)
(* the heap and the block returned, 0 for failure.                         *)

Failed(h) == [mem |-> h.mem, small |-> h.small, ptr |-> 0]

Cells(p, n) == p..(p + n - 1)

(* The memory m with the n cells of f from a on. *)
Mapped(m, a, n, f(_)) ==
  [x \in DOMAIN m \cup Cells(a, n) |-> IF x \in Cells(a, n) THEN f(x) ELSE m[x]]

Unmapped(h, n) == {a \in PageStarts : Cells(a, n) \subseteq Arena \ DOMAIN h.mem}

(* do_mmap *)
Mmap(h, n) ==
  {Failed(h)} \cup
  {[mem |-> Mapped(h.mem, a, n, LAMBDA x : Zero), small |-> h.small, ptr |-> a] :
     a \in Unmapped(h, n)}

(* Mutant: nr blocks are linked to a following one, not nr-1. *)
CarveOneMore(h, a, size) ==
  [mem |-> Mapped(h.mem, a, PageSize, LAMBDA x :
              IF (x - a) % size = 0 THEN Header(x + size, 0) ELSE Zero),
   small |-> [h.small EXCEPT ![get_index(size)] = a]]

(* A new page is cut into blocks, each linked to the next. *)
Carve(h, a, size) ==
  [mem |-> Mapped(h.mem, a, PageSize, LAMBDA x :
              IF (x - a) % size = 0 /\ x + size < a + PageSize
              THEN Header(x + size, 0) ELSE Zero),
   small |-> [h.small EXCEPT ![get_index(size)] = a]]

TakeFirst(h, size) ==
  LET p == h.small[get_index(size)]
  IN  [mem   |-> [h.mem EXCEPT ![p].next = 0],
       small |-> [h.small EXCEPT ![get_index(size)] = h.mem[p].next],
       ptr   |-> p]

(* __small_malloc *)
SmallMalloc(h, size) ==
  IF h.small[get_index(size)] # 0
  THEN {TakeFirst(h, size)}
  ELSE {Failed(h)} \cup {TakeFirst(Carve(h, a, size), size) : a \in Unmapped(h, PageSize)}

(* _alloc_libc_malloc: a size of 0 or one that overflows fails. *)
LibcMalloc(h, req) ==
  LET size  == (req + 1) % SizeMod
      need  == IF size <= MaxSmall THEN GetSize(size) ELSE PageAlign(size)
      found == IF size <= MaxSmall THEN SmallMalloc(h, need) ELSE Mmap(h, need)
  IN  IF req = 0 \/ size < 1 \/ need = 0
      THEN {Failed(h)}
      ELSE {IF r.ptr = 0 THEN r ELSE [r EXCEPT !.mem[r.ptr].size = need] : r \in found}

(* Mutant: the block is not zeroed. *)
SmallFreeDirty(h, p, size) ==
  [mem   |-> [h.mem EXCEPT ![p] = Header(h.small[get_index(size)], 0)],
   small |-> [h.small EXCEPT ![get_index(size)] = p]]

(* __small_free *)
SmallFree(h, p, size) ==
  [mem   |-> [x \in DOMAIN h.mem |->
                IF x = p THEN Header(h.small[get_index(size)], 0)
                ELSE IF x \in Cells(p, size) THEN Zero ELSE h.mem[x]],
   small |-> [h.small EXCEPT ![get_index(size)] = p]]

Munmap(h, p, n) ==
  [mem |-> [x \in DOMAIN h.mem \ Cells(p, n) |-> h.mem[x]], small |-> h.small]

(* _alloc_libc_free of a pointer that is not null *)
LibcFree(h, p) ==
  LET size == h.mem[p].size
  IN  IF size = 0 THEN h
      ELSE IF size <= MaxSmall THEN SmallFree(h, p, size) ELSE Munmap(h, p, size)

(* Mutant: the last cell of the block is not copied. *)
CopyShort(h, p, q, size) ==
  [h EXCEPT !.mem = [x \in DOMAIN @ |->
                       IF x \in (q + 1)..(q + size - 2) THEN h.mem[p + (x - q)] ELSE h.mem[x]]]

(* memcpy(new,ptr,size-sizeof(__alloc_t)) *)
Copy(h, p, q, size) ==
  [h EXCEPT !.mem = [x \in DOMAIN @ |->
                       IF x \in (q + 1)..(q + size - 1) THEN h.mem[p + (x - q)] ELSE h.mem[x]]]

(* A small block is moved by malloc, memcpy and free. *)
MoveSmall(h, p, req) ==
  {IF r.ptr = 0 THEN r
   ELSE LET old  == h.mem[p].size
            new  == r.mem[r.ptr].size
            done == LibcFree(Copy(r, p, r.ptr, IF new > old THEN old ELSE new), p)
        IN  [mem |-> done.mem, small |-> done.small, ptr |-> r.ptr] : r \in LibcMalloc(h, req)}

(* mremap with MREMAP_MAYMOVE: a mapping that does not grow stays; one that *)
(* grows stays, moves or fails.                                            *)
Mremap(h, p, n) ==
  LET old  == h.mem[p].size
      rest == Munmap(h, p, old)
      at(a) == [mem   |-> Mapped(rest.mem, a, n, LAMBDA x :
                             IF x = a THEN Header(h.mem[p].next, n)
                             ELSE IF x - a < old THEN h.mem[p + (x - a)] ELSE Zero),
                small |-> h.small,
                ptr   |-> a]
  IN  IF n = 0 THEN {Failed(h)}
      ELSE IF n <= old THEN {at(p)}
      ELSE {Failed(h)} \cup {at(a) : a \in Unmapped(h, n) \cup ({p} \cap Unmapped(rest, n))}

(* __libc_realloc of a pointer that is not null and a size that is not 0 *)
LibcRealloc(h, p, req) ==
  LET sum  == (req + 1) % SizeMod
      size == IF sum <= MaxSmall THEN GetSize(sum) ELSE PageAlign(sum)
  IN  IF sum < 1 THEN {Failed(h)}
      ELSE IF h.mem[p].size = size THEN {[Failed(h) EXCEPT !.ptr = p]}
      ELSE IF h.mem[p].size <= MaxSmall THEN MoveSmall(h, p, req)
      ELSE Mremap(h, p, PageAlign(size))

-----------------------------------------------------------------------------
(* The calls.  free(0) and realloc(0,0) change nothing; realloc(0,n) is    *)
(* malloc(n).                                                              *)

Becomes(h) == mem' = h.mem /\ small' = h.small

(* The blocks without p, and with q as b. *)
Without(p) == [q \in DOMAIN blocks \ {p} |-> blocks[q]]
With(bs, q, b) == [x \in DOMAIN bs \cup {q} |-> IF x = q THEN b ELSE bs[x]]

MayHoldMore == Cardinality(DOMAIN blocks) < MaxBlocks

(* The memory is zero: calloc hands it on as it is. *)
MallocCall(req) ==
  /\ MayHoldMore
  /\ \E r \in LibcMalloc(heap, req) :
       /\ Becomes(r)
       /\ blocks' = IF r.ptr = 0 THEN blocks
                    ELSE With(blocks, r.ptr, [req |-> req, known |-> req])

(* __libc_calloc: a product that overflows fails and changes nothing. *)
CallocCall(nmemb, size) == nmemb * size < SizeMod /\ MallocCall(nmemb * size)

FreeCall(p) ==
  /\ Becomes(LibcFree(heap, p))
  /\ blocks' = Without(p)

(* A size of 0 frees the block; on failure the old block stays. *)
ReallocCall(p, req) ==
  \/ req = 0 /\ FreeCall(p)
  \/ /\ req # 0
     /\ \E r \in LibcRealloc(heap, p, req) :
          /\ Becomes(r)
          /\ LET known == blocks[p].known
             IN  blocks' = IF r.ptr = 0 THEN blocks
                           ELSE With(Without(p), r.ptr,
                                     [req |-> req, known |-> IF known < req THEN known ELSE req])

(* The program fills a block it holds. *)
Store(p, t) ==
  /\ mem' = [x \in DOMAIN mem |-> IF x \in (p + 1)..(p + blocks[p].req) THEN t ELSE mem[x]]
  /\ blocks' = [blocks EXCEPT ![p].known = blocks[p].req]
  /\ UNCHANGED small

Next ==
  \/ \E req \in Requests :
       \/ MallocCall(req)
       \/ \E nmemb \in Members : CallocCall(nmemb, req)
  \/ \E p \in DOMAIN blocks :
       \/ FreeCall(p)
       \/ \E req \in Requests : ReallocCall(p, req)
       \/ \E t \in Tags : Store(p, t)

Spec == Init /\ [][Next]_vars

-----------------------------------------------------------------------------
(* Properties.                                                             *)

(* Types; the head of a free list is mapped and its cell is a header. *)
TypeOK ==
  /\ DOMAIN mem \subseteq Arena
  /\ \A x \in DOMAIN mem :
       mem[x] \in Tags \cup Headers
  /\ DOMAIN small = 0..7
  /\ \A i \in 0..7 : small[i] = 0 \/ (small[i] \in DOMAIN mem /\ mem[small[i]] \notin Tags)
  /\ \A p \in DOMAIN blocks : blocks[p].req \in Requests \cup {k * n : k \in Members, n \in Requests}

Classes == {i \in 0..7 : small[i] # 0}

(* The blocks of free list i, as far as it can be followed. *)
FreeList(i) ==
  LET last == Pages * PageSize
      nth[n \in 0..last] ==
        IF n = 0 THEN small[i]
        ELSE LET x == nth[n - 1]
             IN  IF x \in DOMAIN mem /\ mem[x] \notin Tags THEN mem[x].next ELSE 0
  IN  {nth[n] : n \in 0..last} \ {0}

(* Whatever the order of calls, every mapped cell belongs to exactly one   *)
(* block, held by the program or in the free list of its size: no two      *)
(* blocks overlap, none is lost, and none is smaller than what was asked.  *)
Partition ==
  /\ \A p \in DOMAIN blocks : mem[p] \notin Tags /\ blocks[p].req < mem[p].size
  /\ LET held   == {<<p, mem[p].size>> : p \in DOMAIN blocks}
         free   == UNION {{<<x, 2 ^ i>> : x \in FreeList(i)} : i \in Classes}
         all    == held \cup free
     IN  /\ held \cap free = {}
         /\ UNION {Cells(e[1], e[2]) : e \in all} = DOMAIN mem
         /\ \A d, e \in all : d # e => Cells(d[1], d[2]) \cap Cells(e[1], e[2]) = {}

(* What calloc relies on: a free small block is zero but for its link. *)
FreeBlocksClean ==
  \A i \in Classes : \A x \in FreeList(i) :
    /\ mem[x].size = 0
    /\ \A y \in Cells(x + 1, 2 ^ i - 1) : mem[y] = Zero

(* The blocks as their caller sees them: what the cells really hold. *)
Contents ==
  [p \in DOMAIN blocks |->
     [req |-> blocks[p].req, data |-> [i \in 1..blocks[p].known |-> mem[p + i]]]]

HeapView == INSTANCE Heap WITH blocks <- Contents

(* The allocator implements Heap: no call and no store to one block shows  *)
(* in another, calloc's memory is zero, realloc keeps the common prefix,   *)
(* and a failed call changes nothing.                                      *)
ImplementsHeap == HeapView!Spec

(* Every cell of mapped memory belongs to one block, held or free, and     *)
(* free ones are zero.                                                     *)
HeapSound == TypeOK /\ Partition /\ FreeBlocksClean
=============================================================================

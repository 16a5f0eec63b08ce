---------------------------- MODULE LoaderProofs ----------------------------
(***************************************************************************)
(* Proofs about Loader, for pages, windows and stacks of every size, every *)
(* memory map, every image and any number of runs: which frames are in     *)
(* use, what the parser finds, what the program sees and what is left when *)
(* the shell is back.                                                      *)
(***************************************************************************)
EXTENDS Loader, Lemmas, FiniteSetTheorems

Regions == [type : Nat, base : Nat, length : Nat]
Headers == [type : Nat, vaddr : Nat, offset : Nat, filesz : Nat, memsz : Nat]
Pools == [base : Nat, limit : Nat, used : Nat, next : Nat]
Infos == [entry : Nat, first_vaddr : Nat, last_vaddr : Nat,
          load_offset : Nat, load_filesz : Nat, load_memsz : Nat]
Loops == {"write", "bss", "stack"}
Loaded == Loops \cup {"enter", "user", "back"}
RunRecord == [pc : Loaded \cup {"create"}, image : Images, info : Infos, id : Nat,
              at : Nat, left : Nat, calls : Seq(Nat)]

-----------------------------------------------------------------------------
(* The inductive invariant.                                                 *)

\* [lo, hi) lies in a usable region of the map.
Usable(m, lo, hi) ==
  \E i \in DOMAIN m : m[i].type = 1 /\ m[i].base <= lo /\ hi <= m[i].base + m[i].length

\* Frame f was handed out by pool a over map m.
Given(m, a, f) ==
  f \in Nat /\ f % PageUnits = 0 /\ f >= TwoMeg /\ f < a.next /\ Usable(m, f, f + PageUnits)

PoolInv ==
  /\ map \in Maps /\ alloc \in Pools
  /\ alloc.next % PageUnits = 0 /\ alloc.next >= TwoMeg
  /\ alloc.limit = 0 \/ Usable(map, alloc.next, alloc.limit)
  /\ page_faults \in 0 .. MaxFaults
  /\ \A f \in DOMAIN mem : Given(map, alloc, f) /\ mem[f] \in [Units -> Int]

\* The one user space there is during a run.
SpaceInv ==
  /\ run.id > KernelAspace /\ aspaces = aspace_create(aspace_init, run.id, "user")
  /\ DOMAIN tables = {run.id} /\ DOMAIN user_pt = {run.id}
  /\ Cardinality(tables[run.id]) = 4 /\ \A f \in tables[run.id] : Given(map, alloc, f)
  /\ user_pt[run.id] \in [Pages -> Nat]
  /\ \A p \in Pages : user_pt[run.id][p] # NULL =>
       user_pt[run.id][p] \in DOMAIN mem /\ user_pt[run.id][p] \notin tables[run.id]
  /\ \A p, q \in Pages : user_pt[run.id][p] = user_pt[run.id][q] =>
       p = q \/ user_pt[run.id][p] = NULL

NoSpace == aspaces = aspace_init /\ DOMAIN tables = {} /\ DOMAIN user_pt = {}

RunInv ==
  /\ run = NoRun \/ run \in RunRecord
  /\ next_aspace_id \in Nat /\ next_aspace_id > KernelAspace
  /\ IF run.pc \in Loaded THEN SpaceInv ELSE NoSpace
  /\ root = (IF run.pc \in {"user", "back"} THEN run.id ELSE KernelAspace)
  /\ active \in BOOLEAN /\ (active <=> run.pc = "user")
  /\ run.pc # "prompt" => run.info = elf_parse_image(run.image)

\* Where the copying has got to: the segment up to Reached, the stack up to
\* Cleared.
Low == run.info.first_vaddr
FileEnd == Low + run.info.load_filesz
Size == IF run.info.load_memsz > run.info.load_filesz
        THEN run.info.load_memsz ELSE run.info.load_filesz
StackBase == StackTop - StackPages * PageUnits
Reached == IF run.pc = "write" THEN run.at
           ELSE IF run.pc = "bss" /\ run.info.load_memsz > run.info.load_filesz THEN run.at
           ELSE IF run.pc = "bss" THEN FileEnd ELSE Low + Size
Cleared == IF run.pc \in {"write", "bss"} THEN StackBase
           ELSE IF run.pc = "stack" THEN run.at ELSE StackTop

Progress ==
  /\ run.pc = "write" => Low <= run.at /\ run.at + run.left = FileEnd
  /\ run.pc = "bss" => IF run.info.load_memsz > run.info.load_filesz
                       THEN FileEnd <= run.at /\ run.at + run.left = Low + Size
                       ELSE run.left = 0
  /\ run.pc = "stack" =>
       StackBase <= run.at /\ run.at + run.left = StackTop /\ run.at % PageUnits = 0

\* The size of n pages, the page of an address and the place in it; the page
\* again, counted from the start of the window.
Of(n) == n * PageUnits
On(a) == a \div PageUnits
In(a) == a % PageUnits
Pg(a) == (a - UserBase) \div PageUnits

\* Address a is on a page of [lo, hi).
Touched(a, lo, hi) == lo < hi /\ On(a) \in On(lo) .. On(hi - 1)

\* What address a has to show when the segment has been copied up to hi and
\* the stack been cleared up to cl.
Want(image, info, a, hi, cl) ==
  IF a >= StackBase /\ a < cl THEN 0
  ELSE IF a >= info.first_vaddr /\ a < hi /\ a < info.first_vaddr + info.load_filesz
  THEN ImageUnit(image, info.load_offset + (a - info.first_vaddr))
  ELSE IF Touched(a, info.first_vaddr, hi) THEN 0 ELSE Unmapped

\* Address a shows v in the page table pt over the frames m.
Shows(pt, m, a, v) ==
  IF v = Unmapped THEN pt[Pg(a)] = NULL
  ELSE pt[Pg(a)] # NULL /\ m[pt[Pg(a)]][In(a)] = v

ImageInv ==
  run.pc \in Loaded /\ Untruncated(run.info) =>
    /\ Progress
    /\ \A a \in UserBase .. StackTop - 1 :
         Shows(user_pt[run.id], mem, a, Want(run.image, run.info, a, Reached, Cleared))

LoaderInv == PoolInv /\ RunInv /\ ImageInv

-----------------------------------------------------------------------------
(* Sizes and pages.                                                         *)

LEMMA Consts ==
  /\ PageUnits \in Nat \ {0} /\ OneMeg \in Nat \ {0} /\ TwoMeg \in Nat \ {0}
  /\ UserBase \in Nat \ {0} /\ WindowPages \in Nat \ {0} /\ StackPages \in Nat \ {0}
  /\ MaxRuns \in Nat /\ MaxFaults \in Nat /\ U32 \in Nat \ {0}
  /\ OneMeg < TwoMeg /\ StackPages < WindowPages /\ TwoMeg % PageUnits = 0
  /\ \A m \in Maps : m \in Seq(Regions)
  /\ \A image \in Images :
       /\ image \in [valid : BOOLEAN, entry : Nat, size : 0 .. ImageMax, calls : Seq(Nat),
                     segs : Seq(Headers)]
       /\ image.size \in Nat
<1>1. ImageMax \in Nat
  BY LoaderAssumption
<1>2. ASSUME NEW image \in Images
      PROVE  /\ image \in [valid : BOOLEAN, entry : Nat, size : 0 .. ImageMax, calls : Seq(Nat),
                           segs : Seq(Headers)]
             /\ image.size \in Nat
  BY <1>1, LoaderAssumption DEF Headers
<1> QED
  BY <1>2, LoaderAssumption DEF Regions

\* What a place in the image buffer holds.
LEMMA Holds ==
  ASSUME NEW image \in Images, NEW k \in Int
  PROVE  ImageUnit(image, k) \in Int /\ (k \in Nat => ImageUnit(image, k) # Unmapped)
<1>1. image.size \in Nat
  BY Consts
<1> QED
  BY <1>1 DEF ImageUnit, Stray, Unmapped

\* Sizes cut to 32 bits.
LEMMA Cut ==
  ASSUME NEW info \in Infos
  PROVE  /\ info.load_filesz % U32 \in Nat
         /\ info.load_memsz > info.load_filesz =>
              (info.load_memsz - info.load_filesz) % U32 \in Nat
         /\ Untruncated(info) => info.load_filesz % U32 = info.load_filesz
         /\ Untruncated(info) /\ info.load_memsz > info.load_filesz =>
              (info.load_memsz - info.load_filesz) % U32 = info.load_memsz - info.load_filesz
<1> DEFINE f == info.load_filesz
           m == info.load_memsz
<1>1. f \in Nat /\ m \in Nat /\ U32 \in Nat \ {0}
  BY Consts DEF Infos
<1>2. f % U32 \in 0 .. U32 - 1 /\ (m - f) % U32 \in 0 .. U32 - 1
  <2> HIDE DEF f, m
  <2>1. m - f \in Int /\ f \in Int
    BY <1>1
  <2> QED
    BY <1>1, <2>1, ModRange
<1>3. Untruncated(info) => f < U32 /\ (m > f => m - f < U32)
  BY DEF Untruncated
<1> HIDE DEF f, m
<1>4. f < U32 => f % U32 = f
  <2>1. f < U32 => f \in 0 .. U32 - 1
    BY <1>1
  <2> QED
    BY <1>1, <2>1, ModSmall
<1>5. m > f /\ m - f < U32 => (m - f) % U32 = m - f
  <2>1. m > f /\ m - f < U32 => m - f \in 0 .. U32 - 1
    BY <1>1
  <2> QED
    BY <1>1, <2>1, ModSmall
<1>6. f % U32 \in Nat /\ (m - f) % U32 \in Nat
  BY <1>1, <1>2
<1> QED
  BY <1>3, <1>4, <1>5, <1>6 DEF f, m

LEMMA Multiples ==
  ASSUME NEW n \in Nat
  PROVE  /\ Of(n) \in Nat /\ Of(n + 1) = Of(n) + PageUnits /\ Of(0) = 0 /\ Of(1) = PageUnits
         /\ \A m \in Nat : m <= n => Of(m) <= Of(n)
         /\ \A m \in Nat : m < n => Of(m) + PageUnits <= Of(n)
         /\ \A b \in Int : In(b + Of(n)) = In(b)
<1> DEFINE p == PageUnits
<1>1. p \in Nat \ {0} /\ p \in Int
  BY Consts
<1> HIDE DEF p
<1>2. /\ n * p \in Nat /\ (n + 1) * p = n * p + p /\ 0 * p = 0 /\ 1 * p = p
  BY <1>1
<1>3. ASSUME NEW m \in Nat, m < n
      PROVE  m * p + p <= n * p
  <2>1. n - m \in Int /\ n - m >= 1
    BY <1>3
  <2>2. p * (n - m) >= p
    BY <1>1, <2>1, MulMonotone
  <2>3. p * (n - m) = n * p - m * p /\ n * p \in Int /\ m * p \in Int
    BY <1>1
  <2> QED
    BY <1>1, <2>2, <2>3
<1>4. ASSUME NEW m \in Nat, m <= n
      PROVE  m * p <= n * p
  <2>1. m = n \/ m < n
    BY <1>4
  <2>2. n * p \in Int /\ m * p \in Int
    BY <1>1
  <2> QED
    BY <1>1, <1>3, <2>1, <2>2
<1>5. ASSUME NEW b \in Int
      PROVE  (b + n * p) % p = b % p
  <2>1. n * p = p * n /\ n \in Int
    BY <1>1
  <2>2. (b + p * n) % p = b % p
    BY <1>1, <2>1, ModMultiple
  <2> QED
    BY <2>1, <2>2
<1> QED
  BY <1>2, <1>3, <1>4, <1>5 DEF Of, In, p

\* Where an address lies in its page.
LEMMA Offsets ==
  ASSUME NEW a \in Int
  PROVE  /\ a % PageUnits \in 0 .. PageUnits - 1 /\ a \div PageUnits \in Int
         /\ a = PageUnits * (a \div PageUnits) + (a % PageUnits)
  BY Consts, ModRange, DivMod

-----------------------------------------------------------------------------
(* The pool.                                                                *)

PoolOK(m, a) ==
  /\ a \in Pools /\ a.next % PageUnits = 0 /\ a.next >= TwoMeg
  /\ a.limit = 0 \/ Usable(m, a.next, a.limit)

\* The pages the pool has left end before its limit.
LEMMA Room ==
  ASSUME NEW a \in Pools
  PROVE  /\ FreePages(a) \in Nat
         /\ FreePages(a) > 0 => a.next + Of(FreePages(a)) <= a.limit
<1> DEFINE d == a.limit - a.next
           q == d \div PageUnits
           r == d % PageUnits
<1>1. a.limit \in Nat /\ a.next \in Nat /\ d \in Int
  BY DEF Pools
<1>2. q \in Int /\ r \in 0 .. PageUnits - 1 /\ d = PageUnits * q + r
  BY <1>1, Offsets
<1>3. CASE a.limit <= a.next
  BY <1>3 DEF FreePages
<1>4. CASE ~(a.limit <= a.next)
  <2>1. FreePages(a) = q
    BY <1>4 DEF FreePages
  <2>2. d > 0
    BY <1>1, <1>4
  <2> HIDE DEF q, r, d
  <2>3. PageUnits * q \in Int /\ (q <= -1 => PageUnits * q <= -PageUnits) /\ PageUnits \in Nat \ {0}
    BY <1>2, Consts, MulMonotone
  <2>4. q \in Nat
    BY <1>1, <1>2, <2>2, <2>3
  <2>5. Of(q) <= d
    <3>1. Of(q) = PageUnits * q
      BY <2>3, <2>4 DEF Of
    <3> QED
      BY <1>1, <1>2, <2>3, <3>1
  <2>6. a.next + Of(q) <= a.limit
    <3> DEFINE b == a.next
               l == a.limit
               o == Of(q)
    <3>1. b \in Nat /\ l \in Nat /\ o \in Nat /\ o <= d /\ d = l - b
      BY <1>1, <2>4, <2>5, Multiples DEF d
    <3> HIDE DEF b, l, o
    <3>2. b + o <= l
      BY <3>1
    <3> QED
      BY <3>2 DEF b, l, o
  <2> QED
    BY <2>1, <2>4, <2>6
<1> QED
  BY <1>3, <1>4

\* n pages are handed out.
LEMMA PoolStep ==
  ASSUME NEW m \in Seq(Regions), NEW a, PoolOK(m, a), NEW n \in Nat, n <= FreePages(a)
  PROVE  /\ PoolOK(m, page_alloc(a, n)) /\ page_alloc(a, n).next = a.next + Of(n)
         /\ \A f : Given(m, a, f) => Given(m, page_alloc(a, n), f)
         /\ \A k \in 0 .. n - 1 : Given(m, page_alloc(a, n), Frame(a, k)) /\ Frame(a, k) >= a.next
<1> DEFINE c == page_alloc(a, n)
           b == a.next
           l == a.limit
           w == Of(n)
<1>1. /\ a \in Pools /\ b \in Nat /\ l \in Nat /\ b % PageUnits = 0 /\ b >= TwoMeg
      /\ (l = 0 \/ Usable(m, b, l)) /\ TwoMeg \in Nat \ {0}
  BY Consts DEF PoolOK, Pools
<1>2. w \in Nat /\ (b + w) % PageUnits = b % PageUnits
  <2> HIDE DEF b, l
  <2>1. b \in Int /\ n \in Nat
    BY <1>1
  <2>2. w \in Nat /\ In(b + w) = In(b)
    BY ONLY <2>1, Multiples
  <2> QED
    BY <2>2 DEF In
<1>3. c = [a EXCEPT !.next = b + w, !.used = a.used + w]
  BY DEF page_alloc, Of
<1>4. c \in Pools /\ c.next = b + w /\ c.limit = l
  <2> HIDE DEF w, b, l
  <2>1. a.used \in Nat /\ a.limit = l
    BY <1>1 DEF Pools, l
  <2>2. b + w \in Nat /\ a.used + w \in Nat
    BY <1>1, <1>2, <2>1
  <2> QED
    BY <1>1, <1>3, <2>1, <2>2 DEF Pools
<1> HIDE DEF c
<1>5. n > 0 => b + w <= l
  <2>1. FreePages(a) \in Nat /\ (FreePages(a) > 0 => b + Of(FreePages(a)) <= l)
    BY <1>1, Room
  <2>2. w <= Of(FreePages(a)) /\ Of(FreePages(a)) \in Nat
    BY <2>1, Multiples
  <2> HIDE DEF w, b, l
  <2> QED
    BY <1>1, <1>2, <2>1, <2>2
<1>6. n > 0 => Usable(m, b, l)
  <2> HIDE DEF w, b, l
  <2> QED
    BY <1>1, <1>2, <1>5
<1>7. PoolOK(m, c)
  <2>1. n = 0 => w = 0
    BY Multiples
  <2>2. CASE n = 0
    <3>1. b + w = b
      BY <1>1, <2>1, <2>2
    <3> HIDE DEF w, b, l
    <3> QED
      BY <1>1, <1>4, <3>1 DEF PoolOK
  <2>3. CASE n > 0
    <3> HIDE DEF w, b, l
    <3>1. PICK i \in DOMAIN m : m[i].type = 1 /\ m[i].base <= b /\ l <= m[i].base + m[i].length
      BY <1>6, <2>3 DEF Usable
    <3>a. m[i].base \in Nat
      <4>1. m[i] \in Regions
        BY <3>1, ElementOfSeq
      <4> QED
        BY <4>1 DEF Regions
    <3>2. c.next % PageUnits = 0 /\ c.next >= TwoMeg
      BY <1>1, <1>2, <1>4
    <3>3. Usable(m, c.next, c.limit)
      <4> DEFINE x == m[i].base
                 y == m[i].base + m[i].length
      <4> HIDE DEF x, y
      <4>1. x \in Nat /\ x <= b /\ l <= y
        BY <3>1, <3>a DEF x, y
      <4>2. x <= c.next /\ c.limit <= y
        BY <1>1, <1>2, <1>4, <4>1
      <4> QED
        BY <3>1, <4>2 DEF Usable, x, y
    <3> QED
      BY <1>4, <3>2, <3>3 DEF PoolOK
  <2> QED
    BY <2>2, <2>3
<1>8. ASSUME NEW f, Given(m, a, f)
      PROVE  Given(m, c, f)
  <2> HIDE DEF w, l
  <2>1. f \in Nat /\ f < b
    BY <1>8 DEF Given
  <2>2. f < c.next
    BY <1>1, <1>2, <1>4, <2>1
  <2> QED
    BY <1>8, <2>2 DEF Given
<1>9. ASSUME NEW k \in 0 .. n - 1
      PROVE  Given(m, c, Frame(a, k)) /\ Frame(a, k) >= b
  <2> DEFINE v == Of(k)
             f == Frame(a, k)
  <2>1. f = b + v /\ k \in Nat /\ k < n
    BY DEF Frame, Of
  <2>2. v \in Nat /\ v + PageUnits <= w /\ (b + v) % PageUnits = b % PageUnits
    <3>a. b \in Int /\ k \in Nat /\ n \in Nat /\ k < n
      BY <1>1, <2>1
    <3> HIDE DEF b, l, f
    <3>1. v \in Nat /\ In(b + v) = In(b) /\ v + PageUnits <= w
      BY ONLY <3>a, Multiples
    <3> QED
      BY <3>1 DEF In
  <2>3. PageUnits \in Nat \ {0}
    BY Consts
  <2> HIDE DEF w, b, l, v, f
  <2>4. n > 0
    BY <2>1
  <2>5. PICK i \in DOMAIN m : m[i].type = 1 /\ m[i].base <= b /\ l <= m[i].base + m[i].length
    BY <1>6, <2>4 DEF Usable
  <2>a. m[i].base \in Nat /\ m[i].length \in Nat
    <3>1. m[i] \in Regions
      BY <2>5, ElementOfSeq
    <3> QED
      BY <3>1 DEF Regions
  <2>6. f \in Nat /\ f >= b /\ f >= TwoMeg /\ f < c.next /\ f % PageUnits = 0 /\ f + PageUnits <= l
    BY <1>1, <1>2, <1>4, <1>5, <2>1, <2>2, <2>3, <2>4
  <2>7. Usable(m, f, f + PageUnits)
    <3> DEFINE x == m[i].base
               y == m[i].base + m[i].length
    <3>1. x \in Nat /\ y \in Nat /\ x <= b /\ l <= y
      BY <2>5, <2>a
    <3> HIDE DEF x, y
    <3>2. x <= f /\ f + PageUnits <= y
      BY <1>1, <2>3, <2>6, <3>1
    <3> QED
      BY <2>5, <3>2 DEF Usable, x, y
  <2> QED
    BY <2>6, <2>7 DEF Given, f
<1> QED
  BY <1>4, <1>7, <1>8, <1>9 DEF c

-----------------------------------------------------------------------------
(* memory_init and elf_parse_image: functions defined by recursion.         *)

Bests == [base : Nat, limit : Nat]

\* The pool lies in region i, or there is none.
Chosen(m, b) ==
  \/ b.base = 0 /\ b.limit = 0
  \/ \E i \in DOMAIN m : m[i].type = 1 /\ b.base = m[i].base /\ b.limit = m[i].base + m[i].length

LEMMA LargerType ==
  ASSUME NEW b \in Bests, NEW e \in Regions
  PROVE  Larger(b, e) \in Bests
<1>1. e.base \in Nat /\ e.length \in Nat /\ e.base + e.length \in Nat
  BY DEF Regions
<1> QED
  BY <1>1 DEF Larger, Bests

\* The choice among the regions, step by step.
LEMMA LargestSteps ==
  ASSUME NEW m \in Seq(Regions)
  PROVE  \E f \in [0 .. Len(m) -> Bests] :
           /\ f[0] = [base |-> 0, limit |-> 0]
           /\ \A i \in 1 .. Len(m) : f[i] = Larger(f[i - 1], m[i])
           /\ Largest(m) = f[Len(m)]
<1> DEFINE k == Len(m)
           z == [base |-> 0, limit |-> 0]
           h == [p \in Bests \X (1 .. k) |-> Larger(p[1], m[p[2]])]
           Body(f) == [i \in 0 .. k |-> IF i = 0 THEN z ELSE Larger(f[i - 1], m[i])]
           g == CHOOSE f : f = Body(f)
<1>1. k \in Nat /\ z \in Bests /\ \A i \in 1 .. k : m[i] \in Regions
  BY DEF Bests
<1> HIDE DEF z
<1>2. h \in [Bests \X (1 .. k) -> Bests]
  <2>1. ASSUME NEW p \in Bests \X (1 .. k)
        PROVE  Larger(p[1], m[p[2]]) \in Bests
    <3>1. p[1] \in Bests /\ p[2] \in 1 .. k
      OBVIOUS
    <3> QED
      BY <1>1, <3>1, LargerType
  <2> QED
    BY <2>1
<1>3. PICK f \in [0 .. k -> Bests] : f[0] = z /\ \A i \in 1 .. k : f[i] = h[<<f[i - 1], i>>]
  <2> HIDE DEF k, h
  <2>1. \E f : IsRecursion(f, k, Bests, z, h)
    BY <1>1, <1>2, RecursionExists DEF Steps
  <2> QED
    BY <2>1 DEF IsRecursion
<1>4. \A i \in 1 .. k : f[i] = Larger(f[i - 1], m[i])
  <2> TAKE i \in 1 .. k
  <2>1. f[i - 1] \in Bests
    BY <1>1, <1>3
  <2> QED
    BY <1>3, <2>1
<1>5. f = Body(f)
  <2> HIDE DEF k
  <2>1. \A i \in 0 .. k : f[i] = IF i = 0 THEN z ELSE Larger(f[i - 1], m[i])
    BY <1>1, <1>3, <1>4
  <2> QED
    BY <1>3, <2>1
<1>6. g = Body(g)
  <2> HIDE DEF Body
  <2> QED
    BY <1>5
<1>7. Largest(m) = g[k]
  BY DEF Largest, z
<1> HIDE DEF g, k, h
<1>8. g[0] = z /\ \A i \in 1 .. k : g[i] = Larger(g[i - 1], m[i])
  BY <1>1, <1>6
<1>9. \A i \in 0 .. k : g[i] \in Bests
  <2> DEFINE T == {i \in 0 .. k : g[i] \in Bests}
  <2>1. 0 \in T
    BY <1>1, <1>8
  <2>2. ASSUME NEW n \in 0 .. k - 1, n \in T
        PROVE  n + 1 \in T
    <3>1. n + 1 \in 1 .. k /\ (n + 1) - 1 = n /\ n + 1 \in 0 .. k
      BY <1>1
    <3>2. g[n + 1] = Larger(g[n], m[n + 1])
      BY <1>8, <3>1
    <3> QED
      BY <1>1, <2>2, <3>1, <3>2, LargerType
  <2> HIDE DEF T
  <2>3. 0 .. k \subseteq T
    BY <1>1, <2>1, <2>2, SetInduction
  <2> QED
    BY <2>3 DEF T
<1>10. g \in [0 .. k -> Bests]
  BY <1>6, <1>9
<1> QED
  BY <1>7, <1>8, <1>10 DEF k, z

LEMMA LargestIs ==
  ASSUME NEW m \in Seq(Regions)
  PROVE  Largest(m) \in Bests /\ Chosen(m, Largest(m))
<1> DEFINE k == Len(m)
<1>1. PICK f \in [0 .. k -> Bests] :
        /\ f[0] = [base |-> 0, limit |-> 0]
        /\ \A i \in 1 .. k : f[i] = Larger(f[i - 1], m[i])
        /\ Largest(m) = f[k]
  BY LargestSteps
<1>2. k \in Nat /\ DOMAIN m = 1 .. k
  OBVIOUS
<1> HIDE DEF k
<1> DEFINE T == {i \in 0 .. k : Chosen(m, f[i])}
<1>3. 0 \in T
  BY <1>1, <1>2 DEF Chosen
<1>4. ASSUME NEW n \in 0 .. k - 1, n \in T
      PROVE  n + 1 \in T
  <2>1. n + 1 \in 1 .. k /\ (n + 1) - 1 = n /\ n + 1 \in 0 .. k
    BY <1>2
  <2>2. f[n + 1] = Larger(f[n], m[n + 1]) /\ Chosen(m, f[n]) /\ n + 1 \in DOMAIN m
    BY <1>1, <1>2, <1>4, <2>1
  <2>3. Chosen(m, f[n + 1])
    BY <2>2 DEF Larger, Eligible, Chosen
  <2> QED
    BY <2>1, <2>3
<1> HIDE DEF T
<1>5. 0 .. k \subseteq T
  BY <1>2, <1>3, <1>4, SetInduction
<1>6. k \in 0 .. k
  BY <1>2
<1> QED
  BY <1>1, <1>5, <1>6 DEF T

\* The next multiple of a page.
LEMMA RoundUp ==
  ASSUME NEW b \in Nat
  PROVE  LET n == ((b + PageUnits - 1) \div PageUnits) * PageUnits
         IN n \in Nat /\ n >= b /\ n % PageUnits = 0
<1> DEFINE p == PageUnits
           c == b + p - 1
           q == c \div p
           r == c % p
           n == q * p
<1>1. p \in Nat \ {0} /\ p \in Int /\ c \in Nat /\ c = b + p - 1
  BY Consts
<1>2. q \in Int /\ r \in 0 .. p - 1 /\ c = p * q + r
  BY <1>1, ModRange, DivMod
<1> HIDE DEF p, c, q, r
<1>3. n = p * q /\ p * q \in Int
  BY <1>1, <1>2
<1> HIDE DEF n
<1>4. n \in Nat /\ n >= b
  BY <1>1, <1>2, <1>3
<1>5. n % p = 0
  <2>1. n \in Int /\ 0 \in 0 .. p - 1 /\ n = p * q + 0
    BY <1>1, <1>3, <1>4
  <2> QED
    BY ONLY <1>1, <1>2, <2>1, ModUnique
<1> QED
  BY <1>4, <1>5 DEF p, c, q, n

LEMMA PoolInit ==
  ASSUME NEW m \in Seq(Regions)
  PROVE  PoolOK(m, memory_init(m))
<1> DEFINE b == Largest(m)
           s == IF b.base < TwoMeg THEN TwoMeg ELSE b.base
           n == ((s + PageUnits - 1) \div PageUnits) * PageUnits
<1>1. b \in Bests /\ Chosen(m, b)
  BY LargestIs
<1>2. b.base \in Nat /\ b.limit \in Nat /\ TwoMeg \in Nat \ {0}
  BY <1>1, Consts DEF Bests
<1>3. memory_init(m) = [base |-> s, limit |-> b.limit, used |-> 0, next |-> n]
  BY DEF memory_init
<1> HIDE DEF b
<1>4. s \in Nat /\ s >= TwoMeg /\ s >= b.base
  BY <1>2
<1> HIDE DEF s
<1>5. n \in Nat /\ n >= s /\ n % PageUnits = 0
  BY <1>4, RoundUp
<1> HIDE DEF n
<1>6. n >= TwoMeg /\ b.base <= n
  BY <1>2, <1>4, <1>5
<1>7. b.limit = 0 \/ Usable(m, n, b.limit)
  <2>1. CASE b.base = 0 /\ b.limit = 0
    BY <2>1
  <2>2. ASSUME NEW i \in DOMAIN m, m[i].type = 1, b.base = m[i].base, b.limit = m[i].base + m[i].length
        PROVE  Usable(m, n, b.limit)
    <3>1. m[i].base <= n /\ b.limit <= m[i].base + m[i].length
      BY <1>2, <1>6, <2>2
    <3> QED
      BY <2>2, <3>1 DEF Usable
  <2> QED
    BY <1>1, <2>1, <2>2 DEF Chosen
<1> QED
  BY <1>2, <1>3, <1>4, <1>5, <1>6, <1>7 DEF PoolOK, Pools

Founds == [first : Nat, last : Nat]

LEMMA ScannedType ==
  ASSUME NEW b \in Founds, NEW e \in Headers
  PROVE  Scanned(b, e) \in Founds
<1>1. e.vaddr \in Nat /\ e.memsz \in Nat /\ e.vaddr + e.memsz \in Nat
  BY DEF Headers
<1> QED
  BY <1>1 DEF Scanned, First, Founds

\* The scan over the program headers, step by step.
LEMMA ScanSteps ==
  ASSUME NEW m \in Seq(Headers)
  PROVE  \E f \in [0 .. Len(m) -> Founds] :
           /\ f[0] = [first |-> 0, last |-> 0]
           /\ \A i \in 1 .. Len(m) : f[i] = Scanned(f[i - 1], m[i])
           /\ Scan(m) = f[Len(m)]
<1> DEFINE k == Len(m)
           z == [first |-> 0, last |-> 0]
           h == [p \in Founds \X (1 .. k) |-> Scanned(p[1], m[p[2]])]
           Body(f) == [i \in 0 .. k |-> IF i = 0 THEN z ELSE Scanned(f[i - 1], m[i])]
           g == CHOOSE f : f = Body(f)
<1>1. k \in Nat /\ z \in Founds /\ \A i \in 1 .. k : m[i] \in Headers
  BY DEF Founds
<1> HIDE DEF z
<1>2. h \in [Founds \X (1 .. k) -> Founds]
  <2>1. ASSUME NEW p \in Founds \X (1 .. k)
        PROVE  Scanned(p[1], m[p[2]]) \in Founds
    <3>1. p[1] \in Founds /\ p[2] \in 1 .. k
      OBVIOUS
    <3> QED
      BY <1>1, <3>1, ScannedType
  <2> QED
    BY <2>1
<1>3. PICK f \in [0 .. k -> Founds] : f[0] = z /\ \A i \in 1 .. k : f[i] = h[<<f[i - 1], i>>]
  <2> HIDE DEF k, h
  <2>1. \E f : IsRecursion(f, k, Founds, z, h)
    BY <1>1, <1>2, RecursionExists DEF Steps
  <2> QED
    BY <2>1 DEF IsRecursion
<1>4. \A i \in 1 .. k : f[i] = Scanned(f[i - 1], m[i])
  <2> TAKE i \in 1 .. k
  <2>1. f[i - 1] \in Founds
    BY <1>1, <1>3
  <2> QED
    BY <1>3, <2>1
<1>5. f = Body(f)
  <2> HIDE DEF k
  <2>1. \A i \in 0 .. k : f[i] = IF i = 0 THEN z ELSE Scanned(f[i - 1], m[i])
    BY <1>1, <1>3, <1>4
  <2> QED
    BY <1>3, <2>1
<1>6. g = Body(g)
  <2> HIDE DEF Body
  <2> QED
    BY <1>5
<1>7. Scan(m) = g[k]
  BY DEF Scan, z
<1> HIDE DEF g, k, h
<1>8. g[0] = z /\ \A i \in 1 .. k : g[i] = Scanned(g[i - 1], m[i])
  BY <1>1, <1>6
<1>9. \A i \in 0 .. k : g[i] \in Founds
  <2> DEFINE T == {i \in 0 .. k : g[i] \in Founds}
  <2>1. 0 \in T
    BY <1>1, <1>8
  <2>2. ASSUME NEW n \in 0 .. k - 1, n \in T
        PROVE  n + 1 \in T
    <3>1. n + 1 \in 1 .. k /\ (n + 1) - 1 = n /\ n + 1 \in 0 .. k
      BY <1>1
    <3>2. g[n + 1] = Scanned(g[n], m[n + 1])
      BY <1>8, <3>1
    <3> QED
      BY <1>1, <2>2, <3>1, <3>2, ScannedType
  <2> HIDE DEF T
  <2>3. 0 .. k \subseteq T
    BY <1>1, <2>1, <2>2, SetInduction
  <2> QED
    BY <2>3 DEF T
<1>10. g \in [0 .. k -> Founds]
  BY <1>6, <1>9
<1> QED
  BY <1>7, <1>8, <1>10 DEF k, z

\* What the scan has found among the first n headers.
Among(m, n, b) ==
  /\ b.first # 0 => \E j \in 1 .. n : m[j].type = 1 /\ m[j].vaddr = b.first
  /\ (\A j \in 1 .. n : m[j].type = 1 => m[j].vaddr # 0) =>
       /\ \A j \in 1 .. n : m[j].type = 1 =>
            b.first # 0 /\ b.first <= m[j].vaddr /\ m[j].vaddr + m[j].memsz <= b.last
       /\ IF b.first = 0 THEN b.last = 0
          ELSE \E j \in 1 .. n : m[j].type = 1 /\ b.last = m[j].vaddr + m[j].memsz

LEMMA ScanIs ==
  ASSUME NEW m \in Seq(Headers)
  PROVE  Scan(m) \in Founds /\ Among(m, Len(m), Scan(m))
<1> DEFINE k == Len(m)
<1>1. PICK f \in [0 .. k -> Founds] :
        /\ f[0] = [first |-> 0, last |-> 0]
        /\ \A i \in 1 .. k : f[i] = Scanned(f[i - 1], m[i])
        /\ Scan(m) = f[k]
  BY ScanSteps
<1>2. k \in Nat /\ \A i \in 1 .. k : m[i] \in Headers
  OBVIOUS
<1> HIDE DEF k
<1> DEFINE T == {i \in 0 .. k : Among(m, i, f[i])}
<1>3. 0 \in T
  BY <1>1, <1>2 DEF Among
<1>4. ASSUME NEW n \in 0 .. k - 1, n \in T
      PROVE  n + 1 \in T
  <2> DEFINE b == f[n]
             c == f[n + 1]
             e == m[n + 1]
             v == e.vaddr
             t == e.vaddr + e.memsz
             o == b.first
             l == b.last
  <2>1. n + 1 \in 1 .. k /\ (n + 1) - 1 = n /\ n + 1 \in 0 .. k /\ n \in 0 .. k
    BY <1>2
  <2>2. c = Scanned(b, e) /\ Among(m, n, b) /\ e \in Headers /\ b \in Founds
    BY <1>1, <1>2, <1>4, <2>1
  <2>3. /\ \A j \in 1 .. n + 1 : j \in 1 .. n \/ j = n + 1
        /\ \A j \in 1 .. n : j \in 1 .. n + 1
        /\ n + 1 \in 1 .. n + 1
    BY <2>1
  <2>4. v \in Nat /\ t \in Nat /\ o \in Nat /\ l \in Nat
    <3>1. e.vaddr \in Nat /\ e.memsz \in Nat /\ b.first \in Nat /\ b.last \in Nat
      BY <2>2 DEF Headers, Founds
    <3> QED
      BY <3>1, SMTT(30)
  <2>5. CASE e.type # 1
    <3>1. c = b
      BY <2>2, <2>5 DEF Scanned
    <3>2. Among(m, n + 1, b)
      BY <2>2, <2>3, <2>5 DEF Among
    <3> QED
      BY <2>1, <3>1, <3>2
  <2>6. CASE e.type = 1
    <3> DEFINE o2 == c.first
               l2 == c.last
    <3>1. /\ o2 = IF o = 0 \/ v < o THEN v ELSE o
          /\ l2 = IF t > l THEN t ELSE l
      BY <2>2, <2>6 DEF Scanned, First
    <3>2. \A j \in 1 .. n : m[j].vaddr \in Nat /\ m[j].vaddr + m[j].memsz \in Nat
      <4> TAKE j \in 1 .. n
      <4>1. m[j] \in Headers
        BY <1>2, <2>1
      <4> QED
        BY <4>1, SMTT(30) DEF Headers
    <3>3. o2 # 0 => \E j \in 1 .. n + 1 : m[j].type = 1 /\ m[j].vaddr = o2
      <4>1. o2 = v \/ (o2 = o /\ o # 0)
        BY <2>4, <3>1
      <4>2. CASE o2 = v
        BY <2>3, <2>6, <4>2
      <4>3. CASE o2 = o /\ o # 0
        BY <2>2, <2>3, <4>3 DEF Among
      <4> QED
        BY <4>1, <4>2, <4>3
    <3>4. ASSUME \A j \in 1 .. n + 1 : m[j].type = 1 => m[j].vaddr # 0
          PROVE  /\ \A j \in 1 .. n + 1 : m[j].type = 1 =>
                      o2 # 0 /\ o2 <= m[j].vaddr /\ m[j].vaddr + m[j].memsz <= l2
                 /\ o2 # 0 /\ \E j \in 1 .. n + 1 : m[j].type = 1 /\ l2 = m[j].vaddr + m[j].memsz
      <4>1. v # 0 /\ \A j \in 1 .. n : m[j].type = 1 => m[j].vaddr # 0
        BY <2>3, <2>6, <3>4
      <4>2. /\ \A j \in 1 .. n : m[j].type = 1 => o # 0 /\ o <= m[j].vaddr /\ m[j].vaddr + m[j].memsz <= l
            /\ o # 0 => \E j \in 1 .. n : m[j].type = 1 /\ l = m[j].vaddr + m[j].memsz
        BY <2>2, <4>1 DEF Among
      <4>3. o2 \in Nat /\ l2 \in Nat /\ o2 # 0 /\ o2 <= v /\ t <= l2 /\ l <= l2 /\ (o # 0 => o2 <= o)
            /\ (l2 = t \/ l2 = l)
        <5> HIDE DEF o2, l2, o, l, v, t
        <5> QED
          BY <2>4, <3>1, <4>1
      <4>4. ASSUME NEW j \in 1 .. n, m[j].type = 1
            PROVE  o2 <= m[j].vaddr /\ m[j].vaddr + m[j].memsz <= l2
        <5> DEFINE x == m[j].vaddr
                   y == m[j].vaddr + m[j].memsz
        <5>1. x \in Nat /\ y \in Nat /\ o # 0 /\ o <= x /\ y <= l
          BY <3>2, <4>2, <4>4
        <5> HIDE DEF o2, l2, o, l, x, y
        <5>2. o2 <= x /\ y <= l2
          BY <2>4, <4>3, <5>1
        <5> QED
          BY <5>2 DEF x, y
      <4>5. \A j \in 1 .. n + 1 : m[j].type = 1 =>
              o2 # 0 /\ o2 <= m[j].vaddr /\ m[j].vaddr + m[j].memsz <= l2
        BY <2>3, <4>3, <4>4
      <4>6. \E j \in 1 .. n + 1 : m[j].type = 1 /\ l2 = m[j].vaddr + m[j].memsz
        <5>1. CASE l2 = t
          BY <2>3, <2>6, <5>1
        <5>2. CASE l2 # t
          <6>1. l2 = l /\ t <= l /\ l # t
            BY <4>3, <5>2
          <6>2. l # 0
            BY <2>4, <6>1
          <6>3. o # 0
            <7>1. CASE o = 0
              <8>1. b.last = 0
                BY <2>2, <4>1, <7>1, <6>2 DEF Among
              <8> QED
                BY <8>1, <6>2
            <7> QED
              BY <7>1
          <6> QED
            BY <2>3, <4>2, <6>1, <6>3
        <5> QED
          BY <5>1, <5>2
      <4> QED
        BY <4>3, <4>5, <4>6
    <3>5. Among(m, n + 1, c)
      <4> HIDE DEF b, c, e
      <4> QED
        BY <3>3, <3>4 DEF Among
    <3> QED
      BY <2>1, <3>5
  <2> QED
    BY <2>5, <2>6
<1> HIDE DEF T
<1>5. 0 .. k \subseteq T
  BY <1>2, <1>3, <1>4, SetInduction
<1>6. k \in 0 .. k
  BY <1>2
<1> QED
  BY <1>1, <1>5, <1>6 DEF T, k

LEMMA MinIs ==
  ASSUME NEW S, S \subseteq Nat, S # {}
  PROVE  Min(S) \in S /\ \A y \in S : Min(S) <= y
  BY LeastNatural DEF Min

LEMMA MaxIs ==
  ASSUME NEW S, S \subseteq Nat, NEW x \in S, \A y \in S : y <= x
  PROVE  Max(S) = x
<1>1. \A y \in S : x >= y
  OBVIOUS
<1>2. Max(S) \in S /\ \A y \in S : Max(S) >= y
  BY <1>1 DEF Max
<1>3. Max(S) \in Nat /\ x \in Nat /\ Max(S) >= x /\ x >= Max(S)
  BY <1>1, <1>2
<1> QED
  BY <1>3

\* What the parser returns for an image.
LEMMA ParseIs ==
  ASSUME NEW image \in Images
  PROVE  LET info == elf_parse_image(image)
         IN /\ info \in Infos
            /\ (\A s \in Segments(image) : s.vaddr # 0) =>
                 /\ Segments(image) # {} =>
                      /\ \E s \in Segments(image) :
                           /\ IsLowest(image, s) /\ info.first_vaddr = s.vaddr
                           /\ info.load_offset = s.offset /\ info.load_filesz = s.filesz
                      /\ info.last_vaddr = Max({s.vaddr + s.memsz : s \in Segments(image)})
                 /\ Segments(image) = {} => info.load_memsz = 0
<1> DEFINE m == image.segs
           b == Scan(m)
           L == Loadable(image)
           lowest == {i \in L : m[i].vaddr = b.first}
           none == [offset |-> 0, filesz |-> 0, memsz |-> 0]
           seg == IF b.first # 0 THEN m[Min(lowest)] ELSE none
           info == elf_parse_image(image)
<1>1. m \in Seq(Headers) /\ image.entry \in Nat
  BY Consts
<1>2. b \in Founds /\ Among(m, Len(m), b) /\ b.first \in Nat /\ b.last \in Nat
  BY <1>1, ScanIs DEF Founds
<1>3. L = {i \in 1 .. Len(m) : m[i].type = 1} /\ Len(m) \in Nat /\ \A i \in 1 .. Len(m) : m[i] \in Headers
  BY <1>1 DEF Loadable
<1>4. info = [entry |-> image.entry, first_vaddr |-> b.first, last_vaddr |-> b.last,
              load_offset |-> seg.offset, load_filesz |-> seg.filesz, load_memsz |-> seg.memsz]
  BY DEF elf_parse_image
<1>5. Segments(image) = {m[i] : i \in L}
  BY DEF Segments
<1> HIDE DEF m, b, L, info
<1>6. b.first # 0 => Min(lowest) \in lowest
  <2>1. lowest \subseteq Nat
    BY <1>3
  <2>2. b.first # 0 => lowest # {}
    BY <1>2, <1>3 DEF Among
  <2> QED
    BY <2>1, <2>2, MinIs
<1> HIDE DEF lowest
<1>7. b.first # 0 => seg \in Headers /\ seg \in Segments(image) /\ seg.vaddr = b.first
  BY <1>3, <1>5, <1>6 DEF lowest
<1>8. b.first = 0 => seg = none
  OBVIOUS
<1>9. seg.offset \in Nat /\ seg.filesz \in Nat /\ seg.memsz \in Nat
  <2> HIDE DEF seg
  <2> QED
    BY <1>7, <1>8 DEF Headers
<1> HIDE DEF seg
<1>10. info \in Infos
  BY <1>1, <1>2, <1>4, <1>9 DEF Infos
<1>11. /\ info.first_vaddr = b.first /\ info.last_vaddr = b.last
       /\ info.load_offset = seg.offset /\ info.load_filesz = seg.filesz /\ info.load_memsz = seg.memsz
  BY <1>4
<1>12. ASSUME \A s \in Segments(image) : s.vaddr # 0
       PROVE  /\ Segments(image) # {} =>
                   /\ \E s \in Segments(image) :
                        /\ IsLowest(image, s) /\ info.first_vaddr = s.vaddr
                        /\ info.load_offset = s.offset /\ info.load_filesz = s.filesz
                   /\ info.last_vaddr = Max({s.vaddr + s.memsz : s \in Segments(image)})
              /\ Segments(image) = {} => info.load_memsz = 0
  <2>1. \A j \in 1 .. Len(m) : m[j].type = 1 => m[j].vaddr # 0
    BY <1>3, <1>5, <1>12
  <2>2. /\ \A j \in 1 .. Len(m) : m[j].type = 1 =>
             b.first # 0 /\ b.first <= m[j].vaddr /\ m[j].vaddr + m[j].memsz <= b.last
        /\ b.first # 0 => \E j \in 1 .. Len(m) : m[j].type = 1 /\ b.last = m[j].vaddr + m[j].memsz
    BY <1>2, <2>1 DEF Among
  <2>3. CASE Segments(image) = {}
    <3>1. b.first = 0
      BY <1>7, <2>3
    <3> QED
      BY <1>8, <1>11, <2>3, <3>1
  <2>4. CASE Segments(image) # {}
    <3>1. b.first # 0
      BY <1>3, <1>5, <2>2, <2>4
    <3>2. IsLowest(image, seg)
      <4>1. \A s \in Segments(image) : b.first <= s.vaddr
        BY <1>3, <1>5, <2>2
      <4> QED
        BY <1>7, <3>1, <4>1 DEF IsLowest
    <3> DEFINE S == {s.vaddr + s.memsz : s \in Segments(image)}
    <3>3. S \subseteq Nat
      <4>1. ASSUME NEW s \in Segments(image)
            PROVE  s.vaddr + s.memsz \in Nat
        <5>1. s \in Headers
          BY <1>3, <1>5
        <5>2. s.vaddr \in Nat /\ s.memsz \in Nat
          BY <5>1 DEF Headers
        <5> QED
          BY <5>2
      <4> QED
        BY <4>1
    <3>4. b.last \in S
      BY <1>3, <1>5, <2>2, <3>1
    <3>5. \A y \in S : y <= b.last
      BY <1>3, <1>5, <2>2
    <3> HIDE DEF S
    <3>6. Max(S) = b.last
      BY <3>3, <3>4, <3>5, MaxIs
    <3> QED
      BY <1>7, <1>11, <2>4, <3>1, <3>2, <3>6 DEF S
  <2> QED
    BY <2>3, <2>4
<1> QED
  BY <1>10, <1>12 DEF info

-----------------------------------------------------------------------------
(* The steps that leave the address spaces alone.                           *)

CoreInv == PoolInv /\ RunInv

\* A run that is under way has its locals.
LEMMA RunTypes ==
  ASSUME RunInv, run.pc # "prompt"
  PROVE  /\ run \in RunRecord
         /\ run.pc \in Loaded \cup {"create"} /\ run.image \in Images /\ run.info \in Infos
         /\ run.id \in Nat /\ run.at \in Nat /\ run.left \in Nat /\ run.calls \in Seq(Nat)
         /\ run.info.first_vaddr \in Nat /\ run.info.load_offset \in Nat
         /\ run.info.load_filesz \in Nat /\ run.info.load_memsz \in Nat
         /\ run.info = elf_parse_image(run.image)
<1>1. run \in RunRecord
  BY DEF RunInv, NoRun
<1> QED
  BY <1>1 DEF RunInv, RunRecord, Infos

LEMMA PoolTypes ==
  ASSUME PoolInv
  PROVE  map \in Seq(Regions) /\ PoolOK(map, alloc)
  BY Consts DEF PoolInv, PoolOK

LEMMA InitCore ==
  ASSUME Init
  PROVE  CoreInv
<1>1. map \in Seq(Regions)
  BY Consts DEF Init
<1>2. PoolOK(map, alloc)
  BY <1>1, PoolInit DEF Init
<1>3. PoolInv
  BY <1>2, Consts DEF Init, PoolInv, PoolOK
<1>4. NoSpace
  BY DEF Init, NoSpace
<1>5. run.pc = "prompt" /\ run = NoRun
  BY DEF Init, NoRun
<1>6. active \in BOOLEAN /\ ~active
  BY DEF Init
<1>7. next_aspace_id = KernelAspace + 1 /\ root = KernelAspace
  BY DEF Init
<1>8. RunInv
  BY <1>4, <1>5, <1>6, <1>7 DEF RunInv, KernelAspace, Loaded, Loops
<1> QED
  BY <1>3, <1>8 DEF CoreInv

LEMMA PoolQuiet ==
  ASSUME PoolInv, UNCHANGED <<map, spaces>>, page_faults' \in 0 .. MaxFaults
  PROVE  PoolInv'
<1>1. UNCHANGED <<map, alloc, mem>>
  BY DEF spaces
<1> QED
  BY <1>1 DEF PoolInv, Given, Usable

LEMMA SpaceQuiet ==
  ASSUME SpaceInv, UNCHANGED <<map, spaces>>, run'.id = run.id
  PROVE  SpaceInv'
<1>1. UNCHANGED <<map, alloc, mem, aspaces, tables, user_pt>>
  BY DEF spaces
<1> QED
  BY <1>1 DEF SpaceInv, Given, Usable

LEMMA StepRefuse ==
  ASSUME CoreInv, Refuse
  PROVE  CoreInv'
<1>1. page_faults' \in 0 .. MaxFaults /\ UNCHANGED <<map, spaces>>
  BY DEF CoreInv, PoolInv, Refuse
<1>2. PoolInv'
  BY <1>1, PoolQuiet DEF CoreInv
<1>3. RunInv'
  BY DEF CoreInv, RunInv, Refuse, spaces, NoSpace, NoRun, Loaded, Loops
<1> QED
  BY <1>2, <1>3 DEF CoreInv

LEMMA StepStart ==
  ASSUME CoreInv, NEW image \in Images, Start(image)
  PROVE  CoreInv'
<1>1. page_faults' \in 0 .. MaxFaults /\ UNCHANGED <<map, spaces>>
  BY DEF CoreInv, PoolInv, Start
<1>2. PoolInv'
  BY <1>1, PoolQuiet DEF CoreInv
<1>3. elf_parse_image(image) \in Infos /\ image.calls \in Seq(Nat)
  BY ParseIs, Consts
<1>4. run' \in RunRecord /\ run'.pc = "create" /\ run'.info = elf_parse_image(run'.image)
  BY <1>3 DEF Start, RunRecord, NoAspace, Loaded
<1>5. RunInv'
  BY <1>4 DEF CoreInv, RunInv, Start, spaces, NoSpace, Loaded, Loops
<1> QED
  BY <1>2, <1>5 DEF CoreInv

LEMMA StepCopyDone ==
  ASSUME CoreInv, CopyDone
  PROVE  CoreInv'
<1>1. page_faults' \in 0 .. MaxFaults /\ UNCHANGED <<map, spaces>>
  BY DEF CoreInv, PoolInv, CopyDone
<1>2. PoolInv'
  BY <1>1, PoolQuiet DEF CoreInv
<1>3. run.pc # "prompt" /\ run.pc \in Loaded /\ RunInv /\ run.pc \notin {"user", "back"}
  BY DEF CopyDone, Loaded, Loops, CoreInv
<1>4. /\ StackTop - StackPages * PageUnits \in Nat /\ StackPages * PageUnits \in Nat
      /\ run.info.load_memsz > run.info.load_filesz =>
           (run.info.load_memsz - run.info.load_filesz) % U32 \in Nat
      /\ run.info.first_vaddr + run.info.load_filesz \in Nat
  <2>1. /\ Of(StackPages) \in Nat /\ Of(WindowPages) \in Nat /\ Of(StackPages) <= Of(WindowPages)
        /\ UserBase \in Nat
    BY Consts, Multiples
  <2>2. StackTop = UserBase + Of(WindowPages)
    BY DEF StackTop, Of
  <2>3. StackTop - Of(StackPages) \in Nat
    BY <2>1, <2>2
  <2>4. run.info \in Infos /\ run.info.load_filesz \in Nat /\ run.info.first_vaddr \in Nat
    BY <1>3, RunTypes
  <2>5. /\ run.info.load_memsz > run.info.load_filesz =>
             (run.info.load_memsz - run.info.load_filesz) % U32 \in Nat
        /\ run.info.first_vaddr + run.info.load_filesz \in Nat
    BY <2>4, Cut
  <2> QED
    BY <2>1, <2>3, <2>5 DEF Of
<1>5. /\ run' \in RunRecord /\ run'.pc \in {"bss", "stack", "enter"} /\ run'.id = run.id
      /\ run'.info = run.info /\ run'.image = run.image
  <2>1. run \in RunRecord
    BY <1>3, RunTypes
  <2> QED
    BY <1>4, <2>1 DEF CopyDone, LoopBss, LoopStack, Loop, RunRecord, Loaded, Loops
<1>6. SpaceInv'
  BY <1>1, <1>3, <1>5, SpaceQuiet DEF RunInv
<1>7. RunInv'
  BY <1>3, <1>5, <1>6 DEF RunInv, CopyDone, spaces, Loaded, Loops
<1> QED
  BY <1>2, <1>7 DEF CoreInv

LEMMA StepEnter ==
  ASSUME CoreInv, Enter
  PROVE  CoreInv'
<1>1. page_faults' \in 0 .. MaxFaults /\ UNCHANGED <<map, spaces>>
  BY DEF CoreInv, PoolInv, Enter
<1>2. PoolInv'
  BY <1>1, PoolQuiet DEF CoreInv
<1>3. run.pc = "enter" /\ run.pc \in Loaded /\ RunInv /\ SpaceInv /\ run \in RunRecord /\ ~active
  BY RunTypes DEF Enter, Loaded, CoreInv, RunInv
<1>4. /\ run' \in RunRecord /\ run'.pc = "user" /\ run'.id = run.id
      /\ run'.info = run.info /\ run'.image = run.image
  BY <1>3 DEF Enter, RunRecord, Loaded
<1>5. SpaceInv'
  BY <1>1, <1>3, <1>4, SpaceQuiet
<1>6. root' = run.id
  BY <1>3 DEF Enter, SpaceInv, aspace_create, aspace_switch
<1>7. RunInv'
  BY <1>3, <1>4, <1>5, <1>6 DEF RunInv, Enter, spaces, Loaded, Loops
<1> QED
  BY <1>2, <1>7 DEF CoreInv

LEMMA StepSyscall ==
  ASSUME CoreInv, Syscall
  PROVE  CoreInv'
<1>1. page_faults' \in 0 .. MaxFaults /\ UNCHANGED <<map, spaces>>
  BY DEF CoreInv, PoolInv, Syscall
<1>2. PoolInv'
  BY <1>1, PoolQuiet DEF CoreInv
<1>3. run.pc = "user" /\ run.pc \in Loaded /\ RunInv /\ SpaceInv /\ run \in RunRecord /\ run.calls \in Seq(Nat)
  BY RunTypes DEF Syscall, Loaded, CoreInv, RunInv
<1>4. /\ run' \in RunRecord /\ run'.pc \in {"user", "back"} /\ run'.id = run.id
      /\ run'.info = run.info /\ run'.image = run.image /\ root' = root
      /\ active' \in BOOLEAN /\ (active' <=> run'.pc = "user")
  <2>1. CASE Leaves(Head(run.calls))
    BY <1>3, <2>1 DEF Syscall, RunRecord, Loaded
  <2>2. CASE ~Leaves(Head(run.calls))
    <3>1. Tail(run.calls) \in Seq(Nat)
      BY <1>3 DEF Syscall
    <3>2. run' = [run EXCEPT !.calls = Tail(run.calls)] /\ active' = active /\ root' = root
      BY <2>2 DEF Syscall
    <3>3. active \in BOOLEAN /\ (active <=> run.pc = "user")
      BY <1>3 DEF RunInv
    <3> HIDE DEF Leaves
    <3> QED
      BY <1>3, <3>1, <3>2, <3>3 DEF RunRecord, Loaded
  <2> QED
    BY <2>1, <2>2
<1>5. SpaceInv'
  BY <1>1, <1>3, <1>4, SpaceQuiet
<1>6. RunInv'
  BY <1>1, <1>3, <1>4, <1>5 DEF RunInv, spaces, Loaded, Loops
<1> QED
  BY <1>2, <1>6 DEF CoreInv

LEMMA StepPageFault ==
  ASSUME CoreInv, PageFault
  PROVE  CoreInv'
<1>1. page_faults' \in 0 .. MaxFaults /\ UNCHANGED <<map, spaces>>
  BY Consts DEF CoreInv, PoolInv, PageFault
<1>2. PoolInv'
  BY <1>1, PoolQuiet DEF CoreInv
<1>3. run.pc = "user" /\ RunInv /\ SpaceInv /\ run' = run /\ UNCHANGED <<root, active>>
  BY DEF PageFault, Loaded, CoreInv, RunInv
<1>4. SpaceInv'
  BY <1>1, <1>3, SpaceQuiet
<1>5. RunInv'
  BY <1>1, <1>3, <1>4 DEF RunInv, spaces, Loaded, Loops
<1> QED
  BY <1>2, <1>5 DEF CoreInv

-----------------------------------------------------------------------------
(* The steps that make and release the user space.                          *)

\* The last reference to the user space is given up.
LEMMA Released ==
  ASSUME SpaceInv, Release(run.id)
  PROVE  NoSpace'
<1>1. run.id > KernelAspace /\ aspaces = aspace_create(aspace_init, run.id, "user")
  BY DEF SpaceInv
<1>2. run.id # KernelAspace
  BY <1>1 DEF KernelAspace
<1>3. DOMAIN aspaces = {KernelAspace, run.id} /\ aspaces[run.id] = [kind |-> "user", refcount |-> 1]
      /\ aspaces[KernelAspace] = [kind |-> "kernel", refcount |-> 1]
  BY <1>1, <1>2 DEF aspace_create, aspace_init
<1>4. aspace_release(aspaces, run.id) = [a \in DOMAIN aspaces \ {run.id} |-> aspaces[a]]
  BY <1>2, <1>3 DEF aspace_release
<1>5. DOMAIN aspaces \ {run.id} = {KernelAspace}
  BY <1>2, <1>3
<1>6. aspaces' = aspace_init
  BY <1>3, <1>4, <1>5 DEF Release, aspace_init
<1>7. DOMAIN aspaces' \ {KernelAspace} = {}
  BY <1>6 DEF aspace_init
<1>8. DOMAIN tables' = {} /\ DOMAIN user_pt' = {}
  BY <1>7 DEF Release
<1> QED
  BY <1>6, <1>8 DEF NoSpace

\* Back at the prompt with nothing left.
LEMMA Prompt ==
  ASSUME run' = NoRun, NoSpace', next_aspace_id' \in Nat, next_aspace_id' > KernelAspace,
         root' = KernelAspace, active' \in BOOLEAN, ~active'
  PROVE  RunInv'
<1>1. run'.pc = "prompt"
  BY DEF NoRun
<1> QED
  BY <1>1 DEF RunInv, Loaded, Loops, NoRun

LEMMA PoolSame ==
  ASSUME PoolInv, UNCHANGED <<map, page_faults, alloc, mem>>
  PROVE  PoolInv'
  BY DEF PoolInv, Given, Usable

LEMMA StepCopyFails ==
  ASSUME CoreInv, CopyFails
  PROVE  CoreInv'
<1>1. PoolInv'
  BY PoolSame DEF CoreInv, CopyFails
<1>2. RunInv /\ SpaceInv /\ root = KernelAspace /\ ~active
  BY DEF CoreInv, RunInv, CopyFails, Loaded, Loops
<1>3. NoSpace'
  BY <1>2, Released DEF CopyFails, FailedRelease
<1>4. RunInv'
  BY <1>2, <1>3, Prompt DEF CopyFails, RunInv
<1> QED
  BY <1>1, <1>4 DEF CoreInv

LEMMA StepLeave ==
  ASSUME CoreInv, Leave
  PROVE  CoreInv'
<1>1. PoolInv'
  BY PoolSame DEF CoreInv, Leave
<1>2. RunInv /\ SpaceInv /\ ~active
  BY DEF CoreInv, RunInv, Leave, Loaded, Loops
<1>3. NoSpace'
  BY <1>2, Released DEF Leave
<1>4. root' = KernelAspace
  <2>1. KernelAspace \in DOMAIN aspaces
    BY <1>2 DEF SpaceInv, aspace_create, aspace_init
  <2> QED
    BY <2>1 DEF Leave, SwitchBack, aspace_switch
<1>5. RunInv'
  BY <1>2, <1>3, <1>4, Prompt DEF Leave, RunInv
<1> QED
  BY <1>1, <1>5 DEF CoreInv

\* The four tables of a new space are four frames.
LEMMA FourFrames ==
  ASSUME NEW a \in Pools
  PROVE  LET T == {Frame(a, k) : k \in 0 .. 3}
         IN T = {Frame(a, 0), Frame(a, 1), Frame(a, 2), Frame(a, 3)} /\ Cardinality(T) = 4
<1> DEFINE T == {Frame(a, k) : k \in 0 .. 3}
           p == PageUnits
           b == a.next
<1>1. p \in Nat \ {0} /\ b \in Nat
  BY Consts DEF Pools
<1>2. /\ Frame(a, 0) = b + 0 * p /\ Frame(a, 1) = b + 1 * p
      /\ Frame(a, 2) = b + 2 * p /\ Frame(a, 3) = b + 3 * p
  BY DEF Frame
<1>3. 0 .. 3 = {0, 1, 2, 3}
  OBVIOUS
<1>4. T = {Frame(a, 0), Frame(a, 1), Frame(a, 2), Frame(a, 3)}
  BY <1>3
<1> HIDE DEF p, b
<1> DEFINE w == b
           x == b + p
           y == b + p + p
           z == b + p + p + p
<1>5. T = {w, x, y, z}
  <2>1. 0 * p = 0 /\ 1 * p = p /\ 2 * p = p + p /\ 3 * p = p + p + p
    BY <1>1
  <2>2. b + 0 * p = w /\ b + 1 * p = x /\ b + 2 * p = y /\ b + 3 * p = z
    BY <1>1, <2>1
  <2> QED
    BY <1>2, <1>4, <2>2
<1>6. w # x /\ w # y /\ w # z /\ x # y /\ x # z /\ y # z
  BY <1>1
<1> HIDE DEF w, x, y, z, T
<1>7. Cardinality({w, x, y, z}) = 4
  <2>1. IsFiniteSet({}) /\ Cardinality({}) = 0
    BY FS_EmptySet
  <2>2. IsFiniteSet({w}) /\ Cardinality({w}) = 1
    BY FS_Singleton
  <2>3. IsFiniteSet({w} \cup {x}) /\ Cardinality({w} \cup {x}) = 2
    BY <1>6, <2>2, FS_AddElement
  <2>4. IsFiniteSet(({w} \cup {x}) \cup {y}) /\ Cardinality(({w} \cup {x}) \cup {y}) = 3
    <3> DEFINE S == {w} \cup {x}
    <3>1. IsFiniteSet(S) /\ Cardinality(S) = 2 /\ y \notin S
      BY <1>6, <2>3
    <3> HIDE DEF S
    <3>2. IsFiniteSet(S \cup {y}) /\ Cardinality(S \cup {y}) = 2 + 1
      BY <3>1, FS_AddElement
    <3> QED
      BY <3>2 DEF S
  <2>5. Cardinality((({w} \cup {x}) \cup {y}) \cup {z}) = 4
    <3> DEFINE S == ({w} \cup {x}) \cup {y}
    <3>1. IsFiniteSet(S) /\ Cardinality(S) = 3 /\ z \notin S
      BY <1>6, <2>4
    <3> HIDE DEF S
    <3>2. Cardinality(S \cup {z}) = 3 + 1
      BY <3>1, FS_AddElement
    <3> QED
      BY <3>2 DEF S
  <2>6. (({w} \cup {x}) \cup {y}) \cup {z} = {w, x, y, z}
    OBVIOUS
  <2> QED
    BY <2>5, <2>6
<1> QED
  BY <1>4, <1>5, <1>7 DEF T

\* The pool and the contents of the frames after n pages were handed out.
LEMMA PoolAfter ==
  ASSUME PoolInv, NEW n \in Nat, n <= FreePages(alloc), alloc' = page_alloc(alloc, n),
         UNCHANGED <<map, page_faults>>,
         \A f \in DOMAIN mem' : Given(map', alloc', f) /\ mem'[f] \in [Units -> Int]
  PROVE  PoolInv'
<1>1. map \in Seq(Regions) /\ PoolOK(map, alloc)
  BY PoolTypes
<1>2. PoolOK(map', alloc')
  BY <1>1, PoolStep
<1> QED
  BY <1>2 DEF PoolInv, PoolOK

LEMMA StepCreate ==
  ASSUME CoreInv, Create
  PROVE  CoreInv'
<1> DEFINE slot == HasFreeSlot(aspaces)
           got == IF slot THEN Min({4, FreePages(alloc)}) ELSE 0
           id == next_aspace_id
<1>1. map \in Seq(Regions) /\ PoolOK(map, alloc) /\ alloc \in Pools
  BY PoolTypes DEF CoreInv, PoolOK
<1>2. got \in Nat /\ got <= FreePages(alloc) /\ got <= 4
  <2> DEFINE m == Min({4, FreePages(alloc)})
  <2>1. FreePages(alloc) \in Nat
    BY <1>1, Room
  <2>2. {4, FreePages(alloc)} \subseteq Nat /\ {4, FreePages(alloc)} # {}
    BY <2>1
  <2>3. m \in {4, FreePages(alloc)} /\ \A y \in {4, FreePages(alloc)} : m <= y
    BY <2>2, MinIs
  <2> HIDE DEF m
  <2>4. m \in Nat /\ m <= FreePages(alloc) /\ m <= 4
    BY <2>1, <2>3
  <2>5. got = IF slot THEN m ELSE 0
    BY DEF m
  <2> HIDE DEF got, slot
  <2> QED
    BY <2>1, <2>4, <2>5
<1>3. /\ next_aspace_id' = (IF slot THEN id + 1 ELSE id) /\ alloc' = page_alloc(alloc, got)
      /\ got < 4 => run' = NoRun /\ UNCHANGED <<aspaces, tables, user_pt>>
      /\ ~(got < 4) => /\ aspaces' = aspace_create(aspaces, id, "user")
                       /\ tables' = With(tables, id, {Frame(alloc, k) : k \in 0..3})
                       /\ user_pt' = With(user_pt, id, [p \in Pages |-> NULL])
                       /\ run' = [LoopWrite EXCEPT !.id = id]
      /\ UNCHANGED <<map, page_faults, mem, root, active, runs>>
      /\ run.pc = "create"
  BY DEF Create
<1> HIDE DEF got, slot
<1>4. /\ \A f : Given(map, alloc, f) => Given(map, alloc', f)
      /\ \A k \in 0 .. got - 1 : Given(map, alloc', Frame(alloc, k)) /\ Frame(alloc, k) >= alloc.next
  BY <1>1, <1>2, <1>3, PoolStep
<1>5. PoolInv'
  <2>1. \A f \in DOMAIN mem' : Given(map', alloc', f) /\ mem'[f] \in [Units -> Int]
    BY <1>3, <1>4 DEF CoreInv, PoolInv
  <2> QED
    BY <1>2, <1>3, <2>1, PoolAfter DEF CoreInv
<1>6. id \in Nat /\ id > KernelAspace /\ next_aspace_id' \in Nat /\ next_aspace_id' > KernelAspace
  BY <1>3 DEF CoreInv, RunInv, KernelAspace
<1>7. NoSpace /\ root = KernelAspace /\ active \in BOOLEAN /\ ~active /\ run \in RunRecord
  BY <1>3, RunTypes DEF CoreInv, RunInv, Loaded, Loops
<1>8. CASE got < 4
  <2>1. NoSpace'
    BY <1>3, <1>7, <1>8 DEF NoSpace
  <2>2. RunInv'
    BY <1>3, <1>6, <1>7, <1>8, <2>1, Prompt
  <2> QED
    BY <1>5, <2>2 DEF CoreInv
<1>9. CASE ~(got < 4)
  <2> DEFINE T == {Frame(alloc, k) : k \in 0 .. 3}
  <2>1. got = 4 /\ 0 .. got - 1 = 0 .. 3
    BY <1>2, <1>9
  <2>2. /\ run' \in RunRecord /\ run'.pc = "write" /\ run'.id = id
        /\ run'.info = run.info /\ run'.image = run.image
    <3>1. run.info.first_vaddr \in Nat /\ run.info.load_filesz % U32 \in Nat
      BY <1>7, Cut DEF RunRecord, Infos
    <3> QED
      BY <1>3, <1>6, <1>7, <1>9, <3>1 DEF LoopWrite, Loop, RunRecord, Loaded, Loops
  <2>3. DOMAIN tables' = {id} /\ tables'[id] = T /\ DOMAIN user_pt' = {id} /\ user_pt'[id] = [p \in Pages |-> NULL]
    BY <1>3, <1>7, <1>9 DEF With, NoSpace
  <2>4. Cardinality(T) = 4
    BY <1>1, FourFrames
  <2>5. \A f \in T : Given(map', alloc', f)
    BY <1>3, <1>4, <2>1
  <2> HIDE DEF T
  <2>6. aspaces' = aspace_create(aspace_init, id, "user")
    BY <1>3, <1>7, <1>9 DEF NoSpace
  <2>7. user_pt'[id] \in [Pages -> Nat] /\ \A p \in Pages : user_pt'[id][p] = NULL
    BY <2>3 DEF NULL
  <2>8. SpaceInv'
    BY <1>6, <2>2, <2>3, <2>4, <2>5, <2>6, <2>7 DEF SpaceInv
  <2>9. RunInv'
    BY <1>3, <1>6, <1>7, <2>2, <2>8 DEF CoreInv, RunInv, Loaded, Loops
  <2> QED
    BY <1>5, <2>9 DEF CoreInv
<1> QED
  BY <1>8, <1>9

-----------------------------------------------------------------------------
(* One pass of a copying loop.                                              *)

Slot == IF Present THEN user_pt[run.id][Page] ELSE Frame(alloc, 0)
Before == IF Present THEN mem[Slot] ELSE [u \in Units |-> 0]

\* The part of the page that the pass writes.
LEMMA ChunkFits ==
  ASSUME run.at \in Nat, run.left \in Nat, run.left > 0
  PROVE  /\ In(run.at) \in 0 .. PageUnits - 1 /\ Chunk \in Nat /\ Chunk > 0 /\ Chunk <= run.left
         /\ In(run.at) + Chunk <= PageUnits
         /\ Chunk = run.left \/ In(run.at) + Chunk = PageUnits
<1> DEFINE o == run.at % PageUnits
           l == run.left
           p == PageUnits
           S == {p - o, l}
           c == Min(S)
<1>1. o \in 0 .. p - 1 /\ p \in Nat \ {0} /\ l \in Nat /\ l > 0
  <2>1. run.at \in Int
    OBVIOUS
  <2>2. o \in 0 .. p - 1
    BY ONLY <2>1, Offsets
  <2> QED
    BY <2>2, Consts
<1>2. Chunk = c
  BY DEF Chunk
<1> HIDE DEF o, l, p
<1>3. S \subseteq Nat /\ S # {}
  BY <1>1
<1> HIDE DEF S, c
<1>4. c \in S /\ \A y \in S : c <= y
  BY <1>3, MinIs DEF c
<1>5. (c = p - o \/ c = l) /\ c <= p - o /\ c <= l
  BY <1>4 DEF S
<1>6. c \in Nat /\ c > 0 /\ c <= l /\ o + c <= p /\ (c = l \/ o + c = p)
  BY <1>1, <1>5
<1> QED
  BY <1>1, <1>2, <1>6 DEF In, o, l, p

\* The frame of the page: the one it has, or one no page and no table has.
LEMMA SlotIs ==
  ASSUME CoreInv, CopyPass
  PROVE  /\ RunInv /\ SpaceInv /\ run \in RunRecord /\ run.pc \in Loops /\ Page \in Pages
         /\ Slot \in Nat /\ Slot # NULL /\ Slot \notin tables[run.id]
         /\ Present => Slot \in DOMAIN mem
         /\ ~Present => Slot \notin DOMAIN mem
         /\ (IF Present THEN 0 ELSE 1) <= FreePages(alloc)
         /\ alloc' = page_alloc(alloc, IF Present THEN 0 ELSE 1)
         /\ Given(map, alloc', Slot) /\ \A f : Given(map, alloc, f) => Given(map, alloc', f)
         /\ \A q \in Pages : user_pt[run.id][q] = Slot => q = Page
         /\ Before \in [Units -> Int]
<1> DEFINE n == IF Present THEN 0 ELSE 1
<1>1. map \in Seq(Regions) /\ PoolOK(map, alloc) /\ alloc \in Pools /\ alloc.next \in Nat
  BY PoolTypes DEF CoreInv, PoolOK, Pools
<1>2. run.pc \in Loops /\ alloc' = page_alloc(alloc, n) /\ (Present \/ FreePages(alloc) > 0)
  BY DEF CopyPass, Loops
<1>3. RunInv /\ SpaceInv /\ run \in RunRecord /\ run.at \in Nat
  BY <1>2, RunTypes DEF CoreInv, RunInv, Loops, Loaded
<1>4. FreePages(alloc) \in Nat /\ n \in Nat /\ n <= FreePages(alloc)
  <2>1. FreePages(alloc) \in Nat
    BY <1>1, Room
  <2> HIDE DEF Present
  <2> QED
    BY <1>2, <2>1
<1>5. /\ \A f : Given(map, alloc, f) => Given(map, alloc', f)
      /\ \A k \in 0 .. n - 1 : Given(map, alloc', Frame(alloc, k)) /\ Frame(alloc, k) >= alloc.next
  BY <1>1, <1>2, <1>4, PoolStep
<1>6. Page \in Pages
  <2>1. run.at \div PageUnits \in Int /\ WindowPages \in Nat \ {0}
    <3>1. run.at \in Int
      BY <1>3
    <3>2. run.at \div PageUnits \in Int
      BY ONLY <3>1, Offsets
    <3> QED
      BY <3>2, Consts
  <2>2. (run.at \div PageUnits) % WindowPages \in 0 .. WindowPages - 1
    BY <2>1, ModRange
  <2> QED
    BY <2>2 DEF Page, Pages
<1>7. CASE Present
  <2>1. Slot = user_pt[run.id][Page] /\ Slot # NULL
    BY <1>7 DEF Slot, Present
  <2>2. Slot \in DOMAIN mem /\ Slot \notin tables[run.id] /\ \A q \in Pages : user_pt[run.id][q] = Slot => q = Page
    BY <1>3, <1>6, <2>1 DEF SpaceInv
  <2>3. Given(map, alloc, Slot) /\ mem[Slot] \in [Units -> Int]
    BY <2>2 DEF CoreInv, PoolInv
  <2>4. Before \in [Units -> Int] /\ Slot \in Nat
    BY <1>7, <2>3 DEF Before, Given
  <2> HIDE DEF Present
  <2> QED
    BY <1>2, <1>3, <1>4, <1>5, <1>6, <1>7, <2>1, <2>2, <2>3, <2>4
<1>8. CASE ~Present
  <2>1. Slot = Frame(alloc, 0) /\ n = 1 /\ 0 \in 0 .. n - 1
    BY <1>8 DEF Slot
  <2>2. Given(map, alloc', Slot) /\ Slot >= alloc.next
    BY <1>5, <2>1
  <2>3. Slot \in Nat /\ Slot # NULL
    BY <2>2, Consts DEF Given, NULL
  <2>4. \A f : Given(map, alloc, f) => f # Slot
    BY <1>1, <2>2, <2>3 DEF Given
  <2>5. Slot \notin DOMAIN mem /\ Slot \notin tables[run.id]
    BY <1>3, <2>4 DEF CoreInv, PoolInv, SpaceInv
  <2>6. \A q \in Pages : user_pt[run.id][q] = Slot => q = Page
    BY <1>3, <2>3, <2>5 DEF SpaceInv
  <2>7. Before \in [Units -> Int]
    BY <1>8 DEF Before
  <2> HIDE DEF Present
  <2> QED
    BY <1>2, <1>3, <1>4, <1>5, <1>6, <1>8, <2>2, <2>3, <2>5, <2>6, <2>7
<1> QED
  BY <1>7, <1>8

\* What the pass leaves in the space and in the frame.
LEMMA PassIs ==
  ASSUME CoreInv, CopyPass
  PROVE  /\ DOMAIN user_pt' = {run.id} /\ user_pt'[run.id] = [user_pt[run.id] EXCEPT ![Page] = Slot]
         /\ DOMAIN mem' = DOMAIN mem \cup {Slot}
         /\ \A f \in DOMAIN mem : f # Slot => mem'[f] = mem[f]
         /\ mem'[Slot] \in [Units -> Int]
         /\ \A u \in Units : mem'[Slot][u] =
              IF u >= In(run.at) /\ u < In(run.at) + Chunk THEN Copied(u - In(run.at)) ELSE Before[u]
         /\ run' = [run EXCEPT !.at = @ + Chunk, !.left = @ - Chunk]
         /\ run' \in RunRecord /\ Chunk \in Nat /\ run.left > 0
<1> DEFINE o == run.at % PageUnits
           new == [u \in Units |-> IF u >= o /\ u < o + Chunk THEN Copied(u - o) ELSE Before[u]]
<1>1. /\ SpaceInv /\ run \in RunRecord /\ Before \in [Units -> Int] /\ run.left > 0 /\ RunInv /\ run.pc \in Loops
  BY SlotIs DEF CopyPass
<1>2. /\ user_pt' = [user_pt EXCEPT ![run.id][Page] = Slot]
      /\ mem' = With(mem, Slot, new)
      /\ run' = [run EXCEPT !.at = @ + Chunk, !.left = @ - Chunk]
  BY DEF CopyPass, Slot, Before
<1>3. DOMAIN user_pt' = {run.id} /\ user_pt'[run.id] = [user_pt[run.id] EXCEPT ![Page] = Slot]
  BY <1>1, <1>2 DEF SpaceInv
<1>4. /\ run.at \in Nat /\ run.left \in Nat /\ run.info.load_offset \in Nat
      /\ run.info.load_filesz % U32 \in Nat /\ run.image \in Images
  BY <1>1, Cut DEF RunRecord, Infos
<1>5. Chunk \in Nat /\ Chunk <= run.left /\ o \in 0 .. PageUnits - 1 /\ Units = 0 .. PageUnits - 1 /\ PageUnits \in Nat
  BY <1>1, <1>4, ChunkFits, Consts DEF In, Units
<1>6. \A k \in Int : Copied(k) \in Int
  <2> TAKE k \in Int
  <2> DEFINE x == run.info.load_offset
             y == run.info.load_filesz % U32
             l == run.left
  <2>1. x \in Nat /\ y \in Nat /\ l \in Nat
    BY <1>4
  <2>2. Copied(k) = IF run.pc = "write" THEN ImageUnit(run.image, x + (y - l) + k) ELSE 0
    BY DEF Copied
  <2> HIDE DEF x, y, l
  <2>3. x + (y - l) + k \in Int
    BY <2>1
  <2>4. ImageUnit(run.image, x + (y - l) + k) \in Int
    BY <1>4, <2>3, Holds
  <2> QED
    BY <2>2, <2>4
<1> HIDE DEF o
<1>7. new \in [Units -> Int]
  <2>1. ASSUME NEW u \in Units
        PROVE  (IF u >= o /\ u < o + Chunk THEN Copied(u - o) ELSE Before[u]) \in Int
    <3>1. u - o \in Int
      BY <1>5
    <3>2. Copied(u - o) \in Int /\ Before[u] \in Int
      BY <1>1, <1>6, <3>1
    <3> QED
      BY <3>2
  <2> QED
    BY <2>1
<1> HIDE DEF new
<1>8. /\ DOMAIN mem' = DOMAIN mem \cup {Slot} /\ mem'[Slot] = new
      /\ \A f \in DOMAIN mem : f # Slot => mem'[f] = mem[f]
  BY <1>2 DEF With
<1>9. run' \in RunRecord
  <2>1. run.at + Chunk \in Nat /\ run.left - Chunk \in Nat
    BY <1>4, <1>5
  <2> QED
    BY <1>1, <1>2, <2>1 DEF RunRecord
<1> QED
  BY <1>1, <1>2, <1>3, <1>5, <1>7, <1>8, <1>9 DEF new, o, In

LEMMA StepCopyPass ==
  ASSUME CoreInv, CopyPass
  PROVE  CoreInv'
<1> DEFINE id == run.id
<1>1. UNCHANGED <<map, page_faults, aspaces, next_aspace_id, tables, root, active, runs>>
  BY DEF CopyPass
<1>2. PoolInv'
  <2>1. (IF Present THEN 0 ELSE 1) \in Nat
    OBVIOUS
  <2>2. ASSUME NEW f \in DOMAIN mem'
        PROVE  Given(map', alloc', f) /\ mem'[f] \in [Units -> Int]
    <3>1. CASE f = Slot
      BY <1>1, <3>1, SlotIs, PassIs
    <3>2. CASE f # Slot
      <4>1. f \in DOMAIN mem /\ mem'[f] = mem[f]
        BY <2>2, <3>2, PassIs
      <4>2. Given(map, alloc, f) /\ mem[f] \in [Units -> Int]
        BY <4>1 DEF CoreInv, PoolInv
      <4> QED
        BY <1>1, <4>1, <4>2, SlotIs
    <3> QED
      BY <3>1, <3>2
  <2> QED
    BY <1>1, <2>1, <2>2, SlotIs, PoolAfter DEF CoreInv
<1>3. /\ run' \in RunRecord /\ run'.pc = run.pc /\ run'.id = id /\ run'.info = run.info /\ run'.image = run.image
      /\ run.pc \in Loops /\ RunInv /\ SpaceInv /\ run \in RunRecord
  <2>1. run' = [run EXCEPT !.at = @ + Chunk, !.left = @ - Chunk] /\ run \in RunRecord
    BY PassIs, SlotIs
  <2>2. run'.pc = run.pc /\ run'.id = id /\ run'.info = run.info /\ run'.image = run.image
    BY <2>1 DEF RunRecord
  <2> QED
    BY <2>2, PassIs, SlotIs
<1>4. SpaceInv'
  <2> DEFINE pt == user_pt[id]
             new == user_pt'[id]
  <2>1. pt \in [Pages -> Nat] /\ new = [pt EXCEPT ![Page] = Slot] /\ Slot \in Nat /\ Page \in Pages
    BY <1>3, SlotIs, PassIs DEF SpaceInv
  <2> HIDE DEF pt, new
  <2>2. new \in [Pages -> Nat] /\ new[Page] = Slot /\ \A q \in Pages : q # Page => new[q] = pt[q]
    BY <2>1
  <2>3. ASSUME NEW p \in Pages, new[p] # NULL
        PROVE  new[p] \in DOMAIN mem' /\ new[p] \notin tables[id]
    <3>1. CASE p = Page
      BY <2>2, <3>1, SlotIs, PassIs
    <3>2. CASE p # Page
      <4>1. new[p] = pt[p]
        BY <2>2, <3>2
      <4>2. pt[p] \in DOMAIN mem /\ pt[p] \notin tables[id]
        BY <1>3, <2>3, <4>1 DEF SpaceInv, pt
      <4> QED
        BY <4>1, <4>2, PassIs
    <3> QED
      BY <3>1, <3>2
  <2>4. ASSUME NEW p \in Pages, NEW q \in Pages, new[p] = new[q], p # q
        PROVE  new[p] = NULL
    <3>1. \A r \in Pages : pt[r] = Slot => r = Page
      BY SlotIs DEF pt
    <3>2. p # Page /\ q # Page
      BY <2>2, <2>4, <3>1
    <3>3. new[p] = pt[p] /\ new[q] = pt[q]
      BY <2>2, <3>2
    <3> QED
      BY <1>3, <2>4, <3>3 DEF SpaceInv, pt
  <2>5. \A f \in tables[id] : Given(map', alloc', f)
    BY <1>1, <1>3, SlotIs DEF SpaceInv
  <2>6. DOMAIN user_pt' = {id}
    BY PassIs
  <2>7. run'.id = id /\ tables' = tables /\ aspaces' = aspaces
    BY <1>1, <1>3
  <2>8. /\ id > KernelAspace /\ aspaces = aspace_create(aspace_init, id, "user")
        /\ DOMAIN tables = {id} /\ Cardinality(tables[id]) = 4
    BY <1>3 DEF SpaceInv
  <2> QED
    BY <2>2, <2>3, <2>4, <2>5, <2>6, <2>7, <2>8 DEF SpaceInv, new
<1>5. RunInv'
  BY <1>1, <1>3, <1>4 DEF RunInv, Loaded, Loops
<1> QED
  BY <1>2, <1>5 DEF CoreInv

-----------------------------------------------------------------------------
(* Frames, the prompt and the parser.                                       *)

LEMMA StepCore ==
  ASSUME CoreInv, [Next]_vars
  PROVE  CoreInv'
<1>1. CASE Work
  <2>1. Create \/ CopyPass \/ CopyFails \/ CopyDone \/ Enter \/ Syscall \/ PageFault \/ Leave
    BY <1>1 DEF Work
  <2> QED
    BY <2>1, StepCreate, StepCopyPass, StepCopyFails, StepCopyDone, StepEnter, StepSyscall,
       StepPageFault, StepLeave
<1>2. CASE UNCHANGED vars
  <2>1. page_faults' \in 0 .. MaxFaults /\ UNCHANGED <<map, spaces>>
    BY <1>2 DEF vars, spaces, CoreInv, PoolInv
  <2>2. PoolInv'
    BY <2>1, PoolQuiet DEF CoreInv
  <2>3. SpaceInv => SpaceInv'
    BY <1>2, <2>1, SpaceQuiet DEF vars
  <2>4. RunInv'
    BY <1>2, <2>3 DEF vars, CoreInv, RunInv, NoSpace
  <2> QED
    BY <2>2, <2>4 DEF CoreInv
<1> QED
  BY <1>1, <1>2, StepRefuse, StepStart DEF Next

LEMMA CoreHolds == Spec => []CoreInv
<1>1. Init => CoreInv
  BY InitCore
<1>2. CoreInv /\ [Next]_vars => CoreInv'
  BY StepCore
<1> QED
  BY <1>1, <1>2, PTL DEF Spec

LEMMA CoreExclusive ==
  ASSUME CoreInv
  PROVE  FramesExclusive
<1>1. TypeOK
  <2>1. alloc \in Pools /\ map \in Maps /\ page_faults \in 0 .. MaxFaults
    BY DEF CoreInv, PoolInv
  <2>2. {alloc.base, alloc.next, alloc.limit, alloc.used} \subseteq Nat
    BY <2>1 DEF Pools
  <2>3. \A f \in Frames : mem[f] \in [Units -> Int]
    BY DEF CoreInv, PoolInv, Frames
  <2>4. active \in BOOLEAN
    BY DEF CoreInv, RunInv
  <2>5. run.pc \in {"prompt", "create", "write", "bss", "stack", "enter", "user", "back"}
    BY DEF CoreInv, RunInv, NoRun, RunRecord, Loaded, Loops
  <2>6. /\ \A a \in DOMAIN aspaces : aspaces[a] \in AspaceRecord
        /\ DOMAIN tables = DOMAIN aspaces \ {KernelAspace}
        /\ DOMAIN user_pt = DOMAIN aspaces \ {KernelAspace}
        /\ root \in DOMAIN aspaces
    <3>1. CASE run.pc \in Loaded
      <4>1. SpaceInv /\ run.id # KernelAspace /\ root \in {KernelAspace, run.id}
        BY <3>1 DEF CoreInv, RunInv, SpaceInv, KernelAspace
      <4>2. DOMAIN aspaces = {KernelAspace, run.id} /\ aspaces[run.id] = [kind |-> "user", refcount |-> 1]
            /\ aspaces[KernelAspace] = [kind |-> "kernel", refcount |-> 1]
        BY <4>1 DEF SpaceInv, aspace_create, aspace_init
      <4> QED
        BY <4>1, <4>2 DEF SpaceInv, AspaceRecord
    <3>2. CASE run.pc \notin Loaded
      <4>1. NoSpace /\ root = KernelAspace
        BY <3>2 DEF CoreInv, RunInv, Loaded
      <4> QED
        BY <4>1 DEF NoSpace, aspace_init, AspaceRecord
    <3> QED
      BY <3>1, <3>2
  <2> QED
    BY <2>1, <2>2, <2>3, <2>4, <2>5, <2>6 DEF TypeOK
<1>2. \A f : Given(map, alloc, f) =>
        /\ f % PageUnits = 0 /\ f >= TwoMeg /\ f < alloc.next
        /\ \E i \in DOMAIN map :
             /\ map[i].type = 1 /\ f >= map[i].base
             /\ f + PageUnits <= map[i].base + map[i].length
  <2> TAKE f
  <2> HAVE Given(map, alloc, f)
  <2>1. PICK i \in DOMAIN map :
          map[i].type = 1 /\ map[i].base <= f /\ f + PageUnits <= map[i].base + map[i].length
    BY DEF Given, Usable
  <2>2. map[i].base \in Nat /\ f \in Nat
    <3>1. map \in Seq(Regions)
      BY PoolTypes DEF CoreInv
    <3>2. map[i] \in Regions
      BY <2>1, <3>1, ElementOfSeq
    <3> QED
      BY <3>2 DEF Regions, Given
  <2>3. f >= map[i].base
    <3> DEFINE x == map[i].base
    <3>1. x \in Nat /\ f \in Nat /\ x <= f
      BY <2>1, <2>2
    <3> HIDE DEF x
    <3>2. f >= x
      BY <3>1
    <3> QED
      BY <3>2 DEF x
  <2> QED
    BY <2>1, <2>3 DEF Given
<1>3. \A f \in Frames : Given(map, alloc, f)
  BY DEF CoreInv, PoolInv, Frames
<1>4. CASE run.pc \notin Loaded
  <2>1. DOMAIN user_pt = {}
    BY <1>4 DEF CoreInv, RunInv, NoSpace
  <2>2. (UNION {tables[i] \cup Live(i) : i \in DOMAIN user_pt}) \cup Frames = Frames
    BY <2>1
  <2> QED
    BY <1>1, <1>2, <1>3, <2>1, <2>2 DEF FramesExclusive
<1>5. CASE run.pc \in Loaded
  <2> DEFINE id == run.id
  <2>1. SpaceInv /\ DOMAIN user_pt = {id}
    BY <1>5 DEF CoreInv, RunInv, SpaceInv
  <2>2. \A f \in Live(id) : Given(map, alloc, f) /\ f \notin tables[id]
    BY <1>3, <2>1 DEF Live, SpaceInv, Frames
  <2>3. \A f \in tables[id] : Given(map, alloc, f)
    BY <2>1 DEF SpaceInv
  <2>4. Cardinality(tables[id]) = 4 /\ tables[id] \cap Live(id) = {}
    BY <2>1, <2>2 DEF SpaceInv
  <2>5. \A p, q \in Pages : user_pt[id][p] = user_pt[id][q] => p = q \/ user_pt[id][p] = NULL
    BY <2>1 DEF SpaceInv
  <2>6. \A f \in (UNION {tables[i] \cup Live(i) : i \in DOMAIN user_pt}) \cup Frames : Given(map, alloc, f)
    BY <1>3, <2>1, <2>2, <2>3
  <2> QED
    BY <1>1, <1>2, <2>1, <2>4, <2>5, <2>6 DEF FramesExclusive
<1> QED
  BY <1>4, <1>5

\* Whatever the memory map and the images, every frame in use has one owner,
\* lies in usable memory above 2 MB and is never handed out again.
THEOREM FramesAreExclusive == Spec => []FramesExclusive
<1>1. CoreInv => FramesExclusive
  BY CoreExclusive
<1> QED
  BY <1>1, CoreHolds, PTL

\* However a run ends, the shell is back in the kernel's space, no other
\* space is left, and ring 3 may be entered again.
THEOREM PromptIsClean == Spec => []PromptClean
<1>1. CoreInv => PromptClean
  BY DEF CoreInv, RunInv, PromptClean, NoSpace, Loaded, Loops
<1> QED
  BY <1>1, CoreHolds, PTL

\* Whatever the order and the number of an image's program headers, the
\* parser reports the bounds of the loadable segments and the lowest one's
\* place in the file.
THEOREM ParserIsExact == Spec => []ParseExact
<1>1. CoreInv => ParseExact
  <2> SUFFICES ASSUME CoreInv, run.pc # "prompt", \A s \in Segments(run.image) : s.vaddr # 0
               PROVE  /\ Segments(run.image) # {} =>
                           /\ \E s \in Segments(run.image) :
                                /\ IsLowest(run.image, s) /\ run.info.first_vaddr = s.vaddr
                                /\ run.info.load_offset = s.offset /\ run.info.load_filesz = s.filesz
                           /\ run.info.last_vaddr = Max({s.vaddr + s.memsz : s \in Segments(run.image)})
                      /\ Segments(run.image) = {} => run.info.load_memsz = 0
    BY DEF ParseExact
  <2>1. run.image \in Images /\ run.info = elf_parse_image(run.image)
    BY RunTypes DEF CoreInv
  <2> QED
    BY <2>1, ParseIs
<1> QED
  BY <1>1, CoreHolds, PTL

-----------------------------------------------------------------------------
(* Addresses and pages.                                                     *)

Origin == UserBase \div PageUnits

LEMMA PageOf ==
  ASSUME NEW a \in Int
  PROVE  On(a) \in Int /\ In(a) \in 0 .. PageUnits - 1 /\ a = PageUnits * On(a) + In(a)
  BY Offsets DEF On, In

LEMMA PageTypes ==
  ASSUME NEW a \in Nat
  PROVE  a \in Int /\ On(a) \in Int /\ In(a) \in 0 .. PageUnits - 1
<1>1. a \in Int
  OBVIOUS
<1> QED
  BY ONLY <1>1, PageOf

LEMMA PageMono ==
  ASSUME NEW a \in Int, NEW b \in Int, a <= b
  PROVE  On(a) <= On(b)
<1> DEFINE p == PageUnits
           x == On(a)
           y == On(b)
           r == In(a)
           s == In(b)
<1>1. p \in Nat \ {0} /\ x \in Int /\ y \in Int /\ r \in 0 .. p - 1 /\ s \in 0 .. p - 1
      /\ a = p * x + r /\ b = p * y + s
  BY PageOf, Consts
<1> HIDE DEF p, x, y, r, s
<1>2. CASE x > y
  <2>1. x - y \in Int /\ x - y >= 1 /\ p * x \in Int /\ p * y \in Int
    BY <1>1, <1>2
  <2>2. p * (x - y) >= p
    BY <1>1, <2>1, MulMonotone
  <2>3. p * (x - y) = p * x - p * y
    BY <1>1
  <2>4. p * x - p * y >= p
    BY <2>2, <2>3
  <2> QED
    BY <1>1, <2>1, <2>4
<1>3. x <= y
  BY <1>1, <1>2
<1> QED
  BY <1>3 DEF x, y

LEMMA PageNear ==
  ASSUME NEW a \in Int, NEW c \in Int, In(a) + c \in 0 .. PageUnits - 1
  PROVE  On(a + c) = On(a) /\ In(a + c) = In(a) + c
<1> DEFINE p == PageUnits
           x == On(a)
           r == In(a)
           b == a + c
           s == r + c
<1>1. p \in Nat \ {0} /\ x \in Int /\ r \in 0 .. p - 1 /\ a = p * x + r /\ s \in 0 .. p - 1
  BY PageOf, Consts
<1> HIDE DEF p, x, r
<1>2. p * x \in Int /\ b \in Int /\ b = p * x + s
  BY <1>1
<1> HIDE DEF b, s
<1>3. b % p = s /\ b \div p = x
  BY <1>1, <1>2, ModUnique
<1> QED
  BY <1>3 DEF b, s, p, x, r, On, In

LEMMA SamePage ==
  ASSUME NEW a \in Int, NEW b \in Int, On(a) = On(b)
  PROVE  a - b = In(a) - In(b)
<1> DEFINE p == PageUnits
           x == On(a)
           r == In(a)
           s == In(b)
<1>1. p \in Nat \ {0} /\ x \in Int /\ r \in Int /\ s \in Int /\ a = p * x + r /\ b = p * x + s
  BY PageOf, Consts
<1> HIDE DEF p, x, r, s
<1>2. p * x \in Int
  BY <1>1
<1>3. a - b = r - s
  BY <1>1, <1>2
<1> QED
  BY <1>3 DEF r, s

LEMMA PageShift ==
  ASSUME NEW a \in Int, NEW n \in Int
  PROVE  On(a - PageUnits * n) = On(a) - n /\ In(a - PageUnits * n) = In(a)
<1> DEFINE p == PageUnits
           x == On(a)
           r == In(a)
           b == a - p * n
           y == x - n
<1>1. p \in Nat \ {0} /\ x \in Int /\ r \in 0 .. p - 1 /\ a = p * x + r
  BY PageOf, Consts
<1> HIDE DEF p, x, r
<1>2. p * x \in Int /\ p * n \in Int /\ p * y = p * x - p * n /\ y \in Int
  BY <1>1
<1> HIDE DEF y
<1>3. b \in Int /\ b = p * y + r
  BY <1>1, <1>2
<1> HIDE DEF b
<1>4. b % p = r /\ b \div p = y
  BY <1>1, <1>2, <1>3, ModUnique
<1> QED
  BY <1>4 DEF b, y, p, x, r, On, In

LEMMA PageStep ==
  ASSUME NEW a \in Int
  PROVE  On(a) <= On(a - 1) + 1
<1> DEFINE p == PageUnits
           b == a - 1 + p
<1>1. p \in Nat \ {0} /\ b \in Int /\ a <= b /\ a - 1 \in Int /\ -1 \in Int /\ (a - 1) - p * (-1) = b
  BY Consts
<1>2. On((a - 1) - p * (-1)) = On(a - 1) - (-1)
  BY <1>1, PageShift
<1>3. On(a) <= On(b) /\ On(a) \in Int /\ On(b) \in Int /\ On(a - 1) \in Int
  BY <1>1, PageMono, PageOf
<1>4. On(b) = On(a - 1) + 1
  BY <1>1, <1>2, <1>3
<1> QED
  BY <1>3, <1>4

\* The window starts and ends on a page, and so does the stack; the index
\* into the page table is the page's place in the window.
LEMMA Window ==
  /\ UserBase \in Nat /\ StackTop \in Nat /\ StackBase \in Nat
  /\ UserBase <= StackBase /\ StackBase <= StackTop
  /\ In(UserBase) = 0 /\ In(StackTop) = 0 /\ In(StackBase) = 0 /\ Origin \in Int
  /\ \A a \in UserBase .. StackTop - 1 :
       /\ Pg(a) = On(a) - Origin /\ Pg(a) \in Pages /\ On(a) % WindowPages = Pg(a)
<1> DEFINE p == PageUnits
           w == WindowPages
           u == UserBase
           v == w * p
           k == u \div v
           f == w * k
           W == Of(WindowPages)
           S == Of(StackPages)
<1>1. p \in Nat \ {0} /\ w \in Nat \ {0} /\ u \in Nat
  BY Consts
<1>2. u % v = 0
  BY LoaderAssumption
<1>3. W = v /\ StackTop = u + W /\ StackBase = StackTop - S
  BY DEF Of, StackTop, StackBase
<1>4. W \in Nat /\ S \in Nat /\ S <= W
  BY Consts, Multiples
<1>5. StackTop \in Nat /\ StackBase \in Nat /\ u <= StackBase /\ StackBase <= StackTop
  <2> HIDE DEF W, S, u, v
  <2> QED
    BY <1>1, <1>3, <1>4
<1> HIDE DEF p, w, u
<1>6. v \in Nat \ {0}
  <2>1. v \in Nat /\ v # 0
    BY <1>1
  <2> QED
    BY <2>1
<1>7. k \in Int /\ u = v * k
  <2> HIDE DEF v
  <2>1. k \in Int /\ u = v * k + (u % v)
    BY <1>1, <1>6, DivMod
  <2> HIDE DEF k
  <2>2. v * k \in Int
    BY <1>6, <2>1
  <2> QED
    BY <1>2, <2>1, <2>2
<1> HIDE DEF k
<1>8. f \in Int /\ u = p * f + 0 /\ 0 \in 0 .. p - 1
  BY <1>1, <1>7
<1> HIDE DEF f
<1>9. u % p = 0 /\ u \div p = f
  BY <1>1, <1>8, ModUnique
<1>10. Origin = f /\ In(u) = 0
  BY <1>9 DEF Origin, In, u, p
<1>11. In(StackTop) = 0
  <2>1. In(u + W) = In(u)
    BY <1>1, Consts, Multiples
  <2> QED
    BY <1>3, <1>10, <2>1
<1>12. In(StackBase) = 0
  <2>1. In(StackBase + S) = In(StackBase)
    BY <1>5, Consts, Multiples
  <2>2. StackBase + S = StackTop
    <3> HIDE DEF S
    <3> QED
      BY <1>3, <1>4, <1>5
  <2> QED
    BY <1>11, <2>1, <2>2
<1>13. ASSUME NEW a \in u .. StackTop - 1
       PROVE  Pg(a) = On(a) - f /\ Pg(a) \in 0 .. w - 1 /\ On(a) % w = Pg(a)
  <2>1. a \in Int /\ u <= a /\ a < StackTop
    BY <1>1, <1>5
  <2>2. a - u = a - p * f
    BY <1>8, <1>1
  <2>3. On(a - u) = On(a) - f /\ On(a) \in Int
    BY <1>8, <2>1, <2>2, PageShift, PageOf DEF p
  <2>4. Pg(a) = On(a - u)
    BY DEF Pg, On, u
  <2>5. Pg(a) = On(a) - f /\ Pg(a) \in Int
    BY <1>8, <2>3, <2>4
  <2>6. Pg(a) \in 0 .. w - 1
    <3> DEFINE x == Pg(a)
               r == In(a - u)
               d == a - u
    <3>1. d \in Int /\ d >= 0 /\ d < v
      <4> HIDE DEF v, W
      <4> QED
        BY <1>1, <1>3, <1>4, <2>1
    <3>2. r \in 0 .. p - 1 /\ d = p * x + r /\ x \in Int
      <4>1. a - u \in Int
        BY <3>1
      <4>2. In(a - u) \in 0 .. p - 1 /\ a - u = p * On(a - u) + In(a - u)
        BY <4>1, PageOf DEF p
      <4> QED
        BY <2>4, <2>5, <4>2
    <3> HIDE DEF x, r, d
    <3>3. x >= 0
      <4>1. CASE x <= -1
        <5>1. p * x <= -p /\ p * x \in Int
          BY <1>1, <3>2, <4>1, MulMonotone
        <5> QED
          BY <1>1, <3>1, <3>2, <5>1
      <4> QED
        BY <3>2, <4>1
    <3>4. x < w
      <4>1. CASE x >= w
        <5>1. CASE x = w
          <6>1. p * x = v /\ v \in Int
            BY <1>1, <5>1
          <6> HIDE DEF v
          <6> QED
            BY <1>1, <3>1, <3>2, <6>1
        <5>2. CASE x # w
          <6>1. x - w \in Int /\ x - w >= 1
            BY <1>1, <3>2, <4>1, <5>2
          <6>2. p * (x - w) >= p /\ p * (x - w) = p * x - v /\ p * x \in Int /\ v \in Int
            BY <1>1, <3>2, <6>1, MulMonotone
          <6> HIDE DEF v
          <6>3. p * x - v >= p
            BY <6>2
          <6> QED
            BY <1>1, <3>1, <3>2, <6>2, <6>3
        <5> QED
          BY <5>1, <5>2
      <4> QED
        BY <1>1, <3>2, <4>1
    <3>5. x \in 0 .. w - 1
      BY <1>1, <3>2, <3>3, <3>4
    <3> QED
      BY <3>5 DEF x
  <2>7. On(a) = w * k + Pg(a)
    <3>1. w * k \in Int /\ f = w * k
      BY <1>1, <1>7 DEF f
    <3> QED
      BY <2>3, <2>5, <3>1
  <2>8. On(a) % w = Pg(a)
    BY <1>1, <1>7, <2>3, <2>6, <2>7, ModUnique
  <2> QED
    BY <2>5, <2>6, <2>8
<1> QED
  BY <1>1, <1>5, <1>8, <1>10, <1>11, <1>12, <1>13 DEF Pages, u, w

-----------------------------------------------------------------------------
(* What the copying loops leave at an address.                              *)

\* A chunk does not leave its page.
LEMMA InChunk ==
  ASSUME NEW at \in Nat, NEW c \in Nat, c > 0, In(at) + c <= PageUnits, NEW a \in Nat
  PROVE  /\ at <= a /\ a < at + c => On(a) = On(at)
         /\ On(a) = On(at) =>
              a - at = In(a) - In(at) /\ (at <= a /\ a < at + c <=> In(a) >= In(at) /\ In(a) < In(at) + c)
         /\ On(at + c - 1) = On(at)
<1> DEFINE i == In(at)
           j == In(a)
<1>1. i \in 0 .. PageUnits - 1 /\ j \in 0 .. PageUnits - 1 /\ PageUnits \in Nat \ {0} /\ at \in Int /\ a \in Int
  BY PageTypes, Consts
<1> HIDE DEF i, j
<1>a. i + c <= PageUnits
  BY DEF i
<1>2. ASSUME at <= a, a < at + c
      PROVE  On(a) = On(at)
  <2>1. a - at \in Int /\ i + (a - at) \in 0 .. PageUnits - 1 /\ at + (a - at) = a
    BY <1>1, <1>a, <1>2
  <2>2. On(at + (a - at)) = On(at)
    BY <1>1, <2>1, PageNear DEF i
  <2> QED
    BY <2>1, <2>2
<1>3. ASSUME On(a) = On(at)
      PROVE  a - at = j - i /\ (at <= a /\ a < at + c <=> j >= i /\ j < i + c)
  <2>1. a - at = j - i
    BY <1>1, <1>3, SamePage DEF i, j
  <2> QED
    BY <1>1, <2>1
<1>4. On(at + c - 1) = On(at)
  <2>1. c - 1 \in Int /\ i + (c - 1) \in 0 .. PageUnits - 1 /\ at + (c - 1) = at + c - 1
    BY <1>1, <1>a
  <2>2. On(at + (c - 1)) = On(at)
    BY <1>1, <2>1, PageNear DEF i
  <2> QED
    BY <2>1, <2>2
<1> QED
  BY <1>2, <1>3, <1>4 DEF i, j

\* The pages touched after a chunk was copied.
LEMMA TouchedStep ==
  ASSUME NEW lo \in Nat, NEW at \in Nat, lo <= at, NEW c \in Nat, c > 0, In(at) + c <= PageUnits,
         NEW a \in Nat
  PROVE  /\ On(a) = On(at) => Touched(a, lo, at + c)
         /\ On(a) # On(at) => (Touched(a, lo, at + c) <=> Touched(a, lo, at))
<1> DEFINE x == On(a)
           y == On(at)
           l == On(lo)
           z == On(at - 1)
<1>1. x \in Int /\ y \in Int /\ l \in Int /\ z \in Int /\ at - 1 \in Int
  BY PageOf
<1>2. On(at + c - 1) = y /\ lo < at + c /\ l <= y
  BY InChunk, PageMono
<1>3. Touched(a, lo, at + c) <=> l <= x /\ x <= y
  BY <1>1, <1>2 DEF Touched
<1>4. Touched(a, lo, at) <=> lo < at /\ l <= x /\ x <= z
  BY <1>1 DEF Touched
<1>5. z <= y /\ y <= z + 1
  BY <1>1, PageMono, PageStep
<1>6. lo = at => l = y
  OBVIOUS
<1> HIDE DEF x, y, l, z
<1>7. x = y => (l <= x /\ x <= y)
  BY <1>1, <1>2
<1>8. x # y => (l <= x /\ x <= y <=> lo < at /\ l <= x /\ x <= z)
  BY <1>1, <1>2, <1>5, <1>6
<1>9. /\ x = y => Touched(a, lo, at + c)
      /\ x # y => (Touched(a, lo, at + c) <=> Touched(a, lo, at))
  BY <1>3, <1>4, <1>7, <1>8
<1> QED
  BY <1>9 DEF x, y

\* What an address has to show after a chunk of the segment...
LEMMA WantSegment ==
  ASSUME NEW img \in Images, NEW info \in Infos, NEW at \in Nat, info.first_vaddr <= at,
         NEW c \in Nat, c > 0, In(at) + c <= PageUnits, NEW a \in Nat
  PROVE  LET v == Want(img, info, a, at, StackBase)
             w == Want(img, info, a, at + c, StackBase)
             end == info.first_vaddr + info.load_filesz
         IN /\ On(a) # On(at) => w = v
            /\ On(a) = On(at) /\ ~(at <= a /\ a < at + c) => w = IF v = Unmapped THEN 0 ELSE v
            /\ at <= a /\ a < at + c =>
                 w = IF a < end THEN ImageUnit(img, info.load_offset + (a - info.first_vaddr)) ELSE 0
            /\ w # Unmapped \/ (On(a) # On(at))
<1> DEFINE l == info.first_vaddr
           e == info.first_vaddr + info.load_filesz
           n == ImageUnit(img, info.load_offset + (a - info.first_vaddr))
           v == Want(img, info, a, at, StackBase)
           w == Want(img, info, a, at + c, StackBase)
           t == Touched(a, l, at)
           s == Touched(a, l, at + c)
<1>1. l \in Nat /\ e \in Nat /\ l <= at /\ (a >= l => n # Unmapped) /\ StackBase \in Nat
  <2>1. info.first_vaddr \in Nat /\ info.load_filesz \in Nat /\ info.load_offset \in Nat
    BY DEF Infos
  <2>2. a >= l => info.load_offset + (a - info.first_vaddr) \in Nat
    BY <2>1
  <2>3. a >= l => n # Unmapped
    BY <2>2, Holds
  <2> QED
    BY <2>1, <2>3, Window
<1>2. v = IF a >= l /\ a < at /\ a < e THEN n ELSE IF t THEN 0 ELSE Unmapped
  BY <1>1 DEF Want
<1>3. w = IF a >= l /\ a < at + c /\ a < e THEN n ELSE IF s THEN 0 ELSE Unmapped
  BY <1>1 DEF Want
<1>4. (On(a) = On(at) => s) /\ (On(a) # On(at) => (s <=> t))
  BY <1>1, TouchedStep
<1>5. at <= a /\ a < at + c => On(a) = On(at)
  BY InChunk
<1> HIDE DEF l, e, n, v, w, s, t
<1>6. On(a) # On(at) => w = v
  BY <1>1, <1>2, <1>3, <1>4, <1>5
<1>7. On(a) = On(at) /\ ~(at <= a /\ a < at + c) => w = IF v = Unmapped THEN 0 ELSE v
  <2>1. n # Unmapped \/ ~(a >= l)
    BY <1>1
  <2>2. 0 # Unmapped
    BY DEF Unmapped
  <2> QED
    BY <1>1, <1>2, <1>3, <1>4, <2>1, <2>2
<1>8. at <= a /\ a < at + c => w = IF a < e THEN n ELSE 0
  BY <1>1, <1>3, <1>4, <1>5
<1>9. w # Unmapped \/ On(a) # On(at)
  BY <1>1, <1>3, <1>4 DEF Unmapped
<1> QED
  BY <1>6, <1>7, <1>8, <1>9 DEF l, e, n, v, w

\* ...and after a page of the stack.
LEMMA WantStack ==
  ASSUME NEW img \in Images, NEW info \in Infos, NEW at \in Nat, StackBase <= at, In(at) = 0,
         NEW hi \in Nat, NEW a \in Nat
  PROVE  /\ On(a) # On(at) => Want(img, info, a, hi, at + PageUnits) = Want(img, info, a, hi, at)
         /\ On(a) = On(at) => Want(img, info, a, hi, at + PageUnits) = 0 /\ at <= a /\ a < at + PageUnits
<1> DEFINE p == PageUnits
           j == In(a)
<1>1. p \in Nat \ {0} /\ In(at) + p <= p /\ j \in 0 .. p - 1 /\ StackBase \in Nat
  <2>1. p \in Nat \ {0}
    BY Consts
  <2>2. j \in 0 .. p - 1
    BY PageTypes
  <2> QED
    BY <2>1, <2>2, Window
<1>2. /\ at <= a /\ a < at + p => On(a) = On(at)
      /\ On(a) = On(at) => a - at = j - 0
  BY <1>1, InChunk
<1> HIDE DEF p, j
<1>3. ASSUME On(a) = On(at)
      PROVE  at <= a /\ a < at + p
  BY <1>1, <1>2, <1>3
<1>4. ASSUME On(a) # On(at)
      PROVE  (a >= StackBase /\ a < at + p) <=> (a >= StackBase /\ a < at)
  BY <1>1, <1>2, <1>4
<1>5. On(a) # On(at) => Want(img, info, a, hi, at + p) = Want(img, info, a, hi, at)
  BY <1>4 DEF Want
<1>6. On(a) = On(at) => Want(img, info, a, hi, at + p) = 0
  BY <1>1, <1>3 DEF Want
<1> QED
  BY <1>3, <1>5, <1>6 DEF p

\* What a pass changes at an address of the window.
LEMMA PassShows ==
  ASSUME CoreInv, CopyPass, NEW a \in UserBase .. StackTop - 1
  PROVE  LET pt == user_pt[run.id]
             new == user_pt'[run.id]
             here == run.at <= a /\ a < run.at + Chunk
         IN /\ On(a) # On(run.at) => \A v : Shows(pt, mem, a, v) => Shows(new, mem', a, v)
            /\ On(a) = On(run.at) =>
                 /\ new[Pg(a)] # NULL
                 /\ here => mem'[new[Pg(a)]][In(a)] = Copied(a - run.at)
                 /\ ~here => \A v : Shows(pt, mem, a, v) =>
                      mem'[new[Pg(a)]][In(a)] = IF v = Unmapped THEN 0 ELSE v
<1> DEFINE pt == user_pt[run.id]
           new == user_pt'[run.id]
           at == run.at
           c == Chunk
           here == at <= a /\ a < at + c
<1>1. /\ SpaceInv /\ Page \in Pages /\ Slot # NULL /\ run \in RunRecord
      /\ \A q \in Pages : pt[q] = Slot => q = Page
  BY SlotIs
<1>2. pt \in [Pages -> Nat]
  BY <1>1 DEF SpaceInv
<1>3. new = [pt EXCEPT ![Page] = Slot]
  BY PassIs
<1>4. at \in Nat /\ run.left \in Nat /\ run.left > 0 /\ a \in Nat /\ at \in UserBase .. StackTop - 1
  <2>1. run.at \in Nat /\ run.left \in Nat
    BY <1>1 DEF RunRecord
  <2> QED
    BY <2>1, Window DEF CopyPass, InWindow
<1>5. c \in Nat /\ c > 0 /\ In(at) + c <= PageUnits
  BY <1>4, ChunkFits
<1>6. Page = Pg(at)
  BY <1>4, Window DEF Page, On
<1>7. Pg(a) = On(a) - Origin /\ Pg(at) = On(at) - Origin /\ Pg(a) \in Pages /\ Origin \in Int
  BY <1>4, Window
<1>8. On(a) \in Int /\ On(at) \in Int /\ In(a) \in Units
  BY <1>4, PageTypes DEF Units
<1>9. Pg(a) = Page <=> On(a) = On(at)
  BY <1>6, <1>7, <1>8
<1> HIDE DEF pt, new, at, c
<1>10. ASSUME On(a) # On(at), NEW v, Shows(pt, mem, a, v)
       PROVE  Shows(new, mem', a, v)
  <2>1. new[Pg(a)] = pt[Pg(a)] /\ pt[Pg(a)] # Slot
    BY <1>1, <1>2, <1>3, <1>7, <1>9, <1>10 DEF pt
  <2>2. pt[Pg(a)] # NULL => pt[Pg(a)] \in DOMAIN mem
    BY <1>1, <1>7 DEF SpaceInv, pt
  <2>3. pt[Pg(a)] # NULL => mem'[pt[Pg(a)]] = mem[pt[Pg(a)]]
    BY <2>1, <2>2, PassIs
  <2> QED
    BY <1>10, <2>1, <2>3 DEF Shows
<1>11. ASSUME On(a) = On(at)
       PROVE  /\ new[Pg(a)] # NULL
              /\ here => mem'[new[Pg(a)]][In(a)] = Copied(a - at)
              /\ ~here => \A v : Shows(pt, mem, a, v) =>
                   mem'[new[Pg(a)]][In(a)] = IF v = Unmapped THEN 0 ELSE v
  <2>1. Pg(a) = Page /\ new[Pg(a)] = Slot
    BY <1>1, <1>2, <1>3, <1>9, <1>11
  <2>2. a - at = In(a) - In(at) /\ (here <=> In(a) >= In(at) /\ In(a) < In(at) + c)
    BY <1>4, <1>5, <1>11, InChunk
  <2>3. mem'[Slot][In(a)] = IF In(a) >= In(at) /\ In(a) < In(at) + c THEN Copied(In(a) - In(at)) ELSE Before[In(a)]
    BY <1>8, PassIs DEF at, c
  <2>4. here => mem'[Slot][In(a)] = Copied(a - at)
    BY <2>2, <2>3
  <2>5. ASSUME ~here, NEW v, Shows(pt, mem, a, v)
        PROVE  mem'[Slot][In(a)] = IF v = Unmapped THEN 0 ELSE v
    <3>1. mem'[Slot][In(a)] = Before[In(a)]
      BY <2>2, <2>3, <2>5
    <3>2. CASE Present
      <4>1. Slot = pt[Page] /\ pt[Page] # NULL /\ Before = mem[Slot]
        BY <3>2 DEF Slot, Before, Present, pt
      <4> QED
        BY <2>1, <2>5, <3>1, <4>1 DEF Shows
    <3>3. CASE ~Present
      <4>1. pt[Page] = NULL /\ Before[In(a)] = 0
        BY <1>8, <3>3 DEF Before, Present, pt
      <4>2. v = Unmapped
        BY <2>1, <2>5, <4>1 DEF Shows
      <4> QED
        BY <3>1, <4>1, <4>2
    <3> QED
      BY <3>2, <3>3
  <2> QED
    BY <1>1, <2>1, <2>4, <2>5
<1> QED
  BY <1>10, <1>11 DEF pt, new, at, c

\* The types of the run's measures.
LEMMA Measures ==
  ASSUME CoreInv, run.pc \in Loaded
  PROVE  /\ run \in RunRecord /\ run.info \in Infos /\ run.at \in Nat /\ run.left \in Nat
         /\ run.image \in Images
         /\ Low \in Nat /\ FileEnd \in Nat /\ Size \in Nat /\ Reached \in Nat /\ Cleared \in Nat
         /\ run.info.load_filesz \in Nat /\ run.info.load_memsz \in Nat /\ run.info.load_offset \in Nat
         /\ Low = run.info.first_vaddr /\ FileEnd = Low + run.info.load_filesz
<1>1. run.pc # "prompt"
  BY DEF Loaded, Loops
<1>2. /\ run \in RunRecord /\ run.info \in Infos /\ run.at \in Nat /\ run.left \in Nat
      /\ run.image \in Images /\ run.info.first_vaddr \in Nat /\ run.info.load_filesz \in Nat
      /\ run.info.load_memsz \in Nat /\ run.info.load_offset \in Nat
  BY <1>1, RunTypes DEF CoreInv
<1>3. Low \in Nat /\ FileEnd \in Nat /\ Size \in Nat
  BY <1>2 DEF Low, FileEnd, Size
<1>4. Reached \in Nat
  <2>1. Low + Size \in Nat
    BY <1>3
  <2> QED
    BY <1>2, <1>3, <2>1 DEF Reached
<1>5. Cleared \in Nat
  BY <1>2, Window DEF Cleared
<1> QED
  BY <1>2, <1>3, <1>4, <1>5 DEF Low, FileEnd

\* The stack is cleared page by page.
LEMMA WholePage ==
  ASSUME run.at \in Nat, run.left \in Nat, run.left > 0, In(run.at) = 0, run.at + run.left = StackTop
  PROVE  Chunk = PageUnits /\ In(run.at + PageUnits) = 0
<1> DEFINE at == run.at
           l == run.left
           c == Chunk
           p == PageUnits
<1>1. p \in Nat \ {0} /\ at \in Nat /\ l \in Nat /\ l > 0
  BY Consts
<1>2. c \in Nat /\ c <= l /\ In(at) + c <= p /\ (c = l \/ In(at) + c = p)
  BY ChunkFits
<1>3. In(at) = 0 /\ at + l = StackTop
  OBVIOUS
<1> HIDE DEF at, l, c, p
<1>4. l >= p
  <2>1. CASE l < p
    <3>1. at \in Int /\ l \in Int /\ In(at) + l \in 0 .. p - 1 /\ In(at) + l = l
      BY <1>1, <1>3, <2>1
    <3>2. In(at + l) = In(at) + l
      BY <3>1, PageNear DEF p
    <3>3. In(at + l) = 0
      BY <1>3, Window
    <3> QED
      BY <1>1, <3>1, <3>2, <3>3
  <2> QED
    BY <1>1, <2>1
<1>5. c = p
  BY <1>1, <1>2, <1>3, <1>4
<1>6. In(at + p) = 0
  <2>1. 1 \in Nat /\ at \in Int
    BY <1>1
  <2>2. In(at + Of(1)) = In(at) /\ Of(1) = PageUnits
    BY ONLY <2>1, Multiples
  <2> QED
    BY <1>3, <2>2 DEF p
<1> QED
  BY <1>5, <1>6 DEF at, c, p

LEMMA ImagePass ==
  ASSUME CoreInv, ImageInv, CopyPass, Untruncated(run.info)
  PROVE  ImageInv'
<1> DEFINE at == run.at
           l == run.left
           c == Chunk
           info == run.info
           img == run.image
           fs == run.info.load_filesz
           ms == run.info.load_memsz
           pt == user_pt[run.id]
           new == user_pt'[run.id]
<1>1. /\ run.pc \in Loops /\ run.pc \in Loaded /\ run \in RunRecord /\ l > 0
      /\ run' = [run EXCEPT !.at = at + c, !.left = l - c]
  BY SlotIs, PassIs DEF Loaded
<1>2. /\ run'.pc = run.pc /\ run'.id = run.id /\ run'.info = info /\ run'.image = img
      /\ run'.at = at + c /\ run'.left = l - c
  BY <1>1 DEF RunRecord
<1>3. /\ at \in Nat /\ l \in Nat /\ info \in Infos /\ Low \in Nat /\ FileEnd \in Nat /\ Size \in Nat
      /\ Reached \in Nat /\ Cleared \in Nat /\ fs \in Nat /\ ms \in Nat /\ info.load_offset \in Nat
      /\ Low = info.first_vaddr /\ FileEnd = Low + fs /\ img \in Images
  BY <1>1, Measures
<1>4. c \in Nat /\ c > 0 /\ c <= l /\ In(at) + c <= PageUnits
  BY <1>1, <1>3, ChunkFits
<1>5. Low' = Low /\ FileEnd' = FileEnd /\ Size' = Size
  BY <1>2 DEF Low, FileEnd, Size
<1>6. Progress /\ \A a \in UserBase .. StackTop - 1 : Shows(pt, mem, a, Want(img, info, a, Reached, Cleared))
  BY <1>1 DEF ImageInv
<1>7. \A a \in UserBase .. StackTop - 1 : a \in Nat
  BY Window
<1>f. fs % U32 = fs
  BY <1>3, Cut
<1> HIDE DEF at, l, c, info, img, fs, ms, pt, new
<1>8. at + c \in Nat /\ at <= at + c /\ (at + c) + (l - c) = at + l
  BY <1>3, <1>4
<1>9. CASE run.pc = "write" \/ run.pc = "bss"
  <2>1. /\ Low <= at
        /\ run.pc = "write" => at + l = FileEnd
        /\ run.pc = "bss" => ms > fs /\ FileEnd <= at /\ at + l = Low + Size
    <3>1. CASE run.pc = "write"
      BY <1>6, <3>1 DEF Progress, at, l
    <3>2. CASE run.pc = "bss"
      <4>1. ms > fs
        BY <1>1, <1>6, <3>2 DEF Progress, l, ms, fs
      <4>2. FileEnd <= at /\ at + l = Low + Size
        BY <1>6, <3>2, <4>1 DEF Progress, at, l, ms, fs
      <4>3. Low <= at
        BY <1>3, <4>2
      <4> QED
        BY <3>2, <4>1, <4>2, <4>3
    <3> QED
      BY <1>9, <3>1, <3>2
  <2>2. Reached = at /\ Cleared = StackBase
    BY <1>9, <2>1 DEF Reached, Cleared, at, ms, fs
  <2>3. Reached' = at + c /\ Cleared' = StackBase
    BY <1>2, <1>9, <2>1 DEF Reached, Cleared, ms, fs, info
  <2>4. Progress'
    <3>1. CASE run.pc = "write"
      <4>1. Low <= at + c /\ (at + c) + (l - c) = FileEnd
        BY <1>3, <1>8, <2>1, <3>1
      <4> QED
        BY <1>2, <1>5, <3>1, <4>1 DEF Progress
    <3>2. CASE run.pc = "bss"
      <4>1. FileEnd <= at + c /\ (at + c) + (l - c) = Low + Size
        BY <1>3, <1>8, <2>1, <3>2
      <4> QED
        BY <1>2, <1>5, <2>1, <3>2, <4>1 DEF Progress, ms, fs, info
    <3> QED
      BY <1>9, <3>1, <3>2
  <2>5. ASSUME NEW a \in UserBase .. StackTop - 1
        PROVE  Shows(new, mem', a, Want(img, info, a, at + c, StackBase))
    <3> DEFINE v == Want(img, info, a, at, StackBase)
               w == Want(img, info, a, at + c, StackBase)
               here == at <= a /\ a < at + c
    <3>1. Shows(pt, mem, a, v) /\ a \in Nat
      BY <1>6, <1>7, <2>2
    <3>2. /\ On(a) # On(at) => w = v
          /\ On(a) = On(at) /\ ~here => w = IF v = Unmapped THEN 0 ELSE v
          /\ here => w = IF a < FileEnd THEN ImageUnit(img, info.load_offset + (a - Low)) ELSE 0
          /\ On(a) = On(at) => w # Unmapped
          /\ here => On(a) = On(at)
      <4> DEFINE f == info.first_vaddr
                 e == info.first_vaddr + info.load_filesz
                 x == info.load_offset
      <4>1. f <= at /\ f = Low /\ e = FileEnd
        BY <1>3, <2>1 DEF fs, info
      <4>2. /\ On(a) # On(at) => w = v
            /\ On(a) = On(at) /\ ~here => w = IF v = Unmapped THEN 0 ELSE v
            /\ here => w = IF a < e THEN ImageUnit(img, x + (a - f)) ELSE 0
            /\ w # Unmapped \/ On(a) # On(at)
        BY <1>3, <1>4, <3>1, <4>1, WantSegment
      <4>3. here => On(a) = On(at)
        BY <1>3, <1>4, <3>1, InChunk
      <4> HIDE DEF v, w, here, f, e
      <4> QED
        BY <4>1, <4>2, <4>3
    <3> HIDE DEF v, w
    <3>3. /\ On(a) # On(at) => (Shows(pt, mem, a, v) => Shows(new, mem', a, v))
          /\ On(a) = On(at) =>
               /\ new[Pg(a)] # NULL
               /\ here => mem'[new[Pg(a)]][In(a)] = Copied(a - at)
               /\ ~here => (Shows(pt, mem, a, v) => mem'[new[Pg(a)]][In(a)] = IF v = Unmapped THEN 0 ELSE v)
      BY PassShows DEF at, c, pt, new
    <3>4. here => Copied(a - at) = w
      <4> SUFFICES ASSUME here
                   PROVE  Copied(a - at) = w
        OBVIOUS
      <4>1. CASE run.pc = "write"
        <5> DEFINE x == info.load_offset
                   lo == Low
        <5>1. Copied(a - at) = ImageUnit(img, x + (fs - l) + (a - at))
          BY <1>f, <4>1 DEF Copied, info, img, fs, l
        <5>2. a < FileEnd /\ FileEnd = lo + fs /\ at + l = FileEnd
          BY <1>3, <1>4, <2>1, <3>1, <4>1
        <5>3. w = ImageUnit(img, x + (a - lo))
          BY <3>2, <5>2
        <5>4. x \in Nat /\ lo \in Nat
          BY <1>3
        <5> HIDE DEF x, lo
        <5>5. fs - l = at - lo
          BY <1>3, <5>2, <5>4
        <5>6. x + (fs - l) + (a - at) = x + (a - lo)
          BY <1>3, <3>1, <5>4, <5>5
        <5> QED
          BY <5>1, <5>3, <5>6
      <4>2. CASE run.pc = "bss"
        <5>1. Copied(a - at) = 0
          BY <4>2 DEF Copied
        <5>2. ~(a < FileEnd)
          BY <1>3, <2>1, <3>1, <4>2
        <5> QED
          BY <3>2, <5>1, <5>2
      <4> QED
        BY <1>9, <4>1, <4>2
    <3> HIDE DEF here
    <3>5. CASE On(a) # On(at)
      BY <3>1, <3>2, <3>3, <3>5 DEF w
    <3>6. CASE On(a) = On(at)
      <4>1. mem'[new[Pg(a)]][In(a)] = w /\ new[Pg(a)] # NULL /\ w # Unmapped
        BY <3>1, <3>2, <3>3, <3>4, <3>6
      <4> QED
        BY <4>1 DEF Shows, w
    <3> QED
      BY <3>5, <3>6
  <2>6. \A a \in UserBase .. StackTop - 1 :
          Shows(user_pt'[run'.id], mem', a, Want(run'.image, run'.info, a, Reached', Cleared'))
    BY <1>2, <2>3, <2>5 DEF new
  <2> QED
    BY <2>4, <2>6 DEF ImageInv
<1>10. CASE run.pc = "stack"
  <2>1. StackBase <= at /\ at + l = StackTop /\ In(at) = 0
    BY <1>6, <1>10 DEF Progress, at, l, In
  <2>2. c = PageUnits /\ In(at + PageUnits) = 0 /\ PageUnits \in Nat \ {0} /\ StackBase \in Nat
    BY <1>1, <1>3, <2>1, WholePage, Consts, Window DEF at, l, c
  <2>3. Reached = Low + Size /\ Cleared = at
    BY <1>10 DEF Reached, Cleared, at
  <2>4. Reached' = Low + Size /\ Cleared' = at + c
    BY <1>2, <1>5, <1>10 DEF Reached, Cleared
  <2>5. Progress'
    <3>1. StackBase <= at + c /\ (at + c) + (l - c) = StackTop /\ (at + c) % PageUnits = 0
      <4>1. In(at + c) = 0
        BY <2>2
      <4>2. (at + c) % PageUnits = 0
        BY <4>1 DEF In
      <4>3. StackBase <= at + c /\ (at + c) + (l - c) = StackTop
        BY <1>3, <1>8, <2>1, <2>2
      <4> QED
        BY <4>2, <4>3
    <3> QED
      BY <1>2, <1>10, <3>1 DEF Progress
  <2>6. ASSUME NEW a \in UserBase .. StackTop - 1
        PROVE  Shows(new, mem', a, Want(img, info, a, Low + Size, at + c))
    <3> DEFINE v == Want(img, info, a, Low + Size, at)
               w == Want(img, info, a, Low + Size, at + c)
               here == at <= a /\ a < at + c
    <3>1. Shows(pt, mem, a, v) /\ a \in Nat
      BY <1>6, <1>7, <2>3
    <3>2. (On(a) # On(at) => w = v) /\ (On(a) = On(at) => w = 0 /\ here)
      <4>1. Low + Size \in Nat
        BY <1>3
      <4> QED
        BY <1>3, <2>1, <2>2, <3>1, <4>1, WantStack
    <3> HIDE DEF v, w
    <3>3. /\ On(a) # On(at) => (Shows(pt, mem, a, v) => Shows(new, mem', a, v))
          /\ On(a) = On(at) =>
               new[Pg(a)] # NULL /\ (here => mem'[new[Pg(a)]][In(a)] = Copied(a - at))
      BY PassShows DEF at, c, pt, new
    <3>4. Copied(a - at) = 0 /\ 0 # Unmapped
      BY <1>10 DEF Copied, Unmapped
    <3> HIDE DEF here
    <3>5. CASE On(a) # On(at)
      BY <3>1, <3>2, <3>3, <3>5 DEF w
    <3>6. CASE On(a) = On(at)
      <4>1. mem'[new[Pg(a)]][In(a)] = w /\ new[Pg(a)] # NULL /\ w # Unmapped
        BY <3>2, <3>3, <3>4, <3>6
      <4> QED
        BY <4>1 DEF Shows, w
    <3> QED
      BY <3>5, <3>6
  <2>7. \A a \in UserBase .. StackTop - 1 :
          Shows(user_pt'[run'.id], mem', a, Want(run'.image, run'.info, a, Reached', Cleared'))
    BY <1>2, <2>4, <2>6 DEF new
  <2> QED
    BY <2>5, <2>7 DEF ImageInv
<1> QED
  BY <1>1, <1>9, <1>10 DEF Loops

LEMMA ImageQuiet ==
  ASSUME ImageInv, Untruncated(run.info), run.pc \in Loaded, UNCHANGED spaces, run'.id = run.id, run'.info = run.info, run'.image = run.image,
         Progress', Reached' = Reached, Cleared' = Cleared
  PROVE  ImageInv'
<1>1. user_pt' = user_pt /\ mem' = mem
  BY DEF spaces
<1> QED
  BY <1>1 DEF ImageInv

\* Nothing is copied any more.
LEMMA ImageKept ==
  ASSUME ImageInv, Untruncated(run.info), run.pc \in {"enter", "user", "back"}, run'.pc \in {"enter", "user", "back"},
         UNCHANGED spaces, run'.id = run.id, run'.info = run.info, run'.image = run.image
  PROVE  ImageInv'
<1>1. Progress' /\ run.pc \in Loaded
  BY DEF Progress, Loaded
<1>2. Low' = Low /\ Size' = Size
  BY DEF Low, Size
<1>3. Reached' = Reached /\ Cleared' = Cleared
  BY <1>2 DEF Reached, Cleared
<1> QED
  BY <1>1, <1>3, ImageQuiet

LEMMA ImageCreate ==
  ASSUME CoreInv, Create
  PROVE  ImageInv'
<1>1. CoreInv'
  BY StepCreate
<1>2. run.pc = "create" /\ run \in RunRecord /\ NoSpace
  BY RunTypes DEF Create, CoreInv, RunInv, Loaded, Loops
<1>3. CASE run'.pc \notin Loaded
  BY <1>3 DEF ImageInv
<1>4. CASE run'.pc \in Loaded
  <2>1. run' = [LoopWrite EXCEPT !.id = next_aspace_id]
        /\ user_pt' = With(user_pt, next_aspace_id, [p \in Pages |-> NULL])
    BY <1>4 DEF Create, NoRun, Loaded, Loops
  <2>2. /\ run'.pc = "write" /\ run'.id = next_aspace_id /\ run'.info = run.info
        /\ run'.at = run.info.first_vaddr /\ run'.left = run.info.load_filesz % U32
        /\ run'.image = run.image
    BY <1>2, <2>1 DEF LoopWrite, Loop, RunRecord
  <2>3. run.info.first_vaddr \in Nat /\ run.info.load_filesz \in Nat
    BY <1>2 DEF RunRecord, Infos
  <2>4. Low' = run.info.first_vaddr /\ FileEnd' = run.info.first_vaddr + run.info.load_filesz
    BY <2>2 DEF Low, FileEnd
  <2>5. Untruncated(run'.info) => Progress'
    <3>1. Untruncated(run'.info) => run'.left = run.info.load_filesz
      BY <1>2, <2>2, Cut DEF RunRecord
    <3> QED
      BY <2>2, <2>3, <2>4, <3>1 DEF Progress
  <2>6. Reached' = run.info.first_vaddr /\ Cleared' = StackBase
    BY <2>2 DEF Reached, Cleared
  <2>7. user_pt'[run'.id] = [p \in Pages |-> NULL]
    BY <2>1, <2>2 DEF With
  <2>8. ASSUME NEW a \in UserBase .. StackTop - 1
        PROVE  Shows(user_pt'[run'.id], mem', a, Want(run'.image, run'.info, a, Reached', Cleared'))
    <3>1. a \in Nat /\ StackBase \in Nat /\ Pg(a) \in Pages
      BY Window
    <3>2. Want(run.image, run.info, a, run.info.first_vaddr, StackBase) = Unmapped
      <4> DEFINE f == run.info.first_vaddr
      <4>1. ~(a >= StackBase /\ a < StackBase) /\ ~(a >= f /\ a < f) /\ ~(f < f)
        BY <2>3, <3>1
      <4>2. ~Touched(a, f, f)
        BY <4>1 DEF Touched
      <4> QED
        BY <4>1, <4>2 DEF Want
    <3>3. Want(run'.image, run'.info, a, Reached', Cleared') = Unmapped
      BY <2>2, <2>6, <3>2
    <3>4. user_pt'[run'.id][Pg(a)] = NULL
      BY <2>7, <3>1
    <3> QED
      BY <3>3, <3>4 DEF Shows
  <2> QED
    BY <2>5, <2>8 DEF ImageInv
<1> QED
  BY <1>3, <1>4

LEMMA ImageDone ==
  ASSUME CoreInv, ImageInv, CopyDone, Untruncated(run.info)
  PROVE  ImageInv'
<1> DEFINE fs == run.info.load_filesz
           ms == run.info.load_memsz
<1>1. /\ run.pc \in Loops /\ run.pc \in Loaded /\ run.left = 0 /\ UNCHANGED spaces
      /\ \/ run.pc = "write" /\ run' = LoopBss
         \/ run.pc = "bss" /\ run' = LoopStack
         \/ run.pc = "stack" /\ run' = [run EXCEPT !.pc = "enter"]
  BY DEF CopyDone, Loaded, Loops
<1>2. /\ run \in RunRecord /\ run.at \in Nat /\ Low \in Nat /\ FileEnd \in Nat /\ Size \in Nat
      /\ fs \in Nat /\ ms \in Nat /\ Low = run.info.first_vaddr /\ FileEnd = Low + fs
  BY <1>1, Measures
<1>3. Progress
  BY <1>1 DEF ImageInv
<1>4. run'.id = run.id /\ run'.info = run.info /\ run'.image = run.image
  BY <1>1, <1>2 DEF LoopBss, LoopStack, Loop, RunRecord
<1>5. Low' = Low /\ FileEnd' = FileEnd /\ Size' = Size
  BY <1>4 DEF Low, FileEnd, Size
<1>6. Size = IF ms > fs THEN ms ELSE fs
  BY DEF Size
<1>7. CASE run.pc = "write"
  <2>1. run.at = FileEnd
    BY <1>1, <1>2, <1>3, <1>7 DEF Progress
  <2>2. /\ run'.pc = "bss"
        /\ ms > fs => run'.at = FileEnd /\ run'.left = ms - fs
        /\ ~(ms > fs) => run'.left = 0
    <3>1. ms > fs => (ms - fs) % U32 = ms - fs
      BY <1>2, Cut DEF RunRecord
    <3> QED
      BY <1>1, <1>2, <1>7, <3>1 DEF LoopBss, Loop, RunRecord
  <2>3. Reached = FileEnd /\ Reached' = FileEnd
    BY <1>4, <1>5, <1>7, <2>1, <2>2 DEF Reached
  <2>4. Cleared = StackBase /\ Cleared' = StackBase
    BY <1>7, <2>2 DEF Cleared
  <2>5. Progress'
    <3>1. ms > fs => FileEnd <= FileEnd /\ FileEnd + (ms - fs) = Low + Size
      <4> HIDE DEF ms, fs
      <4> QED
        BY <1>2, <1>6
    <3> QED
      BY <1>4, <1>5, <2>2, <3>1 DEF Progress
  <2> QED
    BY <1>1, <1>4, <2>3, <2>4, <2>5, ImageQuiet
<1>8. CASE run.pc = "bss"
  <2>1. ms > fs => run.at = Low + Size
    BY <1>1, <1>2, <1>3, <1>8 DEF Progress
  <2>2. ~(ms > fs) => FileEnd = Low + Size
    BY <1>2, <1>6
  <2>3. run'.pc = "stack" /\ run'.at = StackBase /\ run'.left = StackPages * PageUnits
    BY <1>1, <1>2, <1>8 DEF LoopStack, Loop, RunRecord, StackBase
  <2>4. Reached = Low + Size /\ Reached' = Low + Size
    BY <1>5, <1>8, <2>1, <2>2, <2>3 DEF Reached
  <2>5. Cleared = StackBase /\ Cleared' = StackBase
    BY <1>8, <2>3 DEF Cleared
  <2>6. Progress'
    <3>1. StackBase \in Nat /\ StackBase % PageUnits = 0
      BY Window DEF In
    <3>2. StackBase + StackPages * PageUnits = StackTop
      <4> DEFINE s == StackPages * PageUnits
                 t == StackTop
      <4>1. s \in Nat /\ t \in Nat /\ StackBase = t - s
        <5>1. Of(StackPages) \in Nat
          BY Consts, Multiples
        <5> QED
          BY <5>1, Window DEF Of, StackBase
      <4> HIDE DEF s, t
      <4>2. StackBase + s = t
        BY <4>1
      <4> QED
        BY <4>2 DEF s, t
    <3> QED
      BY <2>3, <3>1, <3>2 DEF Progress
  <2> QED
    BY <1>1, <1>4, <2>4, <2>5, <2>6, ImageQuiet
<1>9. CASE run.pc = "stack"
  <2>1. run.at = StackTop
    BY <1>1, <1>2, <1>3, <1>9 DEF Progress
  <2>2. run'.pc = "enter"
    BY <1>1, <1>2, <1>9 DEF RunRecord
  <2>3. Reached' = Reached
    BY <1>5, <1>9, <2>2 DEF Reached
  <2>4. Cleared' = Cleared
    BY <1>9, <2>1, <2>2 DEF Cleared
  <2>5. Progress'
    BY <2>2 DEF Progress
  <2> QED
    BY <1>1, <1>4, <2>3, <2>4, <2>5, ImageQuiet
<1> QED
  BY <1>1, <1>7, <1>8, <1>9 DEF Loops

LEMMA StepImage ==
  ASSUME CoreInv, ImageInv, [Next]_vars
  PROVE  ImageInv'
<1>1. ASSUME run'.pc \notin Loaded
      PROVE  ImageInv'
  BY <1>1 DEF ImageInv
<1>2. CASE Refuse
  BY <1>1, <1>2 DEF Refuse, Loaded, Loops
<1>3. ASSUME NEW image \in Images, Start(image)
      PROVE  ImageInv'
  BY <1>1, <1>3 DEF Start, Loaded, Loops
<1>a. ASSUME ~Untruncated(run.info), run'.info = run.info
      PROVE  ImageInv'
  BY <1>a DEF ImageInv
<1>4. CASE CopyFails \/ Leave
  BY <1>1, <1>4 DEF CopyFails, Leave, NoRun, Loaded, Loops
<1>5. run.pc # "prompt" => run \in RunRecord
  BY RunTypes DEF CoreInv
<1>6. CASE Enter
  <2>1. run.pc = "enter" /\ run'.pc \in {"user", "back"} /\ run'.id = run.id /\ run'.info = run.info
        /\ run'.image = run.image /\ UNCHANGED spaces
    BY <1>5, <1>6 DEF Enter, RunRecord
  <2> QED
    BY <1>a, <2>1, ImageKept
<1>7. CASE Syscall
  <2>1. run.pc = "user" /\ run'.pc \in {"user", "back"} /\ run'.id = run.id /\ run'.info = run.info
        /\ run'.image = run.image /\ UNCHANGED spaces
    BY <1>5, <1>7 DEF Syscall, RunRecord
  <2> QED
    BY <1>a, <2>1, ImageKept
<1>8. CASE PageFault
  <2>1. run.pc = "user" /\ run' = run /\ UNCHANGED spaces
    BY <1>8 DEF PageFault
  <2> QED
    BY <1>a, <2>1, ImageKept
<1>b. CASE CopyPass
  <2>1. run'.info = run.info
    BY <1>b, RunTypes, PassIs DEF RunRecord, CoreInv, CopyPass
  <2> QED
    BY <1>a, <1>b, <2>1, ImagePass
<1>c. CASE CopyDone
  <2>1. run \in RunRecord
    BY <1>5, <1>c DEF CopyDone
  <2>2. run'.info = run.info
    BY <1>c, <2>1 DEF CopyDone, LoopBss, LoopStack, Loop, RunRecord
  <2> QED
    BY <1>a, <1>c, <2>2, ImageDone
<1>9. CASE UNCHANGED vars
  BY <1>9 DEF vars, ImageInv, Progress, Reached, Cleared, Low, FileEnd, Size, Untruncated
<1> QED
  BY <1>2, <1>3, <1>4, <1>6, <1>7, <1>8, <1>9, <1>b, <1>c, ImageCreate DEF Next, Work

LEMMA LoaderHolds == Spec => []LoaderInv
<1>1. ASSUME Init
      PROVE  LoaderInv
  <2>1. run = NoRun
    BY <1>1 DEF Init
  <2>2. run.pc = "prompt"
    BY <2>1 DEF NoRun
  <2>3. ImageInv
    BY <2>2 DEF ImageInv, Loaded, Loops
  <2> QED
    BY <1>1, <2>3, InitCore DEF CoreInv, LoaderInv
<1>2. LoaderInv /\ [Next]_vars => LoaderInv'
  BY StepCore, StepImage DEF LoaderInv, CoreInv
<1> QED
  BY <1>1, <1>2, PTL DEF Spec

\* For every size of segment below 2^32, every image and whatever frames are
\* already used: the program finds its segment's file part in place (what is
\* on the kernel's stack, where the segment is longer than the file), zeros in
\* the rest of its pages, a cleared stack, and nothing else.
THEOREM ImageIsInPlace == Spec => []ImageInPlace
<1>1. LoaderInv => ImageInPlace
  <2> SUFFICES ASSUME LoaderInv, run.pc = "user", Untruncated(run.info)
               PROVE  ImageInPlace
    BY DEF ImageInPlace
  <2> DEFINE fs == run.info.load_filesz
             ms == run.info.load_memsz
             lo == run.info.first_vaddr
             size == Max({fs, ms})
             touched(a) == size > 0 /\ a \div PageUnits \in
                             (lo \div PageUnits) .. ((lo + size - 1) \div PageUnits)
             file(a) == a >= lo /\ a < lo + fs
  <2>1. CoreInv /\ run.pc \in Loaded
    BY DEF LoaderInv, CoreInv, Loaded
  <2>2. SpaceInv /\ root = run.id /\ ImageInv
    BY <2>1 DEF LoaderInv, CoreInv, RunInv
  <2>3. /\ lo \in Nat /\ fs \in Nat /\ ms \in Nat /\ run.info.load_offset \in Nat /\ Size \in Nat /\ Low = lo
    BY <2>1, Measures
  <2>4. size = Size
    <3>1. Size = (IF ms > fs THEN ms ELSE fs)
      BY DEF Size
    <3>2. {fs, ms} \subseteq Nat /\ Size \in {fs, ms} /\ \A y \in {fs, ms} : y <= Size
      BY <2>3, <3>1
    <3> QED
      BY <3>2, MaxIs
  <2>5. Reached = lo + Size /\ Cleared = StackTop
    BY <2>3 DEF Reached, Cleared
  <2>6. ASSUME NEW a \in UserBase .. StackTop - 1
        PROVE  Seen(a) = CASE a >= StackTop - StackPages * PageUnits -> 0
                           [] a < StackTop - StackPages * PageUnits /\ file(a) ->
                                ImageUnit(run.image, run.info.load_offset + (a - lo))
                           [] a < StackTop - StackPages * PageUnits /\ ~file(a) ->
                                IF touched(a) THEN 0 ELSE Unmapped
    <3> DEFINE v == Want(run.image, run.info, a, lo + Size, StackTop)
    <3>1. Shows(user_pt[run.id], mem, a, v)
      BY <2>1, <2>2, <2>5 DEF ImageInv
    <3>2. Seen(a) = v
      <4>1. root \in DOMAIN user_pt
        BY <2>2 DEF SpaceInv
      <4> HIDE DEF v
      <4> QED
        BY <2>2, <3>1, <4>1 DEF Seen, Shows, Pg, In
    <3>3. a \in Nat /\ a < StackTop /\ StackBase \in Nat /\ StackTop \in Nat
      BY Window
    <3>4. touched(a) <=> Touched(a, lo, lo + Size)
      <4>1. size > 0 <=> lo < lo + Size
        BY <2>3, <2>4
      <4>a. (lo + Size) - 1 = lo + Size - 1
        BY <2>3
      <4> HIDE DEF size, lo
      <4>2. touched(a) <=> lo < lo + Size /\ On(a) \in On(lo) .. On(lo + Size - 1)
        BY <2>4, <4>1 DEF On
      <4>3. Touched(a, lo, lo + Size) <=> lo < lo + Size /\ On(a) \in On(lo) .. On(lo + Size - 1)
        BY <4>a DEF Touched
      <4> QED
        BY <4>2, <4>3, Zenon
    <3>5. fs <= Size
      BY <2>3 DEF Size
    <3>6. a >= StackBase \/ a < StackBase
      BY <3>3
    <3>7. (a >= lo /\ a < lo + Size /\ a < lo + fs) <=> file(a)
      BY <2>3, <3>3, <3>5
    <3>8. v = IF a >= StackBase THEN 0 ELSE IF file(a)
              THEN ImageUnit(run.image, run.info.load_offset + (a - lo))
              ELSE IF touched(a) THEN 0 ELSE Unmapped
      <4> HIDE DEF touched
      <4> QED
        BY <3>3, <3>4, <3>7 DEF Want
    <3> HIDE DEF v, touched, file
    <3>9. ~(a >= StackBase /\ a < StackBase)
      BY <3>3
    <3> QED
      BY <3>2, <3>6, <3>8, <3>9 DEF StackBase
  <2> QED
    BY <2>6 DEF ImageInPlace
<1> QED
  BY <1>1, LoaderHolds, PTL
=============================================================================

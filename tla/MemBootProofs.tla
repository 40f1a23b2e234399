--------------------------- MODULE MemBootProofs ----------------------------
(***************************************************************************)
(* The memory manager that kernel_main boots, for every machine, every     *)
(* page and table size, every limit and every sequence of client calls.    *)
(***************************************************************************)
EXTENDS MemBoot, WellFoundedInduction, SequenceTheorems, FiniteSetTheorems, TLAPS

(* A product grows by a factor for each step of the other.                 *)
LEMMA MulStep ==
    ASSUME NEW w \in Nat, NEW i \in Nat, NEW j \in Nat, i < j
    PROVE  w * i + w <= w * j /\ w * i \in Nat /\ w * j \in Nat
  <1>1. PICK d \in Nat : j = i + 1 + d
    <2>1. j - i - 1 \in Nat /\ j = i + 1 + (j - i - 1)
      OBVIOUS
    <2> QED
      BY <2>1
  <1>2. w * j = w * i + w + w * d
    BY <1>1
  <1>3. w * d \in Nat /\ w * i \in Nat /\ w * j \in Nat
    OBVIOUS
  <1> QED
    BY <1>2, <1>3

(* Quotient and remainder.                                                 *)
LEMMA DivMod ==
    ASSUME NEW a \in Nat, NEW w \in Nat, w > 0
    PROVE  a \div w \in Nat /\ a % w \in 0 .. w - 1 /\ a = w * (a \div w) + (a % w)
  OBVIOUS

(* There is only one quotient and one remainder.                           *)
LEMMA DivUnique ==
    ASSUME NEW w \in Nat, w > 0, NEW q \in Nat, NEW r \in 0 .. w - 1
    PROVE  (q * w + r) \div w = q /\ (q * w + r) % w = r
  <1> DEFINE a == q * w + r
  <1>1. a \in Nat /\ q * w = w * q
    OBVIOUS
  <1>2. a \div w \in Nat /\ a % w \in 0 .. w - 1 /\ a = w * (a \div w) + (a % w)
    BY <1>1, DivMod
  <1> DEFINE p == a \div w
             s == a % w
  <1>3. p \in Nat /\ s \in 0 .. w - 1 /\ w * q + r = w * p + s
    BY <1>1, <1>2
  <1> HIDE DEF p, s
  <1>4. ~(p < q)
    <2>1. p < q => w * p + w <= w * q /\ w * p \in Nat /\ w * q \in Nat
      BY <1>3, MulStep
    <2> QED
      BY <1>3, <2>1
  <1>5. ~(q < p)
    <2>1. q < p => w * q + w <= w * p /\ w * p \in Nat /\ w * q \in Nat
      BY <1>3, MulStep
    <2> QED
      BY <1>3, <2>1
  <1>6. p = q
    BY <1>3, <1>4, <1>5
  <1>7. s = r
    BY <1>3, <1>6
  <1> QED
    BY <1>6, <1>7 DEF p, s

(* An aligned address is a product.                                        *)
LEMMA AlignedIsProduct ==
    ASSUME NEW w \in Nat \ {0}, NEW a \in Nat, a % w = 0
    PROVE  a \div w \in Nat /\ a = (a \div w) * w
  <1>1. a \div w \in Nat /\ a % w \in 0 .. w - 1 /\ a = w * (a \div w) + (a % w)
    BY DivMod
  <1> QED
    BY <1>1

(* A product is an aligned address.                                        *)
LEMMA ProductIsAligned ==
    ASSUME NEW w \in Nat \ {0}, NEW q \in Nat
    PROVE  q * w \in Nat /\ (q * w) % w = 0 /\ (q * w) \div w = q
  <1>1. 0 \in 0 .. w - 1
    OBVIOUS
  <1>2. (q * w + 0) \div w = q /\ (q * w + 0) % w = 0
    BY <1>1, DivUnique
  <1>3. q * w \in Nat /\ q * w + 0 = q * w
    OBVIOUS
  <1> QED
    BY <1>2, <1>3

(* Aligned addresses are at least one unit apart.                          *)
LEMMA AlignedApart ==
    ASSUME NEW w \in Nat \ {0}, NEW a \in Nat, NEW b \in Nat,
           a % w = 0, b % w = 0, a < b
    PROVE  a + w <= b
  <1> DEFINE p == a \div w
             q == b \div w
  <1>1. p \in Nat /\ q \in Nat /\ a = p * w /\ b = q * w
    BY AlignedIsProduct
  <1> HIDE DEF p, q
  <1>2. ~(q < p)
    <2>1. q < p => w * q + w <= w * p /\ w * q \in Nat /\ w * p \in Nat
      BY <1>1, MulStep
    <2> QED
      BY <1>1, <2>1
  <1>3. p < q
    BY <1>1, <1>2
  <1>4. w * p + w <= w * q
    BY <1>1, <1>3, MulStep
  <1> QED
    BY <1>1, <1>4

(* The next aligned address.                                               *)
LEMMA AlignedNext ==
    ASSUME NEW w \in Nat \ {0}, NEW a \in Nat, a % w = 0
    PROVE  a + w \in Nat /\ (a + w) % w = 0
  <1>1. a \div w \in Nat /\ a = (a \div w) * w
    BY AlignedIsProduct
  <1> DEFINE p == a \div w
  <1> HIDE DEF p
  <1>2. a + w = (p + 1) * w
    BY <1>1 DEF p
  <1>3. p + 1 \in Nat
    BY <1>1 DEF p
  <1>4. ((p + 1) * w) % w = 0
    BY <1>3, ProductIsAligned
  <1> QED
    BY <1>2, <1>4

(* Rounding up to a multiple.                                              *)
LEMMA RoundUp ==
    ASSUME NEW w \in Nat \ {0}, NEW a \in Nat
    PROVE  LET up == ((a + w - 1) \div w) * w
           IN  /\ up \in Nat /\ up >= a /\ up % w = 0
               /\ up \div w \in Nat /\ up = (up \div w) * w
  <1> DEFINE b == a + w - 1
             q == b \div w
  <1>1. b \in Nat
    OBVIOUS
  <1>2. q \in Nat /\ b % w \in 0 .. w - 1 /\ b = w * q + (b % w)
    BY <1>1, DivMod
  <1>3. ((a + w - 1) \div w) * w = q * w
    OBVIOUS
  <1>4. q * w \in Nat /\ (q * w) % w = 0 /\ (q * w) \div w = q
    BY <1>2, ProductIsAligned
  <1> HIDE DEF q
  <1>5. q * w >= a
    BY <1>2, <1>4
  <1> QED
    BY <1>2, <1>3, <1>4, <1>5

(* The page of the d-th byte behind an aligned address.                    *)
LEMMA PageOf ==
    ASSUME NEW w \in Nat \ {0}, NEW a \in Nat, a % w = 0, NEW d \in Nat
    PROVE  /\ d \div w \in Nat
           /\ ((a + d) \div w) * w = a + (d \div w) * w
  <1> DEFINE p == a \div w
             q == d \div w
             r == d % w
  <1>1. p \in Nat /\ a = p * w
    BY AlignedIsProduct
  <1>2. q \in Nat /\ r \in 0 .. w - 1 /\ d = w * q + r
    BY DivMod
  <1> HIDE DEF p, q, r
  <1>3. a + d = (p + q) * w + r /\ p + q \in Nat
    BY <1>1, <1>2
  <1>4. ((p + q) * w + r) \div w = p + q
    BY <1>2, <1>3, DivUnique
  <1>5. ((a + d) \div w) * w = p * w + q * w
    BY <1>1, <1>2, <1>3, <1>4
  <1> QED
    BY <1>1, <1>2, <1>5 DEF q

(* A byte in front of the first n pages lies in one of them.               *)
LEMMA PageBelow ==
    ASSUME NEW w \in Nat \ {0}, NEW n0 \in Nat, NEW d \in Nat, d < n0 * w
    PROVE  d \div w \in 0 .. n0 - 1
  <1> DEFINE q == d \div w
  <1>1. q \in Nat /\ d % w \in 0 .. w - 1 /\ d = w * q + (d % w)
    BY DivMod
  <1> HIDE DEF q
  <1>2. ~(n0 < q)
    <2>1. n0 < q => w * n0 + w <= w * q /\ w * n0 \in Nat /\ w * q \in Nat
      BY <1>1, MulStep
    <2> QED
      BY <1>1, <2>1
  <1>3. n0 # q
    BY <1>1
  <1> QED
    BY <1>1, <1>2, <1>3 DEF q

(* Every set of natural numbers that is not empty has a least element.     *)
LEMMA LeastNat ==
    ASSUME NEW T, T \subseteq Nat, T # {}
    PROVE  \E x \in T : \A y \in T : x <= y
  <1> DEFINE R == OpToRel(<, Nat)
  <1>1. IsWellFoundedOn(R, Nat)
    BY NatLessThanWellFounded
  <1>2. R = {ss \in Nat \X Nat : ss[1] < ss[2]}
    BY DEF OpToRel
  <1>3. \A x, y \in Nat : x < y => <<x, y>> \in R
    BY <1>2
  <1> HIDE DEF R
  <1>4. PICK x \in T : \A y \in T : ~(<<y, x>> \in R)
    BY <1>1, WFMin
  <1>5. ASSUME NEW y \in T PROVE x <= y
    <2>1. x \in Nat /\ y \in Nat
      OBVIOUS
    <2>2. ~(y < x)
      BY <1>3, <1>4, <2>1
    <2> QED
      BY <2>1, <2>2
  <1> QED
    BY <1>5

(* Induction, with the property given as the set of numbers that have it.  *)
LEMMA SetInduction ==
    ASSUME NEW S, 0 \in S, \A i \in Nat : i \in S => i + 1 \in S
    PROVE  \A i \in Nat : i \in S
  <1> DEFINE T == {i \in Nat : i \notin S}
  <1> SUFFICES ASSUME T # {} PROVE FALSE
    OBVIOUS
  <1>1. PICK x \in T : \A y \in T : x <= y
    BY LeastNat
  <1>2. x \in Nat /\ x # 0 /\ x \notin S
    BY <1>1
  <1>3. x - 1 \in Nat /\ x - 1 \notin T
    BY <1>1, <1>2
  <1>4. (x - 1) + 1 \in S
    BY <1>3
  <1>5. (x - 1) + 1 = x
    BY <1>2
  <1> QED
    BY <1>2, <1>4, <1>5

(* f is defined by recursion over 0 .. top, from c with the steps F[i].      *)
Recursion(f, V, c, top, F) ==
    /\ f \in [0 .. top -> V] /\ f[0] = c
    /\ \A i \in 1 .. top : f[i] = F[i][f[i - 1]]

(* There is such a function.                                               *)
LEMMA RecursionExists ==
    ASSUME NEW V, NEW c \in V, NEW top \in Nat, NEW F \in [1 .. top -> [V -> V]]
    PROVE  \E f : Recursion(f, V, c, top, F)
  <1> DEFINE S == {k \in Nat : k <= top => \E f : Recursion(f, V, c, k, F)}
  <1>1. 0 \in S
    <2> DEFINE f == [i \in 0 .. 0 |-> c]
    <2>1. Recursion(f, V, c, 0, F)
      BY DEF Recursion
    <2> QED
      BY <2>1
  <1>2. ASSUME NEW k \in Nat, k \in S PROVE k + 1 \in S
    <2> SUFFICES ASSUME k + 1 <= top PROVE \E f : Recursion(f, V, c, k + 1, F)
      OBVIOUS
    <2>1. PICK f : Recursion(f, V, c, k, F)
      BY <1>2
    <2> DEFINE g == [i \in 0 .. k + 1 |-> IF i = k + 1 THEN F[k + 1][f[k]] ELSE f[i]]
    <2>2. f \in [0 .. k -> V] /\ f[k] \in V /\ k + 1 \in 1 .. top
      BY <2>1 DEF Recursion
    <2>3. F[k + 1][f[k]] \in V
      BY <2>2
    <2>4. g \in [0 .. k + 1 -> V] /\ g[0] = c
      BY <2>1, <2>3 DEF Recursion
    <2>5. ASSUME NEW i \in 1 .. k + 1 PROVE g[i] = F[i][g[i - 1]]
      <3>1. CASE i = k + 1
        <4>1. g[i] = F[k + 1][f[k]] /\ g[k] = f[k] /\ i - 1 = k
          BY <3>1
        <4> HIDE DEF g
        <4> QED
          BY <3>1, <4>1
      <3>2. CASE i # k + 1
        <4>1. i \in 1 .. k /\ i - 1 \in 0 .. k
          BY <3>2
        <4>2. g[i] = f[i] /\ g[i - 1] = f[i - 1]
          BY <4>1
        <4> HIDE DEF g
        <4> QED
          BY <2>1, <4>1, <4>2 DEF Recursion
      <3> QED
        BY <3>1, <3>2
    <2> HIDE DEF g
    <2>6. Recursion(g, V, c, k + 1, F)
      BY <2>4, <2>5 DEF Recursion
    <2> QED
      BY <2>6
  <1> HIDE DEF S
  <1>3. top \in S
    BY <1>1, <1>2, SetInduction
  <1> QED
    BY <1>3 DEF S
-----------------------------------------------------------------------------
(* The phase of the bootstrap; while pages are mapped, the next one.       *)
At == IF pc = "map" THEN job.next ELSE pc

Section == [base : Nat, len : Nat]
PaRange == [pa : Nat, n_pg : Nat]
Job == [root : {"none", "tab_4"}, va : Nat, n_pg : Nat, list : Seq(PaRange), i : Nat,
        idx : Nat \ {0}, page : Nat,
        next : {"none", "devices", "frame_buffer", "load", "done"}]

(* Types beyond TypeOK.                                                    *)
Types ==
    /\ TypeOK
    /\ machine \in Machines /\ secs \in Seq(Section) /\ pa_len \in Nat
    /\ job \in Job
    /\ DOMAIN leaf \subseteq {"bootstrap", "tab_4"} \X Nat
    /\ pc \in {"mmap", "sum"} => n > 0
    /\ pc = "map" => job.root = "tab_4" /\ job.next # "none"

(* Which root is loaded and where the driver believes the frame buffer.    *)
Loaded ==
    /\ At \in {"mmap", "map_1"} => cr3 = "boot.asm"
    /\ At \in {"devices", "sum", "map_2", "frame_buffer", "load"} => cr3 = "bootstrap"
    /\ At = "done" => cr3 = "tab_4"
    /\ At \in {"mmap", "map_1", "devices"} => fb_addr = 0
    /\ At \in {"sum", "map_2", "frame_buffer"} => fb_addr = machine.fb
    /\ cr3 = "boot.asm" => fb_addr = 0
    /\ cr3 = "bootstrap" => fb_addr \in {0, machine.fb} \/ At = "load" \/ Starved
    /\ At = "load" \/ cr3 = "tab_4" => fb_addr = FbVa

(* What the two roots map.                                                 *)
Identity(p) == <<"bootstrap", p>> \in DOMAIN leaf /\ leaf[<<"bootstrap", p>>] = p
KernelMapped(k) ==
    \A i \in 0 .. k - 1 : /\ <<"tab_4", i * SMALL>> \in DOMAIN leaf
                          /\ leaf[<<"tab_4", i * SMALL>>] = i * SMALL
FbMapped(k) ==
    \A i \in 0 .. k - 1 : /\ <<"tab_4", FbVa + i * SMALL>> \in DOMAIN leaf
                          /\ leaf[<<"tab_4", FbVa + i * SMALL>>] = machine.fb + i * SMALL
fb_n_page == machine.fb_len \div SMALL

Roots ==
    /\ pc = "map_1" => /\ n % BIG = 0
                       /\ \A p \in 0 .. n : p % BIG = 0 /\ p < n => Identity(p)
    /\ cr3 # "boot.asm" =>
          \A p \in 0 .. PA_MAX : p % BIG = 0 /\ p + BIG < PA_MAX => Identity(p)
    /\ pc = "frame_buffer" \/ At = "load" \/ cr3 = "tab_4" => KernelMapped(ker_n_page)
    /\ At = "load" \/ cr3 = "tab_4" => machine.fb_len % SMALL = 0
    /\ pc = "load" \/ cr3 = "tab_4" => FbMapped(fb_n_page)

(* The two mappings of mem_page_bootstrap_2, in the middle: one range      *)
(* each, and no page but theirs is mapped yet.                             *)
OneRange(va, pa, n_pg) ==
    /\ job.va = va /\ job.n_pg = n_pg /\ job.list = <<[pa |-> pa, n_pg |-> n_pg]>>
    /\ job.idx = 1 /\ job.page = job.i /\ job.i <= n_pg
NoOther(k) ==
    \A x \in DOMAIN leaf : x[1] = "tab_4" =>
        x[2] < FbVa \/ \E i \in 0 .. k - 1 : x[2] = FbVa + i * SMALL
Stage2 ==
    /\ pc = "map" /\ job.next = "frame_buffer" =>
          OneRange(0, 0, ker_n_page) /\ KernelMapped(job.i) /\ NoOther(0)
    /\ pc = "frame_buffer" => NoOther(0)
    /\ pc = "map" /\ job.next = "load" =>
          OneRange(FbVa, machine.fb, fb_n_page) /\ FbMapped(job.i) /\ NoOther(job.i)

(* Where _map_impl is in its list.                                         *)
Position ==
    pc = "map" =>
        /\ job.idx <= Len(job.list) + 1
        /\ job.idx <= Len(job.list) => job.page <= job.list[job.idx].n_pg
        /\ job.idx = Len(job.list) + 1 => job.page = 0
        /\ job.i = Len(FlatUpTo(job.list)[job.idx - 1]) + job.page

(* Large sections do not touch devices.                                    *)
Large(i) == secs[i].len > LARGE_SECTION
Apart(i) == Cells(secs[i].base, secs[i].len) \cap (FbCells \cup CfgCells) = {}
MapFits ==
    pa_len > 0 =>
        /\ frame_map.pages * WORDS >= 2 * (pa_len \div SMALL) + WORDS
        /\ \E i \in DOMAIN secs : MapCells \subseteq Cells(secs[i].base, secs[i].len)
        /\ MapCells \cap (FbCells \cup CfgCells) = {}
        /\ \A i \in DOMAIN secs : Large(i) => Apart(i)
FrameMap ==
    /\ At \in {"mmap", "map_1", "devices"} => pa_len = 0
    /\ pc = "sum" => /\ \A i \in DOMAIN secs : i < n /\ Large(i) => Apart(i)
                     /\ (\A i \in DOMAIN secs : i < n => ~Large(i)) => pa_len = 0
    /\ At \in {"map_2", "frame_buffer", "load"} => MapFits

MemInv == Types /\ Loaded /\ Roots /\ Stage2 /\ Position /\ FrameMap
-----------------------------------------------------------------------------
LEMMA ConstantFacts ==
    /\ SMALL \in Nat \ {0} /\ ENTRIES \in Nat \ {0} /\ WORDS \in Nat \ {0}
    /\ BIG \in Nat \ {0} /\ PA_MAX \in Nat /\ FbVa \in Nat /\ FbEnd \in Nat
    /\ PA_MAX <= FbVa /\ FbVa % SMALL = 0
    /\ LARGE_SECTION \in Nat /\ SEC_CAP \in Nat /\ FRAME_CAP \in Nat /\ LIST_CAP \in Nat
  <1>1. SMALL \in Nat \ {0} /\ ENTRIES \in Nat \ {0}
    BY MemBootAssumption
  <1>2. SMALL * ENTRIES \in Nat \ {0}
    BY <1>1
  <1> QED
    BY <1>1, <1>2, MemBootAssumption DEF BIG

LEMMA MachineFacts ==
    ASSUME machine \in Machines
    PROVE  /\ machine.kernel.start \in Nat /\ machine.kernel.alloc_end \in Nat
           /\ machine.kernel.end \in Nat /\ machine.fb \in Nat /\ machine.fb_len \in Nat
           /\ \A c \in machine.cfg : c.pa \in Nat /\ c.len \in Nat
           /\ machine.kernel.alloc_end % SMALL = 0
           /\ machine.kernel.alloc_end <= machine.kernel.end
           /\ machine.kernel.end + BIG <= PA_MAX
           /\ machine.fb + machine.fb_len + BIG <= PA_MAX
  BY MachineAssumption

LEMMA EntryFacts ==
    ASSUME machine \in Machines, NEW i \in Nat \ {0}, i <= Len(machine.mmap)
    PROVE  machine.mmap[i].base \in Nat /\ machine.mmap[i].len \in Nat
  <1> DEFINE E == [type : Nat, base : Nat, len : Nat]
  <1>1. machine.mmap \in Seq(E)
    BY MachineAssumption
  <1> HIDE DEF E
  <1>2. i \in DOMAIN machine.mmap
    BY <1>1
  <1>3. machine.mmap[i] \in E
    BY <1>1, <1>2
  <1> QED
    BY <1>3 DEF E

LEMMA SectionFacts ==
    ASSUME secs \in Seq(Section), NEW i \in DOMAIN secs
    PROVE  secs[i] \in Section /\ secs[i].base \in Nat /\ secs[i].len \in Nat
  <1>1. secs[i] \in Section
    BY ElementOfSeq
  <1> QED
    BY <1>1 DEF Section

LEMMA RangeFacts ==
    ASSUME NEW list \in Seq(PaRange), NEW i \in 1 .. Len(list)
    PROVE  list[i] \in PaRange /\ list[i].pa \in Nat /\ list[i].n_pg \in Nat
  <1>1. list[i] \in PaRange
    BY ElementOfSeq
  <1> QED
    BY <1>1 DEF PaRange

(* The pages of the image, whole ones only, hold all of it.                *)
LEMMA KernelPages ==
    ASSUME machine \in Machines
    PROVE  /\ ker_n_page \in Nat /\ ker_n_page * SMALL \in Nat
           /\ ker_n_page * SMALL <= machine.kernel.end
           /\ machine.kernel.alloc_end <= ker_n_page * SMALL
  <1> DEFINE e == machine.kernel.end
             a == machine.kernel.alloc_end
             q == e \div SMALL
  <1>1. e \in Nat /\ a \in Nat /\ a % SMALL = 0 /\ a <= e /\ SMALL \in Nat \ {0}
    BY MachineFacts, ConstantFacts
  <1> HIDE DEF e, a
  <1>2. q \in Nat /\ e % SMALL \in 0 .. SMALL - 1 /\ e = SMALL * q + (e % SMALL)
    BY <1>1, DivMod
  <1> HIDE DEF q
  <1>3. q * SMALL \in Nat /\ (q * SMALL) % SMALL = 0
    BY <1>1, <1>2, ProductIsAligned
  <1>4. q * SMALL <= e /\ e < q * SMALL + SMALL
    BY <1>1, <1>2, <1>3
  <1>5. ~(q * SMALL < a)
    <2>1. q * SMALL < a => q * SMALL + SMALL <= a
      BY <1>1, <1>3, AlignedApart
    <2> QED
      BY <1>1, <1>3, <1>4, <2>1
  <1>6. a <= q * SMALL
    BY <1>1, <1>3, <1>5
  <1> QED
    BY <1>2, <1>3, <1>4, <1>6 DEF ker_n_page, e, a, q

LEMMA FbPages ==
    ASSUME machine \in Machines
    PROVE  /\ fb_n_page \in Nat
           /\ machine.fb_len % SMALL = 0 => machine.fb_len = fb_n_page * SMALL
  <1>1. machine.fb_len \in Nat /\ SMALL \in Nat \ {0} /\ SMALL > 0
    BY MachineFacts, ConstantFacts
  <1>2. machine.fb_len \div SMALL \in Nat
    BY <1>1, DivMod
  <1> QED
    BY <1>1, <1>2, AlignedIsProduct DEF fb_n_page

(* The tables that are missing can be counted.                             *)
LEMMA MissingFinite ==
    ASSUME NEW root, NEW va, NEW lowest \in {1, 2}
    PROVE  Cardinality(missing(root, va, lowest)) \in Nat
  <1> DEFINE S == {entry(root, 2, va)} \cup {entry(root, 3, va)} \cup {entry(root, 4, va)}
  <1>1. IsFiniteSet(S)
    <2>1. IsFiniteSet({entry(root, 2, va)})
      BY FS_Singleton
    <2>2. IsFiniteSet({entry(root, 2, va)} \cup {entry(root, 3, va)})
      BY <2>1, FS_AddElement
    <2> QED
      BY <2>2, FS_AddElement
  <1>2. missing(root, va, lowest) \subseteq S
    <2>1. \A lv \in lowest + 1 .. 4 : lv = 2 \/ lv = 3 \/ lv = 4
      OBVIOUS
    <2> QED
      BY <2>1 DEF missing
  <1> HIDE DEF S
  <1>3. IsFiniteSet(missing(root, va, lowest))
    BY <1>1, <1>2, FS_Subset
  <1> QED
    BY <1>3, FS_CardinalityType

(* The leaves of a root that a step keeps.                                 *)
Keeps(root) ==
    \A x \in DOMAIN leaf : x[1] = root => x \in DOMAIN leaf' /\ leaf'[x] = leaf[x]

(* What the installation of a page leaves behind.                          *)
LEMMA InstallEffect ==
    ASSUME NEW root, NEW va, NEW pa, NEW lowest \in {1, 2}, frames \in Nat,
           install(root, va, pa, lowest), ~frames_missing(root, va, lowest)
    PROVE  /\ frames' \in 0 .. FRAME_CAP
           /\ DOMAIN leaf' = DOMAIN leaf \cup {<<root, va>>}
           /\ leaf'[<<root, va>>] = pa
           /\ \A x \in DOMAIN leaf : x # <<root, va>> => leaf'[x] = leaf[x]
  <1>1. Cardinality(missing(root, va, lowest)) \in Nat
    BY MissingFinite
  <1>2. frames' = frames + Cardinality(missing(root, va, lowest))
    BY DEF install
  <1>3. frames' \in 0 .. FRAME_CAP
    BY <1>1, <1>2, ConstantFacts DEF frames_missing
  <1> QED
    BY <1>3 DEF install

LEMMA IdentityKept ==
    ASSUME Keeps("bootstrap") PROVE \A p : Identity(p) => Identity(p)'
  <1>1. ASSUME NEW p, Identity(p) PROVE Identity(p)'
    <2>1. <<"bootstrap", p>>[1] = "bootstrap"
      OBVIOUS
    <2> QED
      BY <1>1, <2>1 DEF Keeps, Identity
  <1> QED
    BY <1>1

LEMMA Tab4Kept ==
    ASSUME Keeps("tab_4"), machine' = machine
    PROVE  \A k : /\ KernelMapped(k) => KernelMapped(k)'
                  /\ FbMapped(k) => FbMapped(k)'
  <1>1. \A p : <<"tab_4", p>>[1] = "tab_4"
    OBVIOUS
  <1>2. \A p : <<"tab_4", p>> \in DOMAIN leaf =>
                   <<"tab_4", p>> \in DOMAIN leaf' /\ leaf'[<<"tab_4", p>>] = leaf[<<"tab_4", p>>]
    BY <1>1 DEF Keeps
  <1>3. \A k : KernelMapped(k) => KernelMapped(k)'
    BY <1>2 DEF KernelMapped
  <1>4. \A k : FbMapped(k) => FbMapped(k)'
    BY <1>2 DEF FbMapped
  <1> QED
    BY <1>3, <1>4
-----------------------------------------------------------------------------
(* The pages of one range, and lists of them.                              *)
Run(r) == [k \in 1 .. r.n_pg |-> r.pa + (k - 1) * SMALL]

LEMMA RunFacts ==
    ASSUME NEW r \in PaRange
    PROVE  Run(r) \in Seq(Nat) /\ Len(Run(r)) = r.n_pg
  <1>1. r.n_pg \in Nat /\ r.pa \in Nat
    BY DEF PaRange
  <1>2. \A k \in 1 .. r.n_pg : r.pa + (k - 1) * SMALL \in Nat
    <2> TAKE k \in 1 .. r.n_pg
    <2>1. k - 1 \in Nat /\ SMALL \in Nat
      BY <1>1, ConstantFacts
    <2>2. (k - 1) * SMALL \in Nat
      BY <2>1
    <2> QED
      BY <1>1, <2>2
  <1> QED
    BY <1>1, <1>2 DEF Run

LEMMA FlatStep ==
    ASSUME NEW list \in Seq(PaRange)
    PROVE  /\ FlatUpTo(list) \in [0 .. Len(list) -> Seq(Nat)] /\ FlatUpTo(list)[0] = <<>>
           /\ \A i \in 1 .. Len(list) :
                 FlatUpTo(list)[i] = FlatUpTo(list)[i - 1] \o Run(list[i])
  <1> DEFINE m == Len(list)
             e == <<>>
             V == Seq(Nat)
             F == [i \in 1 .. m |-> [x \in V |-> x \o Run(list[i])]]
             Def(f) == f = [i \in 0 .. m |-> IF i = 0 THEN e ELSE f[i - 1] \o Run(list[i])]
  <1>1. m \in Nat /\ \A i \in 1 .. m : Run(list[i]) \in Seq(Nat)
    <2>1. \A i \in 1 .. m : list[i] \in PaRange
      BY RangeFacts
    <2> QED
      BY <2>1, RunFacts
  <1>2. F \in [1 .. m -> [V -> V]] /\ e \in V
    BY <1>1
  <1>3. PICK f : Recursion(f, V, e, m, F)
    <2> HIDE DEF F, m, V, e
    <2> QED
      BY <1>1, <1>2, RecursionExists
  <1> HIDE DEF V, e
  <1>4. \A i \in 1 .. m : f[i] = f[i - 1] \o Run(list[i])
    <2> TAKE i \in 1 .. m
    <2>1. i - 1 \in 0 .. m
      BY <1>1
    <2>2. f[i - 1] \in V
      BY <1>3, <2>1 DEF Recursion
    <2>3. F[i][f[i - 1]] = f[i - 1] \o Run(list[i])
      BY <2>2
    <2> QED
      BY <1>3, <2>3 DEF Recursion
  <1>5. Def(f)
    <2>1. f = [i \in 0 .. m |-> f[i]] /\ f[0] = e
      BY <1>3 DEF Recursion
    <2>2. \A i \in 0 .. m : f[i] = IF i = 0 THEN e ELSE f[i - 1] \o Run(list[i])
      BY <1>1, <1>4, <2>1
    <2> QED
      BY <2>1, <2>2
  <1> DEFINE g == CHOOSE h : Def(h)
  <1>6. Def(g)
    BY <1>5
  <1>7. FlatUpTo(list) = g
    BY DEF FlatUpTo, Run, e
  <1> HIDE DEF g, F
  <1>8. g[0] = e /\ \A i \in 1 .. m : g[i] = g[i - 1] \o Run(list[i])
    BY <1>1, <1>6
  <1> DEFINE S == {k \in Nat : k <= m => g[k] \in Seq(Nat)}
  <1>9. \A k \in Nat : k \in S
    <2>1. 0 \in S
      <3>1. e \in Seq(Nat)
        BY DEF e
      <3> QED
        BY <1>8, <3>1
    <2>2. ASSUME NEW k \in Nat, k \in S PROVE k + 1 \in S
      <3> SUFFICES ASSUME k + 1 <= m PROVE g[k + 1] \in Seq(Nat)
        OBVIOUS
      <3>1. g[k] \in Seq(Nat) /\ k + 1 \in 1 .. m /\ (k + 1) - 1 = k
        BY <1>1, <2>2
      <3>2. g[k + 1] = g[k] \o Run(list[k + 1]) /\ Run(list[k + 1]) \in Seq(Nat)
        BY <1>1, <1>8, <3>1
      <3> QED
        BY <3>1, <3>2
    <2> HIDE DEF S
    <2> QED
      BY <2>1, <2>2, SetInduction
  <1>10. g \in [0 .. m -> Seq(Nat)]
    <2>1. \A i \in 0 .. m : g[i] \in Seq(Nat)
      BY <1>1, <1>9
    <2>2. DOMAIN g = 0 .. m /\ g = [i \in 0 .. m |-> g[i]]
      BY <1>6
    <2> QED
      BY <2>1, <2>2
  <1> QED
    BY <1>7, <1>8, <1>10 DEF e

(* The j-th page of the k-th range is where Flat has it.                   *)
LEMMA FlatAt ==
    ASSUME NEW list \in Seq(PaRange), NEW k \in 1 .. Len(list), NEW j \in 1 .. list[k].n_pg
    PROVE  Flat(list)[Len(FlatUpTo(list)[k - 1]) + j] = list[k].pa + (j - 1) * SMALL
  <1> DEFINE m == Len(list)
             f == FlatUpTo(list)
             v == list[k].pa + (j - 1) * SMALL
             P == Len(f[k - 1]) + j
             S == {d \in Nat : k + d <= m => Len(f[k + d]) >= P /\ f[k + d][P] = v}
  <1> HIDE DEF f
  <1>1. /\ m \in Nat /\ f \in [0 .. m -> Seq(Nat)]
        /\ \A i \in 1 .. m : f[i] = f[i - 1] \o Run(list[i])
    <2>1. Len(list) \in Nat
      OBVIOUS
    <2>2. /\ f \in [0 .. Len(list) -> Seq(Nat)]
          /\ \A i \in 1 .. Len(list) : f[i] = f[i - 1] \o Run(list[i])
      BY FlatStep, Zenon DEF f
    <2> QED
      BY <2>1, <2>2
  <1>2. \A i \in 1 .. m : /\ Run(list[i]) \in Seq(Nat) /\ Len(Run(list[i])) = list[i].n_pg
                          /\ list[i].n_pg \in Nat
    <2>1. \A i \in 1 .. m : list[i] \in PaRange /\ list[i].n_pg \in Nat
      BY RangeFacts
    <2> QED
      BY <2>1, RunFacts
  <1>3. /\ k \in Nat /\ k - 1 \in 0 .. m /\ f[k - 1] \in Seq(Nat) /\ f[k] \in Seq(Nat)
        /\ list[k].n_pg \in Nat /\ j \in Nat /\ P \in Nat /\ P > 0
    <2>1. k \in Nat /\ k \in 0 .. m /\ k - 1 \in 0 .. m /\ k \in 1 .. m
      BY <1>1
    <2>2. f[k - 1] \in Seq(Nat) /\ f[k] \in Seq(Nat)
      BY <1>1, <2>1
    <2>3. list[k].n_pg \in Nat
      BY <1>2, <2>1
    <2>4. Len(f[k - 1]) \in Nat
      BY <2>2
    <2>5. P \in Nat /\ P > 0 /\ j \in Nat
      BY <2>3, <2>4
    <2> QED
      BY <2>1, <2>2, <2>3, <2>5
  <1>4. Len(f[k]) >= P /\ f[k][P] = v
    <2>1. f[k] = f[k - 1] \o Run(list[k])
      BY <1>1
    <2>2. Run(list[k]) \in Seq(Nat) /\ Len(Run(list[k])) = list[k].n_pg
      BY <1>2
    <2>3. Run(list[k])[j] = v
      BY DEF Run
    <2> DEFINE s == f[k - 1]
               t == Run(list[k])
    <2> HIDE DEF s, t, v
    <2>4. s \in Seq(Nat) /\ t \in Seq(Nat) /\ j \in 1 .. Len(t) /\ P = Len(s) + j
      BY <1>3, <2>2 DEF s, t
    <2>5. (s \o t)[Len(s) + j] = t[j] /\ Len(s \o t) >= Len(s) + j
      BY <2>4
    <2> QED
      BY <2>1, <2>3, <2>4, <2>5 DEF s, t
  <1> HIDE DEF v, P
  <1>5. \A d \in Nat : d \in S
    <2>1. 0 \in S
      BY <1>3, <1>4
    <2>2. ASSUME NEW d \in Nat, d \in S PROVE d + 1 \in S
      <3> SUFFICES ASSUME k + (d + 1) <= m
                   PROVE  Len(f[k + (d + 1)]) >= P /\ f[k + (d + 1)][P] = v
        OBVIOUS
      <3> DEFINE s == f[k + d]
                 t == Run(list[k + (d + 1)])
      <3>1. k + (d + 1) \in 1 .. m /\ (k + (d + 1)) - 1 = k + d /\ k + d \in 0 .. m
        BY <1>1, <1>3
      <3>2. f[k + (d + 1)] = s \o t /\ s \in Seq(Nat) /\ t \in Seq(Nat)
        BY <1>1, <1>2, <3>1
      <3>3. Len(s) >= P /\ s[P] = v
        BY <1>1, <2>2, <3>1
      <3> HIDE DEF s, t
      <3>4. P \in 1 .. Len(s)
        BY <1>3, <3>2, <3>3
      <3>5. (s \o t)[P] = s[P] /\ Len(s \o t) >= Len(s) /\ Len(s) \in Nat /\ Len(s \o t) \in Nat
        BY <3>2, <3>4
      <3> QED
        BY <1>3, <3>2, <3>3, <3>5
    <2> HIDE DEF S
    <2> QED
      BY <2>1, <2>2, SetInduction
  <1>6. m - k \in Nat /\ k + (m - k) = m
    BY <1>1, <1>3
  <1>7. f[m][P] = v
    <2>1. m - k \in S
      BY <1>5, <1>6
    <2>2. k + (m - k) <= m
      BY <1>1, <1>6
    <2>3. f[k + (m - k)][P] = v
      BY <2>1, <2>2
    <2> QED
      BY <1>6, <2>3
  <1> QED
    BY <1>7 DEF Flat, f, v, P
-----------------------------------------------------------------------------
(* The invariant holds initially and every step keeps it.                  *)
LEMMA InitMem == Init => MemInv
  <1> SUFFICES ASSUME Init PROVE MemInv
    OBVIOUS
  <1>1. secs \in Seq(Section) /\ Len(secs) = 0
    <2>1. secs = <<>>
      BY DEF Init
    <2>2. <<>> \in Seq(Section) /\ Len(<<>>) = 0
      OBVIOUS
    <2> QED
      BY <2>1, <2>2, Zenon
  <1>2. job \in Job
    <2> DEFINE e == <<>>
    <2>1. e \in Seq(PaRange)
      OBVIOUS
    <2>2. job = [root |-> "none", va |-> 0, n_pg |-> 0, list |-> e, i |-> 0, idx |-> 1,
                 page |-> 0, next |-> "none"]
      BY Zenon DEF Init, NoJob
    <2> HIDE DEF e
    <2> QED
      BY <2>1, <2>2 DEF Job
  <1>3. DOMAIN leaf = {}
    <2>1. leaf = <<>>
      BY DEF Init
    <2>2. DOMAIN <<>> = {}
      OBVIOUS
    <2> QED
      BY <2>1, <2>2, Zenon
  <1>4. TypeOK
    <2>1. 2 .. Len(secs) = {}
      BY <1>1
    <2>2. /\ stage = 0 /\ n = 1 /\ frames = 0 /\ list_next = 0 /\ cr3 = "boot.asm"
          /\ pc = "mmap"
      BY Zenon DEF Init
    <2> QED
      BY <1>1, <2>1, <2>2, ConstantFacts DEF TypeOK
  <1>5. Types
    <2>1. machine \in Machines /\ pa_len = 0 /\ n = 1 /\ pc = "mmap"
      BY Zenon DEF Init
    <2> QED
      BY <1>1, <1>2, <1>3, <1>4, <2>1 DEF Types
  <1>6. At = "mmap"
    BY DEF Init, At
  <1>7. Loaded /\ Roots /\ Stage2 /\ Position /\ FrameMap
    BY <1>6 DEF Init, Loaded, Roots, Stage2, Position, FrameMap
  <1> QED
    BY <1>5, <1>7 DEF MemInv

(* A panic, except in the mapping of the frame buffer: the loaded root and *)
(* the driver's address stay.                                              *)
LEMMA PanicMem ==
    ASSUME MemInv, pc # "panic", At # "load", pc' = "panic",
           machine' = machine, stage' = stage, secs' = secs, n' = n, frames' = frames,
           list_next' \in 0 .. LIST_CAP, cr3' = cr3, fb_addr' = fb_addr, pa_len' = pa_len,
           job' = job, DOMAIN leaf' \subseteq DOMAIN leaf, Keeps("bootstrap"),
           cr3 = "tab_4" => Keeps("tab_4")
    PROVE  MemInv'
  <1>1. Types'
    BY DEF MemInv, Types, TypeOK
  <1>2. At' = "panic"
    BY DEF At
  <1>3. Loaded'
    <2>1. ~Starved
      BY DEF Starved
    <2> QED
      BY <1>2, <2>1 DEF MemInv, Loaded
  <1>4. Roots'
    <2>1. \A p : Identity(p) => Identity(p)'
      BY IdentityKept
    <2>2. cr3 = "tab_4" => \A k : /\ KernelMapped(k) => KernelMapped(k)'
                                  /\ FbMapped(k) => FbMapped(k)'
      BY Tab4Kept
    <2>3. ker_n_page' = ker_n_page /\ fb_n_page' = fb_n_page
      BY DEF ker_n_page, fb_n_page
    <2>4. cr3 = "tab_4" => KernelMapped(ker_n_page)' /\ FbMapped(fb_n_page)'
      <3>1. cr3 = "tab_4" => KernelMapped(ker_n_page) /\ FbMapped(fb_n_page)
        BY DEF MemInv, Roots
      <3>2. \A x : <<"tab_4", x>>[1] = "tab_4"
        OBVIOUS
      <3> QED
        BY <2>3, <3>1, <3>2 DEF KernelMapped, FbMapped, Keeps
    <2> QED
      BY <1>2, <2>1, <2>4 DEF MemInv, Roots
  <1>5. Stage2' /\ Position' /\ FrameMap'
    BY <1>2 DEF Stage2, Position, FrameMap
  <1> QED
    BY <1>1, <1>3, <1>4, <1>5 DEF MemInv

LEMMA SameLeaf == leaf' = leaf => \A r : Keeps(r) /\ DOMAIN leaf' \subseteq DOMAIN leaf
  BY DEF Keeps

(* The memory map.                                                         *)
LEMMA MmapMem == ASSUME MemInv, mmap_entry PROVE MemInv'
  <1> DEFINE e == machine.mmap[n]
             s == [base |-> e.base, len |-> e.len]
  <1>1. /\ pc = "mmap" /\ n <= Len(machine.mmap) /\ machine' = machine /\ stage' = stage
        /\ frames' = frames /\ list_next' = list_next /\ leaf' = leaf /\ cr3' = cr3
        /\ fb_addr' = fb_addr /\ pa_len' = pa_len /\ job' = job
    BY DEF mmap_entry, paging, frame_vars
  <1>2. At = "mmap"
    BY <1>1 DEF At
  <1>3. CASE pc' = "panic"
    <2>1. secs' = secs /\ n' = n
      BY <1>1, <1>3 DEF mmap_entry, Panic, Go
    <2>2. list_next \in 0 .. LIST_CAP
      BY DEF MemInv, Types, TypeOK
    <2> QED
      BY <1>1, <1>2, <1>3, <2>1, <2>2, SameLeaf, PanicMem
  <1>4. CASE pc' # "panic"
    <2>1. /\ pc' = "mmap" /\ n' = n + 1
          /\ secs' = secs \/ (~section_refused(s) /\ secs' = Append(secs, s))
      BY <1>4 DEF mmap_entry, Panic, Go
    <2>2. /\ machine \in Machines /\ n \in Nat \ {0} /\ secs \in Seq(Section)
          /\ Len(secs) <= SEC_CAP /\ SEC_CAP \in Nat
          /\ \A i \in 2 .. Len(secs) : SecEnd(secs[i - 1]) < secs[i].base
      BY <1>1, ConstantFacts DEF MemInv, Types, TypeOK
    <2>3. e.base \in Nat /\ e.len \in Nat
      BY <1>1, <2>2, EntryFacts
    <2>4. s \in Section /\ s.base = e.base /\ s.len = e.len
      BY <2>3 DEF Section
    <2> HIDE DEF s
    <2>5. /\ secs' \in Seq(Section) /\ Len(secs') <= SEC_CAP
          /\ \A i \in 2 .. Len(secs') : SecEnd(secs'[i - 1]) < secs'[i].base
      <3>1. CASE secs' = secs
        BY <2>2, <3>1
      <3>2. CASE ~section_refused(s) /\ secs' = Append(secs, s)
        <4>1. /\ secs' \in Seq(Section) /\ Len(secs') = Len(secs) + 1 /\ Len(secs) \in Nat
              /\ secs'[Len(secs) + 1] = s
              /\ \A i \in 1 .. Len(secs) : secs'[i] = secs[i]
          BY <2>2, <2>4, <3>2
        <4>2. Len(secs) # SEC_CAP /\ (secs # <<>> => ~(s.base <= pa_end))
          BY <3>2 DEF section_refused
        <4>3. Len(secs') <= SEC_CAP
          BY <2>2, <4>1, <4>2
        <4>4. ASSUME NEW i \in 2 .. Len(secs') PROVE SecEnd(secs'[i - 1]) < secs'[i].base
          <5>1. CASE i = Len(secs) + 1
            <6>1. Len(secs) \in 1 .. Len(secs) /\ secs # <<>> /\ i - 1 = Len(secs)
              BY <4>1, <5>1
            <6>2. secs[Len(secs)] \in Section
              BY <2>2, <6>1, ElementOfSeq
            <6>3. pa_end \in Nat
              BY <6>2 DEF pa_end, SecEnd, Section
            <6>4. pa_end < s.base
              BY <2>3, <2>4, <4>2, <6>1, <6>3
            <6> QED
              BY <4>1, <5>1, <6>1, <6>4 DEF pa_end
          <5>2. CASE i # Len(secs) + 1
            <6>1. i \in 2 .. Len(secs) /\ i - 1 \in 1 .. Len(secs) /\ i \in 1 .. Len(secs)
              BY <4>1, <5>2
            <6> QED
              BY <2>2, <4>1, <6>1
          <5> QED
            BY <5>1, <5>2
        <4> QED
          BY <4>1, <4>3, <4>4
      <3> QED
        BY <2>1, <3>1, <3>2
    <2>6. Types'
      <3>1. n + 1 \in Nat /\ n + 1 > 0
        BY <2>2
      <3> QED
        BY <1>1, <2>1, <2>5, <3>1 DEF MemInv, Types, TypeOK
    <2>7. At' = "mmap"
      BY <2>1 DEF At
    <2>8. Loaded'
      BY <1>1, <1>2, <2>7 DEF MemInv, Loaded
    <2>9. Roots' /\ Stage2' /\ Position'
      <3>1. cr3 = "boot.asm"
        BY <1>2 DEF MemInv, Loaded
      <3> QED
        BY <1>1, <2>1, <2>7, <3>1 DEF Roots, Stage2, Position
    <2>10. FrameMap'
      BY <1>1, <1>2, <2>1, <2>7 DEF MemInv, FrameMap
    <2> QED
      BY <2>6, <2>8, <2>9, <2>10 DEF MemInv
  <1> QED
    BY <1>3, <1>4

LEMMA KernelElfMem == ASSUME MemInv, kernel_elf PROVE MemInv'
  <1>1. /\ pc = "mmap" /\ machine' = machine /\ stage' = stage /\ secs' = secs
        /\ frames' = frames /\ list_next' = list_next /\ leaf' = leaf /\ cr3' = cr3
        /\ fb_addr' = fb_addr /\ pa_len' = pa_len /\ job' = job
        /\ (pc' = "map_1" /\ n' = 0) \/ (pc' = "panic" /\ n' = n)
    BY DEF kernel_elf, paging, frame_vars, Go, Panic
  <1>2. At = "mmap" /\ list_next \in 0 .. LIST_CAP
    BY <1>1 DEF At, MemInv, Types, TypeOK
  <1>3. CASE pc' = "panic"
    BY <1>1, <1>2, <1>3, SameLeaf, PanicMem
  <1>4. CASE pc' = "map_1" /\ n' = 0
    <2>1. Types'
      BY <1>1, <1>4 DEF MemInv, Types, TypeOK
    <2>2. At' = "map_1"
      BY <1>4 DEF At
    <2>3. Loaded'
      BY <1>1, <1>2, <2>2 DEF MemInv, Loaded
    <2>4. Roots'
      <3>1. cr3 = "boot.asm"
        BY <1>2 DEF MemInv, Loaded
      <3>2. 0 % BIG = 0 /\ ~\E p \in 0 .. 0 : p < 0
        BY ConstantFacts
      <3> QED
        BY <1>1, <1>4, <2>2, <3>1, <3>2 DEF Roots
    <2>5. Stage2' /\ Position' /\ FrameMap'
      BY <1>1, <1>2, <1>4, <2>2 DEF MemInv, Stage2, Position, FrameMap
    <2> QED
      BY <2>1, <2>3, <2>4, <2>5 DEF MemInv
  <1> QED
    BY <1>1, <1>3, <1>4

(* The identity mapping with big pages.                                    *)
LEMMA MapBootstrapMem == ASSUME MemInv, map_bootstrap PROVE MemInv'
  <1>1. /\ pc = "map_1" /\ machine' = machine /\ stage' = stage /\ secs' = secs
        /\ list_next' = list_next /\ cr3' = cr3
        /\ fb_addr' = fb_addr /\ pa_len' = pa_len /\ job' = job
    BY DEF map_bootstrap, frame_vars
  <1>2. /\ At = "map_1" /\ list_next \in 0 .. LIST_CAP /\ cr3 = "boot.asm"
        /\ n \in Nat /\ n % BIG = 0 /\ frames \in Nat /\ BIG \in Nat \ {0}
    BY <1>1, ConstantFacts DEF At, MemInv, Types, TypeOK, Loaded, Roots
  <1>3. CASE frames_missing("bootstrap", n, 2)
    <2>1. pc' = "panic" /\ n' = n /\ frames' = frames /\ leaf' = leaf
      BY <1>3 DEF map_bootstrap, Panic
    <2> QED
      BY <1>1, <1>2, <2>1, SameLeaf, PanicMem
  <1>4. CASE ~frames_missing("bootstrap", n, 2)
    <2>1. install("bootstrap", n, n, 2) /\ pc' = "map_1" /\ n' = n + BIG
      BY <1>4 DEF map_bootstrap, Go
    <2>2. /\ frames' \in 0 .. FRAME_CAP
          /\ DOMAIN leaf' = DOMAIN leaf \cup {<<"bootstrap", n>>}
          /\ leaf'[<<"bootstrap", n>>] = n
          /\ \A x \in DOMAIN leaf : x # <<"bootstrap", n>> => leaf'[x] = leaf[x]
      BY <1>2, <1>4, <2>1, InstallEffect
    <2>3. n + BIG \in Nat /\ (n + BIG) % BIG = 0
      BY <1>2, AlignedNext
    <2>4. Types'
      <3>1. DOMAIN leaf' \subseteq {"bootstrap", "tab_4"} \X Nat
        BY <1>2, <2>2 DEF MemInv, Types
      <3> QED
        BY <1>1, <2>1, <2>2, <2>3, <3>1 DEF MemInv, Types, TypeOK
    <2>5. At' = "map_1"
      BY <2>1 DEF At
    <2>6. Loaded'
      BY <1>1, <1>2, <2>5 DEF MemInv, Loaded
    <2>7. Roots'
      <3>1. ASSUME NEW p \in 0 .. n + BIG, p % BIG = 0, p < n + BIG PROVE Identity(p)'
        <4>1. p \in Nat
          BY <1>2
        <4>2. CASE p = n
          BY <2>2, <4>2 DEF Identity
        <4>3. CASE p < n
          <5>1. p \in 0 .. n
            BY <1>2, <4>1, <4>3
          <5>2. Identity(p)
            BY <1>1, <3>1, <4>3, <5>1 DEF MemInv, Roots
          <5>3. <<"bootstrap", p>> # <<"bootstrap", n>>
            BY <1>2, <4>1, <4>3
          <5> QED
            BY <2>2, <5>2, <5>3 DEF Identity
        <4>4. ~(n < p)
          <5>1. n < p => n + BIG <= p
            BY <1>2, <3>1, <4>1, AlignedApart
          <5> QED
            BY <1>2, <3>1, <4>1, <5>1
        <4> QED
          BY <1>2, <4>1, <4>2, <4>3, <4>4
      <3> QED
        BY <1>1, <1>2, <2>1, <2>3, <2>5, <3>1 DEF Roots
    <2>8. Stage2' /\ Position' /\ FrameMap'
      BY <1>1, <1>2, <2>1, <2>5 DEF MemInv, Stage2, Position, FrameMap
    <2> QED
      BY <2>4, <2>6, <2>7, <2>8 DEF MemInv
  <1> QED
    BY <1>3, <1>4

LEMMA LoadBootstrapMem == ASSUME MemInv, load_bootstrap PROVE MemInv'
  <1>1. /\ pc = "map_1" /\ n + BIG >= PA_MAX /\ cr3' = "bootstrap" /\ stage' = 1
        /\ pc' = "devices" /\ n' = 0 /\ machine' = machine /\ secs' = secs
        /\ frames' = frames /\ list_next' = list_next /\ leaf' = leaf
        /\ fb_addr' = fb_addr /\ pa_len' = pa_len /\ job' = job
    BY DEF load_bootstrap, frame_vars, Go
  <1>2. At = "map_1" /\ At' = "devices"
    BY <1>1 DEF At
  <1>3. Types'
    BY <1>1 DEF MemInv, Types, TypeOK
  <1>4. Loaded'
    BY <1>1, <1>2 DEF MemInv, Loaded
  <1>5. Roots'
    <2>1. n \in Nat /\ BIG \in Nat /\ PA_MAX \in Nat
      BY ConstantFacts DEF MemInv, Types, TypeOK
    <2>2. ASSUME NEW p \in 0 .. PA_MAX, p % BIG = 0, p + BIG < PA_MAX PROVE Identity(p)'
      <3>1. p < n /\ p \in 0 .. n
        BY <1>1, <2>1, <2>2
      <3>2. Identity(p)
        BY <1>1, <2>2, <3>1 DEF MemInv, Roots
      <3> QED
        BY <1>1, <3>2 DEF Identity
    <2> QED
      BY <1>1, <1>2, <2>2 DEF Roots
  <1>6. Stage2' /\ Position' /\ FrameMap'
    BY <1>1, <1>2 DEF MemInv, Stage2, Position, FrameMap
  <1> QED
    BY <1>3, <1>4, <1>5, <1>6 DEF MemInv

(* Steps that leave the roots alone, before the new root is built.         *)
LEMMA RootsKept ==
    ASSUME Roots, leaf' = leaf, machine' = machine, cr3' = cr3, cr3 = "bootstrap",
           pc' \notin {"map_1", "frame_buffer", "load"}, At' # "load"
    PROVE  Roots'
  <1>1. \A p : Identity(p) => Identity(p)'
    BY SameLeaf, IdentityKept
  <1> QED
    BY <1>1 DEF Roots

LEMMA DevicesMem == ASSUME MemInv, devices PROVE MemInv'
  <1>1. /\ pc = "devices" /\ fb_addr' = machine.fb /\ cr3' = cr3 /\ stage' = stage
        /\ pc' = "sum" /\ n' = 1 /\ machine' = machine /\ secs' = secs
        /\ frames' = frames /\ list_next' = list_next /\ leaf' = leaf
        /\ pa_len' = pa_len /\ job' = job
    BY DEF devices, frame_vars, Go, paging
  <1>2. At = "devices" /\ At' = "sum" /\ cr3 = "bootstrap"
    BY <1>1 DEF At, MemInv, Loaded
  <1>3. Types'
    BY <1>1 DEF MemInv, Types, TypeOK
  <1>4. Loaded'
    BY <1>1, <1>2 DEF MemInv, Loaded
  <1>5. Roots'
    BY <1>1, <1>2, RootsKept DEF MemInv
  <1>6. Stage2' /\ Position'
    BY <1>1 DEF Stage2, Position
  <1>7. FrameMap'
    <2>1. \A i \in DOMAIN secs : ~(i < 1)
      BY DEF MemInv, Types
    <2> QED
      BY <1>1, <1>2, <2>1 DEF MemInv, FrameMap
  <1> QED
    BY <1>3, <1>4, <1>5, <1>6, <1>7 DEF MemInv

(* Ranges that do not overlap share no byte.                               *)
LEMMA NoOverlap ==
    ASSUME NEW a \in Nat, NEW l \in Nat, NEW b \in Nat, NEW m \in Nat,
           ~pa_range_overlaps(a, l, b, m)
    PROVE  Cells(a, l) \cap Cells(b, m) = {}
  BY DEF pa_range_overlaps, Cells

LEMMA SumMem == ASSUME MemInv, sum_section PROVE MemInv'
  <1>1. /\ pc = "sum" /\ n <= Len(secs) /\ cr3' = cr3 /\ stage' = stage
        /\ machine' = machine /\ secs' = secs
        /\ frames' = frames /\ list_next' = list_next /\ leaf' = leaf
        /\ fb_addr' = fb_addr /\ job' = job
    BY DEF sum_section, paging
  <1>2. /\ At = "sum" /\ list_next \in 0 .. LIST_CAP /\ machine \in Machines
        /\ secs \in Seq(Section) /\ n \in Nat \ {0} /\ fb_addr = machine.fb
        /\ cr3 = "bootstrap" /\ pa_len \in Nat
    BY <1>1 DEF At, MemInv, Types, TypeOK, Loaded
  <1>3. n \in DOMAIN secs /\ secs[n].base \in Nat /\ secs[n].len \in Nat
    <2>1. n \in DOMAIN secs
      BY <1>1, <1>2
    <2> QED
      BY <1>2, <2>1, SectionFacts
  <1>4. CASE pc' = "panic"
    <2>1. n' = n /\ pa_len' = pa_len
      BY <1>1, <1>4 DEF sum_section, Panic, Go
    <2> QED
      BY <1>1, <1>2, <1>4, <2>1, SameLeaf, PanicMem
  <1>5. CASE pc' # "panic"
    <2>1. /\ pc' = "sum" /\ n' = n + 1
          /\ \/ secs[n].len <= LARGE_SECTION /\ pa_len' = pa_len
             \/ /\ ~(secs[n].len <= LARGE_SECTION) /\ pa_len' = pa_len + secs[n].len
                /\ \A c \in machine.cfg :
                      ~pa_range_overlaps(secs[n].base, secs[n].len, c.pa, c.len)
                /\ ~pa_range_overlaps(secs[n].base, secs[n].len, fb_addr, machine.fb_len)
      BY <1>5 DEF sum_section, Panic, Go
    <2>2. At' = "sum"
      BY <2>1 DEF At
    <2>3. Types'
      <3>1. n + 1 \in Nat /\ n + 1 > 0 /\ pa_len' \in Nat
        BY <1>2, <1>3, <2>1
      <3> QED
        BY <1>1, <2>1, <3>1 DEF MemInv, Types, TypeOK
    <2>4. Loaded'
      BY <1>1, <1>2, <2>2 DEF MemInv, Loaded
    <2>5. Roots'
      BY <1>1, <1>2, <2>1, <2>2, RootsKept DEF MemInv
    <2>6. Stage2' /\ Position'
      BY <2>1 DEF Stage2, Position
    <2>7. LARGE_SECTION \in Nat
      BY ConstantFacts
    <2>8. Large(n) => Apart(n)
      <3> SUFFICES ASSUME Large(n) PROVE Apart(n)
        OBVIOUS
      <3>1. /\ \A c \in machine.cfg :
                  ~pa_range_overlaps(secs[n].base, secs[n].len, c.pa, c.len)
            /\ ~pa_range_overlaps(secs[n].base, secs[n].len, machine.fb, machine.fb_len)
        BY <1>2, <1>3, <2>1, <2>7 DEF Large
      <3>2. Cells(secs[n].base, secs[n].len) \cap Cells(machine.fb, machine.fb_len) = {}
        BY <1>2, <1>3, <3>1, MachineFacts, NoOverlap
      <3>3. \A c \in machine.cfg : Cells(secs[n].base, secs[n].len) \cap Cells(c.pa, c.len) = {}
        BY <1>2, <1>3, <3>1, MachineFacts, NoOverlap
      <3> QED
        BY <3>2, <3>3 DEF Apart, FbCells, CfgCells
    <2>9. FrameMap'
      <3>1. \A i \in DOMAIN secs : i \in Nat /\ (i < n + 1 <=> i < n \/ i = n)
        BY <1>2
      <3>2. \A i : (Large(i)' <=> Large(i)) /\ (Apart(i)' <=> Apart(i))
        BY <1>1 DEF Large, Apart, FbCells, CfgCells
      <3>3. \A i \in DOMAIN secs : i < n + 1 /\ Large(i) => Apart(i)
        BY <1>1, <2>8, <3>1 DEF MemInv, FrameMap
      <3>4. (\A i \in DOMAIN secs : i < n + 1 => ~Large(i)) => pa_len' = 0
        <4> SUFFICES ASSUME \A i \in DOMAIN secs : i < n + 1 => ~Large(i) PROVE pa_len' = 0
          OBVIOUS
        <4>1. ~Large(n) /\ \A i \in DOMAIN secs : i < n => ~Large(i)
          BY <1>3, <3>1
        <4>2. pa_len = 0
          BY <1>1, <4>1 DEF MemInv, FrameMap
        <4>3. secs[n].len <= LARGE_SECTION
          BY <1>3, <2>7, <4>1 DEF Large
        <4> QED
          BY <2>1, <4>2, <4>3
      <3> QED
        BY <1>1, <2>1, <2>2, <3>2, <3>3, <3>4 DEF FrameMap
    <2> QED
      BY <2>3, <2>4, <2>5, <2>6, <2>9 DEF MemInv
  <1> QED
    BY <1>4, <1>5

(* The frame map is as long as it has to be.                               *)
LEMMA MapLength ==
    ASSUME NEW c \in Nat
    PROVE  /\ map_page_cnt(2 * c) \in Nat
           /\ map_page_cnt(2 * c) * WORDS >= 2 * c + WORDS
  <1> DEFINE q == (2 * c) \div WORDS
             r == (2 * c) % WORDS
  <1>1. WORDS \in Nat \ {0} /\ WORDS > 0 /\ 2 * c \in Nat
    BY ConstantFacts
  <1>2. q \in Nat /\ r \in 0 .. WORDS - 1 /\ 2 * c = WORDS * q + r
    BY <1>1, DivMod
  <1>3. map_page_cnt(2 * c) = q + 2
    BY DEF map_page_cnt
  <1> HIDE DEF q, r
  <1>4. (q + 2) * WORDS = WORDS * q + 2 * WORDS /\ WORDS * q \in Nat
    BY <1>1, <1>2
  <1> QED
    BY <1>1, <1>2, <1>3, <1>4

LEMMA PlaceMem == ASSUME MemInv, place_frame_map PROVE MemInv'
  <1> DEFINE large == {i \in DOMAIN secs : secs[i].len > LARGE_SECTION}
             pages == map_page_cnt((pa_len \div SMALL) * 2)
             k == CHOOSE i \in large : \A j \in large : i <= j
             s == secs[k]
             addr == ((s.base + SMALL + SMALL - 1) \div SMALL) * SMALL
  <1>1. /\ pc = "sum" /\ n > Len(secs) /\ cr3' = cr3 /\ stage' = stage
        /\ machine' = machine /\ secs' = secs
        /\ frames' = frames /\ list_next' = list_next /\ leaf' = leaf
        /\ fb_addr' = fb_addr /\ job' = job /\ pa_len' = pa_len
    BY DEF place_frame_map, paging
  <1>2. /\ At = "sum" /\ list_next \in 0 .. LIST_CAP /\ machine \in Machines
        /\ secs \in Seq(Section) /\ n \in Nat /\ cr3 = "bootstrap" /\ pa_len \in Nat
    BY <1>1 DEF At, MemInv, Types, TypeOK, Loaded
  <1>3. CASE pc' = "panic"
    <2>1. n' = n
      BY <1>3 DEF place_frame_map, Panic, Go
    <2> QED
      BY <1>1, <1>2, <1>3, <2>1, SameLeaf, PanicMem
  <1>4. CASE pc' # "panic"
    <2>1. /\ pc' = "map_2" /\ n' = 0
          /\ large # {} => /\ frame_map' = [addr |-> addr, pages |-> pages]
                           /\ addr + pages * SMALL < SecEnd(s)
      BY <1>4 DEF place_frame_map, Panic, Go
    <2>2. At' = "map_2"
      BY <2>1 DEF At
    <2>3. Types'
      BY <1>1, <2>1 DEF MemInv, Types, TypeOK
    <2>4. Loaded'
      BY <1>1, <1>2, <2>2 DEF MemInv, Loaded
    <2>5. Roots'
      BY <1>1, <1>2, <2>1, <2>2, RootsKept DEF MemInv
    <2>6. Stage2' /\ Position'
      BY <2>1 DEF Stage2, Position
    <2>7. \A i \in DOMAIN secs : i \in Nat /\ i < n
      BY <1>1, <1>2
    <2>8. \A i \in DOMAIN secs : Large(i) => Apart(i)
      BY <1>1, <2>7 DEF MemInv, FrameMap
    <2>9. MapFits'
      <3> SUFFICES ASSUME pa_len > 0
                   PROVE  /\ frame_map'.pages * WORDS >= 2 * (pa_len \div SMALL) + WORDS
                          /\ \E i \in DOMAIN secs :
                                MapCells' \subseteq Cells(secs[i].base, secs[i].len)
                          /\ MapCells' \cap (FbCells \cup CfgCells) = {}
                          /\ \A i \in DOMAIN secs : Large(i) => Apart(i)
        BY <1>1 DEF MapFits, Large, Apart, FbCells, CfgCells
      <3>1. large # {} /\ large \subseteq Nat
        <4>1. \E i \in DOMAIN secs : Large(i)
          BY <1>1, <1>2, <2>7 DEF MemInv, FrameMap
        <4> QED
          BY <2>7, <4>1 DEF Large
      <3>2. k \in large
        <4>1. \E i \in large : \A j \in large : i <= j
          BY <3>1, LeastNat
        <4> HIDE DEF large
        <4> QED
          BY <4>1
      <3>3. k \in DOMAIN secs /\ Large(k) /\ s.base \in Nat /\ s.len \in Nat
        <4>1. k \in DOMAIN secs /\ Large(k)
          BY <3>2 DEF Large
        <4> QED
          BY <1>2, <4>1, SectionFacts
      <3>4. pages \in Nat /\ pages * WORDS >= 2 * (pa_len \div SMALL) + WORDS
        <4>1. pa_len \div SMALL \in Nat
          BY <1>2, ConstantFacts, DivMod
        <4>2. (pa_len \div SMALL) * 2 = 2 * (pa_len \div SMALL)
          BY <4>1
        <4> QED
          BY <4>1, <4>2, MapLength
      <3>5. addr \in Nat /\ addr >= s.base + SMALL
        <4>1. s.base + SMALL \in Nat /\ SMALL \in Nat \ {0}
          BY <3>3, ConstantFacts
        <4> QED
          BY <4>1, RoundUp
      <3>6. /\ frame_map'.addr = addr /\ frame_map'.pages = pages
            /\ addr + pages * SMALL < s.base + s.len
        BY <2>1, <3>1 DEF SecEnd
      <3> HIDE DEF addr, pages, s, k, large
      <3>7. MapCells' \subseteq Cells(s.base, s.len)
        <4>1. SMALL \in Nat \ {0}
          BY ConstantFacts
        <4>2. pages * SMALL \in Nat
          BY <3>4, <4>1
        <4>3. MapCells' = addr .. addr + pages * SMALL - 1
          BY <3>6 DEF MapCells, Cells
        <4> QED
          BY <3>3, <3>5, <3>6, <4>1, <4>2, <4>3 DEF Cells
      <3>8. Apart(k)
        BY <2>8, <3>3
      <3> QED
        BY <2>8, <3>3, <3>4, <3>6, <3>7, <3>8 DEF Apart, s
    <2>10. FrameMap'
      BY <2>1, <2>2, <2>9 DEF FrameMap
    <2> QED
      BY <2>3, <2>4, <2>5, <2>6, <2>10 DEF MemInv
  <1> QED
    BY <1>3, <1>4

(* A job as it begins.                                                     *)
LEMMA BeginFacts ==
    ASSUME NEW va \in Nat, NEW n_pg \in Nat, NEW list \in Seq(PaRange),
           NEW next \in {"devices", "frame_buffer", "load", "done"},
           Begin("tab_4", va, n_pg, list, next)
    PROVE  /\ job' \in Job /\ pc' = "map" /\ n' = 0 /\ At' = next
           /\ job'.root = "tab_4" /\ job'.va = va /\ job'.n_pg = n_pg /\ job'.list = list
           /\ job'.i = 0 /\ job'.idx = 1 /\ job'.page = 0 /\ job'.next = next
           /\ Position'
  <1> DEFINE e == <<>>
  <1>1. NoJob = [root |-> "none", va |-> 0, n_pg |-> 0, list |-> e, i |-> 0, idx |-> 1,
                 page |-> 0, next |-> "none"]
    BY Zenon DEF NoJob
  <1>2. job' = [NoJob EXCEPT !.root = "tab_4", !.va = va, !.n_pg = n_pg, !.list = list,
                             !.next = next]
    BY DEF Begin
  <1> HIDE DEF e
  <1>3. job' = [root |-> "tab_4", va |-> va, n_pg |-> n_pg, list |-> list, i |-> 0, idx |-> 1,
                page |-> 0, next |-> next]
    BY <1>1, <1>2
  <1>4. pc' = "map" /\ n' = 0
    BY DEF Begin, Go
  <1>5. job' \in Job
    BY <1>3 DEF Job
  <1>6. Position'
    <2>1. Len(list) \in Nat
      OBVIOUS
    <2>2. Len(FlatUpTo(list)[0]) = 0
      <3>1. FlatUpTo(list)[0] = <<>>
        BY FlatStep
      <3>2. Len(<<>>) = 0
        OBVIOUS
      <3> QED
        BY <3>1, <3>2, Zenon
    <2>3. 1 <= Len(list) => list[1].n_pg \in Nat
      <3>1. 1 <= Len(list) => 1 \in 1 .. Len(list)
        BY <2>1
      <3> QED
        BY <3>1, RangeFacts
    <2>4. /\ 1 <= Len(list) + 1
          /\ 1 <= Len(list) => 0 <= list[1].n_pg
          /\ 0 = Len(FlatUpTo(list)[1 - 1]) + 0
      <3>1. 1 - 1 = 0
        OBVIOUS
      <3>2. Len(FlatUpTo(list)[1 - 1]) = 0
        BY <2>2, <3>1
      <3> QED
        BY <2>1, <2>3, <3>2
    <2>5. job'.list = list /\ job'.idx = 1 /\ job'.page = 0 /\ job'.i = 0
      BY <1>3
    <2> QED
      BY <2>4, <2>5 DEF Position
  <1> QED
    BY <1>3, <1>4, <1>5, <1>6 DEF At

LEMMA SingleRange ==
    ASSUME NEW pa \in Nat, NEW n_pg \in Nat
    PROVE  /\ <<[pa |-> pa, n_pg |-> n_pg]>> \in Seq(PaRange)
           /\ Len(<<[pa |-> pa, n_pg |-> n_pg]>>) = 1
           /\ <<[pa |-> pa, n_pg |-> n_pg]>>[1].pa = pa
           /\ <<[pa |-> pa, n_pg |-> n_pg]>>[1].n_pg = n_pg
  <1> DEFINE r == [pa |-> pa, n_pg |-> n_pg]
  <1>1. r \in PaRange /\ r.pa = pa /\ r.n_pg = n_pg
    BY DEF PaRange
  <1> HIDE DEF r
  <1>2. <<r>> \in Seq(PaRange) /\ Len(<<r>>) = 1 /\ <<r>>[1] = r
    BY <1>1
  <1> QED
    BY <1>1, <1>2 DEF r

(* mem_page_bootstrap_2: the kernel image.                                 *)
LEMMA MapKernelMem == ASSUME MemInv, map_kernel PROVE MemInv'
  <1>1. /\ pc = "map_2" /\ machine' = machine /\ stage' = stage /\ secs' = secs
        /\ frames' = frames /\ cr3' = cr3 /\ fb_addr' = fb_addr
        /\ pa_len' = pa_len /\ frame_map' = frame_map
        /\ leaf' = [x \in {y \in DOMAIN leaf : y[1] # "tab_4"} |-> leaf[x]]
    BY DEF map_kernel, frame_vars
  <1>2. /\ At = "map_2" /\ list_next \in 0 .. LIST_CAP /\ machine \in Machines
        /\ cr3 = "bootstrap" /\ fb_addr = machine.fb
    BY <1>1 DEF At, MemInv, Types, TypeOK, Loaded
  <1>3. /\ DOMAIN leaf' \subseteq DOMAIN leaf /\ Keeps("bootstrap")
        /\ \A x \in DOMAIN leaf' : x[1] # "tab_4"
    BY <1>1 DEF Keeps
  <1>4. CASE list_next + list_words(1) > LIST_CAP
    <2>1. pc' = "panic" /\ n' = n /\ list_next' = list_next /\ job' = job
      BY <1>4 DEF map_kernel, Panic
    <2> QED
      BY <1>1, <1>2, <1>3, <2>1, PanicMem
  <1>5. CASE ~(list_next + list_words(1) > LIST_CAP)
    <2> DEFINE list == <<[pa |-> 0, n_pg |-> ker_n_page]>>
    <2>1. /\ list_next' = list_next + list_words(1)
          /\ Begin("tab_4", 0, ker_n_page, list, "frame_buffer")
      BY <1>5 DEF map_kernel
    <2>2. ker_n_page \in Nat /\ ker_n_page' = ker_n_page
      BY <1>1, <1>2, KernelPages DEF ker_n_page
    <2>3. list \in Seq(PaRange)
      BY <2>2, SingleRange
    <2> HIDE DEF list
    <2>4. /\ job' \in Job /\ pc' = "map" /\ n' = 0 /\ At' = "frame_buffer"
          /\ job'.root = "tab_4" /\ job'.va = 0 /\ job'.n_pg = ker_n_page /\ job'.list = list
          /\ job'.i = 0 /\ job'.idx = 1 /\ job'.page = 0 /\ job'.next = "frame_buffer"
          /\ Position'
      BY <2>1, <2>2, <2>3, BeginFacts
    <2>5. Types'
      <3>1. list_next' \in 0 .. LIST_CAP
        BY <1>2, <1>5, <2>1, ConstantFacts DEF list_words
      <3> QED
        BY <1>1, <1>3, <2>4, <3>1 DEF MemInv, Types, TypeOK
    <2>6. Loaded'
      BY <1>1, <1>2, <2>4 DEF MemInv, Loaded
    <2>7. Roots'
      <3>1. \A p : Identity(p) => Identity(p)'
        BY <1>3, IdentityKept
      <3> QED
        BY <1>1, <1>2, <2>4, <3>1 DEF MemInv, Roots
    <2>8. Stage2'
      <3>1. OneRange(0, 0, ker_n_page)'
        BY <2>2, <2>4 DEF OneRange, list
      <3>2. KernelMapped(job.i)'
        <4>1. 0 .. 0 - 1 = {}
          OBVIOUS
        <4> QED
          BY <2>4, <4>1 DEF KernelMapped
      <3>3. NoOther(0)'
        BY <1>3 DEF NoOther
      <3> QED
        BY <2>4, <3>1, <3>2, <3>3 DEF Stage2
    <2>9. FrameMap'
      <3>1. MapFits
        BY <1>2 DEF MemInv, FrameMap
      <3>2. MapFits'
        BY <1>1, <3>1 DEF MapFits, MapCells, FbCells, CfgCells, Large, Apart
      <3> QED
        BY <2>4, <3>2 DEF FrameMap
    <2> QED
      BY <2>4, <2>5, <2>6, <2>7, <2>8, <2>9 DEF MemInv
  <1> QED
    BY <1>4, <1>5

(* The frame buffer.                                                       *)
LEMMA FrameBufferMem == ASSUME MemInv, frame_buffer PROVE MemInv'
  <1>1. /\ pc = "frame_buffer" /\ machine' = machine /\ stage' = stage /\ secs' = secs
        /\ frames' = frames /\ cr3' = cr3 /\ leaf' = leaf /\ list_next' = list_next
        /\ pa_len' = pa_len /\ frame_map' = frame_map
    BY DEF frame_buffer, frame_vars, paging
  <1>2. /\ At = "frame_buffer" /\ list_next \in 0 .. LIST_CAP /\ machine \in Machines
        /\ cr3 = "bootstrap" /\ fb_addr = machine.fb
    BY <1>1 DEF At, MemInv, Types, TypeOK, Loaded
  <1>3. CASE frame_buffer_refused
    <2>1. pc' = "panic" /\ n' = n /\ fb_addr' = fb_addr /\ job' = job
      BY <1>3 DEF frame_buffer, Panic
    <2> QED
      BY <1>1, <1>2, <2>1, SameLeaf, PanicMem
  <1>4. CASE ~frame_buffer_refused
    <2> DEFINE list == <<[pa |-> machine.fb, n_pg |-> fb_n_page]>>
    <2>1. /\ fb_addr' = FbVa /\ machine.fb_len % SMALL = 0
          /\ Begin("tab_4", FbVa, fb_n_page, list, "load")
      BY <1>2, <1>4 DEF frame_buffer, frame_buffer_refused, fb_n_page
    <2>2. /\ fb_n_page \in Nat /\ fb_n_page' = fb_n_page /\ ker_n_page' = ker_n_page
          /\ machine.fb \in Nat /\ FbVa \in Nat
      BY <1>1, <1>2, FbPages, MachineFacts, ConstantFacts DEF fb_n_page, ker_n_page
    <2>3. list \in Seq(PaRange)
      BY <2>2, SingleRange
    <2> HIDE DEF list
    <2>4. /\ job' \in Job /\ pc' = "map" /\ n' = 0 /\ At' = "load"
          /\ job'.root = "tab_4" /\ job'.va = FbVa /\ job'.n_pg = fb_n_page
          /\ job'.list = list
          /\ job'.i = 0 /\ job'.idx = 1 /\ job'.page = 0 /\ job'.next = "load"
          /\ Position'
      BY <2>1, <2>2, <2>3, BeginFacts
    <2>5. Types'
      BY <1>1, <2>4 DEF MemInv, Types, TypeOK
    <2>6. Loaded'
      BY <1>1, <1>2, <2>1, <2>4 DEF MemInv, Loaded
    <2>7. Roots'
      <3>1. \A p : Identity(p) => Identity(p)'
        BY <1>1, SameLeaf, IdentityKept
      <3>2. KernelMapped(ker_n_page)'
        BY <1>1, <2>2 DEF MemInv, Roots, KernelMapped
      <3> QED
        BY <1>1, <1>2, <2>1, <2>4, <3>1, <3>2 DEF MemInv, Roots
    <2>8. Stage2'
      <3>1. OneRange(FbVa, machine.fb, fb_n_page)'
        BY <1>1, <2>2, <2>4 DEF OneRange, list
      <3>2. FbMapped(job.i)' /\ NoOther(job.i)'
        <4>1. 0 .. 0 - 1 = {}
          OBVIOUS
        <4> QED
          BY <1>1, <2>4, <4>1 DEF FbMapped, NoOther, MemInv, Stage2
      <3> QED
        BY <2>4, <3>1, <3>2 DEF Stage2
    <2>9. FrameMap'
      <3>1. MapFits
        BY <1>2 DEF MemInv, FrameMap
      <3>2. MapFits'
        BY <1>1, <3>1 DEF MapFits, MapCells, FbCells, CfgCells, Large, Apart
      <3> QED
        BY <2>4, <3>2 DEF FrameMap
    <2> QED
      BY <2>4, <2>5, <2>6, <2>7, <2>8, <2>9 DEF MemInv
  <1> QED
    BY <1>3, <1>4

LEMMA LoadMem == ASSUME MemInv, load_tab_4 PROVE MemInv'
  <1>1. /\ pc = "load" /\ cr3' = "tab_4" /\ stage' = 2 /\ pc' = "done" /\ n' = 0
        /\ machine' = machine /\ secs' = secs /\ frames' = frames
        /\ list_next' = list_next /\ leaf' = leaf /\ fb_addr' = fb_addr
        /\ pa_len' = pa_len /\ job' = job
    BY DEF load_tab_4, frame_vars, Go
  <1>2. At = "load" /\ At' = "done" /\ fb_addr = FbVa /\ cr3 = "bootstrap"
    BY <1>1 DEF At, MemInv, Loaded
  <1>3. Types'
    BY <1>1 DEF MemInv, Types, TypeOK
  <1>4. Loaded'
    BY <1>1, <1>2 DEF Loaded
  <1>5. Roots'
    <2>1. \A p : Identity(p) => Identity(p)'
      BY <1>1, SameLeaf, IdentityKept
    <2>2. KernelMapped(ker_n_page)' /\ FbMapped(fb_n_page)'
      BY <1>1, <1>2 DEF MemInv, Roots, KernelMapped, FbMapped, ker_n_page, fb_n_page
    <2> QED
      BY <1>1, <1>2, <2>1, <2>2 DEF MemInv, Roots
  <1>6. Stage2' /\ Position' /\ FrameMap'
    BY <1>1, <1>2 DEF Stage2, Position, FrameMap
  <1> QED
    BY <1>3, <1>4, <1>5, <1>6 DEF MemInv

(* The end of a mapping.                                                   *)
LEMMA MapEndMem == ASSUME MemInv, map_end PROVE MemInv'
  <1>1. /\ pc = "map" /\ job.i = job.n_pg /\ pc' = job.next /\ n' = 0
        /\ machine' = machine /\ secs' = secs /\ frames' = frames /\ stage' = stage
        /\ list_next' = list_next /\ leaf' = leaf /\ fb_addr' = fb_addr /\ cr3' = cr3
        /\ pa_len' = pa_len /\ frame_map' = frame_map /\ job' = job
    BY DEF map_end, frame_vars, paging, Go
  <1>2. job.next \in {"devices", "frame_buffer", "load", "done"}
    BY <1>1 DEF MemInv, Types, Job
  <1>3. At = job.next /\ At' = job.next
    BY <1>1, <1>2 DEF At
  <1>4. Types'
    BY <1>1, <1>2 DEF MemInv, Types, TypeOK
  <1>5. Loaded'
    <2>1. ~Starved
      BY <1>1 DEF Starved
    <2> QED
      BY <1>1, <1>3, <2>1 DEF MemInv, Loaded
  <1>6. Roots'
    <2>1. \A p : Identity(p) => Identity(p)'
      BY <1>1, SameLeaf, IdentityKept
    <2>2. ker_n_page' = ker_n_page /\ fb_n_page' = fb_n_page
      BY <1>1 DEF ker_n_page, fb_n_page
    <2>3. job.next = "frame_buffer" => KernelMapped(ker_n_page)
      BY <1>1 DEF MemInv, Stage2, OneRange
    <2>4. job.next = "load" => FbMapped(fb_n_page)
      BY <1>1 DEF MemInv, Stage2, OneRange
    <2>5. \/ job.next = "frame_buffer" \/ job.next = "load" \/ cr3 = "tab_4"
          => KernelMapped(ker_n_page)
      BY <1>3, <2>3 DEF MemInv, Roots
    <2>6. job.next = "load" \/ cr3 = "tab_4" => FbMapped(fb_n_page)
      BY <2>4 DEF MemInv, Roots
    <2>7. KernelMapped(ker_n_page) => KernelMapped(ker_n_page)'
      BY <1>1, <2>2 DEF KernelMapped
    <2>8. FbMapped(fb_n_page) => FbMapped(fb_n_page)'
      BY <1>1, <2>2 DEF FbMapped
    <2> QED
      BY <1>1, <1>2, <1>3, <2>1, <2>5, <2>6, <2>7, <2>8 DEF MemInv, Roots
  <1>7. Stage2'
    <2>1. job.next = "frame_buffer" => NoOther(0)
      BY <1>1 DEF MemInv, Stage2
    <2> QED
      BY <1>1, <1>2, <2>1 DEF Stage2, NoOther
  <1>8. Position'
    BY <1>1, <1>2 DEF Position
  <1>9. FrameMap'
    <2>1. MapFits => MapFits'
      BY <1>1 DEF MapFits, MapCells, FbCells, CfgCells, Large, Apart
    <2> QED
      BY <1>1, <1>2, <1>3, <2>1 DEF MemInv, FrameMap
  <1> QED
    BY <1>4, <1>5, <1>6, <1>7, <1>8, <1>9 DEF MemInv

(* A step of _map_impl that goes on.                                       *)
LEMMA GoesOn ==
    ASSUME MemInv, pc = "map", pc' = "map", job'.next = job.next,
           machine' = machine, secs' = secs, cr3' = cr3, fb_addr' = fb_addr,
           pa_len' = pa_len, frame_map' = frame_map, Keeps("bootstrap"), Keeps("tab_4")
    PROVE  Loaded' /\ Roots' /\ FrameMap' /\ At' = At /\ At = job.next
  <1>1. At' = At /\ At = job.next
    BY DEF At
  <1>2. Loaded'
    <2>1. ~Starved
      BY DEF Starved
    <2> QED
      BY <1>1, <2>1 DEF MemInv, Loaded
  <1>3. Roots'
    <2>1. \A p : Identity(p) => Identity(p)'
      BY IdentityKept
    <2>2. ker_n_page' = ker_n_page /\ fb_n_page' = fb_n_page
      BY DEF ker_n_page, fb_n_page
    <2>3. \A x : <<"tab_4", x>>[1] = "tab_4"
      OBVIOUS
    <2>4. KernelMapped(ker_n_page) => KernelMapped(ker_n_page)'
      BY <2>2, <2>3 DEF KernelMapped, Keeps
    <2>5. FbMapped(fb_n_page) => FbMapped(fb_n_page)'
      BY <2>2, <2>3 DEF FbMapped, Keeps
    <2> QED
      BY <1>1, <2>1, <2>4, <2>5 DEF MemInv, Roots
  <1>4. FrameMap'
    <2>1. MapFits => MapFits'
      BY DEF MapFits, MapCells, FbCells, CfgCells, Large, Apart
    <2> QED
      BY <1>1, <2>1 DEF MemInv, FrameMap
  <1> QED
    BY <1>1, <1>2, <1>3, <1>4

LEMMA JobFacts ==
    ASSUME MemInv
    PROVE  /\ job \in Job /\ job.va \in Nat /\ job.n_pg \in Nat /\ job.i \in Nat
           /\ job.idx \in Nat /\ job.idx > 0 /\ job.page \in Nat
           /\ job.list \in Seq(PaRange) /\ Len(job.list) \in Nat
           /\ pc = "map" => job.next \in {"devices", "frame_buffer", "load", "done"}
  <1>1. job \in Job /\ (pc = "map" => job.next # "none")
    BY DEF MemInv, Types
  <1>2. job.list \in Seq(PaRange)
    BY <1>1 DEF Job
  <1> QED
    BY <1>1, <1>2 DEF Job

(* The loop variables of _map_impl are updated.                            *)
Updated(j, i, idx, page) == [j EXCEPT !.i = i, !.idx = idx, !.page = page]
LEMMA JobUpdate ==
    ASSUME NEW j \in Job, NEW i, NEW idx, NEW page
    PROVE  /\ Updated(j, i, idx, page).root = j.root /\ Updated(j, i, idx, page).va = j.va
           /\ Updated(j, i, idx, page).n_pg = j.n_pg /\ Updated(j, i, idx, page).list = j.list
           /\ Updated(j, i, idx, page).next = j.next
           /\ Updated(j, i, idx, page).i = i /\ Updated(j, i, idx, page).idx = idx
           /\ Updated(j, i, idx, page).page = page
           /\ i \in Nat /\ idx \in Nat \ {0} /\ page \in Nat => Updated(j, i, idx, page) \in Job
  <1> DEFINE r == Updated(j, i, idx, page)
             L == Seq(PaRange)
             N == {"none", "devices", "frame_buffer", "load", "done"}
             R == {"none", "tab_4"}
  <1>1. Job = [root : R, va : Nat, n_pg : Nat, list : L, i : Nat, idx : Nat \ {0}, page : Nat,
               next : N]
    BY DEF Job
  <1> HIDE DEF L, N, R
  <1>2. r = [j EXCEPT !.i = i, !.idx = idx, !.page = page]
    BY DEF Updated
  <1> HIDE DEF r
  <1>3. r = [root |-> j.root, va |-> j.va, n_pg |-> j.n_pg, list |-> j.list, i |-> i,
             idx |-> idx, page |-> page, next |-> j.next]
    BY <1>1, <1>2
  <1>4. j.root \in R /\ j.va \in Nat /\ j.n_pg \in Nat /\ j.list \in L /\ j.next \in N
    BY <1>1
  <1>5. i \in Nat /\ idx \in Nat \ {0} /\ page \in Nat => r \in Job
    BY <1>1, <1>3, <1>4
  <1>6. /\ r.root = j.root /\ r.va = j.va /\ r.n_pg = j.n_pg
        /\ r.list = j.list /\ r.next = j.next
        /\ r.i = i /\ r.idx = idx /\ r.page = page
    BY <1>3
  <1> QED
    BY <1>5, <1>6 DEF r

LEMMA NextRangeJob ==
    ASSUME job \in Job, job' = next_range
    PROVE  /\ job' \in Job /\ job'.next = job.next /\ job'.root = job.root
           /\ job'.list = job.list /\ job'.i = job.i /\ job'.idx = job.idx + 1
           /\ job'.page = 0
  <1>1. job.idx + 1 \in Nat \ {0} /\ job.i \in Nat
    BY DEF Job
  <1>2. job' = Updated(job, job.i, job.idx + 1, 0)
    BY DEF next_range, Job, Updated
  <1> QED
    BY <1>1, <1>2, JobUpdate

NextPage == [job EXCEPT !.i = @ + 1, !.page = @ + 1]
LEMMA NextPageJob ==
    ASSUME job \in Job, job' = NextPage
    PROVE  /\ job' \in Job /\ job'.next = job.next /\ job'.root = job.root
           /\ job'.list = job.list /\ job'.i = job.i + 1 /\ job'.idx = job.idx
           /\ job'.page = job.page + 1 /\ job'.va = job.va /\ job'.n_pg = job.n_pg
  <1>1. job.idx \in Nat \ {0} /\ job.i + 1 \in Nat /\ job.page + 1 \in Nat
    BY DEF Job
  <1>2. job' = Updated(job, job.i + 1, job.idx, job.page + 1)
    BY DEF NextPage, Job, Updated
  <1> QED
    BY <1>1, <1>2, JobUpdate

(* The mappings of mem_page_bootstrap_2 have a single range and end in it. *)
LEMMA SingleJob ==
    ASSUME MemInv, pc = "map", job.next \in {"frame_buffer", "load"}
    PROVE  /\ job.idx = 1 /\ Len(job.list) = 1 /\ job.page = job.i
           /\ job.list[1].n_pg = job.n_pg
           /\ job.next = "frame_buffer" => job.list[1].pa = 0
           /\ job.next = "load" => job.list[1].pa = machine.fb
  <1>1. machine \in Machines
    BY DEF MemInv, Types
  <1>2. CASE job.next = "frame_buffer"
    <2>1. OneRange(0, 0, ker_n_page)
      BY <1>2 DEF MemInv, Stage2
    <2>2. ker_n_page \in Nat
      BY <1>1, KernelPages
    <2> QED
      BY <1>2, <2>1, <2>2, SingleRange DEF OneRange
  <1>3. CASE job.next = "load"
    <2>1. OneRange(FbVa, machine.fb, fb_n_page)
      BY <1>3 DEF MemInv, Stage2
    <2>2. fb_n_page \in Nat /\ machine.fb \in Nat
      BY <1>1, FbPages, MachineFacts
    <2> QED
      BY <1>3, <2>1, <2>2, SingleRange DEF OneRange
  <1> QED
    BY <1>2, <1>3

(* _map_impl, the next range.                                              *)
LEMMA NextRangeMem ==
    ASSUME MemInv, pc = "map", pc' = "map", job.i < job.n_pg, job.idx <= Len(job.list),
           job.page >= job.list[job.idx].n_pg, job' = next_range,
           machine' = machine, stage' = stage, secs' = secs, n' = n, frames' = frames,
           list_next' = list_next, leaf' = leaf, cr3' = cr3, fb_addr' = fb_addr,
           pa_len' = pa_len, frame_map' = frame_map
    PROVE  MemInv'
  <1>1. /\ job \in Job /\ job.idx \in Nat /\ job.idx > 0 /\ job.page \in Nat
        /\ job.list \in Seq(PaRange) /\ Len(job.list) \in Nat
        /\ job.i \in Nat /\ job.n_pg \in Nat
        /\ job.next \in {"devices", "frame_buffer", "load", "done"}
    BY JobFacts
  <1>2. /\ job'.next = job.next /\ job'.root = job.root /\ job'.list = job.list
        /\ job'.i = job.i /\ job'.idx = job.idx + 1 /\ job'.page = 0 /\ job' \in Job
    BY <1>1, NextRangeJob
  <1>3. Keeps("bootstrap") /\ Keeps("tab_4")
    BY SameLeaf
  <1>4. Loaded' /\ Roots' /\ FrameMap'
    BY <1>2, <1>3, GoesOn
  <1>5. Types'
    BY <1>2 DEF MemInv, Types, TypeOK
  <1>6. job.next \notin {"frame_buffer", "load"}
    BY <1>1, SingleJob
  <1>7. Stage2'
    BY <1>2, <1>6 DEF Stage2
  <1>8. Position'
    <2> DEFINE f == FlatUpTo(job.list)
               k == job.idx
    <2>1. k \in 1 .. Len(job.list) /\ k - 1 \in 0 .. Len(job.list)
      BY <1>1
    <2>2. job.list[k] \in PaRange /\ job.list[k].n_pg \in Nat
      BY <1>1, <2>1, RangeFacts
    <2>3. job.page = job.list[k].n_pg /\ job.i = Len(f[k - 1]) + job.page
      BY <1>1, <2>1, <2>2 DEF MemInv, Position
    <2>4. f[k] = f[k - 1] \o Run(job.list[k]) /\ f[k - 1] \in Seq(Nat)
      <3>1. \A i \in 1 .. Len(job.list) : f[i] = f[i - 1] \o Run(job.list[i])
        BY <1>1, FlatStep, Zenon
      <3>2. f \in [0 .. Len(job.list) -> Seq(Nat)]
        BY <1>1, FlatStep, Zenon
      <3> HIDE DEF f, k
      <3> QED
        BY <2>1, <3>1, <3>2
    <2>5. Run(job.list[k]) \in Seq(Nat) /\ Len(Run(job.list[k])) = job.list[k].n_pg
      BY <2>2, RunFacts
    <2>6. Len(f[k]) = job.i
      <3> DEFINE s == f[k - 1]
                 t == Run(job.list[k])
      <3> HIDE DEF s, t
      <3>1. s \in Seq(Nat) /\ t \in Seq(Nat)
        BY <2>4, <2>5 DEF s, t
      <3>2. Len(s \o t) = Len(s) + Len(t)
        BY <3>1
      <3>3. f[k] = s \o t /\ Len(t) = job.page /\ job.i = Len(s) + job.page
        BY <2>3, <2>4, <2>5 DEF s, t
      <3> QED
        BY <3>2, <3>3
    <2>7. k + 1 <= Len(job.list) => job.list[k + 1].n_pg \in Nat
      <3>1. k + 1 <= Len(job.list) => k + 1 \in 1 .. Len(job.list)
        BY <1>1
      <3> QED
        BY <1>1, <3>1, RangeFacts
    <2>8. (k + 1) - 1 = k /\ k + 1 <= Len(job.list) + 1
      BY <1>1
    <2>9. /\ k + 1 <= Len(job.list) => 0 <= job.list[k + 1].n_pg
          /\ job.i = Len(f[(k + 1) - 1]) + 0
      BY <1>1, <2>6, <2>7, <2>8
    <2> QED
      BY <1>2, <2>8, <2>9 DEF Position
  <1> QED
    BY <1>4, <1>5, <1>7, <1>8 DEF MemInv

LEMMA TimesLess ==
    ASSUME NEW w \in Nat, NEW i \in Nat, NEW j \in Nat, i < j
    PROVE  i * w + w <= j * w /\ i * w \in Nat /\ j * w \in Nat
  <1>1. w * i + w <= w * j /\ w * i \in Nat /\ w * j \in Nat
    BY MulStep
  <1>2. w * i = i * w /\ w * j = j * w
    OBVIOUS
  <1> QED
    BY <1>1, <1>2

(* A panic of _map_impl: in the mapping of the frame buffer it can only be *)
(* that the frame pool is empty.                                           *)
LEMMA MapPanicMem ==
    ASSUME MemInv, pc = "map", pc' = "panic", job.i < job.n_pg, job' = job,
           \/ job.idx > Len(job.list)
           \/ frames_missing(job.root, job.va + job.i * SMALL, 1)
           \/ page_taken(job.root, job.va + job.i * SMALL),
           machine' = machine, stage' = stage, secs' = secs, n' = n, frames' = frames,
           list_next' = list_next, tables' = tables, leaf' = leaf, cr3' = cr3,
           fb_addr' = fb_addr, pa_len' = pa_len
    PROVE  MemInv'
  <1>1. At = job.next /\ At' = "panic"
    BY DEF At
  <1>2. CASE job.next # "load"
    <2>1. list_next \in 0 .. LIST_CAP
      BY DEF MemInv, Types, TypeOK
    <2> QED
      BY <1>1, <1>2, <2>1, SameLeaf, PanicMem
  <1>3. CASE job.next = "load"
    <2>1. job.idx = 1 /\ Len(job.list) = 1
      BY <1>3, SingleJob
    <2>2. job.va = FbVa /\ NoOther(job.i) /\ job.root = "tab_4" /\ job.i \in Nat
      BY <1>3, JobFacts DEF MemInv, Stage2, OneRange, Types
    <2>3. ~page_taken("tab_4", FbVa + job.i * SMALL)
      <3> DEFINE a == FbVa + job.i * SMALL
      <3> SUFFICES ASSUME <<"tab_4", a>> \in DOMAIN leaf PROVE FALSE
        BY DEF page_taken
      <3>1. <<"tab_4", a>>[1] = "tab_4" /\ <<"tab_4", a>>[2] = a
        OBVIOUS
      <3>2. a < FbVa \/ \E i \in 0 .. job.i - 1 : a = FbVa + i * SMALL
        BY <2>2, <3>1, Zenon DEF NoOther
      <3>3. SMALL \in Nat \ {0} /\ FbVa \in Nat
        BY ConstantFacts
      <3>4. job.i * SMALL \in Nat
        BY <2>2, <3>3
      <3>5. ASSUME NEW i \in 0 .. job.i - 1 PROVE a # FbVa + i * SMALL
        <4>1. i \in Nat /\ i < job.i
          BY <2>2
        <4>2. i * SMALL + SMALL <= job.i * SMALL /\ i * SMALL \in Nat
          BY <2>2, <3>3, <4>1, TimesLess
        <4> QED
          BY <3>3, <3>4, <4>2
      <3> QED
        BY <3>2, <3>3, <3>4, <3>5
    <2>4. frames_missing("tab_4", FbVa + job.i * SMALL, 1)
      BY <2>1, <2>2, <2>3
    <2>5. Starved'
      BY <1>3, <2>4 DEF Starved, frames_missing, missing
    <2>6. Types'
      BY DEF MemInv, Types, TypeOK
    <2>7. cr3 = "bootstrap"
      BY <1>1, <1>3 DEF MemInv, Loaded
    <2>8. Loaded'
      BY <1>1, <2>5, <2>7 DEF Loaded
    <2>9. Roots'
      BY <1>1, <2>7, RootsKept DEF MemInv
    <2>10. Stage2' /\ Position' /\ FrameMap'
      BY <1>1 DEF Stage2, Position, FrameMap
    <2> QED
      BY <2>6, <2>8, <2>9, <2>10 DEF MemInv
  <1> QED
    BY <1>2, <1>3

(* _map_impl, a page.                                                      *)
LEMMA MapPageMem ==
    ASSUME MemInv, pc = "map", pc' = "map", job.i < job.n_pg, job.idx <= Len(job.list),
           ~(job.page >= job.list[job.idx].n_pg), job' = NextPage,
           ~frames_missing(job.root, job.va + job.i * SMALL, 1),
           ~page_taken(job.root, job.va + job.i * SMALL),
           install(job.root, job.va + job.i * SMALL,
                   job.list[job.idx].pa + job.page * SMALL, 1),
           machine' = machine, stage' = stage, secs' = secs, n' = n,
           list_next' = list_next, cr3' = cr3, fb_addr' = fb_addr,
           pa_len' = pa_len, frame_map' = frame_map
    PROVE  MemInv' /\ Keeps("bootstrap") /\ Keeps("tab_4")
  <1> DEFINE va == job.va + job.i * SMALL
             pa == job.list[job.idx].pa + job.page * SMALL
  <1>1. /\ job \in Job /\ job.idx \in Nat /\ job.idx > 0 /\ job.page \in Nat
        /\ job.list \in Seq(PaRange) /\ Len(job.list) \in Nat /\ job.va \in Nat
        /\ job.i \in Nat /\ job.n_pg \in Nat /\ job.root = "tab_4"
        /\ job.next \in {"devices", "frame_buffer", "load", "done"}
    BY JobFacts DEF MemInv, Types
  <1>2. /\ job' \in Job /\ job'.next = job.next /\ job'.root = job.root
        /\ job'.list = job.list /\ job'.i = job.i + 1 /\ job'.idx = job.idx
        /\ job'.page = job.page + 1 /\ job'.va = job.va /\ job'.n_pg = job.n_pg
    BY <1>1, NextPageJob
  <1>3. SMALL \in Nat \ {0} /\ FbVa \in Nat /\ frames \in Nat /\ machine \in Machines
    BY ConstantFacts DEF MemInv, Types, TypeOK
  <1>4. va \in Nat
    <2>1. job.i * SMALL \in Nat
      BY <1>1, <1>3
    <2> QED
      BY <1>1, <2>1
  <1>5. install("tab_4", va, pa, 1) /\ ~frames_missing("tab_4", va, 1)
        /\ <<"tab_4", va>> \notin DOMAIN leaf
    BY <1>1 DEF page_taken
  <1> HIDE DEF va, pa
  <1>6. /\ frames' \in 0 .. FRAME_CAP
        /\ DOMAIN leaf' = DOMAIN leaf \cup {<<"tab_4", va>>}
        /\ leaf'[<<"tab_4", va>>] = pa
        /\ \A x \in DOMAIN leaf : x # <<"tab_4", va>> => leaf'[x] = leaf[x]
    BY <1>3, <1>5, InstallEffect
  <1>7. Keeps("bootstrap") /\ Keeps("tab_4")
    BY <1>5, <1>6 DEF Keeps
  <1>8. Loaded' /\ Roots' /\ FrameMap'
    BY <1>2, <1>7, GoesOn
  <1>9. Types'
    <2>1. DOMAIN leaf' \subseteq {"bootstrap", "tab_4"} \X Nat
      BY <1>4, <1>6 DEF MemInv, Types
    <2> QED
      BY <1>2, <1>6, <2>1 DEF MemInv, Types, TypeOK
  <1>10. Position'
    <2>1. job.idx \in 1 .. Len(job.list) /\ job.idx # Len(job.list) + 1
      BY <1>1
    <2>2. job.list[job.idx].n_pg \in Nat
      BY <1>1, <2>1, RangeFacts
    <2>3. job.page + 1 <= job.list[job.idx].n_pg
      BY <1>1, <2>2
    <2>4. job.i = Len(FlatUpTo(job.list)[job.idx - 1]) + job.page
      BY DEF MemInv, Position
    <2>5. job.i + 1 = Len(FlatUpTo(job.list)[job.idx - 1]) + (job.page + 1)
      <3>1. job.idx - 1 \in 0 .. Len(job.list)
        BY <1>1
      <3>2. FlatUpTo(job.list) \in [0 .. Len(job.list) -> Seq(Nat)]
        BY <1>1, FlatStep, Zenon
      <3>3. FlatUpTo(job.list)[job.idx - 1] \in Seq(Nat)
        BY <3>1, <3>2
      <3>4. Len(FlatUpTo(job.list)[job.idx - 1]) \in Nat
        BY <3>3
      <3> QED
        BY <1>1, <2>4, <3>4
    <2>6. job.idx <= Len(job.list) + 1
      BY <1>1
    <2> QED
      BY <1>2, <2>1, <2>3, <2>5, <2>6 DEF Position
  <1>11. Stage2'
    <2>1. ker_n_page' = ker_n_page /\ fb_n_page' = fb_n_page
      BY DEF ker_n_page, fb_n_page
    <2>2. \A k \in 0 .. (job.i + 1) - 1 : k \in 0 .. job.i - 1 \/ k = job.i
      BY <1>1
    <2>3. \A x : <<"tab_4", x>>[1] = "tab_4"
      OBVIOUS
    <2>4. job.next \in {"frame_buffer", "load"} =>
             /\ job.idx = 1 /\ job.page = job.i
             /\ job.next = "frame_buffer" => job.list[1].pa = 0
             /\ job.next = "load" => job.list[1].pa = machine.fb
      BY SingleJob
    <2>5. CASE job.next = "frame_buffer"
      <3>1. OneRange(0, 0, ker_n_page) /\ KernelMapped(job.i) /\ NoOther(0)
        BY <2>5 DEF MemInv, Stage2
      <3>2. OneRange(0, 0, ker_n_page)'
        BY <1>1, <1>2, <2>1, <3>1 DEF OneRange
      <3>3. job.i * SMALL \in Nat /\ va = job.i * SMALL /\ pa = job.i * SMALL
        <4>1. job.i * SMALL \in Nat
          BY <1>1, <1>3
        <4> QED
          BY <2>4, <2>5, <3>1, <4>1 DEF OneRange, va, pa
      <3>4. KernelMapped(job.i)'
        <4> SUFFICES ASSUME NEW k \in 0 .. (job.i + 1) - 1
                     PROVE  /\ <<"tab_4", k * SMALL>> \in DOMAIN leaf'
                            /\ leaf'[<<"tab_4", k * SMALL>>] = k * SMALL
          BY <1>2 DEF KernelMapped
        <4>1. CASE k = job.i
          BY <1>6, <3>3, <4>1
        <4>2. CASE k \in 0 .. job.i - 1
          BY <1>7, <2>3, <3>1, <4>2 DEF KernelMapped, Keeps
        <4> QED
          BY <2>2, <4>1, <4>2
      <3>5. va < FbVa
        <4>1. /\ ker_n_page \in Nat /\ ker_n_page * SMALL <= machine.kernel.end
              /\ machine.kernel.end \in Nat
              /\ machine.kernel.end + BIG <= PA_MAX /\ PA_MAX <= FbVa /\ BIG \in Nat
              /\ PA_MAX \in Nat
          BY <1>3, KernelPages, MachineFacts, ConstantFacts
        <4>2. job.i < ker_n_page
          BY <3>1 DEF OneRange
        <4>3. job.i * SMALL + SMALL <= ker_n_page * SMALL /\ ker_n_page * SMALL \in Nat
          BY <1>1, <1>3, <4>1, <4>2, TimesLess
        <4> QED
          BY <1>3, <3>3, <4>1, <4>3
      <3>6. NoOther(0)'
        <4> SUFFICES ASSUME NEW x \in DOMAIN leaf', x[1] = "tab_4"
                     PROVE  x[2] < FbVa \/ \E i \in 0 .. 0 - 1 : x[2] = FbVa + i * SMALL
          BY DEF NoOther
        <4>1. CASE x \in DOMAIN leaf
          BY <3>1, <4>1 DEF NoOther
        <4>2. CASE x = <<"tab_4", va>>
          BY <3>5, <4>2
        <4> QED
          BY <1>6, <4>1, <4>2
      <3> QED
        BY <1>2, <2>5, <3>2, <3>4, <3>6 DEF Stage2
    <2>6. CASE job.next = "load"
      <3>1. OneRange(FbVa, machine.fb, fb_n_page) /\ FbMapped(job.i) /\ NoOther(job.i)
        BY <2>6 DEF MemInv, Stage2
      <3>2. OneRange(FbVa, machine.fb, fb_n_page)'
        BY <1>1, <1>2, <2>1, <3>1 DEF OneRange
      <3>3. va = FbVa + job.i * SMALL /\ pa = machine.fb + job.i * SMALL
        BY <2>4, <2>6, <3>1 DEF OneRange, va, pa
      <3>4. FbMapped(job.i)'
        <4> SUFFICES ASSUME NEW k \in 0 .. (job.i + 1) - 1
                     PROVE  /\ <<"tab_4", FbVa + k * SMALL>> \in DOMAIN leaf'
                            /\ leaf'[<<"tab_4", FbVa + k * SMALL>>] = machine.fb + k * SMALL
          BY <1>2 DEF FbMapped
        <4>1. CASE k = job.i
          BY <1>6, <3>3, <4>1
        <4>2. CASE k \in 0 .. job.i - 1
          BY <1>7, <2>3, <3>1, <4>2 DEF FbMapped, Keeps
        <4> QED
          BY <2>2, <4>1, <4>2
      <3>5. NoOther(job.i)'
        <4> SUFFICES ASSUME NEW x \in DOMAIN leaf', x[1] = "tab_4"
                     PROVE  \/ x[2] < FbVa
                            \/ \E i \in 0 .. (job.i + 1) - 1 : x[2] = FbVa + i * SMALL
          BY <1>2 DEF NoOther
        <4>1. CASE x \in DOMAIN leaf
          <5>1. x[2] < FbVa \/ \E i \in 0 .. job.i - 1 : x[2] = FbVa + i * SMALL
            BY <3>1, <4>1 DEF NoOther
          <5>2. \A i \in 0 .. job.i - 1 : i \in 0 .. (job.i + 1) - 1
            BY <1>1
          <5> QED
            BY <5>1, <5>2
        <4>2. CASE x = <<"tab_4", va>>
          <5>1. x[2] = FbVa + job.i * SMALL
            BY <3>3, <4>2
          <5>2. job.i \in 0 .. (job.i + 1) - 1
            BY <1>1
          <5> QED
            BY <5>1, <5>2
        <4> QED
          BY <1>6, <4>1, <4>2
      <3> QED
        BY <1>2, <2>6, <3>2, <3>4, <3>5 DEF Stage2
    <2>7. CASE job.next \in {"devices", "done"}
      BY <1>2, <2>7 DEF Stage2
    <2> QED
      BY <1>1, <2>5, <2>6, <2>7
  <1> QED
    BY <1>7, <1>8, <1>9, <1>10, <1>11 DEF MemInv

LEMMA MapImplMem == ASSUME MemInv, map_impl PROVE MemInv'
  <1>1. /\ pc = "map" /\ job.i < job.n_pg
        /\ machine' = machine /\ stage' = stage /\ secs' = secs /\ n' = n
        /\ list_next' = list_next /\ cr3' = cr3 /\ fb_addr' = fb_addr
        /\ pa_len' = pa_len /\ frame_map' = frame_map
    BY DEF map_impl, frame_vars
  <1>2. job.idx \in Nat /\ Len(job.list) \in Nat
    BY JobFacts
  <1>3. CASE job.idx > Len(job.list)
    <2>1. pc' = "panic" /\ frames' = frames /\ tables' = tables /\ leaf' = leaf /\ job' = job
      BY <1>3 DEF map_impl, Panic
    <2> QED
      BY <1>1, <1>3, <2>1, MapPanicMem
  <1>4. CASE ~(job.idx > Len(job.list)) /\ job.page >= job.list[job.idx].n_pg
    <2>1. /\ pc' = "map" /\ frames' = frames /\ tables' = tables /\ leaf' = leaf
          /\ job' = next_range /\ job.idx <= Len(job.list)
      BY <1>1, <1>2, <1>4 DEF map_impl
    <2> QED
      BY <1>1, <1>4, <2>1, NextRangeMem
  <1>5. CASE /\ ~(job.idx > Len(job.list)) /\ ~(job.page >= job.list[job.idx].n_pg)
             /\ \/ frames_missing(job.root, job.va + job.i * SMALL, 1)
                \/ page_taken(job.root, job.va + job.i * SMALL)
    <2>1. pc' = "panic" /\ frames' = frames /\ tables' = tables /\ leaf' = leaf /\ job' = job
      BY <1>5 DEF map_impl, Panic
    <2> QED
      BY <1>1, <1>5, <2>1, MapPanicMem
  <1>6. CASE /\ ~(job.idx > Len(job.list)) /\ ~(job.page >= job.list[job.idx].n_pg)
             /\ ~frames_missing(job.root, job.va + job.i * SMALL, 1)
             /\ ~page_taken(job.root, job.va + job.i * SMALL)
    <2>1. job' = NextPage
      BY <1>6 DEF map_impl, NextPage
    <2>2. /\ install(job.root, job.va + job.i * SMALL,
                     job.list[job.idx].pa + job.page * SMALL, 1)
          /\ pc' = pc
      BY <1>6 DEF map_impl
    <2>3. job.idx <= Len(job.list)
      BY <1>2, <1>6
    <2> QED
      BY <1>1, <1>6, <2>1, <2>2, <2>3, MapPageMem
  <1> QED
    BY <1>3, <1>4, <1>5, <1>6

(* A client's mapping begins.                                              *)
LEMMA MemPageMapMem == ASSUME MemInv, NEW c \in MapCalls, mem_page_map(c) PROVE MemInv'
  <1>1. /\ pc \in {"devices", "done"} /\ machine' = machine /\ stage' = stage /\ secs' = secs
        /\ frames' = frames /\ leaf' = leaf /\ cr3' = cr3 /\ fb_addr' = fb_addr
        /\ pa_len' = pa_len /\ frame_map' = frame_map
    BY DEF mem_page_map, frame_vars
  <1>2. At = pc /\ list_next \in 0 .. LIST_CAP /\ LIST_CAP \in Nat
    BY <1>1, ConstantFacts DEF At, MemInv, Types, TypeOK
  <1>3. c.va \in Nat /\ c.n_pg \in Nat /\ c.list \in Seq(PaRange) /\ Len(c.list) \in Nat
    <2>1. c.va \in Nat /\ c.n_pg \in Nat /\ c.list \in Seq(PaRange)
      BY CallsAssumption DEF PaRange
    <2> QED
      BY <2>1
  <1>4. list_next' \in 0 .. LIST_CAP
    <2>1. \/ list_next' = list_next
          \/ /\ list_next' = list_next + list_words(Len(c.list))
             /\ ~(list_next + list_words(Len(c.list)) > LIST_CAP)
      BY DEF mem_page_map
    <2>2. list_words(Len(c.list)) \in Nat
      BY <1>3 DEF list_words
    <2> QED
      BY <1>2, <2>1, <2>2
  <1>5. CASE pc' = "panic"
    <2>1. n' = n /\ job' = job
      BY <1>5 DEF mem_page_map, Panic, Begin, Go
    <2> QED
      BY <1>1, <1>2, <1>4, <1>5, <2>1, SameLeaf, PanicMem
  <1>6. CASE pc' # "panic"
    <2>1. Begin("tab_4", c.va, c.n_pg, c.list, pc)
      BY <1>6 DEF mem_page_map, Panic
    <2>2. /\ job' \in Job /\ pc' = "map" /\ n' = 0 /\ At' = pc
          /\ job'.root = "tab_4" /\ job'.next = pc /\ Position'
      BY <1>1, <1>3, <2>1, BeginFacts
    <2>3. Types'
      BY <1>1, <1>4, <2>2 DEF MemInv, Types, TypeOK
    <2>4. Loaded'
      <3>1. ~Starved
        BY <1>1 DEF Starved
      <3> QED
        BY <1>1, <1>2, <2>2, <3>1 DEF MemInv, Loaded
    <2>5. Roots'
      <3>1. \A p : Identity(p) => Identity(p)'
        BY <1>1, SameLeaf, IdentityKept
      <3>2. KernelMapped(ker_n_page) => KernelMapped(ker_n_page)'
        BY <1>1 DEF KernelMapped, ker_n_page
      <3>3. FbMapped(fb_n_page) => FbMapped(fb_n_page)'
        BY <1>1 DEF FbMapped, fb_n_page
      <3> QED
        BY <1>1, <1>2, <2>2, <3>1, <3>2, <3>3 DEF MemInv, Roots
    <2>6. Stage2'
      BY <1>1, <2>2 DEF Stage2
    <2>7. FrameMap'
      BY <1>1, <1>2, <2>2 DEF MemInv, FrameMap
    <2> QED
      BY <2>2, <2>3, <2>4, <2>5, <2>6, <2>7 DEF MemInv
  <1> QED
    BY <1>5, <1>6

LEMMA StutterMem == ASSUME MemInv, UNCHANGED vars PROVE MemInv'
  <1>1. /\ machine' = machine /\ stage' = stage /\ secs' = secs /\ n' = n /\ frames' = frames
        /\ list_next' = list_next /\ tables' = tables /\ leaf' = leaf /\ cr3' = cr3
        /\ fb_addr' = fb_addr /\ pa_len' = pa_len /\ frame_map' = frame_map /\ job' = job
        /\ pc' = pc
    BY DEF vars
  <1>2. Types' /\ At' = At
    BY <1>1 DEF MemInv, Types, TypeOK, At
  <1>3. Loaded'
    <2>1. Starved' <=> Starved
      BY <1>1 DEF Starved, frames_missing, missing
    <2> QED
      BY <1>1, <1>2, <2>1 DEF MemInv, Loaded
  <1>4. Roots'
    <2>1. \A p : Identity(p) => Identity(p)'
      BY <1>1, SameLeaf, IdentityKept
    <2>2. KernelMapped(ker_n_page) => KernelMapped(ker_n_page)'
      BY <1>1 DEF KernelMapped, ker_n_page
    <2>3. FbMapped(fb_n_page) => FbMapped(fb_n_page)'
      BY <1>1 DEF FbMapped, fb_n_page
    <2> QED
      BY <1>1, <1>2, <2>1, <2>2, <2>3 DEF MemInv, Roots
  <1>5. Stage2'
    BY <1>1 DEF MemInv, Stage2, OneRange, KernelMapped, FbMapped, NoOther, ker_n_page, fb_n_page
  <1>6. Position'
    BY <1>1 DEF MemInv, Position
  <1>7. FrameMap'
    <2>1. MapFits => MapFits'
      BY <1>1 DEF MapFits, MapCells, FbCells, CfgCells, Large, Apart
    <2> QED
      BY <1>1, <1>2, <2>1 DEF MemInv, FrameMap, Large, Apart, FbCells, CfgCells
  <1> QED
    BY <1>2, <1>3, <1>4, <1>5, <1>6, <1>7 DEF MemInv

LEMMA NextMem == MemInv /\ [Next]_vars => MemInv'
  <1> SUFFICES ASSUME MemInv, [Next]_vars PROVE MemInv'
    OBVIOUS
  <1>1. CASE Boot
    BY <1>1, MmapMem, KernelElfMem, MapBootstrapMem, LoadBootstrapMem, DevicesMem, SumMem,
       PlaceMem, MapKernelMem, FrameBufferMem, LoadMem, MapImplMem, MapEndMem DEF Boot
  <1>2. CASE \E c \in MapCalls : mem_page_map(c)
    BY <1>2, MemPageMapMem
  <1>3. CASE halt \/ UNCHANGED vars
    BY <1>3, StutterMem DEF halt
  <1> QED
    BY <1>1, <1>2, <1>3 DEF Next
-----------------------------------------------------------------------------
(* The types, the contents of the two hierarchies, the place of _map_impl  *)
(* in its list and the devices' distance from usable memory hold           *)
(* throughout bootstrap and every mapping after it.                        *)
THEOREM MemInvariant == Spec => []MemInv
  BY InitMem, NextMem, PTL DEF Spec

(* The counters of the frame pool, the list pool and the section table     *)
(* never pass their limits, and the sections are apart and in order.       *)
THEOREM MemTypes == Spec => []TypeOK
  <1>1. MemInv => TypeOK
    BY DEF MemInv, Types
  <1> QED
    BY <1>1, MemInvariant, PTL

(* What the identity mapping reaches.                                      *)
LEMMA IdentityReach ==
    ASSUME MemInv, cr3 = "bootstrap", NEW a \in Nat, a + BIG < PA_MAX
    PROVE  Translates(a, a)
  <1> DEFINE p == (a \div BIG) * BIG
             q == a \div BIG
  <1>1. BIG \in Nat \ {0} /\ BIG > 0 /\ PA_MAX \in Nat
    BY ConstantFacts
  <1>2. q \in Nat /\ a % BIG \in 0 .. BIG - 1 /\ a = BIG * q + (a % BIG)
    BY <1>1, DivMod
  <1> HIDE DEF q
  <1>3. q * BIG \in Nat /\ (q * BIG) % BIG = 0 /\ q * BIG = BIG * q
    BY <1>1, <1>2, ProductIsAligned
  <1>4. p \in Nat /\ p % BIG = 0 /\ p <= a /\ p + BIG < PA_MAX /\ p \in 0 .. PA_MAX
    <2>1. p = q * BIG
      BY DEF q
    <2> HIDE DEF p
    <2> QED
      BY <1>1, <1>2, <1>3, <2>1
  <1>5. Identity(p)
    BY <1>4 DEF MemInv, Roots
  <1>6. PageSize(cr3) = BIG
    BY DEF PageSize
  <1>7. <<cr3, p>> \in DOMAIN leaf /\ leaf[<<cr3, p>>] = p
    BY <1>5 DEF Identity
  <1>8. p + (a - p) = a
    BY <1>4
  <1> HIDE DEF p
  <1>9. leaf[<<cr3, p>>] + (a - p) = a
    BY <1>7, <1>8
  <1> QED
    BY <1>6, <1>7, <1>9 DEF Translates, p

LEMMA KernelReached == ASSUME MemInv PROVE KernelReachable
  <1> SUFFICES ASSUME NEW a \in machine.kernel.start .. machine.kernel.alloc_end - 1
               PROVE  Translates(a, a)
    BY DEF KernelReachable
  <1>1. machine \in Machines /\ cr3 \in {"boot.asm", "bootstrap", "tab_4"}
    BY DEF MemInv, Types, TypeOK
  <1>2. /\ machine.kernel.start \in Nat /\ machine.kernel.alloc_end \in Nat
        /\ machine.kernel.end \in Nat /\ machine.kernel.alloc_end <= machine.kernel.end
        /\ machine.kernel.end + BIG <= PA_MAX /\ BIG \in Nat /\ PA_MAX \in Nat
        /\ SMALL \in Nat \ {0}
    BY <1>1, MachineFacts, ConstantFacts
  <1>3. a \in Nat /\ a < machine.kernel.alloc_end /\ a + BIG < PA_MAX
    BY <1>2
  <1>4. CASE cr3 = "boot.asm"
    BY <1>4 DEF Translates
  <1>5. CASE cr3 = "bootstrap"
    BY <1>3, <1>5, IdentityReach
  <1>6. CASE cr3 = "tab_4"
    <2> DEFINE i == a \div SMALL
    <2>1. /\ ker_n_page \in Nat /\ ker_n_page * SMALL \in Nat
          /\ machine.kernel.alloc_end <= ker_n_page * SMALL
      BY <1>1, KernelPages
    <2>2. a < ker_n_page * SMALL
      BY <1>2, <1>3, <2>1
    <2>3. i \in 0 .. ker_n_page - 1
      BY <1>2, <1>3, <2>1, <2>2, PageBelow
    <2>4. KernelMapped(ker_n_page)
      BY <1>6 DEF MemInv, Roots
    <2> HIDE DEF i
    <2>5. <<cr3, i * SMALL>> \in DOMAIN leaf /\ leaf[<<cr3, i * SMALL>>] = i * SMALL
      BY <1>6, <2>3, <2>4 DEF KernelMapped
    <2>6. i * SMALL \in Nat
      BY <1>2, <2>1, <2>3
    <2>7. PageSize(cr3) = SMALL
      BY <1>6 DEF PageSize
    <2>8. leaf[<<cr3, i * SMALL>>] + (a - i * SMALL) = a
      BY <1>3, <2>5, <2>6
    <2> QED
      BY <2>5, <2>7, <2>8 DEF Translates, i
  <1> QED
    BY <1>1, <1>4, <1>5, <1>6

(* Where the driver's address is believed.                                 *)
LEMMA ConsoleReached == ASSUME MemInv PROVE ConsoleReachable
  <1> SUFFICES ASSUME ~Starved, fb_addr # 0, pc \in {"devices", "sum", "map_2", "done", "panic"},
                      NEW j \in 0 .. machine.fb_len - 1
               PROVE  Translates(fb_addr + j, machine.fb + j)
    BY DEF ConsoleReachable
  <1>1. machine \in Machines /\ cr3 \in {"boot.asm", "bootstrap", "tab_4"}
    BY DEF MemInv, Types, TypeOK
  <1>2. /\ machine.fb \in Nat /\ machine.fb_len \in Nat /\ BIG \in Nat /\ PA_MAX \in Nat
        /\ machine.fb + machine.fb_len + BIG <= PA_MAX
        /\ SMALL \in Nat \ {0} /\ FbVa \in Nat /\ FbVa % SMALL = 0
    BY <1>1, MachineFacts, ConstantFacts
  <1>3. j \in Nat /\ j < machine.fb_len
    BY <1>2
  <1>4. At # "load"
    BY DEF At
  <1>5. CASE cr3 = "boot.asm"
    BY <1>5 DEF Translates
  <1>6. CASE cr3 = "bootstrap"
    <2>1. fb_addr = machine.fb
      BY <1>4, <1>6 DEF MemInv, Loaded
    <2>2. machine.fb + j \in Nat /\ machine.fb + j + BIG < PA_MAX
      BY <1>2, <1>3
    <2> QED
      BY <1>6, <2>1, <2>2, IdentityReach
  <1>7. CASE cr3 = "tab_4"
    <2> DEFINE i == j \div SMALL
               page == FbVa + i * SMALL
    <2>1. fb_addr = FbVa /\ machine.fb_len % SMALL = 0 /\ FbMapped(fb_n_page)
      BY <1>7 DEF MemInv, Loaded, Roots
    <2>2. fb_n_page \in Nat /\ machine.fb_len = fb_n_page * SMALL
      BY <1>1, <2>1, FbPages
    <2>3. i \in 0 .. fb_n_page - 1
      BY <1>2, <1>3, <2>2, PageBelow
    <2>4. ((FbVa + j) \div SMALL) * SMALL = FbVa + (j \div SMALL) * SMALL
      BY <1>2, <1>3, PageOf
    <2> HIDE DEF i
    <2>5. /\ <<cr3, FbVa + i * SMALL>> \in DOMAIN leaf
          /\ leaf[<<cr3, FbVa + i * SMALL>>] = machine.fb + i * SMALL
      BY <1>7, <2>1, <2>3 DEF FbMapped
    <2>6. i * SMALL \in Nat
      BY <1>2, <2>2, <2>3
    <2>7. PageSize(cr3) = SMALL
      BY <1>7 DEF PageSize
    <2>8. (machine.fb + i * SMALL) + ((FbVa + j) - (FbVa + i * SMALL)) = machine.fb + j
      BY <1>2, <1>3, <2>6
    <2>9. ((FbVa + j) \div SMALL) * SMALL = page
      BY <2>4 DEF i
    <2>10. <<cr3, page>> \in DOMAIN leaf /\ leaf[<<cr3, page>>] + ((FbVa + j) - page) = machine.fb + j
      BY <2>5, <2>8
    <2> HIDE DEF page
    <2> QED
      BY <2>1, <2>7, <2>9, <2>10 DEF Translates
  <1> QED
    BY <1>1, <1>5, <1>6, <1>7

LEMMA FrameMapPlaced == ASSUME MemInv PROVE FrameMapFits
  <1>1. pc \in {"map_2", "frame_buffer", "load"} => MapFits
    BY DEF MemInv, FrameMap, At
  <1> QED
    BY <1>1 DEF FrameMapFits, MapFits, Large, Apart

(* Every root mem_page.c loads maps the kernel image onto itself: the      *)
(* loads of cr3 in both bootstrap stages return.                           *)
THEOREM KernelAlwaysReachable == Spec => []KernelReachable
  <1>1. MemInv => KernelReachable
    BY KernelReached
  <1> QED
    BY <1>1, MemInvariant, PTL

(* The console is where d_vesa believes it to be, also in a failed         *)
(* assertion, unless the frame pool of mem_page.c ran out between          *)
(* d_vesa_set_frame_buffer and the end of the frame buffer's mapping:      *)
(* every other assertion that can fail there comes before the new address. *)
THEOREM ConsoleAlwaysReachable == Spec => []ConsoleReachable
  <1>1. MemInv => ConsoleReachable
    BY ConsoleReached
  <1> QED
    BY <1>1, MemInvariant, PTL

(* mem_frame_bootstrap_2 places its map inside usable memory, large        *)
(* enough, and no usable memory is shared with a device.                   *)
THEOREM FrameMapAlwaysFits == Spec => []FrameMapFits
  <1>1. MemInv => FrameMapFits
    BY FrameMapPlaced
  <1> QED
    BY <1>1, MemInvariant, PTL
-----------------------------------------------------------------------------
(* What LoadedRootOnlyGrows says of a step.                                *)
Faithful ==
    pc = "map" => \A i \in job.i .. job'.i - 1 :
        leaf'[<<job.root, job.va + i * SMALL>>] = Flat(job.list)[i + 1]

LEMMA NothingMapped ==
    ASSUME MemInv, pc # "map" \/ job' = job
    PROVE  Faithful
  <1>1. job.i .. job.i - 1 = {}
    BY JobFacts
  <1> QED
    BY <1>1 DEF Faithful

LEMMA MapImplFaithful == ASSUME MemInv, map_impl PROVE Keeps(cr3) /\ Faithful
  <1>1. /\ pc = "map" /\ job.i < job.n_pg
        /\ machine' = machine /\ stage' = stage /\ secs' = secs /\ n' = n
        /\ list_next' = list_next /\ cr3' = cr3 /\ fb_addr' = fb_addr
        /\ pa_len' = pa_len /\ frame_map' = frame_map
    BY DEF map_impl, frame_vars
  <1>2. /\ job \in Job /\ job.idx \in Nat /\ job.idx > 0 /\ Len(job.list) \in Nat
        /\ job.page \in Nat /\ job.i \in Nat /\ job.list \in Seq(PaRange)
    BY JobFacts
  <1>3. cr3 \in {"boot.asm", "bootstrap", "tab_4"}
        /\ \A x \in DOMAIN leaf : x[1] # "boot.asm"
    BY DEF MemInv, Types, TypeOK
  <1>4. CASE leaf' = leaf /\ (job' = job \/ job' = next_range)
    <2>1. job'.i = job.i
      BY <1>2, <1>4, NextRangeJob
    <2>2. job.i .. job.i - 1 = {}
      BY <1>2
    <2> QED
      BY <1>4, <2>1, <2>2, SameLeaf DEF Faithful
  <1>5. CASE ~(leaf' = leaf /\ (job' = job \/ job' = next_range))
    <2> DEFINE va == job.va + job.i * SMALL
               pa == job.list[job.idx].pa + job.page * SMALL
    <2>1. /\ ~(job.idx > Len(job.list)) /\ ~(job.page >= job.list[job.idx].n_pg)
          /\ ~frames_missing(job.root, va, 1) /\ ~page_taken(job.root, va)
      BY <1>5 DEF map_impl
    <2>2. job' = NextPage
      BY <2>1 DEF map_impl, NextPage
    <2>3. install(job.root, va, pa, 1) /\ pc' = pc
      BY <2>1 DEF map_impl
    <2>4. job.idx <= Len(job.list)
      BY <1>2, <2>1
    <2>5. Keeps("bootstrap") /\ Keeps("tab_4")
      BY <1>1, <2>1, <2>2, <2>3, <2>4, MapPageMem
    <2>6. Keeps(cr3)
      <3>1. Keeps("boot.asm")
        BY <1>3 DEF Keeps
      <3> QED
        BY <1>3, <2>5, <3>1
    <2>7. leaf'[<<job.root, va>>] = pa
      BY <2>3 DEF install
    <2>8. job'.i = job.i + 1
      BY <1>2, <2>2, NextPageJob
    <2>9. \A i \in job.i .. (job.i + 1) - 1 : i = job.i
      BY <1>2
    <2>10. pa = Flat(job.list)[job.i + 1]
      <3> DEFINE k == job.idx
                 j == job.page + 1
      <3>1. k \in 1 .. Len(job.list)
        BY <1>2, <2>4
      <3>2. job.list[k].n_pg \in Nat
        BY <1>2, <3>1, RangeFacts
      <3>3. j \in 1 .. job.list[k].n_pg /\ j - 1 = job.page
        BY <1>2, <2>1, <3>2
      <3>4. Flat(job.list)[Len(FlatUpTo(job.list)[k - 1]) + j]
              = job.list[k].pa + (j - 1) * SMALL
        <4> HIDE DEF j, k
        <4> QED
          BY <1>2, <3>1, <3>3, FlatAt
      <3>5. job.i + 1 = Len(FlatUpTo(job.list)[k - 1]) + j
        <4>1. job.i = Len(FlatUpTo(job.list)[k - 1]) + job.page
          BY <1>1 DEF MemInv, Position
        <4>2. k - 1 \in 0 .. Len(job.list)
          BY <3>1, <1>2
        <4>3. FlatUpTo(job.list) \in [0 .. Len(job.list) -> Seq(Nat)]
          BY <1>2, FlatStep, Zenon
        <4>4. FlatUpTo(job.list)[k - 1] \in Seq(Nat)
          BY <4>2, <4>3
        <4>5. Len(FlatUpTo(job.list)[k - 1]) \in Nat
          BY <4>4
        <4> QED
          BY <1>2, <4>1, <4>5
      <3> QED
        BY <3>3, <3>4, <3>5
    <2> HIDE DEF pa
    <2>11. Faithful
      BY <2>7, <2>8, <2>9, <2>10 DEF Faithful
    <2> QED
      BY <2>6, <2>11
  <1> QED
    BY <1>4, <1>5

LEMMA StepGrows == ASSUME MemInv, Next PROVE Keeps(cr3) /\ Faithful
  <1>1. CASE map_impl
    BY <1>1, MapImplFaithful
  <1>2. CASE map_bootstrap
    <2>1. pc = "map_1" /\ cr3 = "boot.asm"
      BY <1>2 DEF map_bootstrap, MemInv, Loaded, At
    <2>2. \A x \in DOMAIN leaf : x[1] # "boot.asm"
      BY DEF MemInv, Types
    <2> QED
      BY <2>1, <2>2, NothingMapped DEF Keeps
  <1>3. CASE map_kernel
    <2>1. pc = "map_2" /\ cr3 = "bootstrap"
      BY <1>3 DEF map_kernel, MemInv, Loaded, At
    <2>2. leaf' = [x \in {y \in DOMAIN leaf : y[1] # "tab_4"} |-> leaf[x]]
      BY <1>3 DEF map_kernel
    <2> QED
      BY <2>1, <2>2, NothingMapped DEF Keeps
  <1>4. CASE map_end
    BY <1>4, SameLeaf, NothingMapped DEF map_end, paging
  <1>5. CASE mmap_entry \/ kernel_elf \/ load_bootstrap \/ devices \/ sum_section
    BY <1>5, SameLeaf, NothingMapped
       DEF mmap_entry, kernel_elf, load_bootstrap, devices, sum_section, paging
  <1>6. CASE place_frame_map \/ frame_buffer \/ load_tab_4
    BY <1>6, SameLeaf, NothingMapped DEF place_frame_map, frame_buffer, load_tab_4, paging
  <1>7. CASE \E c \in MapCalls : mem_page_map(c)
    BY <1>7, SameLeaf, NothingMapped DEF mem_page_map
  <1>8. CASE halt
    BY <1>8, SameLeaf, NothingMapped DEF halt, vars
  <1> QED
    BY <1>1, <1>2, <1>3, <1>4, <1>5, <1>6, <1>7, <1>8 DEF Next, Boot

(* No step changes or loses a translation of the loaded root, so no stale  *)
(* TLB entry can exist, and _map_impl leads the i-th page of the virtual   *)
(* range to the i-th page of its list, however the ranges are cut.         *)
THEOREM LoadedRootAlwaysGrows == Spec => LoadedRootOnlyGrows
  <1>1. MemInv /\ Next => Keeps(cr3) /\ Faithful
    BY StepGrows
  <1>2. MemInv /\ [Next]_vars =>
          [/\ \A x \in DOMAIN leaf : x[1] = cr3 => x \in DOMAIN leaf' /\ leaf'[x] = leaf[x]
           /\ pc = "map" => \A i \in job.i .. job'.i - 1 :
                 leaf'[<<job.root, job.va + i * SMALL>>] = Flat(job.list)[i + 1]]_vars
    BY <1>1 DEF Keeps, Faithful
  <1> QED
    BY <1>2, MemInvariant, PTL DEF Spec, LoadedRootOnlyGrows
=============================================================================

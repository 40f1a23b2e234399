---------------------------- MODULE MmBootProofs ----------------------------
(***************************************************************************)
(* The mm/ bootstrap for every machine, every page and table size, every   *)
(* limit and every value of the unassigned result of _map_early.           *)
(***************************************************************************)
EXTENDS MmBoot, SequenceTheorems, TLAPS

(* A product grows by a factor for each step of the other.                 *)
LEMMA MulStep ==
    ASSUME NEW w \in Nat, NEW i \in Nat, NEW j \in Nat, i < j
    PROVE  w * i + w <= w * j /\ w * i \in Nat /\ w * j \in Nat
  <1>1. PICK d \in Nat : j = i + 1 + d
    <2>1. j - i - 1 \in Nat /\ j = i + 1 + (j - i - 1)
      OBVIOUS
    <2> QED
      BY <2>1
  <1>2. w * j = w * i + w + w * d
    BY <1>1
  <1>3. w * d \in Nat /\ w * i \in Nat /\ w * j \in Nat
    OBVIOUS
  <1> QED
    BY <1>2, <1>3

(* Quotient and remainder.                                                 *)
LEMMA DivMod ==
    ASSUME NEW a \in Nat, NEW w \in Nat, w > 0
    PROVE  a \div w \in Nat /\ a % w \in 0 .. w - 1 /\ a = w * (a \div w) + (a % w)
  OBVIOUS

(* There is only one quotient and one remainder.                           *)
LEMMA DivUnique ==
    ASSUME NEW w \in Nat, w > 0, NEW q \in Nat, NEW r \in 0 .. w - 1
    PROVE  (q * w + r) \div w = q /\ (q * w + r) % w = r
  <1> DEFINE a == q * w + r
  <1>1. a \in Nat /\ q * w = w * q
    OBVIOUS
  <1>2. a \div w \in Nat /\ a % w \in 0 .. w - 1 /\ a = w * (a \div w) + (a % w)
    BY <1>1, DivMod
  <1> DEFINE p == a \div w
             s == a % w
  <1>3. p \in Nat /\ s \in 0 .. w - 1 /\ w * q + r = w * p + s
    BY <1>1, <1>2
  <1> HIDE DEF p, s
  <1>4. ~(p < q)
    <2>1. p < q => w * p + w <= w * q /\ w * p \in Nat /\ w * q \in Nat
      BY <1>3, MulStep
    <2> QED
      BY <1>3, <2>1
  <1>5. ~(q < p)
    <2>1. q < p => w * q + w <= w * p /\ w * p \in Nat /\ w * q \in Nat
      BY <1>3, MulStep
    <2> QED
      BY <1>3, <2>1
  <1>6. p = q
    BY <1>3, <1>4, <1>5
  <1>7. s = r
    BY <1>3, <1>6
  <1> QED
    BY <1>6, <1>7 DEF p, s

(* An aligned address is a product.                                        *)
LEMMA AlignedIsProduct ==
    ASSUME NEW w \in Nat \ {0}, NEW a \in Nat, a % w = 0
    PROVE  a \div w \in Nat /\ a = (a \div w) * w
  <1>1. a \div w \in Nat /\ a % w \in 0 .. w - 1 /\ a = w * (a \div w) + (a % w)
    BY DivMod
  <1> QED
    BY <1>1

(* A product is an aligned address.                                        *)
LEMMA ProductIsAligned ==
    ASSUME NEW w \in Nat \ {0}, NEW q \in Nat
    PROVE  q * w \in Nat /\ (q * w) % w = 0 /\ (q * w) \div w = q
  <1>1. 0 \in 0 .. w - 1
    OBVIOUS
  <1>2. (q * w + 0) \div w = q /\ (q * w + 0) % w = 0
    BY <1>1, DivUnique
  <1>3. q * w \in Nat /\ q * w + 0 = q * w
    OBVIOUS
  <1> QED
    BY <1>2, <1>3

(* Aligned addresses are at least one unit apart.                          *)
LEMMA AlignedApart ==
    ASSUME NEW w \in Nat \ {0}, NEW a \in Nat, NEW b \in Nat,
           a % w = 0, b % w = 0, a < b
    PROVE  a + w <= b
  <1> DEFINE p == a \div w
             q == b \div w
  <1>1. p \in Nat /\ q \in Nat /\ a = p * w /\ b = q * w
    BY AlignedIsProduct
  <1> HIDE DEF p, q
  <1>2. ~(q < p)
    <2>1. q < p => w * q + w <= w * p /\ w * q \in Nat /\ w * p \in Nat
      BY <1>1, MulStep
    <2> QED
      BY <1>1, <2>1
  <1>3. p < q
    BY <1>1, <1>2
  <1>4. w * p + w <= w * q
    BY <1>1, <1>3, MulStep
  <1> QED
    BY <1>1, <1>4

(* The next aligned address.                                               *)
LEMMA AlignedNext ==
    ASSUME NEW w \in Nat \ {0}, NEW a \in Nat, a % w = 0
    PROVE  a + w \in Nat /\ (a + w) % w = 0
  <1>1. a \div w \in Nat /\ a = (a \div w) * w
    BY AlignedIsProduct
  <1> DEFINE p == a \div w
  <1> HIDE DEF p
  <1>2. a + w = (p + 1) * w
    BY <1>1 DEF p
  <1>3. p + 1 \in Nat
    BY <1>1 DEF p
  <1>4. ((p + 1) * w) % w = 0
    BY <1>3, ProductIsAligned
  <1> QED
    BY <1>2, <1>4

(* Alignment to a multiple is alignment.                                   *)
LEMMA AlignedFiner ==
    ASSUME NEW w \in Nat \ {0}, NEW v \in Nat \ {0}, v % w = 0,
           NEW a \in Nat, a % v = 0
    PROVE  a % w = 0
  <1> DEFINE p == a \div v
             q == v \div w
  <1>1. p \in Nat /\ q \in Nat /\ a = p * v /\ v = q * w
    BY AlignedIsProduct
  <1> HIDE DEF p, q
  <1>2. a = (p * q) * w /\ p * q \in Nat
    BY <1>1
  <1>3. ((p * q) * w) % w = 0
    BY <1>2, ProductIsAligned
  <1> QED
    BY <1>2, <1>3

(* Rounding up to a multiple.                                              *)
LEMMA RoundUp ==
    ASSUME NEW w \in Nat \ {0}, NEW a \in Nat
    PROVE  LET up == ((a + w - 1) \div w) * w
           IN  /\ up \in Nat /\ up >= a /\ up % w = 0
               /\ up \div w \in Nat /\ up = (up \div w) * w
  <1> DEFINE b == a + w - 1
             q == b \div w
  <1>1. b \in Nat
    OBVIOUS
  <1>2. q \in Nat /\ b % w \in 0 .. w - 1 /\ b = w * q + (b % w)
    BY <1>1, DivMod
  <1>3. ((a + w - 1) \div w) * w = q * w
    OBVIOUS
  <1>4. q * w \in Nat /\ (q * w) % w = 0 /\ (q * w) \div w = q
    BY <1>2, ProductIsAligned
  <1> HIDE DEF q
  <1>5. q * w >= a
    BY <1>2, <1>4
  <1> QED
    BY <1>2, <1>3, <1>4, <1>5

(* The page of the d-th byte behind an aligned address.                    *)
LEMMA PageOf ==
    ASSUME NEW w \in Nat \ {0}, NEW a \in Nat, a % w = 0, NEW d \in Nat
    PROVE  /\ d \div w \in Nat
           /\ ((a + d) \div w) * w = a + (d \div w) * w
  <1> DEFINE p == a \div w
             q == d \div w
             r == d % w
  <1>1. p \in Nat /\ a = p * w
    BY AlignedIsProduct
  <1>2. q \in Nat /\ r \in 0 .. w - 1 /\ d = w * q + r
    BY DivMod
  <1> HIDE DEF p, q, r
  <1>3. a + d = (p + q) * w + r /\ p + q \in Nat
    BY <1>1, <1>2
  <1>4. ((p + q) * w + r) \div w = p + q
    BY <1>2, <1>3, DivUnique
  <1>5. ((a + d) \div w) * w = p * w + q * w
    BY <1>1, <1>2, <1>3, <1>4
  <1> QED
    BY <1>1, <1>2, <1>5 DEF q

(* A byte in front of the first n pages lies in one of them.               *)
LEMMA PageBelow ==
    ASSUME NEW w \in Nat \ {0}, NEW n0 \in Nat, NEW d \in Nat, d < n0 * w
    PROVE  d \div w \in 0 .. n0 - 1
  <1> DEFINE q == d \div w
  <1>1. q \in Nat /\ d % w \in 0 .. w - 1 /\ d = w * q + (d % w)
    BY DivMod
  <1> HIDE DEF q
  <1>2. ~(n0 < q)
    <2>1. n0 < q => w * n0 + w <= w * q /\ w * n0 \in Nat /\ w * q \in Nat
      BY <1>1, MulStep
    <2> QED
      BY <1>1, <2>1
  <1>3. n0 # q
    BY <1>1
  <1> QED
    BY <1>1, <1>2, <1>3 DEF q
-----------------------------------------------------------------------------
(* The inductive invariant, in parts.  The phases behind the early         *)
(* mapping, behind the switch to it, and behind the unmapping:             *)
Switched == {"direct", "unmap", "fb", "pcie", "stack", "done"}
HighPhase == {"fb", "pcie", "stack", "done"}

(* Types, and the memory map is what firmware reported.                    *)
Reported ==
    /\ machine \in Machines
    /\ n \in Nat /\ early_end \in Nat /\ free_count \in Nat
    /\ secs \in Seq([base : Nat, len : Nat])
    /\ \A i \in DOMAIN secs : \E j \in DOMAIN machine.mmap :
          /\ machine.mmap[j].type = 1
          /\ secs[i].base = machine.mmap[j].base /\ secs[i].len = machine.mmap[j].len

(* The early mapping has no holes; the loop that unmaps it keeps to big    *)
(* pages behind the kernel.                                                *)
Identity ==
    /\ pc = "mmap" => n > 0
    /\ pc \in {"mmap", "early", "root"} => freed = {}
    /\ pc = "early" => /\ n % BIG = 0
                       /\ \A p \in 0 .. n : p % BIG = 0 /\ p < n => p \in mapped
    /\ pc = "root" => \A p \in 0 .. early_end :
                          p % BIG = 0 /\ p < early_end => p \in mapped
    /\ pc = "unmap" => n % BIG = 0 /\ n > machine.kernel.end
    /\ pc \in {"unmap"} \cup HighPhase => machine.fb % BIG = 0

(* Nothing is mapped behind VA_48_HIGH_START until the windows are, and    *)
(* then nothing but the stack is mapped in front of the frame buffer.      *)
OnlyWindows ==
    /\ pc \notin HighPhase \cup {"panic"} => DOMAIN high = {}
    /\ \A va \in DOMAIN high : \/ va \in StackVa .. StackVa + StackPages - 1
                               \/ va \in Nat /\ va >= FrameBufferVa

(* The pages of the frame buffer, those of configuration space and those   *)
(* of the stack, each up to the page its loop has reached.                 *)
FbMapped(k) ==
    \A i \in 0 .. k - 1 : /\ FrameBufferVa + i \in DOMAIN high
                          /\ high[FrameBufferVa + i] = machine.fb + i * SMALL
PcieMapped(k) ==
    \A i \in 0 .. k - 1 :
        /\ PcieVa + i \in DOMAIN high
        /\ high[PcieVa + i] = machine.groups[i \div cfg_pages + 1] + (i % cfg_pages) * SMALL
StackMapped(k) == StackVa .. StackVa + k - 1 \subseteq DOMAIN high
FbFits == FrameBufferVa + fb_pages <= PcieVa

Windows ==
    /\ pc = "fb" => FbMapped(n)
    /\ pc \in {"pcie", "stack", "done"} => FbMapped(fb_pages)
    /\ pc = "pcie" => PcieMapped(n) /\ (n > 0 => FbFits)
    /\ pc \in {"stack", "done"} => PcieMapped(Len(machine.groups) * cfg_pages) /\ FbFits
    /\ pc = "stack" => /\ n <= StackPages
                       /\ StackMapped(n) \/ (free_count = 0 /\ StackMapped(n - 1))
    /\ pc = "done" => StackMapped(StackPages - 1)

BootInv ==
    /\ Reported
    /\ Identity
    /\ OnlyWindows
    /\ Windows
    /\ FreedOnlySpare
    /\ KernelStaysMapped
-----------------------------------------------------------------------------
(* mm_align_up.                                                            *)
LEMMA AlignUp ==
    ASSUME NEW w \in Nat \ {0}, NEW a \in Nat
    PROVE  /\ align_up(a, w) \in Nat /\ align_up(a, w) >= a /\ align_up(a, w) % w = 0
           /\ align_up(a, w) \div w \in Nat
           /\ align_up(a, w) = (align_up(a, w) \div w) * w
  BY RoundUp DEF align_up

(* What a machine and the constants give.                                  *)
LEMMA MachineFacts ==
    ASSUME machine \in Machines
    PROVE  /\ machine.mmap \in Seq([base : Nat, len : Nat, type : Nat])
           /\ machine.kernel.start \in Nat /\ machine.kernel.end \in Nat
           /\ machine.fb \in Nat /\ machine.fb_len \in Nat
           /\ machine.groups \in Seq({g \in Nat : g % BIG = 0})
           /\ Len(machine.groups) \in Nat
           /\ \A i \in DOMAIN machine.groups :
                 machine.groups[i] \in Nat /\ machine.groups[i] % BIG = 0
           /\ machine.groups # <<>> \/ FbFits
  <1>1. machine.groups \in Seq({g \in Nat : g % BIG = 0})
    BY MachineAssumption
  <1> DEFINE G == {g \in Nat : g % BIG = 0}
  <1>2. \A i \in DOMAIN machine.groups : machine.groups[i] \in G
    <2> HIDE DEF G
    <2>1. machine.groups \in Seq(G)
      BY <1>1 DEF G
    <2> QED
      BY <2>1
  <1>3. Len(machine.groups) \in Nat
    <2> HIDE DEF G
    <2>1. machine.groups \in Seq(G)
      BY <1>1 DEF G
    <2> QED
      BY <2>1
  <1> QED
    BY <1>1, <1>2, <1>3, MachineAssumption DEF FbFits, fb_pages

LEMMA ConstantFacts ==
    /\ SMALL \in Nat \ {0} /\ BIG \in Nat \ {0} /\ GIG \in Nat \ {0}
    /\ CFG_LEN \in Nat \ {0} /\ BIG % SMALL = 0
    /\ StackPages \in Nat /\ PcieVa \in Nat
    /\ StackVa = 1 /\ FrameBufferVa = StackPages + 2 /\ FrameBufferVa <= PcieVa
    /\ cfg_pages \in Nat /\ cfg_pages > 0 /\ CFG_LEN = cfg_pages * SMALL
  <1>1. CFG_LEN \in Nat \ {0} /\ SMALL \in Nat \ {0} /\ CFG_LEN % SMALL = 0
    BY BootAssumption
  <1>2. cfg_pages \in Nat /\ CFG_LEN = cfg_pages * SMALL
    BY <1>1, AlignedIsProduct DEF cfg_pages
  <1>3. cfg_pages # 0
    BY <1>1, <1>2
  <1> QED
    BY <1>1, <1>2, <1>3, BootAssumption DEF StackVa, FrameBufferVa

LEMMA FbFacts ==
    ASSUME machine \in Machines
    PROVE  fb_pages \in Nat /\ machine.fb_len <= fb_pages * SMALL
  <1>1. machine.fb_len \in Nat /\ SMALL \in Nat \ {0}
    BY MachineFacts, ConstantFacts
  <1> QED
    BY <1>1, AlignUp DEF fb_pages

(* A page the loop of mm_page_bootstrap frees is spare.                    *)
LEMMA FreedIsSpare ==
    ASSUME Reported, n % BIG = 0, n > machine.kernel.end,
           ~inside_pcie_cfg(n), free_frame(n)
    PROVE  Cells(n, BIG) \subseteq Ram \ (Devices \cup KernelCells)
  <1>1. n \in Nat /\ BIG \in Nat \ {0} /\ CFG_LEN \in Nat
    BY ConstantFacts DEF Reported
  <1>2. machine \in Machines
    BY DEF Reported
  <1> SUFFICES ASSUME NEW a \in Cells(n, BIG)
               PROVE  a \in Ram /\ a \notin Devices /\ a \notin KernelCells
    OBVIOUS
  <1>3. a \in Nat /\ n <= a /\ a < n + BIG
    BY <1>1 DEF Cells
  <1>4. a \in Ram
    <2>1. PICK i \in DOMAIN secs : secs[i].base <= n /\ secs[i].base + secs[i].len > n + BIG
      BY DEF free_frame, pa_range_valid
    <2>2. PICK j \in DOMAIN machine.mmap :
             /\ machine.mmap[j].type = 1
             /\ secs[i].base = machine.mmap[j].base /\ secs[i].len = machine.mmap[j].len
      BY DEF Reported
    <2>3. machine.mmap[j].base \in Nat /\ machine.mmap[j].len \in Nat
      <3> DEFINE R == [base : Nat, len : Nat, type : Nat]
      <3>1. machine.mmap \in Seq(R)
        BY <1>2, MachineFacts
      <3> HIDE DEF R
      <3>2. machine.mmap[j] \in R
        BY <3>1
      <3> QED
        BY <3>2 DEF R
    <2>4. a \in Cells(machine.mmap[j].base, machine.mmap[j].len)
      BY <1>1, <1>3, <2>1, <2>2, <2>3 DEF Cells
    <2> QED
      BY <2>2, <2>4 DEF Ram
  <1>5. a \notin Cells(machine.fb, machine.fb_len)
    <2>1. machine.fb \in Nat /\ machine.fb_len \in Nat
      BY <1>2, MachineFacts
    <2>2. n > machine.fb + machine.fb_len
      BY <1>1, <2>1 DEF free_frame
    <2> QED
      BY <1>1, <1>3, <2>1, <2>2 DEF Cells
  <1>6. ASSUME NEW i \in DOMAIN machine.groups
        PROVE  a \notin Cells(machine.groups[i], CFG_LEN)
    <2> DEFINE g == machine.groups[i]
    <2>1. g \in Nat /\ g % BIG = 0
      BY <1>2, MachineFacts
    <2>2. n < g \/ n >= g + CFG_LEN
      BY <1>1, <2>1 DEF inside_pcie_cfg
    <2> HIDE DEF g
    <2>3. n < g => n + BIG <= g
      BY <1>1, <2>1, AlignedApart
    <2>4. a \notin Cells(g, CFG_LEN)
      BY <1>1, <1>3, <2>1, <2>2, <2>3 DEF Cells
    <2> QED
      BY <2>4 DEF g
  <1>7. a \notin Devices
    BY <1>5, <1>6 DEF Devices
  <1>8. a \notin KernelCells
    <2>1. machine.kernel.start \in Nat /\ machine.kernel.end \in Nat
      BY <1>2, MachineFacts
    <2> QED
      BY <1>1, <1>3, <2>1 DEF KernelCells
  <1> QED
    BY <1>4, <1>7, <1>8

(* Steps that free nothing and map no big page keep what is spare.         *)
LEMMA SpareKept ==
    ASSUME FreedOnlySpare, machine' = machine, freed' = freed, mapped' \subseteq mapped
    PROVE  FreedOnlySpare'
  BY DEF FreedOnlySpare, Ram, Devices, KernelCells
-----------------------------------------------------------------------------
(* The invariant holds initially and every step keeps it.                  *)
LEMMA InitBoot == Init => BootInv
  <1> SUFFICES ASSUME Init PROVE BootInv
    OBVIOUS
  <1>1. Reported
    BY DEF Init, Reported
  <1>2. Identity /\ OnlyWindows /\ Windows
    BY DEF Init, Identity, OnlyWindows, Windows, HighPhase
  <1>3. FreedOnlySpare /\ KernelStaysMapped
    BY DEF Init, FreedOnlySpare, KernelStaysMapped
  <1> QED
    BY <1>1, <1>2, <1>3 DEF BootInv

(* A panic.                                                                *)
LEMMA PanicBoot == ASSUME BootInv, NEW r, Panic(r) PROVE BootInv'
  <1>1. /\ pc' = "panic" /\ machine' = machine /\ secs' = secs /\ n' = n
        /\ early_end' = early_end /\ mapped' = mapped /\ freed' = freed
        /\ free_count' = free_count /\ high' = high
    BY DEF Panic, paging
  <1>2. Reported'
    BY <1>1 DEF BootInv, Reported
  <1>3. Identity' /\ Windows' /\ KernelStaysMapped'
    BY <1>1 DEF Identity, Windows, KernelStaysMapped, HighPhase
  <1>4. OnlyWindows'
    BY <1>1 DEF BootInv, OnlyWindows
  <1>5. FreedOnlySpare'
    BY <1>1, SpareKept DEF BootInv
  <1> QED
    BY <1>2, <1>3, <1>4, <1>5 DEF BootInv

(* The memory map.                                                         *)
LEMMA MmapBoot == ASSUME BootInv, mmap_entry PROVE BootInv'
  <1>1. CASE \E r : Panic(r)
    BY <1>1, PanicBoot
  <1>2. CASE ~\E r : Panic(r)
    <2> DEFINE e == machine.mmap[n]
               s == [base |-> e.base, len |-> e.len]
    <2>1. /\ pc = "mmap" /\ n <= Len(machine.mmap)
          /\ n' = n + 1 /\ pc' = pc /\ machine' = machine
          /\ early_end' = early_end /\ mapped' = mapped /\ freed' = freed
          /\ free_count' = free_count /\ high' = high
          /\ secs' = secs \/ (e.type = 1 /\ secs' = Append(secs, s))
      BY <1>2 DEF mmap_entry, paging
    <2>2. Reported'
      <3>1. machine \in Machines /\ n \in Nat /\ secs \in Seq([base : Nat, len : Nat])
        BY DEF BootInv, Reported
      <3>2. CASE secs' = secs
        BY <2>1, <3>1, <3>2 DEF BootInv, Reported
      <3>3. CASE n # 0 /\ e.type = 1 /\ secs' = Append(secs, s)
        <4> DEFINE R == [base : Nat, len : Nat, type : Nat]
        <4>1. machine.mmap \in Seq(R)
          BY <3>1, MachineFacts
        <4>2. n \in DOMAIN machine.mmap
          BY <2>1, <3>1, <3>3, <4>1
        <4> HIDE DEF R
        <4>3. e \in R
          BY <4>1, <4>2
        <4>4. s \in [base : Nat, len : Nat]
          BY <4>3 DEF R
        <4>5. s.base = e.base /\ s.len = e.len
          OBVIOUS
        <4> DEFINE S == [base : Nat, len : Nat]
        <4> HIDE DEF S
        <4> HIDE DEF s
        <4>6. /\ secs' \in Seq(S) /\ DOMAIN secs' = DOMAIN secs \cup {Len(secs) + 1}
              /\ secs'[Len(secs) + 1] = s
              /\ \A i \in DOMAIN secs : secs'[i] = secs[i]
          BY <3>1, <3>3, <4>4 DEF S
        <4>7. \A i \in DOMAIN secs' : \E j \in DOMAIN machine.mmap :
                 /\ machine.mmap[j].type = 1
                 /\ secs'[i].base = machine.mmap[j].base
                 /\ secs'[i].len = machine.mmap[j].len
          BY <3>3, <4>2, <4>5, <4>6 DEF BootInv, Reported
        <4> QED
          BY <2>1, <3>1, <4>6, <4>7 DEF BootInv, Reported, S
      <3>4. n # 0
        BY <2>1, <3>1 DEF BootInv, Identity
      <3> QED
        BY <2>1, <3>2, <3>3, <3>4
    <2>3. Identity' /\ OnlyWindows' /\ Windows' /\ KernelStaysMapped'
      <3>1. n \in Nat
        BY DEF BootInv, Reported
      <3>2. Identity'
        BY <2>1, <3>1 DEF BootInv, Identity, HighPhase
      <3>3. OnlyWindows'
        BY <2>1 DEF BootInv, OnlyWindows
      <3> QED
        BY <2>1, <3>2, <3>3 DEF Windows, KernelStaysMapped, HighPhase
    <2>4. FreedOnlySpare'
      BY <2>1, SpareKept DEF BootInv
    <2> QED
      BY <2>2, <2>3, <2>4 DEF BootInv
  <1> QED
    BY <1>1, <1>2

LEMMA KernelElfBoot == ASSUME BootInv, kernel_elf PROVE BootInv'
  <1>1. CASE \E r : Panic(r)
    BY <1>1, PanicBoot
  <1>2. CASE ~\E r : Panic(r)
    <2>1. /\ pc = "mmap" /\ n' = 0 /\ pc' = "early" /\ machine' = machine /\ secs' = secs
          /\ early_end' = early_end /\ mapped' = mapped /\ freed' = freed
          /\ free_count' = free_count /\ high' = high
      BY <1>2 DEF kernel_elf, paging
    <2>2. Reported'
      BY <2>1 DEF BootInv, Reported
    <2>3. Identity'
      <3>1. 0 % BIG = 0
        BY ConstantFacts
      <3>2. ~\E p \in 0 .. 0 : p < 0
        OBVIOUS
      <3> QED
        BY <2>1, <3>1, <3>2 DEF BootInv, Identity, HighPhase
    <2>4. OnlyWindows'
      BY <2>1 DEF BootInv, OnlyWindows, HighPhase
    <2>5. Windows' /\ KernelStaysMapped'
      BY <2>1 DEF Windows, KernelStaysMapped, HighPhase
    <2>6. FreedOnlySpare'
      BY <2>1, SpareKept DEF BootInv
    <2> QED
      BY <2>2, <2>3, <2>4, <2>5, <2>6 DEF BootInv
  <1> QED
    BY <1>1, <1>2

(* The early mapping, whatever the unassigned result reads as.             *)
LEMMA MapEarlyBoot == ASSUME BootInv, map_early PROVE BootInv'
  <1>1. PICK ok \in map_early_ok :
           /\ pc = "early"
           /\ mapped' = (IF ok THEN mapped \cup {n} ELSE mapped)
           /\ n' = (IF ok THEN n + BIG ELSE n)
           /\ early_end' = (IF ok THEN early_end ELSE n)
           /\ pc' = (IF ok THEN "early" ELSE "root")
           /\ machine' = machine /\ secs' = secs /\ freed' = freed
           /\ free_count' = free_count /\ high' = high
    BY DEF map_early
  <1>2. n \in Nat /\ BIG \in Nat \ {0} /\ n % BIG = 0 /\ freed = {}
    BY <1>1, ConstantFacts DEF BootInv, Reported, Identity
  <1>3. n + BIG \in Nat /\ (n + BIG) % BIG = 0
    BY <1>2, AlignedNext
  <1>4. Reported'
    BY <1>1, <1>2, <1>3 DEF BootInv, Reported
  <1>5. Identity'
    <2>1. CASE ok
      <3>1. /\ pc' = "early" /\ n' = n + BIG /\ mapped' = mapped \cup {n}
        BY <1>1, <2>1
      <3>2. ASSUME NEW p \in 0 .. n + BIG, p % BIG = 0, p < n + BIG
            PROVE  p \in mapped \cup {n}
        <4>1. ~(n < p)
          <5>1. n < p => n + BIG <= p
            <6>1. p \in Nat
              BY <1>3
            <6> QED
              BY <1>2, <3>2, <6>1, AlignedApart
          <5> QED
            BY <1>2, <3>2, <5>1
        <4>2. CASE p = n
          BY <4>2
        <4>3. CASE p < n
          <5>1. p \in 0 .. n
            BY <1>2, <4>3
          <5> QED
            BY <1>1, <3>2, <4>3, <5>1 DEF BootInv, Identity
        <4> QED
          BY <1>2, <4>1, <4>2, <4>3
      <3> QED
        BY <1>1, <1>2, <1>3, <3>1, <3>2 DEF Identity, HighPhase
    <2>2. CASE ~ok
      BY <1>1, <1>2, <2>2 DEF BootInv, Identity, HighPhase
    <2> QED
      BY <2>1, <2>2
  <1>6. OnlyWindows'
    BY <1>1 DEF BootInv, OnlyWindows, HighPhase
  <1>7. Windows' /\ KernelStaysMapped'
    BY <1>1 DEF Windows, KernelStaysMapped, HighPhase
  <1>8. FreedOnlySpare'
    BY <1>1, <1>2 DEF FreedOnlySpare
  <1> QED
    BY <1>4, <1>5, <1>6, <1>7, <1>8 DEF BootInv

LEMMA MapEarlyEndBoot == ASSUME BootInv, map_early_end PROVE BootInv'
  <1>1. /\ pc = "early" /\ early_end' = n /\ pc' = "root" /\ machine' = machine
        /\ secs' = secs /\ n' = n /\ mapped' = mapped /\ freed' = freed
        /\ free_count' = free_count /\ high' = high
    BY DEF map_early_end
  <1>2. Reported'
    BY <1>1 DEF BootInv, Reported
  <1>3. Identity'
    BY <1>1 DEF BootInv, Identity, HighPhase
  <1>4. OnlyWindows'
    BY <1>1 DEF BootInv, OnlyWindows, HighPhase
  <1>5. Windows' /\ KernelStaysMapped'
    BY <1>1 DEF Windows, KernelStaysMapped, HighPhase
  <1>6. FreedOnlySpare'
    BY <1>1, SpareKept DEF BootInv
  <1> QED
    BY <1>2, <1>3, <1>4, <1>5, <1>6 DEF BootInv

(* The switch to the early mapping.                                        *)
LEMMA RootLoadBoot == ASSUME BootInv, root_load PROVE BootInv'
  <1>1. CASE \E r : Panic(r)
    BY <1>1, PanicBoot
  <1>2. CASE ~\E r : Panic(r)
    <2>1. /\ pc = "root" /\ kernel_pages \subseteq mapped /\ pc' = "direct"
          /\ machine' = machine /\ secs' = secs /\ n' = n
          /\ early_end' = early_end /\ mapped' = mapped /\ freed' = freed
          /\ free_count' = free_count /\ high' = high
      BY <1>2 DEF root_load, paging
    <2>2. Reported'
      BY <2>1 DEF BootInv, Reported
    <2>3. Identity' /\ Windows'
      BY <2>1 DEF Identity, Windows, HighPhase
    <2>4. OnlyWindows'
      BY <2>1 DEF BootInv, OnlyWindows, HighPhase
    <2>5. kernel_pages' \subseteq mapped'
      BY <2>1 DEF kernel_pages
    <2>6. \A p \in 0 .. early_end : p % BIG = 0 /\ p < early_end => p \in mapped
      BY <2>1 DEF BootInv, Identity
    <2>7. KernelStaysMapped'
      BY <2>1, <2>5, <2>6 DEF KernelStaysMapped
    <2>8. FreedOnlySpare'
      BY <2>1, SpareKept DEF BootInv
    <2> QED
      BY <2>2, <2>3, <2>4, <2>7, <2>8 DEF BootInv
  <1> QED
    BY <1>1, <1>2

(* Steps that leave the identity mapping alone keep the kernel mapped.     *)
LEMMA KernelKept ==
    ASSUME KernelStaysMapped, pc \in Switched, machine' = machine,
           early_end' = early_end, mapped' = mapped
    PROVE  KernelStaysMapped'
  BY DEF KernelStaysMapped, Switched, kernel_pages, inside_pcie_cfg

LEMMA DirectBoot == ASSUME BootInv, init_direct_access PROVE BootInv'
  <1>1. CASE \E r : Panic(r)
    BY <1>1, PanicBoot
  <1>2. CASE ~\E r : Panic(r)
    <2>1. /\ pc = "direct" /\ machine.fb % BIG = 0 /\ n' = first_unmapped /\ pc' = "unmap"
          /\ machine' = machine /\ secs' = secs
          /\ early_end' = early_end /\ mapped' = mapped /\ freed' = freed
          /\ free_count' = free_count /\ high' = high
      BY <1>2 DEF init_direct_access, paging
    <2>2. /\ first_unmapped \in Nat /\ first_unmapped % BIG = 0
          /\ first_unmapped > machine.kernel.end
      <3>1. machine.kernel.end \in Nat /\ BIG \in Nat \ {0}
        BY MachineFacts, ConstantFacts DEF BootInv, Reported
      <3>2. machine.kernel.end + 1 \in Nat
        BY <3>1
      <3>3. /\ first_unmapped \in Nat /\ first_unmapped % BIG = 0
            /\ first_unmapped >= machine.kernel.end + 1
        BY <3>1, <3>2, AlignUp DEF first_unmapped
      <3> QED
        BY <3>1, <3>3
    <2>3. Reported'
      BY <2>1, <2>2 DEF BootInv, Reported
    <2>4. Identity' /\ Windows'
      BY <2>1, <2>2 DEF Identity, Windows, HighPhase
    <2>5. OnlyWindows'
      BY <2>1 DEF BootInv, OnlyWindows, HighPhase
    <2>6. KernelStaysMapped'
      BY <2>1, KernelKept DEF BootInv, Switched
    <2>7. FreedOnlySpare'
      BY <2>1, SpareKept DEF BootInv
    <2> QED
      BY <2>3, <2>4, <2>5, <2>6, <2>7 DEF BootInv
  <1> QED
    BY <1>1, <1>2

(* One big page of the loop of mm_page_bootstrap.                          *)
LEMMA UnmapBoot == ASSUME BootInv, unmap_big PROVE BootInv'
  <1>1. CASE \E r : Panic(r)
    BY <1>1, PanicBoot
  <1>2. CASE ~\E r : Panic(r)
    <2>1. /\ pc = "unmap" /\ n' = n + BIG /\ pc' = pc /\ machine' = machine /\ secs' = secs
          /\ early_end' = early_end /\ high' = high
          /\ \/ mapped' = mapped /\ freed' = freed /\ free_count' = free_count
             \/ /\ ~inside_pcie_cfg(n) /\ mapped' = mapped \ {n}
                /\ freed' = freed \/ (free_frame(n) /\ freed' = freed \cup {n})
                /\ free_count' = free_count
                     + (IF free_frame(n) THEN BIG \div SMALL ELSE 0)
                     + (IF \A p \in mapped \ {n} : p \div GIG # n \div GIG THEN 1 ELSE 0)
      BY <1>2 DEF unmap_big, paging, next_big
    <2>2. /\ n \in Nat /\ BIG \in Nat \ {0} /\ n % BIG = 0 /\ n > machine.kernel.end
          /\ free_count \in Nat
      BY <2>1, ConstantFacts DEF BootInv, Reported, Identity
    <2>3. n + BIG \in Nat /\ (n + BIG) % BIG = 0
      BY <2>2, AlignedNext
    <2>4. machine.kernel.start \in Nat /\ machine.kernel.end \in Nat
      BY MachineFacts DEF BootInv, Reported
    <2>5. Reported'
      <3>1. BIG \div SMALL \in Nat
        BY ConstantFacts, AlignedIsProduct
      <3>2. free_count' \in Nat
        BY <2>1, <2>2, <3>1
      <3> QED
        BY <2>1, <2>3, <3>2 DEF BootInv, Reported
    <2>6. Identity'
      <3>1. n + BIG > machine.kernel.end
        BY <2>2, <2>4
      <3> QED
        BY <2>1, <2>3, <3>1 DEF BootInv, Identity, HighPhase
    <2>7. Windows'
      BY <2>1 DEF Windows
    <2>8. OnlyWindows'
      BY <2>1 DEF BootInv, OnlyWindows
    <2>9. KernelStaysMapped'
      <3>1. CASE mapped' = mapped
        BY <2>1, <3>1, KernelKept DEF BootInv, Switched
      <3>2. CASE ~inside_pcie_cfg(n) /\ mapped' = mapped \ {n}
        <4>1. kernel_pages' = kernel_pages
          BY <2>1 DEF kernel_pages
        <4>2. n \notin kernel_pages
          BY <2>2, <2>4 DEF kernel_pages, big_pages
        <4>3. \A p : inside_pcie_cfg(p)' <=> inside_pcie_cfg(p)
          BY <2>1 DEF inside_pcie_cfg
        <4>4. /\ kernel_pages \subseteq mapped
              /\ \A p \in 0 .. early_end : p % BIG = 0 /\ p < early_end /\ inside_pcie_cfg(p)
                                              => p \in mapped
          BY <2>1 DEF BootInv, KernelStaysMapped
        <4>5. ASSUME NEW p \in 0 .. early_end, p % BIG = 0 /\ p < early_end,
                     inside_pcie_cfg(p)
              PROVE  p \in mapped'
          BY <3>2, <4>4, <4>5
        <4> QED
          BY <2>1, <3>2, <4>1, <4>2, <4>3, <4>4, <4>5 DEF KernelStaysMapped
      <3> QED
        BY <2>1, <3>1, <3>2
    <2>10. FreedOnlySpare'
      <3>1. CASE freed' = freed
        BY <2>1, <3>1, SpareKept DEF BootInv
      <3>2. CASE /\ ~inside_pcie_cfg(n) /\ mapped' = mapped \ {n}
                 /\ free_frame(n) /\ freed' = freed \cup {n}
        <4>1. Ram' = Ram /\ Devices' = Devices /\ KernelCells' = KernelCells
          BY <2>1 DEF Ram, Devices, KernelCells
        <4>2. Cells(n, BIG) \subseteq Ram \ (Devices \cup KernelCells)
          BY <2>2, <3>2, FreedIsSpare DEF BootInv
        <4> QED
          BY <3>2, <4>1, <4>2 DEF BootInv, FreedOnlySpare
      <3> QED
        BY <2>1, <3>1, <3>2
    <2> QED
      BY <2>5, <2>6, <2>7, <2>8, <2>9, <2>10 DEF BootInv
  <1> QED
    BY <1>1, <1>2

LEMMA UnmapEndBoot == ASSUME BootInv, unmap_end PROVE BootInv'
  <1>1. CASE \E r : Panic(r)
    BY <1>1, PanicBoot
  <1>2. CASE ~\E r : Panic(r)
    <2>1. /\ pc = "unmap" /\ n' = 0 /\ pc' = "fb" /\ machine' = machine /\ secs' = secs
          /\ early_end' = early_end /\ mapped' = mapped /\ freed' = freed
          /\ free_count' = free_count /\ high' = high
      BY <1>2 DEF unmap_end, paging
    <2>2. Reported'
      BY <2>1 DEF BootInv, Reported
    <2>3. Identity'
      BY <2>1 DEF BootInv, Identity, HighPhase
    <2>4. OnlyWindows'
      BY <2>1 DEF BootInv, OnlyWindows, HighPhase
    <2>5. Windows'
      <3>1. 0 .. 0 - 1 = {}
        OBVIOUS
      <3> QED
        BY <2>1, <3>1 DEF Windows, FbMapped
    <2>6. KernelStaysMapped'
      BY <2>1, KernelKept DEF BootInv, Switched
    <2>7. FreedOnlySpare'
      BY <2>1, SpareKept DEF BootInv
    <2> QED
      BY <2>2, <2>3, <2>4, <2>5, <2>6, <2>7 DEF BootInv
  <1> QED
    BY <1>1, <1>2
-----------------------------------------------------------------------------
(* What mm_page_map leaves behind, if it does not panic: a new page, or no *)
(* free frame.                                                             *)
Grows(va, pa) ==
    /\ DOMAIN high' = DOMAIN high \cup {va}
    /\ high'[va] = pa
    /\ \A v \in DOMAIN high : high'[v] = high[v]

LEMMA MapEffect ==
    ASSUME NEW va, NEW pa, NEW frames \in Nat, NEW asserted \in BOOLEAN,
           Map(va, pa, frames, asserted), ~\E r : Panic(r)
    PROVE  /\ va \notin DOMAIN high
           /\ n' = n + 1 /\ pc' = pc /\ machine' = machine /\ secs' = secs
           /\ early_end' = early_end /\ mapped' = mapped /\ freed' = freed
           /\ free_count' \in Nat
           /\ \/ Grows(va, pa)
              \/ ~asserted /\ high' = high /\ free_count' = 0
  <1>1. va \notin DOMAIN high
    BY DEF Map
  <1>2. PICK missing \in 0 .. 2 :
          LET ok == frames >= missing /\ frames > 0 IN
          /\ ok \/ ~asserted
          /\ high' = IF ok THEN [v \in DOMAIN high \cup {va} |->
                                   IF v = va THEN pa ELSE high[v]]
                     ELSE high
          /\ free_count' = IF ok THEN frames - missing ELSE 0
          /\ n' = n + 1
          /\ UNCHANGED <<machine, secs, early_used, early_end, mapped, freed, why, pc>>
    BY <1>1 DEF Map
  <1>3. /\ n' = n + 1 /\ pc' = pc /\ machine' = machine /\ secs' = secs
        /\ early_end' = early_end /\ mapped' = mapped /\ freed' = freed
    BY <1>2
  <1>4. CASE frames >= missing /\ frames > 0
    <2>1. /\ high' = [v \in DOMAIN high \cup {va} |-> IF v = va THEN pa ELSE high[v]]
          /\ free_count' = frames - missing
      BY <1>2, <1>4
    <2>2. Grows(va, pa)
      BY <1>1, <2>1 DEF Grows
    <2>3. free_count' \in Nat
      BY <1>4, <2>1
    <2> QED
      BY <1>1, <1>3, <2>2, <2>3
  <1>5. CASE ~(frames >= missing /\ frames > 0)
    <2>1. high' = high /\ free_count' = 0 /\ ~asserted
      BY <1>2, <1>5
    <2> QED
      BY <1>1, <1>3, <2>1
  <1> QED
    BY <1>4, <1>5

(* What was mapped stays mapped.                                           *)
LEMMA WindowsKept ==
    ASSUME machine' = machine, DOMAIN high \subseteq DOMAIN high',
           \A v \in DOMAIN high : high'[v] = high[v]
    PROVE  /\ \A k : /\ FbMapped(k) => FbMapped(k)'
                     /\ PcieMapped(k) => PcieMapped(k)'
                     /\ StackMapped(k) => StackMapped(k)'
           /\ fb_pages' = fb_pages /\ (FbFits' <=> FbFits)
  <1>1. \A k : FbMapped(k) => FbMapped(k)'
    BY DEF FbMapped
  <1>2. \A k : PcieMapped(k) => PcieMapped(k)'
    BY DEF PcieMapped
  <1>3. \A k : StackMapped(k) => StackMapped(k)'
    BY DEF StackMapped
  <1>4. fb_pages' = fb_pages
    BY DEF fb_pages
  <1> QED
    BY <1>1, <1>2, <1>3, <1>4 DEF FbFits

(* The parts of the invariant that mapping a window leaves alone.          *)
LEMMA WindowStep ==
    ASSUME BootInv, pc \in HighPhase, pc' \in HighPhase, n' \in Nat, free_count' \in Nat,
           machine' = machine, secs' = secs, early_end' = early_end,
           mapped' = mapped, freed' = freed, OnlyWindows', Windows'
    PROVE  BootInv'
  <1>1. Reported'
    BY DEF BootInv, Reported
  <1>2. Identity'
    BY DEF BootInv, Identity, HighPhase
  <1>3. KernelStaysMapped'
    BY KernelKept DEF BootInv, HighPhase, Switched
  <1>4. FreedOnlySpare'
    BY SpareKept DEF BootInv
  <1> QED
    BY <1>1, <1>2, <1>3, <1>4 DEF BootInv

(* Between two windows.                                                    *)
LEMMA GoStep ==
    ASSUME BootInv, NEW phase \in HighPhase, Go(phase), pc \in HighPhase, Windows'
    PROVE  BootInv'
  <1>1. /\ n' = 0 /\ pc' = phase /\ machine' = machine /\ secs' = secs
        /\ early_end' = early_end /\ mapped' = mapped /\ freed' = freed
        /\ free_count' = free_count /\ high' = high
    BY DEF Go, paging
  <1>2. OnlyWindows'
    BY <1>1 DEF BootInv, OnlyWindows
  <1>3. free_count \in Nat
    BY DEF BootInv, Reported
  <1> QED
    BY <1>1, <1>2, <1>3, WindowStep

(* The frame buffer.                                                       *)
LEMMA FrameBufferBoot == ASSUME BootInv, bootstrap_frame_buffer PROVE BootInv'
  <1>1. CASE \E r : Panic(r)
    BY <1>1, PanicBoot
  <1>2. CASE ~\E r : Panic(r)
    <2>1. /\ pc = "fb" /\ FbMapped(n) /\ n \in Nat /\ free_count \in Nat
          /\ machine \in Machines
      BY DEF bootstrap_frame_buffer, BootInv, Windows, Reported
    <2>2. fb_pages \in Nat /\ PcieVa \in Nat /\ FrameBufferVa \in Nat
      BY <2>1, FbFacts, ConstantFacts
    <2>3. CASE n < fb_pages
      <3> DEFINE va == FrameBufferVa + n
                 pa == machine.fb + n * SMALL
      <3>1. Map(va, pa, free_count, TRUE)
        BY <2>3 DEF bootstrap_frame_buffer
      <3> HIDE DEF va, pa
      <3>2. /\ n' = n + 1 /\ pc' = pc /\ machine' = machine /\ secs' = secs
            /\ early_end' = early_end /\ mapped' = mapped /\ freed' = freed
            /\ free_count' \in Nat /\ Grows(va, pa)
        BY <1>2, <2>1, <3>1, MapEffect
      <3>3. FbMapped(n)'
        <4>1. ASSUME NEW i \in 0 .. n' - 1
              PROVE  /\ FrameBufferVa + i \in DOMAIN high'
                     /\ high'[FrameBufferVa + i] = machine.fb + i * SMALL
          <5>1. CASE i = n
            BY <3>2, <5>1 DEF Grows, va, pa
          <5>2. CASE i # n
            <6>1. i \in 0 .. n - 1
              BY <2>1, <3>2, <5>2
            <6>2. /\ FrameBufferVa + i \in DOMAIN high
                  /\ high[FrameBufferVa + i] = machine.fb + i * SMALL
              BY <2>1, <6>1 DEF FbMapped
            <6> QED
              BY <3>2, <6>2 DEF Grows
          <5> QED
            BY <5>1, <5>2
        <4> QED
          BY <3>2, <4>1 DEF FbMapped
      <3>4. Windows'
        BY <2>1, <3>2, <3>3 DEF Windows
      <3>5. va \in Nat /\ va >= FrameBufferVa
        BY <2>1, <2>2 DEF va
      <3>6. OnlyWindows'
        BY <2>1, <3>2, <3>5 DEF BootInv, OnlyWindows, Grows, HighPhase
      <3> QED
        BY <2>1, <3>2, <3>4, <3>6, WindowStep DEF HighPhase
    <2>4. CASE ~(n < fb_pages)
      <3>1. Go("pcie")
        BY <2>4 DEF bootstrap_frame_buffer
      <3>2. n' = 0 /\ pc' = "pcie" /\ machine' = machine /\ high' = high
        BY <3>1 DEF Go, paging
      <3>3. 0 .. fb_pages - 1 \subseteq 0 .. n - 1
        BY <2>1, <2>2, <2>4
      <3>4. FbMapped(fb_pages)'
        BY <2>1, <3>2, <3>3 DEF FbMapped, fb_pages
      <3>5. PcieMapped(n)' /\ ~(n' > 0)
        <4>1. 0 .. 0 - 1 = {} /\ ~(0 > 0)
          OBVIOUS
        <4> QED
          BY <3>2, <4>1 DEF PcieMapped
      <3>6. Windows'
        BY <3>2, <3>4, <3>5 DEF Windows
      <3> QED
        BY <2>1, <3>1, <3>6, GoStep DEF HighPhase
    <2> QED
      BY <2>3, <2>4
  <1> QED
    BY <1>1, <1>2

(* Configuration space.  Its first page is also what finds a frame buffer  *)
(* that is too large for its window.                                       *)
LEMMA PcieBoot == ASSUME BootInv, bootstrap_pcie_cfg_space PROVE BootInv'
  <1>1. CASE \E r : Panic(r)
    BY <1>1, PanicBoot
  <1>2. CASE ~\E r : Panic(r)
    <2> DEFINE total == Len(machine.groups) * cfg_pages
    <2>1. /\ pc = "pcie" /\ FbMapped(fb_pages) /\ PcieMapped(n) /\ (n > 0 => FbFits)
          /\ n \in Nat /\ free_count \in Nat /\ machine \in Machines
      BY DEF bootstrap_pcie_cfg_space, BootInv, Windows, Reported
    <2>2. /\ fb_pages \in Nat /\ PcieVa \in Nat /\ FrameBufferVa \in Nat
          /\ FrameBufferVa <= PcieVa
      BY <2>1, FbFacts, ConstantFacts
    <2>3. CASE n = total
      <3>1. Go("stack")
        BY <2>3 DEF bootstrap_pcie_cfg_space
      <3>2. n' = 0 /\ pc' = "stack" /\ machine' = machine /\ high' = high
        BY <3>1 DEF Go, paging
      <3>3. PcieMapped(total)'
        BY <2>1, <2>3, <3>2 DEF PcieMapped
      <3>4. FbMapped(fb_pages)'
        BY <2>1, <3>2 DEF FbMapped, fb_pages
      <3>5. FbFits
        <4>1. CASE machine.groups = <<>>
          BY <2>1, <4>1, MachineFacts
        <4>2. CASE machine.groups # <<>>
          <5>1. Len(machine.groups) \in Nat /\ Len(machine.groups) # 0
            <6> DEFINE G == {g \in Nat : g % BIG = 0}
            <6>1. machine.groups \in Seq(G)
              BY <2>1, MachineFacts
            <6> HIDE DEF G
            <6> QED
              BY <4>2, <6>1
          <5> DEFINE l == Len(machine.groups)
          <5> HIDE DEF l
          <5>2. l \in Nat /\ 0 < l /\ cfg_pages \in Nat /\ cfg_pages > 0
            BY <5>1, ConstantFacts DEF l
          <5>3. cfg_pages * 0 + cfg_pages <= cfg_pages * l
            BY <5>2, MulStep
          <5>4. l * cfg_pages > 0
            BY <5>2, <5>3
          <5> QED
            BY <2>1, <2>3, <5>4 DEF l
        <4> QED
          BY <4>1, <4>2
      <3>6. FbFits'
        BY <3>2, <3>5 DEF FbFits, fb_pages
      <3>7. StackMapped(n)'
        <4>1. StackVa .. StackVa + 0 - 1 = {}
          BY ConstantFacts
        <4> QED
          BY <3>2, <4>1 DEF StackMapped
      <3>8. Windows'
        BY <3>2, <3>3, <3>4, <3>6, <3>7, ConstantFacts DEF Windows
      <3> QED
        BY <2>1, <3>1, <3>8, GoStep DEF HighPhase
    <2>4. CASE n # total
      <3> DEFINE va == PcieVa + n
                 pa == machine.groups[n \div cfg_pages + 1] + (n % cfg_pages) * SMALL
      <3>1. Map(va, pa, free_count, TRUE)
        BY <1>2, <2>4 DEF bootstrap_pcie_cfg_space
      <3> HIDE DEF va, pa, total
      <3>2. /\ va \notin DOMAIN high
            /\ n' = n + 1 /\ pc' = pc /\ machine' = machine /\ secs' = secs
            /\ early_end' = early_end /\ mapped' = mapped /\ freed' = freed
            /\ free_count' \in Nat /\ Grows(va, pa)
        BY <1>2, <2>1, <3>1, MapEffect
      <3>3. PcieMapped(n)'
        <4>1. ASSUME NEW i \in 0 .. n' - 1
              PROVE  /\ PcieVa + i \in DOMAIN high'
                     /\ high'[PcieVa + i] =
                          machine.groups[i \div cfg_pages + 1] + (i % cfg_pages) * SMALL
          <5>1. CASE i = n
            BY <3>2, <5>1 DEF Grows, va, pa
          <5>2. CASE i # n
            <6>1. i \in 0 .. n - 1
              BY <2>1, <3>2, <5>2
            <6>2. /\ PcieVa + i \in DOMAIN high
                  /\ high[PcieVa + i] =
                       machine.groups[i \div cfg_pages + 1] + (i % cfg_pages) * SMALL
              BY <2>1, <6>1 DEF PcieMapped
            <6> QED
              BY <3>2, <6>2 DEF Grows
          <5> QED
            BY <5>1, <5>2
        <4> QED
          BY <3>2, <4>1 DEF PcieMapped
      <3>4. FbMapped(fb_pages)' /\ (FbFits' <=> FbFits)
        <4>1. DOMAIN high \subseteq DOMAIN high' /\ \A v \in DOMAIN high : high'[v] = high[v]
          BY <3>2 DEF Grows
        <4>2. fb_pages' = fb_pages
          BY <3>2 DEF fb_pages
        <4>3. FbMapped(fb_pages)'
          BY <2>1, <3>2, <4>1, <4>2 DEF FbMapped
        <4> QED
          BY <4>2, <4>3 DEF FbFits
      <3>5. FbFits
        <4>1. CASE n > 0
          BY <2>1, <4>1
        <4>2. CASE n = 0
          <5>1. PcieVa \notin DOMAIN high
            BY <2>2, <3>2, <4>2 DEF va
          <5>2. SUFFICES ASSUME ~FbFits PROVE FALSE
            OBVIOUS
          <5> DEFINE i == PcieVa - FrameBufferVa
          <5>3. i \in 0 .. fb_pages - 1 /\ FrameBufferVa + i = PcieVa
            BY <2>2, <5>2 DEF FbFits
          <5> QED
            BY <2>1, <5>1, <5>3 DEF FbMapped
        <4> QED
          BY <2>1, <4>1, <4>2
      <3>6. Windows'
        BY <2>1, <3>2, <3>3, <3>4, <3>5 DEF Windows
      <3>7. va \in Nat /\ va >= FrameBufferVa
        BY <2>1, <2>2 DEF va
      <3>8. OnlyWindows'
        BY <2>1, <3>2, <3>7 DEF BootInv, OnlyWindows, Grows, HighPhase
      <3>9. n' \in Nat
        BY <2>1, <3>2
      <3> QED
        BY <2>1, <3>2, <3>6, <3>8, <3>9, WindowStep DEF HighPhase
    <2> QED
      BY <2>3, <2>4
  <1> QED
    BY <1>1, <1>2

(* The stack: a page that could not be mapped is the last one, since its   *)
(* successor finds no frame.                                               *)
LEMMA StackBoot == ASSUME BootInv, bootstrap_stack_memory PROVE BootInv'
  <1>1. CASE \E r : Panic(r)
    BY <1>1, PanicBoot
  <1>2. CASE ~\E r : Panic(r)
    <2> DEFINE total == Len(machine.groups) * cfg_pages
    <2>1. /\ pc = "stack" /\ FbMapped(fb_pages) /\ PcieMapped(total) /\ FbFits
          /\ n <= StackPages
          /\ StackMapped(n) \/ (free_count = 0 /\ StackMapped(n - 1))
          /\ n \in Nat /\ free_count \in Nat /\ machine \in Machines
      BY DEF bootstrap_stack_memory, BootInv, Windows, Reported
    <2>2. StackPages \in Nat /\ StackVa = 1
      BY ConstantFacts
    <2>3. CASE n = StackPages
      <3>1. Go("done")
        BY <2>3 DEF bootstrap_stack_memory
      <3>2. n' = 0 /\ pc' = "done" /\ machine' = machine /\ high' = high
        BY <3>1 DEF Go, paging
      <3>3. FbMapped(fb_pages)' /\ PcieMapped(total)' /\ FbFits'
        BY <2>1, <3>2 DEF FbMapped, fb_pages, PcieMapped, FbFits
      <3>4. StackMapped(StackPages - 1)
        <4>1. StackVa .. StackVa + (n - 1) - 1 \subseteq StackVa .. StackVa + n - 1
          BY <2>1, <2>2
        <4> QED
          BY <2>1, <2>3, <4>1 DEF StackMapped
      <3>5. StackMapped(StackPages - 1)'
        BY <3>2, <3>4 DEF StackMapped
      <3>6. Windows'
        BY <3>2, <3>3, <3>5 DEF Windows
      <3> QED
        BY <2>1, <3>1, <3>6, GoStep DEF HighPhase
    <2>4. CASE n # StackPages
      <3> DEFINE va == StackVa + n
      <3>1. free_count # 0 /\ Map(va, 0, free_count - 1, FALSE)
        BY <1>2, <2>4 DEF bootstrap_stack_memory, frame_missing
      <3>2. free_count - 1 \in Nat /\ StackMapped(n)
        BY <2>1, <3>1
      <3> HIDE DEF va, total
      <3>3. /\ n' = n + 1 /\ pc' = pc /\ machine' = machine /\ secs' = secs
            /\ early_end' = early_end /\ mapped' = mapped /\ freed' = freed
            /\ free_count' \in Nat
            /\ Grows(va, 0) \/ (high' = high /\ free_count' = 0)
        BY <1>2, <3>1, <3>2, MapEffect
      <3>4. /\ DOMAIN high \subseteq DOMAIN high'
            /\ \A v \in DOMAIN high : high'[v] = high[v]
        BY <3>3 DEF Grows
      <3>5. FbMapped(fb_pages)' /\ PcieMapped(total)' /\ FbFits'
        BY <2>1, <3>3, <3>4 DEF FbMapped, fb_pages, PcieMapped, FbFits, total
      <3>6. StackMapped(n)' \/ (free_count' = 0 /\ StackMapped(n - 1)')
        <4>1. StackVa .. StackVa + n' - 1 = (StackVa .. StackVa + n - 1) \cup {va}
          BY <2>1, <2>2, <3>3 DEF va
        <4>2. StackVa .. StackVa + (n' - 1) - 1 = StackVa .. StackVa + n - 1
          BY <2>1, <2>2, <3>3
        <4>3. StackVa .. StackVa + n - 1 \subseteq DOMAIN high'
          BY <3>2, <3>4 DEF StackMapped
        <4>4. CASE Grows(va, 0)
          <5>1. va \in DOMAIN high'
            BY <4>4 DEF Grows
          <5> QED
            BY <3>3, <4>1, <4>3, <5>1 DEF StackMapped
        <4>5. CASE high' = high /\ free_count' = 0
          BY <3>3, <4>2, <4>3, <4>5 DEF StackMapped
        <4> QED
          BY <3>3, <4>4, <4>5
      <3>7. Windows'
        <4>1. n' <= StackPages
          BY <2>1, <2>2, <2>4, <3>3
        <4> QED
          BY <2>1, <3>3, <3>5, <3>6, <4>1 DEF Windows, total
      <3>8. OnlyWindows'
        <4>1. va \in StackVa .. StackVa + StackPages - 1
          BY <2>1, <2>2, <2>4 DEF va
        <4> QED
          BY <2>1, <3>3, <4>1 DEF BootInv, OnlyWindows, Grows, HighPhase
      <3>9. n' \in Nat
        BY <2>1, <3>3
      <3> QED
        BY <2>1, <3>3, <3>7, <3>8, <3>9, WindowStep DEF HighPhase
    <2> QED
      BY <2>3, <2>4
  <1> QED
    BY <1>1, <1>2

LEMMA NextBoot == BootInv /\ [Next]_vars => BootInv'
  <1> SUFFICES ASSUME BootInv, [Next]_vars PROVE BootInv'
    OBVIOUS
  <1>1. CASE Step
    BY <1>1, MmapBoot, KernelElfBoot, MapEarlyBoot, MapEarlyEndBoot, RootLoadBoot,
       DirectBoot, UnmapBoot, UnmapEndBoot, FrameBufferBoot, PcieBoot, StackBoot DEF Step
  <1>2. CASE UNCHANGED vars
    <2>1. /\ pc' = pc /\ machine' = machine /\ secs' = secs /\ n' = n
          /\ early_end' = early_end /\ mapped' = mapped /\ freed' = freed
          /\ free_count' = free_count /\ high' = high
      BY <1>2 DEF vars
    <2>2. Reported'
      BY <2>1 DEF BootInv, Reported
    <2>3. Identity'
      BY <2>1 DEF BootInv, Identity
    <2>4. OnlyWindows'
      BY <2>1 DEF BootInv, OnlyWindows
    <2>5. Windows'
      BY <2>1 DEF BootInv, Windows, FbMapped, PcieMapped, StackMapped, FbFits, fb_pages
    <2>6. KernelStaysMapped'
      BY <2>1 DEF BootInv, KernelStaysMapped, kernel_pages, inside_pcie_cfg
    <2>7. FreedOnlySpare'
      BY <2>1, SpareKept DEF BootInv
    <2> QED
      BY <2>2, <2>3, <2>4, <2>5, <2>6, <2>7 DEF BootInv
  <1> QED
    BY <1>1, <1>2 DEF Next, halt
-----------------------------------------------------------------------------
(* Every page of a device window is mapped: the byte d behind its start    *)
(* lies in page d \div SMALL.                                              *)
LEMMA FbByteMapped ==
    ASSUME BootInv, pc = "done", NEW a \in Cells(machine.fb, machine.fb_len)
    PROVE  \E va \in DOMAIN high : va >= FrameBufferVa /\ va < PcieVa
                                   /\ high[va] = (a \div SMALL) * SMALL
  <1>1. /\ machine \in Machines /\ FbMapped(fb_pages) /\ FbFits /\ machine.fb % BIG = 0
    BY DEF BootInv, Reported, Identity, Windows, HighPhase
  <1>2. /\ machine.fb \in Nat /\ machine.fb_len \in Nat
        /\ SMALL \in Nat \ {0} /\ BIG \in Nat \ {0} /\ BIG % SMALL = 0
        /\ PcieVa \in Nat /\ FrameBufferVa \in Nat
    BY <1>1, MachineFacts, ConstantFacts
  <1>3. machine.fb % SMALL = 0
    BY <1>1, <1>2, AlignedFiner
  <1>4. fb_pages \in Nat /\ machine.fb_len <= fb_pages * SMALL
    BY <1>1, FbFacts
  <1> DEFINE d == a - machine.fb
             i == d \div SMALL
  <1>5. d \in Nat /\ d < machine.fb_len /\ machine.fb + d = a
    BY <1>2 DEF Cells
  <1> HIDE DEF d
  <1>6. d < fb_pages * SMALL
    BY <1>2, <1>4, <1>5
  <1>7. i \in 0 .. fb_pages - 1
    BY <1>2, <1>4, <1>5, <1>6, PageBelow
  <1>8. ((machine.fb + d) \div SMALL) * SMALL = machine.fb + i * SMALL
    BY <1>2, <1>3, <1>5, PageOf
  <1> HIDE DEF i
  <1>9. /\ FrameBufferVa + i \in DOMAIN high
        /\ high[FrameBufferVa + i] = (a \div SMALL) * SMALL
    BY <1>1, <1>5, <1>7, <1>8 DEF FbMapped
  <1>10. FrameBufferVa + i >= FrameBufferVa /\ FrameBufferVa + i < PcieVa
    BY <1>1, <1>2, <1>4, <1>7 DEF FbFits
  <1> QED
    BY <1>9, <1>10

LEMMA PcieByteMapped ==
    ASSUME BootInv, pc = "done", NEW k \in DOMAIN machine.groups,
           NEW a \in Cells(machine.groups[k], CFG_LEN)
    PROVE  \E va \in DOMAIN high : va >= PcieVa /\ high[va] = (a \div SMALL) * SMALL
  <1> DEFINE g == machine.groups[k]
             l == Len(machine.groups)
             c == cfg_pages
  <1>1. machine \in Machines /\ PcieMapped(l * c)
    BY DEF BootInv, Reported, Windows
  <1>2. /\ g \in Nat /\ g % BIG = 0 /\ l \in Nat /\ k \in 1 .. l
    <2> DEFINE G == {x \in Nat : x % BIG = 0}
    <2>1. machine.groups \in Seq(G)
      BY <1>1, MachineFacts
    <2> HIDE DEF G
    <2>2. l \in Nat /\ k \in 1 .. l /\ g \in G
      BY <2>1
    <2> QED
      BY <2>2 DEF G
  <1>3. /\ SMALL \in Nat \ {0} /\ BIG \in Nat \ {0} /\ BIG % SMALL = 0 /\ PcieVa \in Nat
        /\ c \in Nat /\ c > 0 /\ CFG_LEN = c * SMALL /\ CFG_LEN \in Nat
    BY ConstantFacts
  <1> HIDE DEF c, l
  <1>4. g % SMALL = 0
    BY <1>2, <1>3, AlignedFiner
  <1> DEFINE d == a - g
             j == d \div SMALL
             i == (k - 1) * c + j
  <1>5. d \in Nat /\ d < c * SMALL /\ g + d = a
    <2>1. a \in g .. g + CFG_LEN - 1
      BY DEF Cells
    <2> HIDE DEF g
    <2>2. d \in Nat /\ d < CFG_LEN /\ g + d = a
      BY <1>2, <1>3, <2>1
    <2> QED
      BY <1>3, <2>2
  <1> HIDE DEF d
  <1>6. j \in 0 .. c - 1
    BY <1>3, <1>5, PageBelow
  <1>7. ((g + d) \div SMALL) * SMALL = g + j * SMALL
    BY <1>2, <1>3, <1>4, <1>5, PageOf
  <1> HIDE DEF j, g
  <1>8. i \div c = k - 1 /\ i % c = j /\ i \in 0 .. l * c - 1
    <2>1. k - 1 \in Nat /\ l \in Nat /\ k - 1 < l
      BY <1>2
    <2>2. ((k - 1) * c + j) \div c = k - 1 /\ ((k - 1) * c + j) % c = j
      BY <1>3, <1>6, <2>1, DivUnique
    <2>3. c * (k - 1) + c <= c * l /\ c * (k - 1) \in Nat /\ c * l \in Nat
      BY <1>3, <2>1, MulStep
    <2>4. c * (k - 1) = (k - 1) * c /\ c * l = l * c
      BY <1>3, <2>1
    <2>5. i \in 0 .. l * c - 1
      BY <1>3, <1>6, <2>3, <2>4
    <2> QED
      BY <2>2, <2>5
  <1> HIDE DEF i
  <1>9. /\ PcieVa + i \in DOMAIN high
        /\ high[PcieVa + i] = machine.groups[i \div cfg_pages + 1] + (i % cfg_pages) * SMALL
    BY <1>1, <1>8 DEF PcieMapped
  <1>10. high[PcieVa + i] = g + j * SMALL
    <2>1. (k - 1) + 1 = k
      BY <1>2
    <2> QED
      BY <1>8, <1>9, <2>1 DEF c, g
  <1>11. PcieVa + i >= PcieVa
    BY <1>3, <1>8
  <1> QED
    BY <1>5, <1>7, <1>9, <1>10, <1>11

LEMMA WindowsFollow == BootInv => WindowsMapped
  <1> SUFFICES ASSUME BootInv, pc = "done" PROVE WindowsMapped
    BY DEF WindowsMapped
  <1>1. StackVa .. StackVa + StackPages - 2 \subseteq DOMAIN high
    <2>1. StackMapped(StackPages - 1)
      BY DEF BootInv, Windows
    <2>2. StackVa .. StackVa + (StackPages - 1) - 1 = StackVa .. StackVa + StackPages - 2
      BY ConstantFacts
    <2> QED
      BY <2>1, <2>2 DEF StackMapped
  <1>2. 0 \notin DOMAIN high /\ FrameBufferVa - 1 \notin DOMAIN high
    <2>1. \A va \in DOMAIN high : \/ va \in StackVa .. StackVa + StackPages - 1
                                  \/ va \in Nat /\ va >= FrameBufferVa
      BY DEF BootInv, OnlyWindows
    <2>2. StackPages \in Nat /\ StackVa = 1 /\ FrameBufferVa = StackPages + 2
      BY ConstantFacts
    <2>3. 0 \notin StackVa .. StackVa + StackPages - 1 /\ ~(0 >= FrameBufferVa)
      BY <2>2
    <2>4. /\ FrameBufferVa - 1 \notin StackVa .. StackVa + StackPages - 1
          /\ ~(FrameBufferVa - 1 >= FrameBufferVa)
      BY <2>2
    <2> QED
      BY <2>1, <2>3, <2>4
  <1> QED
    BY <1>1, <1>2, FbByteMapped, PcieByteMapped DEF WindowsMapped
-----------------------------------------------------------------------------
(* The inductive invariant of the bootstrap: the memory map is the one     *)
(* reported, the early mapping has no holes up to where it stopped, the    *)
(* loop that unmaps it stays behind the kernel, and each window is mapped  *)
(* up to the page its loop has reached.                                    *)
THEOREM BootInvariant == Spec => []BootInv
  <1> QED
    BY InitBoot, NextBoot, PTL DEF Spec

(* On every machine, mm_page_bootstrap frees only frames that are RAM and  *)
(* belong neither to the kernel image nor to a device window, and that are *)
(* no longer mapped.                                                       *)
THEOREM OnlySpareFreed == Spec => []FreedOnlySpare
  <1>1. BootInv => FreedOnlySpare
    BY DEF BootInv
  <1> QED
    BY <1>1, BootInvariant, PTL

(* From the switch to the early mapping on, kernel image and configuration *)
(* space are mapped, although the early mapping may stop anywhere.         *)
THEOREM KernelAlwaysMapped == Spec => []KernelStaysMapped
  <1>1. BootInv => KernelStaysMapped
    BY DEF BootInv
  <1> QED
    BY <1>1, BootInvariant, PTL

(* When the bootstrap is done, frame buffer, configuration space and stack *)
(* are mapped to the last byte, and the guard pages are not: an overlong   *)
(* frame buffer and a missing stack page end in a panic instead.           *)
THEOREM WindowsAlwaysMapped == Spec => []WindowsMapped
  <1> QED
    BY WindowsFollow, BootInvariant, PTL
=============================================================================

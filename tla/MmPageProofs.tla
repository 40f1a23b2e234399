---------------------------- MODULE MmPageProofs ----------------------------
(***************************************************************************)
(* Paging for every fan-out, every number of huge pages, every choice of   *)
(* those kept and freed, every set of client pages and any number of held  *)
(* frames.                                                                 *)
(*                                                                         *)
(* The invariant gives every frame a role: lev is its level as a table, 0  *)
(* behind a client page, or negative off the tree; pt and pi are the table *)
(* and the index of the one entry that leads to it; rank is its place in   *)
(* the free list, and q the list itself.  Roles are not in memory, they    *)
(* are quantified in PageInv: memory has to agree with them, downwards     *)
(* (every entry leads to the frame whose parent it is) and upwards (every  *)
(* table and every mapped frame has its entry).                            *)
(***************************************************************************)
EXTENDS MmPage, WellFoundedInduction, FiniteSetTheorems, TLAPS

(* A product grows by a factor for each step of the other.                 *)
LEMMA MulStep ==
    ASSUME NEW w \in Nat, NEW i \in Nat, NEW j \in Nat, i < j
    PROVE  w * i + w <= w * j /\ w * i \in Nat /\ w * j \in Nat
  <1>1. PICK d \in Nat : j = i + 1 + d
    <2>1. j - i - 1 \in Nat /\ j = i + 1 + (j - i - 1)
      OBVIOUS
    <2> QED
      BY <2>1
  <1>2. w * j = w * i + w + w * d
    BY <1>1
  <1>3. w * d \in Nat /\ w * i \in Nat /\ w * j \in Nat
    OBVIOUS
  <1> QED
    BY <1>2, <1>3

(* Quotient and remainder.                                                 *)
LEMMA DivMod ==
    ASSUME NEW a \in Nat, NEW w \in Nat, w > 0
    PROVE  a \div w \in Nat /\ a % w \in 0 .. w - 1 /\ a = w * (a \div w) + (a % w)
  OBVIOUS

(* There is only one quotient and one remainder.                           *)
LEMMA DivUnique ==
    ASSUME NEW w \in Nat, w > 0, NEW q \in Nat, NEW r \in 0 .. w - 1
    PROVE  (q * w + r) \div w = q /\ (q * w + r) % w = r
  <1> DEFINE a == q * w + r
  <1>1. a \in Nat /\ q * w = w * q
    OBVIOUS
  <1>2. a \div w \in Nat /\ a % w \in 0 .. w - 1 /\ a = w * (a \div w) + (a % w)
    BY <1>1, DivMod
  <1> DEFINE p == a \div w
             s == a % w
  <1>3. p \in Nat /\ s \in 0 .. w - 1 /\ w * q + r = w * p + s
    BY <1>1, <1>2
  <1> HIDE DEF p, s
  <1>4. ~(p < q)
    <2>1. p < q => w * p + w <= w * q /\ w * p \in Nat /\ w * q \in Nat
      BY <1>3, MulStep
    <2> QED
      BY <1>3, <2>1
  <1>5. ~(q < p)
    <2>1. q < p => w * q + w <= w * p /\ w * p \in Nat /\ w * q \in Nat
      BY <1>3, MulStep
    <2> QED
      BY <1>3, <2>1
  <1>6. p = q
    BY <1>3, <1>4, <1>5
  <1>7. s = r
    BY <1>3, <1>6
  <1> QED
    BY <1>6, <1>7 DEF p, s

(* A byte in front of the first n pages lies in one of them.               *)
LEMMA PageBelow ==
    ASSUME NEW w \in Nat \ {0}, NEW n0 \in Nat, NEW d \in Nat, d < n0 * w
    PROVE  d \div w \in 0 .. n0 - 1
  <1> DEFINE q == d \div w
  <1>1. q \in Nat /\ d % w \in 0 .. w - 1 /\ d = w * q + (d % w)
    BY DivMod
  <1> HIDE DEF q
  <1>2. ~(n0 < q)
    <2>1. n0 < q => w * n0 + w <= w * q /\ w * n0 \in Nat /\ w * q \in Nat
      BY <1>1, MulStep
    <2> QED
      BY <1>1, <2>1
  <1>3. n0 # q
    BY <1>1
  <1> QED
    BY <1>1, <1>2, <1>3 DEF q

(* Every set of natural numbers that is not empty has a least element.     *)
LEMMA LeastNat ==
    ASSUME NEW T, T \subseteq Nat, T # {}
    PROVE  \E x \in T : \A y \in T : x <= y
  <1> DEFINE R == OpToRel(<, Nat)
  <1>1. IsWellFoundedOn(R, Nat)
    BY NatLessThanWellFounded
  <1>2. R = {ss \in Nat \X Nat : ss[1] < ss[2]}
    BY DEF OpToRel
  <1>3. \A x, y \in Nat : x < y => <<x, y>> \in R
    BY <1>2
  <1> HIDE DEF R
  <1>4. PICK x \in T : \A y \in T : ~(<<y, x>> \in R)
    BY <1>1, WFMin
  <1>5. ASSUME NEW y \in T PROVE x <= y
    <2>1. x \in Nat /\ y \in Nat
      OBVIOUS
    <2>2. ~(y < x)
      BY <1>3, <1>4, <2>1
    <2> QED
      BY <2>1, <2>2
  <1> QED
    BY <1>5

(* Induction, with the property given as the set of numbers that have it.  *)
LEMMA SetInduction ==
    ASSUME NEW S, 0 \in S, \A n \in Nat : n \in S => n + 1 \in S
    PROVE  \A n \in Nat : n \in S
  <1> DEFINE T == {n \in Nat : n \notin S}
  <1> SUFFICES ASSUME T # {} PROVE FALSE
    OBVIOUS
  <1>1. PICK x \in T : \A y \in T : x <= y
    BY LeastNat
  <1>2. x \in Nat /\ x # 0 /\ x \notin S
    BY <1>1
  <1>3. x - 1 \in Nat /\ x - 1 \notin T
    BY <1>1, <1>2
  <1>4. (x - 1) + 1 \in S
    BY <1>3
  <1>5. (x - 1) + 1 = x
    BY <1>2
  <1> QED
    BY <1>2, <1>4, <1>5
-----------------------------------------------------------------------------
(* The parameters, as numbers.                                             *)
LEMMA ParamFacts ==
    /\ FAN \in Nat /\ FAN > 1 /\ HUGES \in Nat /\ HUGES >= 1 /\ HUGES <= FAN * FAN
    /\ 0 \in Idx /\ FAN - 1 \in Idx /\ 0 # FAN - 1 /\ Idx \subseteq Nat
    /\ KeptHuges \subseteq 1 .. HUGES - 1
    /\ FreedHuges \subseteq 1 .. HUGES - 1
    /\ KeptHuges \cap FreedHuges = {}
    /\ WIN \notin VAs
  BY PageAssumption DEF Idx, WIN

(* The quotient of a huge page's number, the index of its early table.     *)
LEMMA HugeTable ==
    ASSUME NEW p \in 0 .. HUGES - 1
    PROVE  /\ p \div FAN \in Idx /\ p % FAN \in Idx
           /\ p = (p \div FAN) * FAN + (p % FAN)
           /\ p \div FAN <= (HUGES - 1) \div FAN
  <1>1. p \in Nat /\ p < FAN * FAN /\ HUGES - 1 \in Nat
    BY ParamFacts
  <1>2. p \div FAN \in Nat /\ p % FAN \in 0 .. FAN - 1 /\ p = FAN * (p \div FAN) + (p % FAN)
    BY <1>1, ParamFacts, DivMod
  <1>3. p \div FAN \in 0 .. FAN - 1
    <2>1. FAN \in Nat \ {0}
      BY ParamFacts
    <2> QED
      BY <1>1, <2>1, PageBelow
  <1>4. p \div FAN <= (HUGES - 1) \div FAN
    <2> DEFINE a == p \div FAN
               h == HUGES - 1
               b == h \div FAN
    <2>1. b \in Nat /\ h % FAN \in 0 .. FAN - 1 /\ h = FAN * b + (h % FAN)
      BY <1>1, ParamFacts, DivMod
    <2>2. a \in Nat /\ h \in Nat /\ p <= h
      BY <1>1, <1>2
    <2> HIDE DEF a, b, h
    <2>3. b < a => FAN * b + FAN <= FAN * a /\ FAN * b \in Nat /\ FAN * a \in Nat
      BY <2>1, <2>2, MulStep, ParamFacts
    <2>4. ~(b < a)
      BY <2>1, <2>2, <2>3, <1>2, ParamFacts DEF a
    <2> QED
      BY <2>1, <2>2, <2>4 DEF a, b, h
  <1> QED
    BY <1>2, <1>3, <1>4, ParamFacts DEF Idx

(* The frames: NULL is none of them, the kernel's tables differ, and RAM,  *)
(* the early tables and the kernel's tables do not overlap.                *)
LEMMA FrameFacts ==
    /\ DT1 \in Nat /\ Frames \subseteq 1 .. DT1 /\ NULL \notin Frames
    /\ ROOT \in Frames /\ EARLY3 \in Frames /\ DT3 \in Frames /\ DT2 \in Frames /\ DT1 \in Frames
    /\ ROOT # EARLY3 /\ ROOT # DT3 /\ ROOT # DT2 /\ ROOT # DT1 /\ EARLY3 # DT3
    /\ EARLY3 # DT2 /\ EARLY3 # DT1 /\ DT3 # DT2 /\ DT3 # DT1 /\ DT2 # DT1
    /\ Ram \cap Early = {} /\ Ram \cap Kernel = {} /\ Early \cap Kernel = {}
    /\ Kernel = {ROOT, EARLY3, DT3, DT2, DT1}
    /\ Frames = Ram \cup Early \cup Kernel
    /\ \A k \in Idx : EARLY2(k) \notin Kernel
    /\ \A k, l \in Idx : EARLY2(k) = EARLY2(l) => k = l
    /\ \A f \in Early : \E k \in Idx : f = EARLY2(k)
  <1>1. HUGES * FAN \in Nat /\ HUGES * FAN > 0
    BY ParamFacts
  <1>2. (HUGES - 1) \div FAN \in 0 .. FAN - 1
    <2>1. HUGES - 1 \in 0 .. HUGES - 1
      BY ParamFacts
    <2> QED
      BY <2>1, HugeTable DEF Idx
  <1> DEFINE R == HUGES * FAN
             D == (HUGES - 1) \div FAN
  <1>3. R \in Nat /\ R > 0 /\ D \in 0 .. FAN - 1 /\ FAN \in Nat /\ FAN > 1
    BY <1>1, <1>2, ParamFacts
  <1>4. /\ ROOT = R /\ Ram = FAN .. R - 1 /\ Early = {R + 2 + k : k \in 0 .. D}
        /\ EARLY3 = R + 1 /\ DT3 = R + 2 + FAN /\ DT2 = R + 3 + FAN /\ DT1 = R + 4 + FAN
        /\ \A k \in Idx : EARLY2(k) = R + 2 + k
    BY <1>3 DEF ROOT, Ram, Early, EARLY2, EARLY3, DT3, DT2, DT1, Idx
  <1> HIDE DEF R, D
  <1>5. Idx = 0 .. FAN - 1 /\ NULL = 0 /\ Kernel = {ROOT, EARLY3, DT3, DT2, DT1}
        /\ Frames = Ram \cup Early \cup Kernel
    BY DEF Idx, NULL, Kernel, Frames
  <1>6. \A f \in Ram : f \in 1 .. R - 1
    BY <1>3, <1>4
  <1>7. \A f \in Early : f \in R + 2 .. R + 1 + FAN /\ \E k \in Idx : f = R + 2 + k
    <2> SUFFICES ASSUME NEW k \in 0 .. D
                 PROVE  R + 2 + k \in R + 2 .. R + 1 + FAN /\ k \in Idx
      BY <1>4
    <2> QED
      BY <1>3, <1>5
  <1>8. /\ DT1 \in Nat /\ Frames \subseteq 1 .. DT1 /\ NULL \notin Frames
        /\ ROOT # EARLY3 /\ ROOT # DT3 /\ ROOT # DT2 /\ ROOT # DT1 /\ EARLY3 # DT3
        /\ EARLY3 # DT2 /\ EARLY3 # DT1 /\ DT3 # DT2 /\ DT3 # DT1 /\ DT2 # DT1
    <2>1. \A f \in Early \cup Ram \cup Kernel : f \in 1 .. DT1
      BY <1>3, <1>4, <1>5, <1>6, <1>7
    <2> QED
      BY <1>3, <1>4, <1>5, <2>1
  <1>9. Ram \cap Early = {} /\ Ram \cap Kernel = {} /\ Early \cap Kernel = {}
    BY <1>3, <1>4, <1>5, <1>6, <1>7
  <1>10. /\ \A k \in Idx : EARLY2(k) \notin Kernel
         /\ \A k, l \in Idx : EARLY2(k) = EARLY2(l) => k = l
         /\ \A f \in Early : \E k \in Idx : f = EARLY2(k)
    <2>1. ASSUME NEW k \in Idx PROVE EARLY2(k) \notin Kernel
      <3>1. EARLY2(k) = R + 2 + k /\ k \in 0 .. FAN - 1
        BY <1>4, <1>5
      <3> QED
        BY <1>3, <1>4, <1>5, <3>1
    <2>2. ASSUME NEW k \in Idx, NEW l \in Idx, EARLY2(k) = EARLY2(l) PROVE k = l
      <3>1. EARLY2(k) = R + 2 + k /\ k \in 0 .. FAN - 1 /\ EARLY2(l) = R + 2 + l /\ l \in 0 .. FAN - 1
        BY <1>4, <1>5
      <3>2. R + 2 + k = R + 2 + l
        BY <2>2, <3>1
      <3> QED
        BY <1>3, <3>1, <3>2
    <2>3. ASSUME NEW f \in Early PROVE \E k \in Idx : f = EARLY2(k)
      BY <1>4, <1>7
    <2> QED
      BY <2>1, <2>2, <2>3
  <1> QED
    BY <1>5, <1>8, <1>9, <1>10

(* The frames of a huge page behind the kernel, and its early table.       *)
LEMMA HugeFrames ==
    ASSUME NEW p \in 0 .. HUGES - 1
    PROVE  /\ EARLY2(p \div FAN) \in Early /\ EARLY2(p \div FAN) \in Frames
           /\ p * FAN \in 0 .. DT1
           /\ p > 0 => \A j \in Idx : p * FAN + j \in Ram /\ (p * FAN + j) \div FAN = p
  <1>1. p \div FAN \in Idx /\ p \div FAN <= (HUGES - 1) \div FAN
    BY HugeTable
  <1>2. EARLY2(p \div FAN) \in Early
    <2>1. HUGES - 1 \in 0 .. HUGES - 1
      BY ParamFacts
    <2>2. (HUGES - 1) \div FAN \in Idx
      BY <2>1, HugeTable
    <2>3. p \div FAN \in 0 .. (HUGES - 1) \div FAN
      BY <1>1, <2>2 DEF Idx
    <2> QED
      BY <2>3 DEF Early
  <1>3. FAN * p + FAN <= FAN * HUGES /\ FAN * p \in Nat /\ FAN * HUGES \in Nat
    BY ParamFacts, MulStep
  <1>4. p * FAN \in Nat /\ p * FAN + FAN <= HUGES * FAN /\ HUGES * FAN \in Nat
    <2>1. FAN * p = p * FAN /\ FAN * HUGES = HUGES * FAN
      BY ParamFacts
    <2> QED
      BY <1>3, <2>1
  <1>5. p * FAN \in 0 .. DT1
    <2>1. DT1 = HUGES * FAN + 4 + FAN
      BY <1>4, ParamFacts DEF DT1, DT3, EARLY2, ROOT
    <2> DEFINE a == p * FAN
               b == HUGES * FAN
    <2>2. a \in Nat /\ a + FAN <= b /\ b \in Nat /\ DT1 = b + 4 + FAN /\ FAN \in Nat
      BY <1>4, <2>1, ParamFacts
    <2> HIDE DEF a, b
    <2>3. a \in 0 .. DT1
      BY <2>2
    <2> QED
      BY <2>3 DEF a
  <1>6. ASSUME p > 0, NEW j \in Idx
        PROVE  p * FAN + j \in Ram /\ (p * FAN + j) \div FAN = p
    <2>1. FAN * 0 + FAN <= FAN * p
      BY <1>6, ParamFacts, MulStep
    <2>2. FAN * 0 = 0 /\ FAN * p = p * FAN
      BY ParamFacts
    <2>3. p * FAN >= FAN /\ j \in 0 .. FAN - 1
      BY <2>1, <2>2, ParamFacts DEF Idx
    <2> DEFINE a == p * FAN
               b == HUGES * FAN
    <2>4. a \in Nat /\ a + FAN <= b /\ b \in Nat /\ a >= FAN /\ j \in 0 .. FAN - 1 /\ FAN \in Nat
      BY <1>4, <2>3, ParamFacts
    <2> HIDE DEF a, b
    <2>5. a + j \in FAN .. b - 1
      BY <2>4
    <2>6. p * FAN + j \in Ram
      BY <2>5 DEF a, b, Ram
    <2>7. (p * FAN + j) \div FAN = p
      BY <2>3, ParamFacts, DivUnique
    <2> QED
      BY <2>6, <2>7
  <1> QED
    BY <1>2, <1>5, <1>6, FrameFacts

(* The huge page of a frame of RAM.                                        *)
LEMMA RamHuge ==
    ASSUME NEW f \in Ram
    PROVE  /\ f \div FAN \in 1 .. HUGES - 1 /\ f % FAN \in Idx
           /\ f = (f \div FAN) * FAN + (f % FAN)
  <1> DEFINE b == HUGES * FAN
             d == f \div FAN
             r == f % FAN
  <1>1. b \in Nat /\ f \in FAN .. b - 1 /\ FAN \in Nat \ {0} /\ f \in Nat /\ f < HUGES * FAN
    BY ParamFacts DEF Ram
  <1>2. d \in Nat /\ r \in 0 .. FAN - 1 /\ f = FAN * d + r
    BY <1>1, DivMod
  <1>3. d \in 0 .. HUGES - 1
    BY <1>1, ParamFacts, PageBelow
  <1> HIDE DEF d, r, b
  <1>4. d # 0
    <2>1. d = 0 => FAN * d = 0
      BY <1>1
    <2> QED
      BY <1>1, <1>2, <2>1
  <1> QED
    BY <1>1, <1>2, <1>3, <1>4 DEF d, r, Idx

(* The number of a huge page, from its table and its index there.          *)
LEMMA HugeNumber ==
    ASSUME NEW k \in Idx, NEW i \in Idx
    PROVE  k * FAN + i \in Nat /\ (k * FAN + i) \div FAN = k /\ (k * FAN + i) % FAN = i
  <1>1. k \in Nat /\ i \in 0 .. FAN - 1 /\ FAN \in Nat /\ FAN > 0
    BY ParamFacts DEF Idx
  <1> QED
    BY <1>1, DivUnique

(* Words: what each kind of word is, and that the kinds differ.            *)
LEMMA WordFacts ==
    /\ Zero \in Word /\ ~Zero.present /\ ~Zero.huge /\ Zero.pa = NULL /\ Leads[Zero] = NULL
    /\ Data \in Word /\ ~Data.present
    /\ \A f \in 0 .. DT1 :
          /\ link(f) \in Word /\ ~link(f).present /\ link(f).pa = f
          /\ Leads[link(f)] = NULL
          /\ tab_entry(f) \in Word /\ tab_entry(f).present /\ ~tab_entry(f).huge /\ tab_entry(f).pa = f
          /\ huge_entry(f) \in Word /\ huge_entry(f).present /\ huge_entry(f).huge /\ huge_entry(f).pa = f
          /\ Leads[huge_entry(f)] = NULL
    /\ \A f \in Frames : Leads[tab_entry(f)] = f
    /\ \A w \in Word : Leads[w] \in Frames \cup {NULL} /\ w.pa \in 0 .. DT1 /\ w.present \in BOOLEAN
  <1>1. Zero \in Word /\ ~Zero.present /\ ~Zero.huge /\ Zero.pa = NULL
    BY FrameFacts DEF Word, Zero, NULL
  <1>2. ASSUME NEW f \in 0 .. DT1
        PROVE  /\ link(f) \in Word /\ ~link(f).present /\ link(f).pa = f
               /\ tab_entry(f) \in Word /\ tab_entry(f).present /\ ~tab_entry(f).huge /\ tab_entry(f).pa = f
               /\ huge_entry(f) \in Word /\ huge_entry(f).present /\ huge_entry(f).huge /\ huge_entry(f).pa = f
    BY DEF Word, Zero, link, tab_entry, huge_entry
  <1>3. Data \in Word /\ ~Data.present
    <2>1. 1 \in 0 .. DT1
      BY FrameFacts
    <2> QED
      BY <1>2, <2>1 DEF Data
  <1>4. \A w \in Word : Leads[w] = IF w.present /\ ~w.huge /\ w.pa \in Frames THEN w.pa ELSE NULL
    BY DEF Leads
  <1>5. \A w \in Word : Leads[w] \in Frames \cup {NULL} /\ w.pa \in 0 .. DT1 /\ w.present \in BOOLEAN
    <2>1. \A w \in Word : w.pa \in 0 .. DT1 /\ w.present \in BOOLEAN
      BY DEF Word
    <2> QED
      BY <1>4, <2>1
  <1>6. \A f \in Frames : Leads[tab_entry(f)] = f
    <2>1. Frames \subseteq 0 .. DT1
      BY FrameFacts
    <2> QED
      BY <1>2, <1>4, <2>1
  <1> QED
    BY <1>1, <1>2, <1>3, <1>4, <1>5, <1>6
-----------------------------------------------------------------------------
(***************************************************************************)
(* The inductive invariant gives every frame a role, as a ghost: its level *)
(* in the tree of tables (4 for the root, 0 for the frame behind a client  *)
(* page), or one of the following.                                         *)
(***************************************************************************)
FREE == -1      \* on the free list
HELD == -2      \* allocated by a client and not mapped
SPARE == -3     \* call.frame
OUT == -4       \* not given to mm_frame_free yet

(* The ghosts: lev the role, pt and pi the table and the index of the one  *)
(* entry that leads to a frame of the tree, q the free list from its end,  *)
(* rank the place of a frame in it.                                        *)
Ghosts(lev, pt, pi, rank, q) ==
    /\ lev \in [Frames -> -4 .. 4] /\ pt \in [Frames -> Frames] /\ pi \in [Frames -> Idx]
    /\ rank \in [Frames -> Nat] /\ q \in [Nat -> 0 .. DT1]

Memory == [Frames \cup {NULL} -> [Idx -> Word]]

(* The walk of va passes t.                                                *)
On(lev, pt, pi, t, va) ==
    \/ lev[t] = 4
    \/ lev[t] = 3 /\ pi[t] = va[1]
    \/ lev[t] = 2 /\ pi[t] = va[2] /\ pi[pt[t]] = va[1]
    \/ lev[t] = 1 /\ pi[t] = va[3] /\ pi[pt[t]] = va[2] /\ pi[pt[pt[t]]] = va[1]
    \/ /\ lev[t] = 0 /\ pi[t] = va[4] /\ pi[pt[t]] = va[3] /\ pi[pt[pt[t]]] = va[2]
       /\ pi[pt[pt[pt[t]]]] = va[1]

(* Every entry of a table is zero, leads to a frame one level down, or is  *)
(* a huge page of the identity mapping.                                    *)
Entry(w, t, i, lev, pt, pi) ==
    \/ w = Zero
    \/ /\ w.pa \in Frames /\ w = tab_entry(w.pa)
       /\ lev[w.pa] = lev[t] - 1 /\ pt[w.pa] = t /\ pi[w.pa] = i
    \/ w.present /\ w.huge /\ lev[t] = 2 /\ pt[t] = EARLY3
Down(m, lev, pt, pi) ==
    /\ \A t \in Frames, i \in Idx : lev[t] \in 1 .. 4 => Entry(m[t][i], t, i, lev, pt, pi)
    /\ \A i \in Idx : m[NULL][i] = Zero

(* Every frame of the tree but the root has its entry.                     *)
Up(m, lev, pt, pi) ==
    \A f \in Frames : lev[f] \in 0 .. 3 =>
        lev[pt[f]] = lev[f] + 1 /\ m[pt[f]][pi[f]] = tab_entry(f)

(* The kernel's own tables, and how client pages lie beside them.          *)
Frame0(lev, pt, pi) ==
    /\ \A f \in Frames : lev[f] = 4 <=> f = ROOT
    /\ lev[EARLY3] = 3 /\ lev[DT3] = 3
    /\ pi[EARLY3] = 0 /\ pi[DT3] = FAN - 1
    /\ lev[DT2] = 2 /\ pt[DT2] = DT3 /\ pi[DT2] = 0
    /\ lev[DT1] = 1 /\ pt[DT1] = DT2 /\ pi[DT1] = 0
    /\ \A f \in Frames : lev[f] = 1 => pt[pt[f]] # EARLY3
    /\ \A f \in Frames : lev[f] = 0 => \E va \in VAs : On(lev, pt, pi, f, va)

Tree(m, lev, pt, pi) == Down(m, lev, pt, pi) /\ Up(m, lev, pt, pi) /\ Frame0(lev, pt, pi)

(* The pages outside the identity mapping: the window, and the pages       *)
(* clients map.                                                            *)
High == (1 .. FAN - 1) \X Idx \X Idx \X Idx

(* The pages clients map, and the window, lie behind another entry of the  *)
(* root than the identity mapping.                                         *)
LEMMA HighFacts ==
    /\ VAs \subseteq High /\ WIN \in High
    /\ WIN[1] = FAN - 1 /\ WIN[2] = 0 /\ WIN[3] = 0 /\ WIN[4] = 0
    /\ \A va \in High :
          /\ va[1] # 0 /\ va[1] \in Idx /\ va[2] \in Idx /\ va[3] \in Idx /\ va[4] \in Idx
          /\ va = <<va[1], va[2], va[3], va[4]>>
  <1>1. VAs \subseteq High
    BY PageAssumption DEF Idx, High
  <1>2. WIN \in High
    BY ParamFacts DEF WIN, High, Idx
  <1>3. WIN[1] = FAN - 1 /\ WIN[2] = 0 /\ WIN[3] = 0 /\ WIN[4] = 0
    BY DEF WIN
  <1>4. ASSUME NEW va \in High
        PROVE  /\ va[1] # 0 /\ va[1] \in Idx /\ va[2] \in Idx /\ va[3] \in Idx /\ va[4] \in Idx
               /\ va = <<va[1], va[2], va[3], va[4]>>
    <2>1. \A n \in 1 .. FAN - 1 : n # 0 /\ n \in Idx
      BY ParamFacts DEF Idx
    <2> QED
      BY <2>1 DEF High
  <1> QED
    BY <1>1, <1>2, <1>3, <1>4

(* One step down the walk of va.                                           *)
LEMMA OnDown ==
    ASSUME NEW m \in Memory, NEW lev, NEW pt, NEW pi, NEW rank, NEW q,
           Ghosts(lev, pt, pi, rank, q), Tree(m, lev, pt, pi),
           NEW va, NEW t \in Frames, NEW i \in Idx,
           \/ lev[t] = 4 /\ i = va[1]
           \/ lev[t] = 3 /\ i = va[2]
           \/ lev[t] = 2 /\ i = va[3]
           \/ lev[t] = 1 /\ i = va[4],
           On(lev, pt, pi, t, va), NEW g \in Frames, m[t][i] = tab_entry(g)
    PROVE  lev[g] = lev[t] - 1 /\ pt[g] = t /\ pi[g] = i /\ On(lev, pt, pi, g, va)
  <1>1. lev[t] \in 1 .. 4 /\ g \in 0 .. DT1
    BY FrameFacts
  <1>2. Entry(m[t][i], t, i, lev, pt, pi)
    BY <1>1 DEF Tree, Down
  <1>3. tab_entry(g) # Zero /\ tab_entry(g).pa = g /\ ~tab_entry(g).huge
    BY <1>1, WordFacts
  <1>4. lev[g] = lev[t] - 1 /\ pt[g] = t /\ pi[g] = i
    BY <1>2, <1>3 DEF Entry
  <1>5. On(lev, pt, pi, g, va)
    <2>1. CASE lev[t] = 4
      BY <1>4, <2>1 DEF On
    <2>2. CASE lev[t] = 3
      BY <1>4, <2>2 DEF On
    <2>3. CASE lev[t] = 2
      BY <1>4, <2>3 DEF On
    <2>4. CASE lev[t] = 1
      BY <1>4, <2>4 DEF On
    <2> QED
      BY <2>1, <2>2, <2>3, <2>4
  <1> QED
    BY <1>4, <1>5

(* One step up.                                                            *)
LEMMA OnUp ==
    ASSUME NEW m, NEW lev, NEW pt, NEW pi, NEW rank, NEW q,
           Ghosts(lev, pt, pi, rank, q), Tree(m, lev, pt, pi),
           NEW va, NEW g \in Frames, lev[g] \in 0 .. 3, On(lev, pt, pi, g, va)
    PROVE  pt[g] \in Frames /\ lev[pt[g]] = lev[g] + 1 /\ On(lev, pt, pi, pt[g], va)
  <1>1. pt[g] \in Frames /\ lev[pt[g]] = lev[g] + 1
    BY DEF Ghosts, Tree, Up
  <1>2. CASE lev[g] = 0
    BY <1>1, <1>2 DEF On
  <1>3. CASE lev[g] = 1
    BY <1>1, <1>3 DEF On
  <1>4. CASE lev[g] = 2
    BY <1>1, <1>4 DEF On
  <1>5. CASE lev[g] = 3
    BY <1>1, <1>5 DEF On
  <1> QED
    BY <1>1, <1>2, <1>3, <1>4, <1>5

(* At every level the walk of va passes one frame only.                    *)
LEMMA OnOne ==
    ASSUME NEW m \in Memory, NEW lev, NEW pt, NEW pi, NEW rank, NEW q,
           Ghosts(lev, pt, pi, rank, q), Tree(m, lev, pt, pi),
           NEW va, NEW f \in Frames, NEW g \in Frames, lev[f] \in 0 .. 4, lev[f] = lev[g],
           On(lev, pt, pi, f, va), On(lev, pt, pi, g, va)
    PROVE  f = g
  <1>1. \A h \in Frames : lev[h] = 4 => h = ROOT
    BY DEF Tree, Frame0
  <1>2. \A h \in Frames : lev[h] \in 0 .. 3 =>
           pt[h] \in Frames /\ lev[pt[h]] = lev[h] + 1 /\ m[pt[h]][pi[h]] = tab_entry(h)
    BY DEF Ghosts, Tree, Up
  <1>3. \A h, k \in Frames : tab_entry(h) = tab_entry(k) => h = k
    <2>1. \A h \in Frames : tab_entry(h).pa = h
      BY WordFacts, FrameFacts
    <2> QED
      BY <2>1
  <1>4. ASSUME NEW h \in Frames, NEW k \in Frames, lev[h] = lev[k], lev[h] \in 0 .. 3,
               pt[h] = pt[k], pi[h] = pi[k]
        PROVE  h = k
    BY <1>2, <1>3, <1>4
  <1>5. ASSUME NEW h \in Frames, NEW k \in Frames, lev[h] = 3, lev[k] = 3, pi[h] = pi[k]
        PROVE  h = k
    <2>1. pt[h] = ROOT /\ pt[k] = ROOT
      BY <1>1, <1>2, <1>5
    <2> QED
      BY <1>4, <1>5, <2>1
  <1>6. ASSUME NEW h \in Frames, NEW k \in Frames, lev[h] = 2, lev[k] = 2, pi[h] = pi[k],
               pi[pt[h]] = pi[pt[k]]
        PROVE  h = k
    <2>1. pt[h] \in Frames /\ pt[k] \in Frames /\ lev[pt[h]] = 3 /\ lev[pt[k]] = 3
      BY <1>2, <1>6
    <2>2. pt[h] = pt[k]
      BY <1>5, <1>6, <2>1
    <2> QED
      BY <1>4, <1>6, <2>2
  <1>7. ASSUME NEW h \in Frames, NEW k \in Frames, lev[h] = 1, lev[k] = 1, pi[h] = pi[k],
               pi[pt[h]] = pi[pt[k]], pi[pt[pt[h]]] = pi[pt[pt[k]]]
        PROVE  h = k
    <2>1. pt[h] \in Frames /\ pt[k] \in Frames /\ lev[pt[h]] = 2 /\ lev[pt[k]] = 2
      BY <1>2, <1>7
    <2>2. pt[h] = pt[k]
      BY <1>6, <1>7, <2>1
    <2> QED
      BY <1>4, <1>7, <2>2
  <1>8. CASE lev[f] = 4
    BY <1>1, <1>8
  <1>9. CASE lev[f] = 3
    <2>1. lev[g] = 3
      BY <1>9
    <2> QED
      BY <1>5, <1>9, <2>1 DEF On
  <1>10. CASE lev[f] = 2
    <2>1. lev[g] = 2
      BY <1>10
    <2> QED
      BY <1>6, <1>10, <2>1 DEF On
  <1>11. CASE lev[f] = 1
    <2>1. lev[g] = 1
      BY <1>11
    <2> QED
      BY <1>7, <1>11, <2>1 DEF On
  <1>12. CASE lev[f] = 0
    <2>0. lev[g] = 0
      BY <1>12
    <2>1. pt[f] \in Frames /\ pt[g] \in Frames /\ lev[pt[f]] = 1 /\ lev[pt[g]] = 1
      BY <1>2, <1>12, <2>0
    <2>2. /\ pi[f] = pi[g] /\ pi[pt[f]] = pi[pt[g]]
          /\ pi[pt[pt[f]]] = pi[pt[pt[g]]] /\ pi[pt[pt[pt[f]]]] = pi[pt[pt[pt[g]]]]
      BY <1>12, <2>0 DEF On
    <2>3. pt[f] = pt[g]
      BY <1>7, <2>1, <2>2
    <2> QED
      BY <1>4, <1>12, <2>0, <2>2, <2>3
  <1> QED
    BY <1>8, <1>9, <1>10, <1>11, <1>12

(* An entry of a table that is not an early one: zero, or the only way to  *)
(* a frame one level down.                                                 *)
LEMMA EntryDown ==
    ASSUME NEW m \in Memory, NEW lev, NEW pt, NEW pi, Tree(m, lev, pt, pi),
           NEW t \in Frames, NEW i \in Idx, lev[t] \in 1 .. 4, ~(lev[t] = 2 /\ pt[t] = EARLY3)
    PROVE  m[t][i] = Zero \/ \E g \in Frames : m[t][i] = tab_entry(g)
  BY DEF Tree, Down, Entry

(* Path and Translate, of a memory m.                                      *)
PathIn(m, va) ==
    LET t3 == Leads[m[ROOT][va[1]]]
        t2 == Leads[m[t3][va[2]]]
    IN  <<Leads[m[t2][va[3]]], t2, t3, ROOT>>
TranslateIn(m, va) ==
    LET p  == PathIn(m, va)
        w1 == m[p[1]][idx(va, 1)]
        w2 == m[p[2]][idx(va, 2)]
    IN  IF w1.present THEN w1.pa
        ELSE IF w2.present /\ w2.huge THEN w2.pa + idx(va, 1)
        ELSE NULL

(* The walk of the model, in the memory m of the lemmas.                   *)
LEMMA PathIsIn == \A va : Path(va) = PathIn(mem, va) /\ Translate(va) = TranslateIn(mem, va)
  BY DEF Path, PathIn, Translate, TranslateIn

(* The indices of a walk.                                                  *)
LEMMA IdxFacts == \A va : idx(va, 1) = va[4] /\ idx(va, 2) = va[3] /\ idx(va, 3) = va[2] /\ idx(va, 4) = va[1]
  BY DEF idx, Highest

(* What an entry of a walk leads to is the next table on it, or nothing.   *)
LEMMA WalkDown ==
    ASSUME NEW m \in Memory, NEW lev, NEW pt, NEW pi, NEW rank, NEW q,
           Ghosts(lev, pt, pi, rank, q), Tree(m, lev, pt, pi), NEW va, NEW t \in Frames \cup {NULL},
           NEW i \in Idx, NEW l \in 2 .. 4,
           \/ l = 4 /\ i = va[1]
           \/ l = 3 /\ i = va[2]
           \/ l = 2 /\ i = va[3],
           t # NULL => lev[t] = l /\ On(lev, pt, pi, t, va) /\ ~(l = 2 /\ pt[t] = EARLY3),
           NEW c, c = Leads[m[t][i]]
    PROVE  /\ c # NULL => c \in Frames /\ lev[c] = l - 1 /\ On(lev, pt, pi, c, va)
           /\ \A f \in Frames :
                 t # NULL /\ lev[f] = l - 1 /\ pt[f] = t /\ pi[f] = i => c = f
  <1>1. CASE t = NULL
    <2>1. m[t][i] = Zero
      BY <1>1 DEF Tree, Down
    <2> QED
      BY <1>1, <2>1, WordFacts
  <1>2. CASE t # NULL
    <2>0. t \in Frames /\ lev[t] = l /\ On(lev, pt, pi, t, va)
      BY <1>2
    <2>1. m[t][i] = Zero \/ \E g \in Frames : m[t][i] = tab_entry(g)
      BY <1>2, <2>0, EntryDown
    <2>2. m[t][i] = Zero => c = NULL
      BY WordFacts
    <2>3. ASSUME NEW g \in Frames, m[t][i] = tab_entry(g)
          PROVE  c = g /\ lev[g] = l - 1 /\ On(lev, pt, pi, g, va)
      <3>1. c = g
        BY <2>3, WordFacts
      <3>2. lev[g] = lev[t] - 1 /\ On(lev, pt, pi, g, va)
        BY <2>0, <2>3, OnDown
      <3> QED
        BY <2>0, <3>1, <3>2
    <2>4. ASSUME NEW f \in Frames, lev[f] = l - 1, pt[f] = t, pi[f] = i PROVE c = f
      <3>1. m[t][i] = tab_entry(f)
        BY <2>4 DEF Tree, Up
      <3> QED
        BY <2>3, <3>1
    <2> QED
      BY <2>1, <2>2, <2>3, <2>4
  <1> QED
    BY <1>1, <1>2

(* A walk passes the tables that lie on its way, and no others.            *)
LEMMA WalkTables ==
    ASSUME NEW m \in Memory, NEW lev, NEW pt, NEW pi, NEW rank, NEW q,
           Ghosts(lev, pt, pi, rank, q), Tree(m, lev, pt, pi), NEW va \in High
    PROVE  /\ PathIn(m, va)[4] = ROOT
           /\ \A l \in 1 .. 3 : PathIn(m, va)[l] # NULL =>
                 /\ PathIn(m, va)[l] \in Frames /\ lev[PathIn(m, va)[l]] = l
                 /\ On(lev, pt, pi, PathIn(m, va)[l], va)
           /\ \A l \in 1 .. 3 : \A t \in Frames :
                 lev[t] = l /\ On(lev, pt, pi, t, va) => PathIn(m, va)[l] = t
  <1>1. va[1] # 0 /\ va[1] \in Idx /\ va[2] \in Idx /\ va[3] \in Idx /\ va[4] \in Idx
    BY HighFacts
  <1>2. lev[ROOT] = 4 /\ pi[EARLY3] = 0 /\ ROOT \in Frames /\ NULL \notin Frames
    BY FrameFacts DEF Tree, Frame0
  <1>3. On(lev, pt, pi, ROOT, va)
    BY <1>2 DEF On
  <1>4. PICK t3 : t3 = Leads[m[ROOT][va[1]]]
    OBVIOUS
  <1>5. PICK t2 : t2 = Leads[m[t3][va[2]]]
    OBVIOUS
  <1>6. PICK t1 : t1 = Leads[m[t2][va[3]]]
    OBVIOUS
  <1>7. PathIn(m, va) = <<t1, t2, t3, ROOT>>
    BY <1>4, <1>5, <1>6, Zenon DEF PathIn
  <1>8. /\ t3 # NULL => t3 \in Frames /\ lev[t3] = 3 /\ On(lev, pt, pi, t3, va)
        /\ \A f \in Frames : lev[f] = 3 /\ pt[f] = ROOT /\ pi[f] = va[1] => t3 = f
    BY <1>1, <1>2, <1>3, <1>4, WalkDown
  <1>9. ASSUME NEW t \in Frames, lev[t] = 3, On(lev, pt, pi, t, va) PROVE t3 = t
    <2>1. pt[t] \in Frames /\ lev[pt[t]] = 4 /\ pi[t] = va[1]
      BY <1>9, OnUp DEF On
    <2>2. pt[t] = ROOT
      BY <2>1 DEF Tree, Frame0
    <2> QED
      BY <1>8, <1>9, <2>1, <2>2
  <1>10. /\ t2 # NULL => t2 \in Frames /\ lev[t2] = 2 /\ On(lev, pt, pi, t2, va)
         /\ \A f \in Frames : t3 # NULL /\ lev[f] = 2 /\ pt[f] = t3 /\ pi[f] = va[2] => t2 = f
    <2>1. t3 \in Frames \cup {NULL}
      BY <1>8
    <2> QED
      BY <1>1, <1>5, <1>8, <2>1, WalkDown
  <1>11. ASSUME NEW t \in Frames, lev[t] = 2, On(lev, pt, pi, t, va) PROVE t2 = t
    <2>1. pt[t] \in Frames /\ lev[pt[t]] = 3 /\ On(lev, pt, pi, pt[t], va) /\ pi[t] = va[2]
      BY <1>11, OnUp DEF On
    <2>2. pt[t] = t3
      BY <1>9, <2>1
    <2> QED
      BY <1>2, <1>10, <1>11, <2>1, <2>2
  <1>12. t2 # NULL => pt[t2] # EARLY3
    BY <1>1, <1>2, <1>10 DEF On
  <1>13. /\ t1 # NULL => t1 \in Frames /\ lev[t1] = 1 /\ On(lev, pt, pi, t1, va)
         /\ \A f \in Frames : t2 # NULL /\ lev[f] = 1 /\ pt[f] = t2 /\ pi[f] = va[3] => t1 = f
    <2>1. t2 \in Frames \cup {NULL}
      BY <1>10
    <2> QED
      BY <1>1, <1>6, <1>10, <1>12, <2>1, WalkDown
  <1>14. ASSUME NEW t \in Frames, lev[t] = 1, On(lev, pt, pi, t, va) PROVE t1 = t
    <2>1. pt[t] \in Frames /\ lev[pt[t]] = 2 /\ On(lev, pt, pi, pt[t], va) /\ pi[t] = va[3]
      BY <1>14, OnUp DEF On
    <2>2. pt[t] = t2
      BY <1>11, <2>1
    <2> QED
      BY <1>2, <1>13, <1>14, <2>1, <2>2
  <1>15. /\ PathIn(m, va)[1] = t1 /\ PathIn(m, va)[2] = t2
         /\ PathIn(m, va)[3] = t3 /\ PathIn(m, va)[4] = ROOT
    BY <1>7
  <1>16. ASSUME NEW l \in 1 .. 3, PathIn(m, va)[l] # NULL
         PROVE  /\ PathIn(m, va)[l] \in Frames /\ lev[PathIn(m, va)[l]] = l
                /\ On(lev, pt, pi, PathIn(m, va)[l], va)
    <2>1. l = 1 \/ l = 2 \/ l = 3
      OBVIOUS
    <2> QED
      BY <1>8, <1>10, <1>13, <1>15, <1>16, <2>1
  <1>17. ASSUME NEW l \in 1 .. 3, NEW t \in Frames, lev[t] = l, On(lev, pt, pi, t, va)
         PROVE  PathIn(m, va)[l] = t
    <2>1. l = 1 \/ l = 2 \/ l = 3
      OBVIOUS
    <2> QED
      BY <1>9, <1>11, <1>14, <1>15, <1>17, <2>1
  <1> QED
    BY <1>15, <1>16, <1>17

(* Translate finds the frame at the end of the walk, if there is one.      *)
LEMMA WalkLeaf ==
    ASSUME NEW m \in Memory, NEW lev, NEW pt, NEW pi, NEW rank, NEW q,
           Ghosts(lev, pt, pi, rank, q), Tree(m, lev, pt, pi), NEW va \in High
    PROVE  /\ TranslateIn(m, va) # NULL =>
                 /\ TranslateIn(m, va) \in Frames /\ lev[TranslateIn(m, va)] = 0
                 /\ On(lev, pt, pi, TranslateIn(m, va), va)
           /\ \A g \in Frames : lev[g] = 0 /\ On(lev, pt, pi, g, va) => TranslateIn(m, va) = g
  <1> DEFINE p1 == PathIn(m, va)[1]
             p2 == PathIn(m, va)[2]
             w1 == m[p1][va[4]]
             w2 == m[p2][va[3]]
             tr == TranslateIn(m, va)
  <1>1. va[1] # 0 /\ va[1] \in Idx /\ va[2] \in Idx /\ va[3] \in Idx /\ va[4] \in Idx
    BY HighFacts
  <1>2. /\ p1 = NULL \/ (p1 \in Frames /\ lev[p1] = 1 /\ On(lev, pt, pi, p1, va))
        /\ p2 = NULL \/ (p2 \in Frames /\ lev[p2] = 2 /\ On(lev, pt, pi, p2, va))
        /\ \A t \in Frames : lev[t] = 1 /\ On(lev, pt, pi, t, va) => p1 = t
    BY WalkTables
  <1>3. tr = IF w1.present THEN w1.pa ELSE IF w2.present /\ w2.huge THEN w2.pa + va[4] ELSE NULL
    BY IdxFacts DEF TranslateIn
  <1> HIDE DEF p1, p2, tr
  <1>4. ~(w2.present /\ w2.huge)
    <2>1. CASE p2 = NULL
      <3>1. w2 = Zero
        BY <1>1, <2>1 DEF Tree, Down
      <3> QED
        BY <3>1, WordFacts
    <2>2. CASE p2 # NULL
      <3>1. pi[EARLY3] = 0 /\ pi[pt[p2]] = va[1] /\ p2 \in Frames /\ lev[p2] = 2
        BY <1>2, <2>2 DEF Tree, Frame0, On
      <3>4. pt[p2] # EARLY3
        BY <1>1, <3>1
      <3>2. w2 = Zero \/ \E g \in Frames : w2 = tab_entry(g)
        BY <1>1, <3>1, <3>4, EntryDown
      <3>3. \A g \in Frames : ~tab_entry(g).huge
        BY WordFacts, FrameFacts
      <3> QED
        BY <3>2, <3>3, WordFacts
    <2> QED
      BY <2>1, <2>2
  <1>5. tr = IF w1.present THEN w1.pa ELSE NULL
    BY <1>3, <1>4
  <1>6. ASSUME w1.present
        PROVE  w1.pa \in Frames /\ lev[w1.pa] = 0 /\ On(lev, pt, pi, w1.pa, va)
    <2>1. p1 # NULL
      <3>1. p1 = NULL => w1 = Zero
        BY <1>1 DEF Tree, Down
      <3> QED
        BY <1>6, <3>1, WordFacts
    <2>2. p1 \in Frames /\ lev[p1] = 1 /\ On(lev, pt, pi, p1, va)
      BY <1>2, <2>1
    <2>3. w1 = Zero \/ \E g \in Frames : w1 = tab_entry(g)
      BY <1>1, <2>2, EntryDown
    <2>4. PICK g \in Frames : w1 = tab_entry(g)
      BY <1>6, <2>3, WordFacts
    <2>5. w1.pa = g
      BY <2>4, WordFacts, FrameFacts
    <2>6. lev[g] = 0 /\ On(lev, pt, pi, g, va)
      BY <1>1, <2>2, <2>4, OnDown
    <2> QED
      BY <2>5, <2>6
  <1>7. ASSUME NEW g \in Frames, lev[g] = 0, On(lev, pt, pi, g, va) PROVE tr = g
    <2>1. pt[g] \in Frames /\ lev[pt[g]] = 1 /\ On(lev, pt, pi, pt[g], va) /\ pi[g] = va[4]
      BY <1>7, OnUp, SMTT(20) DEF On
    <2>2. w1 = tab_entry(g)
      BY <1>2, <1>7, <2>1 DEF Tree, Up
    <2> QED
      BY <1>5, <2>2, WordFacts, FrameFacts
  <1> QED
    BY <1>5, <1>6, <1>7 DEF tr
-----------------------------------------------------------------------------
(* The huge pages that are still mapped when mm_page_bootstrap has dealt   *)
(* with those below dn, the number of the page an early table maps, and    *)
(* its entry.                                                              *)
Left(dn) == {p \in 0 .. HUGES - 1 : p = 0 \/ p >= dn \/ p \in KeptHuges}
HugeNo(k, i) == k * FAN + i
HugeWord(p) == huge_entry(p * FAN)

(* The early tables that are linked map just these pages, and those that   *)
(* map one are linked.                                                     *)
EarlyTabs(m, lev, pt, pi, dn) ==
    /\ \A t \in Frames : lev[t] = 2 /\ pt[t] = EARLY3 =>
          /\ t \in Early /\ t = EARLY2(pi[t])
          /\ \A i \in Idx : m[t][i] = IF HugeNo(pi[t], i) \in Left(dn)
                                       THEN HugeWord(HugeNo(pi[t], i)) ELSE Zero
    /\ \A p \in Left(dn) :
          /\ lev[EARLY2(p \div FAN)] = 2 /\ pt[EARLY2(p \div FAN)] = EARLY3
          /\ pi[EARLY2(p \div FAN)] = p \div FAN

(* The frames outside the tree.                                            *)
Roles(lev, hd, sp, dn) ==
    /\ \A f \in Frames : lev[f] = OUT <=> f \in Ram /\ (f \div FAN \notin FreedHuges \/ f \div FAN >= dn)
    /\ \A f \in Frames : lev[f] = HELD <=> f \in hd
    /\ \A f \in Frames : lev[f] = SPARE <=> f = sp

(* The free list has each free frame once, and its links.                  *)
List(m, lev, rank, q, head, count) ==
    /\ count \in Nat /\ q[0] = NULL /\ head = q[count]
    /\ \A n \in 1 .. count : /\ q[n] \in Frames /\ lev[q[n]] = FREE /\ rank[q[n]] = n
                             /\ m[q[n]][0] = link(q[n - 1])
    /\ \A f \in Frames : lev[f] = FREE => rank[f] \in 1 .. count /\ q[rank[f]] = f

(* A table is empty only when it belongs to the kernel or to a mapping     *)
(* that failed, or is cr.                                                  *)
Full(m, lev, pt, fl, cr) ==
    \A t \in Frames \ Kernel :
        lev[t] \in 1 .. 3 /\ t # cr /\ (~fl \/ pt[t] = EARLY3) => \E i \in Idx : m[t][i] # Zero

(* The entry of a huge page leads to no table.                             *)
LEMMA HugeWordFacts ==
    ASSUME NEW dn, NEW p \in Left(dn)
    PROVE  /\ HugeWord(p) \in Word /\ HugeWord(p) # Zero /\ HugeWord(p).present /\ HugeWord(p).huge
           /\ HugeWord(p).pa = p * FAN /\ Leads[HugeWord(p)] = NULL
           /\ p \in 0 .. HUGES - 1 /\ p \div FAN \in Idx /\ p % FAN \in Idx
           /\ HugeNo(p \div FAN, p % FAN) = p
           /\ EARLY2(p \div FAN) \in Frames
  <1>1. p \in 0 .. HUGES - 1
    BY DEF Left
  <1>2. p * FAN \in 0 .. DT1 /\ EARLY2(p \div FAN) \in Frames
    BY <1>1, HugeFrames
  <1>3. p \div FAN \in Idx /\ p % FAN \in Idx /\ p = (p \div FAN) * FAN + (p % FAN)
    BY <1>1, HugeTable
  <1>4. huge_entry(p * FAN) \in Word /\ huge_entry(p * FAN).present /\ huge_entry(p * FAN).huge
        /\ huge_entry(p * FAN).pa = p * FAN /\ Leads[huge_entry(p * FAN)] = NULL
    BY <1>2, WordFacts
  <1>5. ~Zero.huge
    BY WordFacts
  <1> QED
    BY <1>1, <1>2, <1>3, <1>4, <1>5 DEF HugeWord, HugeNo

(* Nothing in the tree changes when frames outside it change their role or *)
(* when other memory is written.                                           *)
SameTree(m, m2, lev, lev2) ==
    /\ \A f \in Frames : lev2[f] = lev[f] \/ (lev[f] < 0 /\ lev2[f] < 0)
    /\ \A f \in Frames : lev[f] \in 1 .. 4 => m2[f] = m[f]
    /\ m2[NULL] = m[NULL]

(* A tree keeps its shape when neither its tables nor their roles change.  *)
LEMMA TreeSame ==
    ASSUME NEW m \in Memory, NEW m2 \in Memory, NEW lev, NEW pt, NEW pi, NEW rank, NEW q,
           Ghosts(lev, pt, pi, rank, q), Tree(m, lev, pt, pi),
           NEW lev2 \in [Frames -> -4 .. 4], SameTree(m, m2, lev, lev2)
    PROVE  Tree(m2, lev2, pt, pi)
  <1>1. \A f \in Frames : lev[f] \in -4 .. 4 /\ lev2[f] \in -4 .. 4 /\ pt[f] \in Frames /\ pi[f] \in Idx
    BY DEF Ghosts
  <1>2. \A f \in Frames : (lev[f] >= 0 \/ lev2[f] >= 0) => lev2[f] = lev[f]
    BY <1>1 DEF SameTree
  <1>3. Down(m2, lev2, pt, pi)
    <2>1. ASSUME NEW t \in Frames, NEW i \in Idx, lev2[t] \in 1 .. 4
          PROVE  Entry(m2[t][i], t, i, lev2, pt, pi)
      <3>1. lev[t] = lev2[t] /\ m2[t][i] = m[t][i]
        BY <1>1, <1>2, <2>1 DEF SameTree
      <3>2. Entry(m[t][i], t, i, lev, pt, pi)
        BY <2>1, <3>1 DEF Tree, Down
      <3> QED
        BY <1>1, <1>2, <2>1, <3>1, <3>2 DEF Entry
    <2>2. \A i \in Idx : m2[NULL][i] = Zero
      BY DEF SameTree, Tree, Down
    <2> QED
      BY <2>1, <2>2 DEF Down
  <1>4. Up(m2, lev2, pt, pi)
    <2> SUFFICES ASSUME NEW f \in Frames, lev2[f] \in 0 .. 3
                 PROVE  lev2[pt[f]] = lev2[f] + 1 /\ m2[pt[f]][pi[f]] = tab_entry(f)
      BY DEF Up
    <2>1. lev[f] = lev2[f] /\ pt[f] \in Frames
      BY <1>1, <1>2
    <2>2. lev[pt[f]] = lev[f] + 1 /\ m[pt[f]][pi[f]] = tab_entry(f)
      BY <2>1 DEF Tree, Up
    <2>3. lev2[pt[f]] = lev[pt[f]] /\ lev[pt[f]] \in 1 .. 4
      BY <1>1, <1>2, <2>1, <2>2
    <2>4. m2[pt[f]] = m[pt[f]]
      BY <2>1, <2>3 DEF SameTree
    <2> QED
      BY <2>1, <2>2, <2>3, <2>4
  <1>5. Frame0(lev2, pt, pi)
    <2>1. \A f \in Frames : lev2[f] = 4 <=> f = ROOT
      BY <1>1, <1>2 DEF Tree, Frame0
    <2>2. lev2[EARLY3] = 3 /\ lev2[DT3] = 3
      BY <1>2, FrameFacts DEF Tree, Frame0
    <2>3. /\ pi[EARLY3] = 0 /\ pi[DT3] = FAN - 1
          /\ lev2[DT2] = 2 /\ pt[DT2] = DT3 /\ pi[DT2] = 0
          /\ lev2[DT1] = 1 /\ pt[DT1] = DT2 /\ pi[DT1] = 0
      BY <1>1, <1>2, FrameFacts DEF Tree, Frame0
    <2>4. \A f \in Frames : lev2[f] = 1 => pt[pt[f]] # EARLY3
      BY <1>1, <1>2 DEF Tree, Frame0
    <2>5. ASSUME NEW f \in Frames, lev2[f] = 0
          PROVE  \E va \in VAs : On(lev2, pt, pi, f, va)
      <3>1. lev[f] = 0
        BY <1>1, <1>2, <2>5
      <3>2. PICK va \in VAs : On(lev, pt, pi, f, va)
        BY <3>1 DEF Tree, Frame0
      <3>3. On(lev2, pt, pi, f, va)
        BY <2>5, <3>1, <3>2 DEF On
      <3> QED
        BY <3>3
    <2> QED
      BY <2>1, <2>2, <2>3, <2>4, <2>5 DEF Frame0
  <1> QED
    BY <1>3, <1>4, <1>5 DEF Tree

(* The same for the early tables.                                          *)
LEMMA EarlySame ==
    ASSUME NEW m, NEW m2, NEW lev, NEW pt, NEW pi, NEW rank, NEW q, NEW dn,
           Ghosts(lev, pt, pi, rank, q), EarlyTabs(m, lev, pt, pi, dn),
           NEW lev2 \in [Frames -> -4 .. 4], SameTree(m, m2, lev, lev2)
    PROVE  EarlyTabs(m2, lev2, pt, pi, dn)
  <1>1. \A f \in Frames : lev[f] \in -4 .. 4 /\ lev2[f] \in -4 .. 4
    BY DEF Ghosts
  <1>2. \A f \in Frames : (lev[f] >= 0 \/ lev2[f] >= 0) => lev2[f] = lev[f]
    BY <1>1 DEF SameTree
  <1>3. ASSUME NEW t \in Frames, lev2[t] = 2, pt[t] = EARLY3
        PROVE  /\ t \in Early /\ t = EARLY2(pi[t])
               /\ \A i \in Idx : m2[t][i] = IF HugeNo(pi[t], i) \in Left(dn)
                                            THEN HugeWord(HugeNo(pi[t], i)) ELSE Zero
    <2>1. lev[t] = 2
      BY <1>1, <1>2, <1>3
    <2>2. m2[t] = m[t]
      BY <2>1 DEF SameTree
    <2> QED
      BY <1>3, <2>1, <2>2 DEF EarlyTabs
  <1>4. ASSUME NEW p \in Left(dn)
        PROVE  /\ lev2[EARLY2(p \div FAN)] = 2 /\ pt[EARLY2(p \div FAN)] = EARLY3
               /\ pi[EARLY2(p \div FAN)] = p \div FAN
    <2>1. EARLY2(p \div FAN) \in Frames
      BY HugeWordFacts
    <2>2. /\ lev[EARLY2(p \div FAN)] = 2 /\ pt[EARLY2(p \div FAN)] = EARLY3
          /\ pi[EARLY2(p \div FAN)] = p \div FAN
      BY DEF EarlyTabs
    <2> QED
      BY <1>2, <2>1, <2>2
  <1> QED
    BY <1>3, <1>4 DEF EarlyTabs

(* The same for tables having an entry.                                    *)
LEMMA FullSame ==
    ASSUME NEW m, NEW m2, NEW lev, NEW pt, NEW pi, NEW rank, NEW q, NEW fl, NEW cr,
           Ghosts(lev, pt, pi, rank, q), Full(m, lev, pt, fl, cr),
           NEW lev2 \in [Frames -> -4 .. 4], SameTree(m, m2, lev, lev2)
    PROVE  Full(m2, lev2, pt, fl, cr)
  <1>1. \A f \in Frames : lev[f] \in -4 .. 4 /\ lev2[f] \in -4 .. 4
    BY DEF Ghosts
  <1> SUFFICES ASSUME NEW t \in Frames \ Kernel, lev2[t] \in 1 .. 3, t # cr, ~fl \/ pt[t] = EARLY3
               PROVE  \E i \in Idx : m2[t][i] # Zero
    BY DEF Full
  <1>2. lev[t] \in 1 .. 3 /\ m2[t] = m[t]
    BY <1>1 DEF SameTree
  <1> QED
    BY <1>2 DEF Full

(* The same for lying on the way of a page.                                *)
LEMMA OnSame ==
    ASSUME NEW m, NEW m2, NEW lev, NEW pt, NEW pi, NEW rank, NEW q,
           Ghosts(lev, pt, pi, rank, q),
           NEW lev2 \in [Frames -> -4 .. 4], SameTree(m, m2, lev, lev2), NEW t \in Frames, NEW va
    PROVE  On(lev, pt, pi, t, va) <=> On(lev2, pt, pi, t, va)
  <1>1. lev[t] \in -4 .. 4 /\ lev2[t] \in -4 .. 4 /\ (lev2[t] = lev[t] \/ (lev[t] < 0 /\ lev2[t] < 0))
    BY DEF Ghosts, SameTree
  <1>2. CASE lev2[t] = lev[t]
    BY <1>2 DEF On
  <1>3. CASE lev[t] < 0 /\ lev2[t] < 0
    BY <1>1, <1>3 DEF On
  <1> QED
    BY <1>1, <1>2, <1>3
-----------------------------------------------------------------------------
(* The free list stays when its frames and their links do.                 *)
LEMMA ListSame ==
    ASSUME NEW m, NEW m2, NEW lev, NEW lev2, NEW pt, NEW pi, NEW rank, NEW q, NEW head, NEW count,
           Ghosts(lev, pt, pi, rank, q), List(m, lev, rank, q, head, count),
           \A f \in Frames : lev2[f] = FREE <=> lev[f] = FREE,
           \A f \in Frames : lev[f] = FREE => m2[f][0] = m[f][0]
    PROVE  List(m2, lev2, rank, q, head, count)
  BY DEF List

(* Its head is a free frame, unless it is empty.                           *)
LEMMA ListHead ==
    ASSUME NEW m \in Memory, NEW lev, NEW pt, NEW pi, NEW rank, NEW q, NEW head, NEW count,
           Ghosts(lev, pt, pi, rank, q), List(m, lev, rank, q, head, count)
    PROVE  /\ head \in Frames \cup {NULL} /\ count \in Nat
           /\ count = 0 <=> head = NULL
           /\ head # NULL => /\ head \in Frames /\ lev[head] = FREE
                             /\ m[head][0].pa = q[count - 1]
  <1>1. count \in Nat /\ q[0] = NULL /\ head = q[count]
    BY DEF List
  <1>2. CASE count = 0
    BY <1>1, <1>2
  <1>3. CASE count # 0
    <2>1. count \in 1 .. count /\ count - 1 \in Nat
      BY <1>1, <1>3
    <2>2. q[count] \in Frames /\ lev[q[count]] = FREE /\ m[q[count]][0] = link(q[count - 1])
      BY <2>1 DEF List
    <2>3. q[count - 1] \in 0 .. DT1
      BY <2>1 DEF Ghosts
    <2>4. link(q[count - 1]).pa = q[count - 1]
      BY <2>3, WordFacts
    <2> QED
      BY <1>1, <1>3, <2>2, <2>4, FrameFacts
  <1> QED
    BY <1>2, <1>3

(* mm_frame_alloc takes the head.                                          *)
LEMMA ListPop ==
    ASSUME NEW m \in Memory, NEW m2, NEW lev, NEW pt, NEW pi, NEW rank, NEW q, NEW head, NEW count,
           Ghosts(lev, pt, pi, rank, q), List(m, lev, rank, q, head, count), head # NULL,
           NEW lev2, lev2[head] # FREE,
           \A f \in Frames : f # head => lev2[f] = lev[f] /\ m2[f] = m[f]
    PROVE  List(m2, lev2, rank, q, m[head][0].pa, count - 1)
  <1>1. count \in Nat /\ head \in Frames /\ m[head][0].pa = q[count - 1] /\ count # 0
    BY ListHead
  <1>2. head = q[count] /\ count \in 1 .. count /\ count - 1 \in Nat /\ q[0] = NULL
    BY <1>1 DEF List
  <1>3. rank[head] = count
    BY <1>2 DEF List
  <1>4. ASSUME NEW n \in 1 .. count - 1
        PROVE  /\ q[n] \in Frames /\ lev2[q[n]] = FREE /\ rank[q[n]] = n
               /\ m2[q[n]][0] = link(q[n - 1])
    <2>1. n \in 1 .. count /\ n # count
      BY <1>1
    <2>2. q[n] \in Frames /\ lev[q[n]] = FREE /\ rank[q[n]] = n /\ m[q[n]][0] = link(q[n - 1])
      BY <2>1 DEF List
    <2>3. q[n] # head
      BY <1>3, <2>1, <2>2
    <2> QED
      BY <2>2, <2>3
  <1>5. ASSUME NEW f \in Frames, lev2[f] = FREE
        PROVE  rank[f] \in 1 .. count - 1 /\ q[rank[f]] = f
    <2>1. f # head /\ lev[f] = FREE
      BY <1>5
    <2>2. rank[f] \in 1 .. count /\ q[rank[f]] = f
      BY <2>1 DEF List
    <2>3. rank[f] # count
      BY <1>2, <2>1, <2>2
    <2> QED
      BY <1>1, <2>2, <2>3
  <1> QED
    BY <1>1, <1>2, <1>4, <1>5 DEF List

(* mm_frame_free puts a frame in front.                                    *)
LEMMA ListPush ==
    ASSUME NEW m, NEW m2, NEW lev, NEW pt, NEW pi, NEW rank, NEW q, NEW head, NEW count,
           Ghosts(lev, pt, pi, rank, q), List(m, lev, rank, q, head, count),
           NEW f \in Frames, lev[f] # FREE, NEW lev2, lev2[f] = FREE,
           \A h \in Frames : h # f => lev2[h] = lev[h] /\ m2[h] = m[h],
           m2[f][0] = link(head)
    PROVE  LET rank2 == [rank EXCEPT ![f] = count + 1]
               q2 == [q EXCEPT ![count + 1] = f]
           IN  /\ List(m2, lev2, rank2, q2, f, count + 1)
               /\ rank2 \in [Frames -> Nat] /\ q2 \in [Nat -> 0 .. DT1]
  <1> DEFINE rank2 == [rank EXCEPT ![f] = count + 1]
             q2 == [q EXCEPT ![count + 1] = f]
  <1>1. count \in Nat /\ q[0] = NULL /\ head = q[count] /\ f \in 0 .. DT1
    BY FrameFacts DEF List
  <1>2. q \in [Nat -> 0 .. DT1] /\ rank \in [Frames -> Nat]
    BY DEF Ghosts
  <1>3. rank2 \in [Frames -> Nat] /\ q2 \in [Nat -> 0 .. DT1]
    BY <1>1, <1>2
  <1>4. q2[count + 1] = f /\ \A n \in 0 .. count : q2[n] = q[n]
    BY <1>1, <1>2
  <1>5. rank2[f] = count + 1 /\ \A h \in Frames : h # f => rank2[h] = rank[h]
    BY <1>2
  <1> HIDE DEF q2, rank2
  <1>6. ASSUME NEW n \in 1 .. count + 1
        PROVE  /\ q2[n] \in Frames /\ lev2[q2[n]] = FREE /\ rank2[q2[n]] = n
               /\ m2[q2[n]][0] = link(q2[n - 1])
    <2>1. CASE n = count + 1
      <3>1. q2[n] = f /\ q2[n - 1] = head
        BY <1>1, <1>4, <2>1
      <3> QED
        BY <1>5, <2>1, <3>1
    <2>2. CASE n # count + 1
      <3>1. n \in 1 .. count /\ n \in 0 .. count /\ n - 1 \in 0 .. count
        BY <1>1, <2>2
      <3>2. q[n] \in Frames /\ lev[q[n]] = FREE /\ rank[q[n]] = n /\ m[q[n]][0] = link(q[n - 1])
        BY <3>1 DEF List
      <3>3. q[n] # f /\ q2[n] = q[n] /\ q2[n - 1] = q[n - 1]
        BY <1>4, <3>1, <3>2
      <3> QED
        BY <1>5, <3>2, <3>3
    <2> QED
      BY <2>1, <2>2
  <1>7. ASSUME NEW h \in Frames, lev2[h] = FREE
        PROVE  rank2[h] \in 1 .. count + 1 /\ q2[rank2[h]] = h
    <2>1. CASE h = f
      BY <1>1, <1>4, <1>5, <2>1
    <2>2. CASE h # f
      <3>1. lev[h] = FREE /\ rank2[h] = rank[h]
        BY <1>5, <1>7, <2>2
      <3>2. rank[h] \in 1 .. count /\ q[rank[h]] = h
        BY <3>1 DEF List
      <3>3. rank[h] \in 0 .. count /\ rank[h] \in 1 .. count + 1
        BY <1>1, <3>2
      <3> QED
        BY <1>4, <3>1, <3>2, <3>3
    <2> QED
      BY <2>1, <2>2
  <1>8. q2[0] = NULL /\ count + 1 \in Nat
    BY <1>1, <1>4
  <1>9. List(m2, lev2, rank2, q2, f, count + 1)
    BY <1>4, <1>6, <1>7, <1>8 DEF List
  <1> QED
    BY <1>3, <1>9 DEF rank2, q2
-----------------------------------------------------------------------------
(* One word written.                                                       *)
Put(m, f, i, w) == [m EXCEPT ![f][i] = w]

(* Put changes one word.                                                   *)
LEMMA PutFacts ==
    ASSUME NEW m \in Memory, NEW f \in Frames, NEW i \in Idx, NEW w \in Word
    PROVE  /\ Put(m, f, i, w) \in Memory /\ Put(m, f, i, w)[f][i] = w
           /\ \A h \in Frames \cup {NULL} : h # f => Put(m, f, i, w)[h] = m[h]
           /\ \A j \in Idx : j # i => Put(m, f, i, w)[f][j] = m[f][j]
  BY FrameFacts DEF Put, Memory

LEMMA PutAt ==
    ASSUME NEW m \in Memory, NEW f \in Frames, NEW i \in Idx, NEW w \in Word,
           NEW h \in Frames \cup {NULL}, NEW j \in Idx
    PROVE  Put(m, f, i, w)[h][j] = IF h = f /\ j = i THEN w ELSE m[h][j]
  BY PutFacts

(* Memories with the same words are the same.                              *)
LEMMA MemoryEqual ==
    ASSUME NEW m \in Memory, NEW m2 \in Memory,
           \A f \in Frames \cup {NULL} : \A i \in Idx : m[f][i] = m2[f][i]
    PROVE  m = m2
  <1>1. \A f \in Frames \cup {NULL} : m[f] \in [Idx -> Word] /\ m2[f] \in [Idx -> Word]
    BY DEF Memory
  <1>2. \A f \in Frames \cup {NULL} : m[f] = m2[f]
    BY <1>1
  <1> QED
    BY <1>2 DEF Memory

(* Words of different frames are written in either order.                  *)
LEMMA PutPut ==
    ASSUME NEW m \in Memory, NEW f \in Frames, NEW i \in Idx, NEW w \in Word,
           NEW g \in Frames, NEW j \in Idx, NEW v \in Word, f # g
    PROVE  Put(Put(m, f, i, w), g, j, v) = Put(Put(m, g, j, v), f, i, w)
  <1> DEFINE a == Put(m, f, i, w)
             b == Put(m, g, j, v)
             c == Put(a, g, j, v)
             d == Put(b, f, i, w)
  <1>1. a \in Memory /\ b \in Memory
    BY PutFacts
  <1>2. c \in Memory /\ d \in Memory
    <2> HIDE DEF a, b
    <2> QED
      BY <1>1, PutFacts
  <1>3. ASSUME NEW h \in Frames \cup {NULL}, NEW k \in Idx PROVE c[h][k] = d[h][k]
    <2>1. a[h][k] = IF h = f /\ k = i THEN w ELSE m[h][k]
      BY PutAt
    <2>2. b[h][k] = IF h = g /\ k = j THEN v ELSE m[h][k]
      BY PutAt
    <2>3. c[h][k] = IF h = g /\ k = j THEN v ELSE a[h][k]
      <3> HIDE DEF a
      <3> QED
        BY <1>1, PutAt
    <2>4. d[h][k] = IF h = f /\ k = i THEN w ELSE b[h][k]
      <3> HIDE DEF b
      <3> QED
        BY <1>1, PutAt
    <2> HIDE DEF a, b, c, d
    <2> QED
      BY <2>1, <2>2, <2>3, <2>4
  <1> HIDE DEF a, b, c, d
  <1>4. c = d
    BY <1>2, <1>3, MemoryEqual
  <1> QED
    BY <1>4 DEF a, b, c, d

(* The whole picture of memory between two actions.                        *)
Shape(m, lev, pt, pi, rank, q, head, count, hd, sp, dn, fl, cr) ==
    /\ m \in Memory /\ Ghosts(lev, pt, pi, rank, q)
    /\ Tree(m, lev, pt, pi) /\ EarlyTabs(m, lev, pt, pi, dn) /\ Roles(lev, hd, sp, dn)
    /\ List(m, lev, rank, q, head, count) /\ Full(m, lev, pt, fl, cr)

(* Clearing the entry of a frame that holds no entries takes it out of the *)
(* tree; its table may be empty then.                                      *)
LEMMA Detach ==
    ASSUME NEW m, NEW lev, NEW pt, NEW pi, NEW rank, NEW q, NEW head, NEW count, NEW hd, NEW dn,
           NEW fl, NEW cr, Shape(m, lev, pt, pi, rank, q, head, count, hd, NULL, dn, fl, cr),
           NEW g \in Frames \ Kernel, lev[g] \in 0 .. 3, cr \in {NULL, g},
           lev[g] > 0 => \A i \in Idx : m[g][i] = Zero
    PROVE  Shape(Put(m, pt[g], pi[g], Zero), [lev EXCEPT ![g] = SPARE], pt, pi, rank, q,
                 head, count, hd, g, dn, fl, pt[g])
  <1> DEFINE p == pt[g]
             k == pi[g]
             m2 == Put(m, p, k, Zero)
             lev2 == [lev EXCEPT ![g] = SPARE]
  <1>1. /\ m \in Memory /\ Ghosts(lev, pt, pi, rank, q)
        /\ Tree(m, lev, pt, pi) /\ EarlyTabs(m, lev, pt, pi, dn) /\ Roles(lev, hd, NULL, dn)
        /\ List(m, lev, rank, q, head, count) /\ Full(m, lev, pt, fl, cr)
    BY DEF Shape
  <1>2. /\ lev \in [Frames -> -4 .. 4] /\ p \in Frames /\ k \in Idx
        /\ lev[p] = lev[g] + 1 /\ m[p][k] = tab_entry(g) /\ p # g /\ g \in Frames
        /\ \A f \in Frames : lev[f] \in -4 .. 4 /\ pt[f] \in Frames /\ pi[f] \in Idx
    BY <1>1 DEF Ghosts, Tree, Up
  <1>3. /\ m2 \in Memory /\ m2[p][k] = Zero
        /\ \A h \in Frames \cup {NULL} : h # p => m2[h] = m[h]
        /\ \A j \in Idx : j # k => m2[p][j] = m[p][j]
    <2>1. Zero \in Word
      BY WordFacts
    <2> HIDE DEF p, k
    <2> QED
      BY <1>1, <1>2, <2>1, PutFacts
  <1>4. lev2 \in [Frames -> -4 .. 4] /\ lev2[g] = -3 /\ \A f \in Frames : f # g => lev2[f] = lev[f]
    BY <1>2 DEF SPARE
  <1> HIDE DEF p, k, m2, lev2
  <1>5. \A f \in Frames : lev2[f] >= 0 => f # g /\ lev2[f] = lev[f]
    BY <1>2, <1>4
  <1>6. \A f \in Frames : tab_entry(f) # Zero /\ tab_entry(f).pa = f /\ ~tab_entry(f).huge
    BY WordFacts, FrameFacts
  <1>7. ASSUME NEW f \in Frames, lev[f] \in 0 .. 3, f # g
        PROVE  pt[f] # g /\ ~(pt[f] = p /\ pi[f] = k)
    <2>1. lev[pt[f]] = lev[f] + 1 /\ m[pt[f]][pi[f]] = tab_entry(f) /\ pi[f] \in Idx
      BY <1>1, <1>2, <1>7 DEF Tree, Up
    <2>2. pt[f] # g
      BY <1>2, <1>6, <1>7, <2>1
    <2>3. ~(pt[f] = p /\ pi[f] = k)
      BY <1>2, <1>6, <1>7, <2>1
    <2> QED
      BY <2>2, <2>3
  <1>8. Down(m2, lev2, pt, pi)
    <2>1. ASSUME NEW t \in Frames, NEW i \in Idx, lev2[t] \in 1 .. 4
          PROVE  Entry(m2[t][i], t, i, lev2, pt, pi)
      <3>1. lev[t] = lev2[t] /\ t # g
        BY <1>5, <2>1
      <3>2. CASE t = p /\ i = k
        BY <1>3, <3>2 DEF Entry
      <3>3. CASE ~(t = p /\ i = k)
        <4>1. m2[t][i] = m[t][i]
          BY <1>3, <3>3
        <4>2. Entry(m[t][i], t, i, lev, pt, pi)
          BY <1>1, <2>1, <3>1 DEF Tree, Down
        <4>3. m[t][i].pa \in Frames /\ pt[m[t][i].pa] = t /\ pi[m[t][i].pa] = i => m[t][i].pa # g
          BY <3>3 DEF p, k
        <4> QED
          BY <1>4, <3>1, <4>1, <4>2, <4>3 DEF Entry
      <3> QED
        BY <3>2, <3>3
    <2>2. \A i \in Idx : m2[NULL][i] = Zero
      <3>1. NULL # p
        BY <1>2, FrameFacts
      <3>2. m2[NULL] = m[NULL]
        BY <1>3, <3>1
      <3> QED
        BY <1>1, <3>2 DEF Tree, Down
    <2> QED
      BY <2>1, <2>2 DEF Down
  <1>9. Up(m2, lev2, pt, pi)
    <2> SUFFICES ASSUME NEW f \in Frames, lev2[f] \in 0 .. 3
                 PROVE  lev2[pt[f]] = lev2[f] + 1 /\ m2[pt[f]][pi[f]] = tab_entry(f)
      BY DEF Up
    <2>1. lev[f] = lev2[f] /\ f # g /\ pt[f] \in Frames /\ pi[f] \in Idx
      BY <1>2, <1>5
    <2>2. lev[pt[f]] = lev[f] + 1 /\ m[pt[f]][pi[f]] = tab_entry(f)
      BY <1>1, <2>1 DEF Tree, Up
    <2>3. pt[f] # g /\ ~(pt[f] = p /\ pi[f] = k)
      BY <1>7, <2>1
    <2>4. m2[pt[f]][pi[f]] = m[pt[f]][pi[f]]
      BY <1>3, <2>1, <2>3
    <2> QED
      BY <1>4, <2>1, <2>2, <2>3, <2>4
  <1>10. Frame0(lev2, pt, pi)
    <2>0. ROOT # g /\ EARLY3 # g /\ DT3 # g /\ DT2 # g /\ DT1 # g
      BY FrameFacts
    <2>1. \A f \in Frames : lev2[f] = 4 <=> f = ROOT
      BY <1>1, <1>4, <1>5, <2>0, FrameFacts DEF Tree, Frame0
    <2>2. lev2[EARLY3] = 3 /\ lev2[DT3] = 3
      BY <1>1, <1>4, <2>0, FrameFacts DEF Tree, Frame0
    <2>3. /\ pi[EARLY3] = 0 /\ pi[DT3] = FAN - 1
          /\ lev2[DT2] = 2 /\ pt[DT2] = DT3 /\ pi[DT2] = 0
          /\ lev2[DT1] = 1 /\ pt[DT1] = DT2 /\ pi[DT1] = 0
      BY <1>1, <1>4, <2>0, FrameFacts DEF Tree, Frame0
    <2>4. \A f \in Frames : lev2[f] = 1 => pt[pt[f]] # EARLY3
      BY <1>1, <1>4, <1>5 DEF Tree, Frame0
    <2>5. ASSUME NEW f \in Frames, lev2[f] = 0
          PROVE  \E va \in VAs : On(lev2, pt, pi, f, va)
      <3>1. lev[f] = 0
        BY <1>5, <2>5
      <3>2. PICK va \in VAs : On(lev, pt, pi, f, va)
        BY <1>1, <3>1 DEF Tree, Frame0
      <3>3. On(lev2, pt, pi, f, va)
        BY <2>5, <3>1, <3>2 DEF On
      <3> QED
        BY <3>3
    <2> QED
      BY <2>1, <2>2, <2>3, <2>4, <2>5 DEF Frame0
  <1>11. EarlyTabs(m2, lev2, pt, pi, dn)
    <2>1. ASSUME NEW t \in Frames, lev2[t] = 2, pt[t] = EARLY3
          PROVE  /\ t \in Early /\ t = EARLY2(pi[t])
                 /\ \A i \in Idx : m2[t][i] = IF HugeNo(pi[t], i) \in Left(dn)
                                               THEN HugeWord(HugeNo(pi[t], i)) ELSE Zero
      <3>1. lev[t] = 2 /\ t # g
        BY <1>5, <2>1
      <3>2. t # p
        <4>1. t = p => lev[g] = 1
          BY <1>2, <3>1
        <4>2. lev[g] = 1 => pt[pt[g]] # EARLY3
          BY <1>1, <1>2 DEF Tree, Frame0
        <4> QED
          BY <2>1, <4>1, <4>2, FrameFacts DEF p
      <3>3. m2[t] = m[t]
        BY <1>3, <3>2
      <3> QED
        BY <1>1, <2>1, <3>1, <3>3 DEF EarlyTabs
    <2>2. ASSUME NEW n \in Left(dn)
          PROVE  /\ lev2[EARLY2(n \div FAN)] = 2 /\ pt[EARLY2(n \div FAN)] = EARLY3
                 /\ pi[EARLY2(n \div FAN)] = n \div FAN
      <3> DEFINE t == EARLY2(n \div FAN)
      <3>1. t \in Frames /\ n \div FAN \in Idx /\ n % FAN \in Idx /\ HugeNo(n \div FAN, n % FAN) = n
            /\ HugeWord(n) # Zero
        BY HugeWordFacts
      <3>2. lev[t] = 2 /\ pt[t] = EARLY3 /\ pi[t] = n \div FAN
        BY <1>1 DEF EarlyTabs
      <3> HIDE DEF t
      <3>3. m[t][n % FAN] = HugeWord(n)
        BY <1>1, <3>1, <3>2 DEF EarlyTabs
      <3>4. t # g
        BY <3>1, <3>2, <3>3
      <3> QED
        BY <1>4, <3>1, <3>2, <3>4 DEF t
    <2> QED
      BY <2>1, <2>2 DEF EarlyTabs
  <1>12. Roles(lev2, hd, g, dn)
    <2>1. /\ lev2[g] # OUT /\ lev2[g] # HELD /\ lev2[g] = SPARE
          /\ lev[g] # OUT /\ lev[g] # HELD /\ lev[g] # SPARE
      BY <1>2, <1>4 DEF OUT, HELD, SPARE
    <2>2. \A f \in Frames : lev[f] # SPARE
      BY <1>1, FrameFacts DEF Roles
    <2>3. \A f \in Frames : lev2[f] = OUT <=> lev[f] = OUT
      BY <1>4, <2>1
    <2>4. \A f \in Frames : lev2[f] = HELD <=> lev[f] = HELD
      BY <1>4, <2>1
    <2>5. \A f \in Frames : lev2[f] = SPARE <=> f = g
      BY <1>4, <2>1, <2>2
    <2> QED
      BY <1>1, <2>3, <2>4, <2>5 DEF Roles
  <1>13. List(m2, lev2, rank, q, head, count)
    <2>1. \A f \in Frames : lev2[f] = FREE <=> lev[f] = FREE
      BY <1>2, <1>4 DEF FREE
    <2>2. lev[p] # FREE
      BY <1>2 DEF FREE
    <2>3. \A f \in Frames : lev[f] = FREE => m2[f][0] = m[f][0]
      BY <1>3, <2>2
    <2> QED
      BY <1>1, <2>1, <2>3, ListSame
  <1>14. Full(m2, lev2, pt, fl, p)
    <2> SUFFICES ASSUME NEW t \in Frames \ Kernel, lev2[t] \in 1 .. 3, t # p, ~fl \/ pt[t] = EARLY3
                 PROVE  \E i \in Idx : m2[t][i] # Zero
      BY DEF Full
    <2>1. lev[t] \in 1 .. 3 /\ t # g /\ t # NULL /\ m2[t] = m[t]
      BY <1>3, <1>5, FrameFacts
    <2>2. t # cr
      BY <2>1
    <2> QED
      BY <1>1, <2>1, <2>2 DEF Full
  <1>15. Ghosts(lev2, pt, pi, rank, q)
    BY <1>1, <1>4 DEF Ghosts
  <1>16. Tree(m2, lev2, pt, pi)
    BY <1>8, <1>9, <1>10 DEF Tree
  <1>17. Shape(m2, lev2, pt, pi, rank, q, head, count, hd, g, dn, fl, p)
    BY <1>3, <1>11, <1>12, <1>13, <1>14, <1>15, <1>16 DEF Shape
  <1> QED
    BY <1>17 DEF m2, lev2, p, k

(* Only g changes its place.                                               *)
Moved(g, lev, pt, pi, lev2, pt2, pi2) ==
    \A f \in Frames : f # g => lev2[f] = lev[f] /\ pt2[f] = pt[f] /\ pi2[f] = pi[f]

(* The ways of the others stay what they were.                             *)
Kept(g, lev, pt, pi, lev2, pt2, pi2) ==
    \A f \in Frames : lev[f] \in 0 .. 4 =>
        /\ f # g /\ (lev[f] <= 3 => pt[f] # g)
        /\ \A va : On(lev2, pt2, pi2, f, va) <=> On(lev, pt, pi, f, va)

(* A frame from outside the tree changes nobody's way when it is linked.   *)
LEMMA OnAttach ==
    ASSUME NEW m, NEW lev, NEW pt, NEW pi, NEW rank, NEW q,
           Ghosts(lev, pt, pi, rank, q), Tree(m, lev, pt, pi),
           NEW g \in Frames, lev[g] < 0, NEW lev2, NEW pt2, NEW pi2,
           Moved(g, lev, pt, pi, lev2, pt2, pi2)
    PROVE  Kept(g, lev, pt, pi, lev2, pt2, pi2)
  <1>0. \A f \in Frames : f # g => lev2[f] = lev[f] /\ pt2[f] = pt[f] /\ pi2[f] = pi[f]
    BY DEF Moved
  <1> SUFFICES ASSUME NEW f \in Frames, lev[f] \in 0 .. 4, NEW va
               PROVE  /\ f # g /\ (lev[f] <= 3 => pt[f] # g)
                      /\ On(lev2, pt2, pi2, f, va) <=> On(lev, pt, pi, f, va)
    BY DEF Kept
  <1>1. \A h \in Frames : lev[h] \in -4 .. 4 /\ pt[h] \in Frames
    BY DEF Ghosts
  <1>2. \A h \in Frames : lev[h] \in 0 .. 3 => lev[pt[h]] = lev[h] + 1
    BY DEF Tree, Up
  <1>3. \A h \in Frames : lev[h] \in 0 .. 4 => h # g
    BY <1>1
  <1>4. CASE lev[f] = 4
    BY <1>3, <1>4, <1>0 DEF On
  <1>5. CASE lev[f] = 3
    <2>1. f # g /\ pt[f] \in Frames /\ lev[pt[f]] = 4
      BY <1>1, <1>2, <1>3, <1>5
    <2> QED
      BY <1>3, <1>5, <2>1, <1>0 DEF On
  <1>6. CASE lev[f] = 2
    <2>1. f # g /\ pt[f] \in Frames /\ lev[pt[f]] = 3
      BY <1>1, <1>2, <1>3, <1>6
    <2>2. pt[f] # g
      BY <1>3, <2>1
    <2> QED
      BY <1>6, <2>1, <2>2, <1>0 DEF On
  <1>7. CASE lev[f] = 1
    <2>1. f # g /\ pt[f] \in Frames /\ lev[pt[f]] = 2
      BY <1>1, <1>2, <1>3, <1>7
    <2>2. pt[f] # g /\ pt[pt[f]] \in Frames /\ lev[pt[pt[f]]] = 3
      BY <1>1, <1>2, <1>3, <2>1
    <2>3. pt[pt[f]] # g
      BY <1>3, <2>2
    <2> QED
      BY <1>7, <2>1, <2>2, <2>3, <1>0 DEF On
  <1>8. CASE lev[f] = 0
    <2>1. f # g /\ pt[f] \in Frames /\ lev[pt[f]] = 1
      BY <1>1, <1>2, <1>3, <1>8
    <2>2. pt[f] # g /\ pt[pt[f]] \in Frames /\ lev[pt[pt[f]]] = 2
      BY <1>1, <1>2, <1>3, <2>1
    <2>3. pt[pt[f]] # g /\ pt[pt[pt[f]]] \in Frames /\ lev[pt[pt[pt[f]]]] = 3
      BY <1>1, <1>2, <1>3, <2>2
    <2>4. pt[pt[pt[f]]] # g
      BY <1>3, <2>3
    <2> QED
      BY <1>8, <2>1, <2>2, <2>3, <2>4, <1>0 DEF On
  <1> QED
    BY <1>4, <1>5, <1>6, <1>7, <1>8

(* A frame is linked below a table of the client side: an empty one as a   *)
(* table, or the frame of a client page.                                   *)
LEMMA Attach ==
    ASSUME NEW m, NEW lev, NEW pt, NEW pi, NEW rank, NEW q, NEW head, NEW count, NEW hd, NEW sp,
           NEW dn, NEW fl, NEW cr, NEW cr2,
           Shape(m, lev, pt, pi, rank, q, head, count, hd, sp, dn, fl, cr),
           NEW t \in Frames, NEW i \in Idx, NEW g \in Frames, NEW va \in VAs,
           lev[g] \in {SPARE, HELD}, m[t][i] = Zero, lev[t] \in 1 .. 4, On(lev, pt, pi, t, va),
           lev[t] = 1 => i = va[4],
           lev[t] > 1 => cr2 = g /\ \A j \in Idx : m[g][j] = Zero,
           cr = t
    PROVE  Shape(Put(m, t, i, tab_entry(g)), [lev EXCEPT ![g] = lev[t] - 1],
                 [pt EXCEPT ![g] = t], [pi EXCEPT ![g] = i], rank, q, head, count,
                 hd \ {g}, IF g = sp THEN NULL ELSE sp, dn, fl, cr2)
  <1> DEFINE m2 == Put(m, t, i, tab_entry(g))
             lev2 == [lev EXCEPT ![g] = lev[t] - 1]
             pt2 == [pt EXCEPT ![g] = t]
             pi2 == [pi EXCEPT ![g] = i]
             sp2 == IF g = sp THEN NULL ELSE sp
  <1>1. /\ m \in Memory /\ Ghosts(lev, pt, pi, rank, q)
        /\ Tree(m, lev, pt, pi) /\ EarlyTabs(m, lev, pt, pi, dn) /\ Roles(lev, hd, sp, dn)
        /\ List(m, lev, rank, q, head, count) /\ Full(m, lev, pt, fl, cr)
    BY DEF Shape
  <1>2. /\ lev \in [Frames -> -4 .. 4] /\ pt \in [Frames -> Frames] /\ pi \in [Frames -> Idx]
        /\ lev[g] \in {-3, -2} /\ lev[g] < 0 /\ t # g
        /\ \A f \in Frames : lev[f] \in -4 .. 4 /\ pt[f] \in Frames /\ pi[f] \in Idx
    BY <1>1 DEF Ghosts, SPARE, HELD
  <1>3. /\ m2 \in Memory /\ m2[t][i] = tab_entry(g)
        /\ \A h \in Frames \cup {NULL} : h # t => m2[h] = m[h]
        /\ \A j \in Idx : j # i => m2[t][j] = m[t][j]
    <2>1. tab_entry(g) \in Word
      BY WordFacts, FrameFacts
    <2> QED
      BY <1>1, <2>1, PutFacts
  <1>4. /\ lev2 \in [Frames -> -4 .. 4] /\ pt2 \in [Frames -> Frames] /\ pi2 \in [Frames -> Idx]
        /\ lev2[g] = lev[t] - 1 /\ pt2[g] = t /\ pi2[g] = i
        /\ \A f \in Frames : f # g => lev2[f] = lev[f] /\ pt2[f] = pt[f] /\ pi2[f] = pi[f]
    BY <1>2
  <1> HIDE DEF m2, lev2, pt2, pi2
  <1>5. lev2[g] \in 0 .. 3 /\ lev2[t] = lev[t] /\ pt2[t] = pt[t] /\ pi2[t] = pi[t]
    BY <1>2, <1>4
  <1>6. ASSUME NEW f \in Frames, lev[f] \in 0 .. 4
        PROVE  /\ f # g /\ (lev[f] <= 3 => pt[f] # g)
               /\ \A vb : On(lev2, pt2, pi2, f, vb) <=> On(lev, pt, pi, f, vb)
    <2>1. Moved(g, lev, pt, pi, lev2, pt2, pi2)
      BY <1>4 DEF Moved
    <2>2. Kept(g, lev, pt, pi, lev2, pt2, pi2)
      BY <1>1, <1>2, <2>1, OnAttach
    <2> QED
      BY <1>6, <2>2 DEF Kept
  <1>7. \A f \in Frames : tab_entry(f) # Zero /\ tab_entry(f).pa = f /\ ~tab_entry(f).huge
    BY WordFacts, FrameFacts
  <1>8. g \notin Kernel
    BY <1>1, <1>2, FrameFacts DEF Tree, Frame0
  <1>9. /\ lev[t] = 3 => t # EARLY3
        /\ lev[t] = 2 => pt[t] # EARLY3
    <2>1. pi[EARLY3] = 0 /\ va[1] # 0
      BY <1>1, HighFacts DEF Tree, Frame0
    <2>2. CASE lev[t] = 3
      BY <2>1, <2>2 DEF On
    <2>3. CASE lev[t] = 2
      BY <2>1, <2>3 DEF On
    <2> QED
      BY <2>2, <2>3
  <1>10. Down(m2, lev2, pt2, pi2)
    <2>1. ASSUME NEW f \in Frames, NEW j \in Idx, lev2[f] \in 1 .. 4
          PROVE  Entry(m2[f][j], f, j, lev2, pt2, pi2)
      <3>1. CASE f = g
        <4>1. lev[t] > 1
          BY <1>2, <1>4, <2>1, <3>1
        <4>2. m2[f][j] = Zero
          BY <1>2, <1>3, <3>1, <4>1
        <4> QED
          BY <4>2 DEF Entry
      <3>2. CASE f = t /\ j = i
        BY <1>3, <1>4, <1>5, <1>7, <3>2 DEF Entry
      <3>3. CASE f # g /\ ~(f = t /\ j = i)
        <4>1. m2[f][j] = m[f][j]
          BY <1>3, <3>3
        <4>2. Entry(m[f][j], f, j, lev, pt, pi) /\ lev[f] = lev2[f] /\ lev[f] \in 1 .. 4 /\ pt2[f] = pt[f]
          BY <1>1, <1>4, <2>1, <3>3 DEF Tree, Down
        <4>3. m[f][j].pa \in Frames /\ lev[m[f][j].pa] = lev[f] - 1 => m[f][j].pa # g
          BY <1>2, <4>2
        <4> QED
          BY <1>4, <4>1, <4>2, <4>3 DEF Entry
      <3> QED
        BY <3>1, <3>2, <3>3
    <2>2. \A j \in Idx : m2[NULL][j] = Zero
      <3>1. NULL # t
        BY FrameFacts
      <3>2. m2[NULL] = m[NULL]
        BY <1>3, <3>1
      <3> QED
        BY <1>1, <3>2 DEF Tree, Down
    <2> QED
      BY <2>1, <2>2 DEF Down
  <1>11. Up(m2, lev2, pt2, pi2)
    <2> SUFFICES ASSUME NEW f \in Frames, lev2[f] \in 0 .. 3
                 PROVE  lev2[pt2[f]] = lev2[f] + 1 /\ m2[pt2[f]][pi2[f]] = tab_entry(f)
      BY DEF Up
    <2>1. CASE f = g
      BY <1>2, <1>3, <1>4, <1>5, <2>1
    <2>2. CASE f # g
      <3>1. lev[f] = lev2[f] /\ pt2[f] = pt[f] /\ pi2[f] = pi[f] /\ pt[f] \in Frames /\ pi[f] \in Idx
        BY <1>2, <1>4, <2>2
      <3>2. lev[pt[f]] = lev[f] + 1 /\ m[pt[f]][pi[f]] = tab_entry(f) /\ pt[f] # g
        BY <1>1, <1>6, <3>1 DEF Tree, Up
      <3>3. ~(pt[f] = t /\ pi[f] = i)
        BY <1>7, <3>2
      <3>4. m2[pt[f]][pi[f]] = m[pt[f]][pi[f]]
        BY <1>3, <3>1, <3>3
      <3> QED
        BY <1>4, <3>1, <3>2, <3>4
    <2> QED
      BY <2>1, <2>2
  <1>12. Frame0(lev2, pt2, pi2)
    <2>0. ROOT # g /\ EARLY3 # g /\ DT3 # g /\ DT2 # g /\ DT1 # g
      BY <1>8, FrameFacts
    <2>1. \A f \in Frames : lev2[f] = 4 <=> f = ROOT
      BY <1>1, <1>4, <1>5, <2>0, FrameFacts DEF Tree, Frame0
    <2>2. lev2[EARLY3] = 3 /\ lev2[DT3] = 3
      BY <1>1, <1>4, <2>0, FrameFacts DEF Tree, Frame0
    <2>3. /\ pi2[EARLY3] = 0 /\ pi2[DT3] = FAN - 1
          /\ lev2[DT2] = 2 /\ pt2[DT2] = DT3 /\ pi2[DT2] = 0
          /\ lev2[DT1] = 1 /\ pt2[DT1] = DT2 /\ pi2[DT1] = 0
      BY <1>1, <1>4, <2>0, FrameFacts DEF Tree, Frame0
    <2>4. ASSUME NEW f \in Frames, lev2[f] = 1 PROVE pt2[pt2[f]] # EARLY3
      <3>1. CASE f = g
        <4>1. lev[t] = 2
          BY <1>2, <1>4, <2>4, <3>1
        <4> QED
          BY <1>4, <1>5, <1>9, <3>1, <4>1
      <3>2. CASE f # g
        <4>1. lev[f] = 1 /\ pt2[f] = pt[f]
          BY <1>4, <2>4, <3>2
        <4>2. pt[f] # g /\ pt[f] \in Frames
          BY <1>2, <1>6, <4>1
        <4> QED
          BY <1>1, <1>4, <4>1, <4>2 DEF Tree, Frame0
      <3> QED
        BY <3>1, <3>2
    <2>5. ASSUME NEW f \in Frames, lev2[f] = 0
          PROVE  \E vb \in VAs : On(lev2, pt2, pi2, f, vb)
      <3>1. CASE f = g
        <4>1. lev[t] = 1
          BY <1>2, <1>4, <2>5, <3>1
        <4>2. On(lev2, pt2, pi2, t, va) /\ lev2[t] = 1
          BY <1>5, <1>6, <4>1
        <4>3. On(lev2, pt2, pi2, g, va)
          BY <1>4, <2>5, <3>1, <4>1, <4>2 DEF On
        <4> QED
          BY <3>1, <4>3
      <3>2. CASE f # g
        <4>1. lev[f] = 0
          BY <1>4, <2>5, <3>2
        <4>2. PICK vb \in VAs : On(lev, pt, pi, f, vb)
          BY <1>1, <4>1 DEF Tree, Frame0
        <4>3. On(lev2, pt2, pi2, f, vb)
          BY <1>6, <4>1, <4>2
        <4> QED
          BY <4>3
      <3> QED
        BY <3>1, <3>2
    <2> QED
      BY <2>1, <2>2, <2>3, <2>4, <2>5 DEF Frame0
  <1>13. EarlyTabs(m2, lev2, pt2, pi2, dn)
    <2>1. ASSUME NEW f \in Frames, lev2[f] = 2, pt2[f] = EARLY3
          PROVE  /\ f \in Early /\ f = EARLY2(pi2[f])
                 /\ \A j \in Idx : m2[f][j] = IF HugeNo(pi2[f], j) \in Left(dn)
                                               THEN HugeWord(HugeNo(pi2[f], j)) ELSE Zero
      <3>1. f # g
        <4>1. f = g => lev[t] = 3 /\ t = EARLY3
          BY <1>2, <1>4, <2>1
        <4> QED
          BY <1>9, <4>1, FrameFacts
      <3>2. lev[f] = 2 /\ pt[f] = EARLY3 /\ pi2[f] = pi[f]
        BY <1>4, <2>1, <3>1
      <3>3. f # t
        BY <1>9, <3>2, FrameFacts
      <3>4. m2[f] = m[f]
        BY <1>3, <3>3
      <3> QED
        BY <1>1, <3>2, <3>4 DEF EarlyTabs
    <2>2. ASSUME NEW n \in Left(dn)
          PROVE  /\ lev2[EARLY2(n \div FAN)] = 2 /\ pt2[EARLY2(n \div FAN)] = EARLY3
                 /\ pi2[EARLY2(n \div FAN)] = n \div FAN
      <3> DEFINE u == EARLY2(n \div FAN)
      <3>1. u \in Frames
        BY HugeWordFacts
      <3>2. lev[u] = 2 /\ pt[u] = EARLY3 /\ pi[u] = n \div FAN
        BY <1>1 DEF EarlyTabs
      <3> HIDE DEF u
      <3>3. u # g
        BY <1>2, <3>2
      <3> QED
        BY <1>4, <3>1, <3>2, <3>3 DEF u
    <2> QED
      BY <2>1, <2>2 DEF EarlyTabs
  <1>14. Roles(lev2, hd \ {g}, sp2, dn)
    <2>1. /\ lev2[g] # OUT /\ lev2[g] # HELD /\ lev2[g] # SPARE
          /\ lev[g] # OUT
      BY <1>2, <1>5 DEF OUT, HELD, SPARE
    <2>3. \A f \in Frames : lev2[f] = OUT <=> lev[f] = OUT
      BY <1>4, <2>1
    <2>4. \A f \in Frames : lev2[f] = HELD <=> f \in hd \ {g}
      BY <1>1, <1>4, <2>1 DEF Roles
    <2>5. \A f \in Frames : lev2[f] = SPARE <=> f = sp2
      BY <1>1, <1>4, <2>1, FrameFacts DEF Roles
    <2> QED
      BY <1>1, <2>3, <2>4, <2>5 DEF Roles
  <1>15. List(m2, lev2, rank, q, head, count)
    <2>1. \A f \in Frames : lev2[f] = FREE <=> lev[f] = FREE
      BY <1>2, <1>4, <1>5 DEF FREE
    <2>2. lev[t] # FREE
      BY <1>2 DEF FREE
    <2>3. \A f \in Frames : lev[f] = FREE => m2[f][0] = m[f][0]
      BY <1>3, <2>2
    <2> QED
      BY <1>1, <2>1, <2>3, ListSame
  <1>16. Full(m2, lev2, pt2, fl, cr2)
    <2> SUFFICES ASSUME NEW f \in Frames \ Kernel, lev2[f] \in 1 .. 3, f # cr2, ~fl \/ pt2[f] = EARLY3
                 PROVE  \E j \in Idx : m2[f][j] # Zero
      BY DEF Full
    <2>1. f # g
      BY <1>2, <1>4
    <2>2. lev[f] \in 1 .. 3 /\ (~fl \/ pt[f] = EARLY3)
      BY <1>4, <2>1
    <2>3. CASE f = t
      BY <1>3, <1>7, <2>3
    <2>4. CASE f # t
      <3>1. m2[f] = m[f]
        BY <1>3, <2>4
      <3> QED
        BY <1>1, <2>2, <2>4, <3>1 DEF Full
    <2> QED
      BY <2>3, <2>4
  <1>17. Ghosts(lev2, pt2, pi2, rank, q)
    BY <1>1, <1>4 DEF Ghosts
  <1>18. Tree(m2, lev2, pt2, pi2)
    BY <1>10, <1>11, <1>12 DEF Tree
  <1>19. Shape(m2, lev2, pt2, pi2, rank, q, head, count, hd \ {g}, sp2, dn, fl, cr2)
    BY <1>3, <1>13, <1>14, <1>15, <1>16, <1>17, <1>18 DEF Shape
  <1> QED
    BY <1>19 DEF m2, lev2, pt2, pi2

(* Memory outside the tables and the free list is written.                 *)
LEMMA ShapeWrite ==
    ASSUME NEW m, NEW lev, NEW pt, NEW pi, NEW rank, NEW q, NEW head, NEW count, NEW hd, NEW sp,
           NEW dn, NEW fl, NEW cr,
           Shape(m, lev, pt, pi, rank, q, head, count, hd, sp, dn, fl, cr),
           NEW f \in Frames, lev[f] \notin 1 .. 4, lev[f] # FREE, NEW m2 \in Memory,
           \A h \in Frames \cup {NULL} : h # f => m2[h] = m[h]
    PROVE  Shape(m2, lev, pt, pi, rank, q, head, count, hd, sp, dn, fl, cr)
  <1>1. /\ m \in Memory /\ Ghosts(lev, pt, pi, rank, q)
        /\ Tree(m, lev, pt, pi) /\ EarlyTabs(m, lev, pt, pi, dn) /\ Roles(lev, hd, sp, dn)
        /\ List(m, lev, rank, q, head, count) /\ Full(m, lev, pt, fl, cr)
        /\ lev \in [Frames -> -4 .. 4]
    BY DEF Shape, Ghosts
  <1>2. m2[NULL] = m[NULL]
    BY FrameFacts
  <1>3. SameTree(m, m2, lev, lev)
    BY <1>2 DEF SameTree
  <1>4. Tree(m2, lev, pt, pi)
    BY <1>1, <1>3, TreeSame
  <1>5. EarlyTabs(m2, lev, pt, pi, dn)
    BY <1>1, <1>3, EarlySame
  <1>6. Full(m2, lev, pt, fl, cr)
    BY <1>1, <1>3, FullSame
  <1>7. \A h \in Frames : lev[h] = FREE => m2[h][0] = m[h][0]
    OBVIOUS
  <1>8. List(m2, lev, rank, q, head, count)
    BY <1>1, <1>7, ListSame
  <1> QED
    BY <1>1, <1>4, <1>5, <1>6, <1>8 DEF Shape

(* mm_frame_alloc hands out the head, for a client or for mm_page_map.     *)
LEMMA ShapeTake ==
    ASSUME NEW m, NEW lev, NEW pt, NEW pi, NEW rank, NEW q, NEW head, NEW count, NEW hd, NEW sp,
           NEW dn, NEW fl, NEW cr, NEW m2 \in Memory, NEW r, NEW hd2, NEW sp2,
           Shape(m, lev, pt, pi, rank, q, head, count, hd, sp, dn, fl, cr), head # NULL,
           \A h \in Frames \cup {NULL} : h # head => m2[h] = m[h],
           \/ r = HELD /\ hd2 = hd \cup {head} /\ sp2 = sp
           \/ r = SPARE /\ hd2 = hd /\ sp = NULL /\ sp2 = head
    PROVE  Shape(m2, [lev EXCEPT ![head] = r], pt, pi, rank, q, m[head][0].pa, count - 1,
                 hd2, sp2, dn, fl, cr)
  <1> DEFINE lev2 == [lev EXCEPT ![head] = r]
  <1>1. /\ m \in Memory /\ Ghosts(lev, pt, pi, rank, q)
        /\ Tree(m, lev, pt, pi) /\ EarlyTabs(m, lev, pt, pi, dn) /\ Roles(lev, hd, sp, dn)
        /\ List(m, lev, rank, q, head, count) /\ Full(m, lev, pt, fl, cr)
        /\ lev \in [Frames -> -4 .. 4]
    BY DEF Shape, Ghosts
  <1>2. head \in Frames /\ lev[head] = FREE
    BY <1>1, ListHead
  <1>3. r \in {-2, -3} /\ lev[head] = -1
    BY <1>2 DEF HELD, SPARE, FREE
  <1>4. lev2 \in [Frames -> -4 .. 4] /\ lev2[head] = r /\ \A f \in Frames : f # head => lev2[f] = lev[f]
    BY <1>1, <1>2, <1>3
  <1> HIDE DEF lev2
  <1>5. SameTree(m, m2, lev, lev2)
    <2>1. \A f \in Frames : lev2[f] = lev[f] \/ (lev[f] < 0 /\ lev2[f] < 0)
      BY <1>3, <1>4
    <2>2. \A f \in Frames : lev[f] \in 1 .. 4 => m2[f] = m[f]
      BY <1>3
    <2>3. m2[NULL] = m[NULL]
      BY <1>2, FrameFacts
    <2> QED
      BY <2>1, <2>2, <2>3 DEF SameTree
  <1>6. Tree(m2, lev2, pt, pi)
    BY <1>1, <1>4, <1>5, TreeSame
  <1>7. EarlyTabs(m2, lev2, pt, pi, dn)
    BY <1>1, <1>4, <1>5, EarlySame
  <1>8. Full(m2, lev2, pt, fl, cr)
    BY <1>1, <1>4, <1>5, FullSame
  <1>9. List(m2, lev2, rank, q, m[head][0].pa, count - 1)
    <2>1. lev2[head] # FREE
      BY <1>3, <1>4 DEF FREE
    <2>2. \A f \in Frames : f # head => lev2[f] = lev[f] /\ m2[f] = m[f]
      BY <1>4
    <2> QED
      BY <1>1, <2>1, <2>2, ListPop
  <1>10. Roles(lev2, hd2, sp2, dn)
    <2>1. lev[head] # OUT /\ lev[head] # HELD /\ lev[head] # SPARE /\ lev2[head] # OUT
      BY <1>3, <1>4 DEF OUT, HELD, SPARE
    <2>2. \A f \in Frames : lev2[f] = OUT <=> lev[f] = OUT
      BY <1>4, <2>1
    <2>3. HELD # SPARE /\ NULL \notin Frames
      BY FrameFacts DEF HELD, SPARE
    <2>4. \A f \in Frames : lev2[f] = HELD <=> f \in hd2
      BY <1>1, <1>2, <1>4, <2>1, <2>3 DEF Roles
    <2>5. \A f \in Frames : lev2[f] = SPARE <=> f = sp2
      BY <1>1, <1>2, <1>4, <2>1, <2>3 DEF Roles
    <2> QED
      BY <1>1, <2>2, <2>4, <2>5 DEF Roles
  <1>11. Ghosts(lev2, pt, pi, rank, q)
    BY <1>1, <1>4 DEF Ghosts
  <1>12. Shape(m2, lev2, pt, pi, rank, q, m[head][0].pa, count - 1, hd2, sp2, dn, fl, cr)
    BY <1>6, <1>7, <1>8, <1>9, <1>10, <1>11 DEF Shape
  <1> QED
    BY <1>12 DEF lev2

(* mm_frame_free takes back a frame that has no other role.                *)
LEMMA ShapeGive ==
    ASSUME NEW m, NEW lev, NEW pt, NEW pi, NEW rank, NEW q, NEW head, NEW count, NEW hd,
           NEW dn, NEW fl, NEW cr, NEW f \in Frames,
           Shape(m, lev, pt, pi, rank, q, head, count, hd, f, dn, fl, cr)
    PROVE  Shape(Put(m, f, 0, link(head)), [lev EXCEPT ![f] = FREE], pt, pi,
                 [rank EXCEPT ![f] = count + 1], [q EXCEPT ![count + 1] = f],
                 f, count + 1, hd, NULL, dn, fl, cr)
  <1> DEFINE lev2 == [lev EXCEPT ![f] = FREE]
             m2 == Put(m, f, 0, link(head))
             rank2 == [rank EXCEPT ![f] = count + 1]
             q2 == [q EXCEPT ![count + 1] = f]
  <1>1. /\ m \in Memory /\ Ghosts(lev, pt, pi, rank, q)
        /\ Tree(m, lev, pt, pi) /\ EarlyTabs(m, lev, pt, pi, dn) /\ Roles(lev, hd, f, dn)
        /\ List(m, lev, rank, q, head, count) /\ Full(m, lev, pt, fl, cr)
        /\ lev \in [Frames -> -4 .. 4]
    BY DEF Shape, Ghosts
  <1>2. head \in Frames \cup {NULL}
    BY <1>1, ListHead
  <1>3. lev[f] = SPARE /\ lev[f] = -3 /\ FREE = -1
    BY <1>1 DEF Roles, SPARE, FREE
  <1>4. lev2 \in [Frames -> -4 .. 4] /\ lev2[f] = FREE /\ \A h \in Frames : h # f => lev2[h] = lev[h]
    BY <1>1, <1>3
  <1>5. /\ m2 \in Memory /\ m2[f][0] = link(head)
        /\ \A h \in Frames \cup {NULL} : h # f => m2[h] = m[h]
    <2>1. 0 \in Idx /\ head \in 0 .. DT1
      BY <1>2, ParamFacts, FrameFacts DEF NULL
    <2>2. link(head) \in Word
      BY <2>1, WordFacts
    <2> QED
      BY <1>1, <2>1, <2>2, PutFacts
  <1> HIDE DEF lev2, m2
  <1>6. SameTree(m, m2, lev, lev2)
    <2>1. \A h \in Frames : lev2[h] = lev[h] \/ (lev[h] < 0 /\ lev2[h] < 0)
      BY <1>3, <1>4
    <2>2. \A h \in Frames : lev[h] \in 1 .. 4 => m2[h] = m[h]
      BY <1>3, <1>5
    <2>3. m2[NULL] = m[NULL]
      BY <1>5, FrameFacts
    <2> QED
      BY <2>1, <2>2, <2>3 DEF SameTree
  <1>7. Tree(m2, lev2, pt, pi)
    BY <1>1, <1>4, <1>5, <1>6, TreeSame
  <1>8. EarlyTabs(m2, lev2, pt, pi, dn)
    BY <1>1, <1>4, <1>6, EarlySame
  <1>9. Full(m2, lev2, pt, fl, cr)
    BY <1>1, <1>4, <1>6, FullSame
  <1>10. /\ List(m2, lev2, rank2, q2, f, count + 1)
         /\ rank2 \in [Frames -> Nat] /\ q2 \in [Nat -> 0 .. DT1]
    <2>1. lev[f] # FREE
      BY <1>3
    <2>2. \A h \in Frames : h # f => lev2[h] = lev[h] /\ m2[h] = m[h]
      BY <1>4, <1>5
    <2>3. lev2[f] = FREE /\ m2[f][0] = link(head)
      BY <1>4, <1>5
    <2>4. List(m2, lev2, rank2, q2, f, count + 1)
      BY <1>1, <2>1, <2>2, <2>3, ListPush
    <2>5. count + 1 \in Nat /\ f \in 0 .. DT1
      BY <1>1, FrameFacts DEF List
    <2> QED
      BY <1>1, <2>4, <2>5 DEF Ghosts
  <1> HIDE DEF rank2, q2
  <1>11. Roles(lev2, hd, NULL, dn)
    <2>1. lev[f] # OUT /\ lev[f] # HELD /\ lev2[f] # OUT /\ lev2[f] # HELD /\ lev2[f] # SPARE
      BY <1>3, <1>4 DEF OUT, HELD, SPARE
    <2>2. \A h \in Frames : lev2[h] = OUT <=> lev[h] = OUT
      BY <1>4, <2>1
    <2>3. \A h \in Frames : lev2[h] = HELD <=> lev[h] = HELD
      BY <1>4, <2>1
    <2>4. \A h \in Frames : lev2[h] # SPARE /\ h # NULL
      BY <1>1, <1>4, <2>1, FrameFacts DEF Roles
    <2> QED
      BY <1>1, <2>2, <2>3, <2>4 DEF Roles
  <1>12. Ghosts(lev2, pt, pi, rank2, q2)
    BY <1>1, <1>4, <1>10 DEF Ghosts
  <1>13. Shape(m2, lev2, pt, pi, rank2, q2, f, count + 1, hd, NULL, dn, fl, cr)
    BY <1>5, <1>7, <1>8, <1>9, <1>10, <1>11, <1>12 DEF Shape
  <1> QED
    BY <1>13 DEF m2, lev2, rank2, q2

(* cr may change when it is not empty, or after a mapping failed.          *)
LEMMA ShapeCur ==
    ASSUME NEW m, NEW lev, NEW pt, NEW pi, NEW rank, NEW q, NEW head, NEW count, NEW hd, NEW sp,
           NEW dn, NEW fl, NEW cr, NEW fl2, NEW cr2,
           Shape(m, lev, pt, pi, rank, q, head, count, hd, sp, dn, fl, cr), fl => fl2,
           cr \in Frames \ Kernel /\ lev[cr] \in 1 .. 3 =>
              (fl2 /\ pt[cr] # EARLY3) \/ \E i \in Idx : m[cr][i] # Zero
    PROVE  Shape(m, lev, pt, pi, rank, q, head, count, hd, sp, dn, fl2, cr2)
  <1>1. Full(m, lev, pt, fl, cr)
    BY DEF Shape
  <1>2. Full(m, lev, pt, fl2, cr2)
    BY <1>1 DEF Full
  <1> QED
    BY <1>2 DEF Shape
-----------------------------------------------------------------------------
(* One huge page fewer is left.                                            *)
LEMMA LeftNext ==
    ASSUME NEW dn \in 1 .. HUGES - 1, dn \notin KeptHuges
    PROVE  dn \in Left(dn) /\ Left(dn + 1) = Left(dn) \ {dn}
  <1>1. HUGES \in Nat
    BY ParamFacts
  <1> QED
    BY <1>1 DEF Left

(* The entry of a huge page is cleared.                                    *)
LEMMA ClearHuge ==
    ASSUME NEW m \in Memory, NEW lev, NEW pt, NEW pi, NEW rank, NEW q, NEW fl,
           NEW dn \in 1 .. HUGES - 1, dn \notin KeptHuges,
           Ghosts(lev, pt, pi, rank, q), Tree(m, lev, pt, pi), EarlyTabs(m, lev, pt, pi, dn),
           Full(m, lev, pt, fl, NULL)
    PROVE  LET t == EARLY2(dn \div FAN)
               m2 == Put(m, t, dn % FAN, Zero)
           IN  /\ m2 \in Memory /\ Tree(m2, lev, pt, pi) /\ EarlyTabs(m2, lev, pt, pi, dn + 1)
               /\ Full(m2, lev, pt, fl, t)
  <1> DEFINE k == dn \div FAN
             i == dn % FAN
             t == EARLY2(k)
             m2 == Put(m, t, i, Zero)
  <1>1. dn \in Left(dn) /\ Left(dn + 1) = Left(dn) \ {dn}
    BY LeftNext
  <1>2. /\ HugeWord(dn) # Zero /\ HugeWord(dn).huge /\ k \in Idx /\ i \in Idx /\ HugeNo(k, i) = dn
        /\ t \in Frames
    BY <1>1, HugeWordFacts
  <1>3. lev[t] = 2 /\ pt[t] = EARLY3 /\ pi[t] = k
    BY <1>1 DEF EarlyTabs
  <1> HIDE DEF k, i, t
  <1>4. m[t][i] = HugeWord(dn)
    BY <1>1, <1>2, <1>3 DEF EarlyTabs
  <1>5. /\ m2 \in Memory /\ m2[t][i] = Zero
        /\ \A h \in Frames \cup {NULL} : h # t => m2[h] = m[h]
        /\ \A j \in Idx : j # i => m2[t][j] = m[t][j]
    <2>1. Zero \in Word
      BY WordFacts
    <2> QED
      BY <1>2, <2>1, PutFacts
  <1> HIDE DEF m2
  <1>6. \A f \in Frames : lev[f] \in -4 .. 4 /\ pt[f] \in Frames /\ pi[f] \in Idx
    BY DEF Ghosts
  <1>7. Down(m2, lev, pt, pi)
    <2>1. ASSUME NEW u \in Frames, NEW j \in Idx, lev[u] \in 1 .. 4
          PROVE  Entry(m2[u][j], u, j, lev, pt, pi)
      <3>1. CASE u = t /\ j = i
        BY <1>5, <3>1 DEF Entry
      <3>2. CASE ~(u = t /\ j = i)
        <4>1. m2[u][j] = m[u][j]
          BY <1>5, <3>2
        <4> QED
          BY <2>1, <4>1 DEF Tree, Down
      <3> QED
        BY <3>1, <3>2
    <2>2. \A j \in Idx : m2[NULL][j] = Zero
      <3>1. NULL # t
        BY <1>2, FrameFacts
      <3>2. m2[NULL] = m[NULL]
        BY <1>5, <3>1
      <3> QED
        BY <3>2 DEF Tree, Down
    <2> QED
      BY <2>1, <2>2 DEF Down
  <1>8. Up(m2, lev, pt, pi)
    <2> SUFFICES ASSUME NEW f \in Frames, lev[f] \in 0 .. 3
                 PROVE  lev[pt[f]] = lev[f] + 1 /\ m2[pt[f]][pi[f]] = tab_entry(f)
      BY DEF Up
    <2>1. lev[pt[f]] = lev[f] + 1 /\ m[pt[f]][pi[f]] = tab_entry(f)
      BY DEF Tree, Up
    <2>2. ~tab_entry(f).huge
      BY WordFacts, FrameFacts
    <2>3. ~(pt[f] = t /\ pi[f] = i)
      BY <1>2, <1>4, <2>1, <2>2
    <2>4. m2[pt[f]][pi[f]] = m[pt[f]][pi[f]]
      BY <1>5, <1>6, <2>3
    <2> QED
      BY <2>1, <2>4
  <1>9. Tree(m2, lev, pt, pi)
    BY <1>7, <1>8 DEF Tree
  <1>10. EarlyTabs(m2, lev, pt, pi, dn + 1)
    <2>1. ASSUME NEW u \in Frames, lev[u] = 2, pt[u] = EARLY3
          PROVE  /\ u \in Early /\ u = EARLY2(pi[u])
                 /\ \A j \in Idx : m2[u][j] = IF HugeNo(pi[u], j) \in Left(dn + 1)
                                               THEN HugeWord(HugeNo(pi[u], j)) ELSE Zero
      <3>1. /\ u \in Early /\ u = EARLY2(pi[u]) /\ pi[u] \in Idx
            /\ \A j \in Idx : m[u][j] = IF HugeNo(pi[u], j) \in Left(dn)
                                         THEN HugeWord(HugeNo(pi[u], j)) ELSE Zero
        BY <1>6, <2>1 DEF EarlyTabs
      <3>2. ASSUME NEW j \in Idx
            PROVE  m2[u][j] = IF HugeNo(pi[u], j) \in Left(dn + 1)
                               THEN HugeWord(HugeNo(pi[u], j)) ELSE Zero
        <4>1. CASE u = t /\ j = i
          BY <1>1, <1>2, <1>3, <1>5, <4>1
        <4>2. CASE ~(u = t /\ j = i)
          <5>1. HugeNo(pi[u], j) \div FAN = pi[u] /\ HugeNo(pi[u], j) % FAN = j
            BY <3>1, HugeNumber DEF HugeNo
          <5>2. HugeNo(pi[u], j) # dn
            <6>1. HugeNo(pi[u], j) = dn => pi[u] = k /\ j = i
              BY <5>1 DEF k, i
            <6> QED
              BY <3>1, <4>2, <6>1 DEF t
          <5>3. m2[u][j] = m[u][j]
            BY <1>5, <4>2
          <5> QED
            BY <1>1, <3>1, <5>2, <5>3
        <4> QED
          BY <4>1, <4>2
      <3> QED
        BY <3>1, <3>2
    <2>2. ASSUME NEW p \in Left(dn + 1)
          PROVE  /\ lev[EARLY2(p \div FAN)] = 2 /\ pt[EARLY2(p \div FAN)] = EARLY3
                 /\ pi[EARLY2(p \div FAN)] = p \div FAN
      BY <1>1 DEF EarlyTabs
    <2> QED
      BY <2>1, <2>2 DEF EarlyTabs
  <1>11. Full(m2, lev, pt, fl, t)
    <2> SUFFICES ASSUME NEW u \in Frames \ Kernel, lev[u] \in 1 .. 3, u # t, ~fl \/ pt[u] = EARLY3
                 PROVE  \E j \in Idx : m2[u][j] # Zero
      BY DEF Full
    <2>1. m2[u] = m[u] /\ u # NULL
      BY <1>5, FrameFacts
    <2> QED
      BY <2>1 DEF Full
  <1> QED
    BY <1>5, <1>9, <1>10, <1>11 DEF m2, t, k, i

(* mm_frame_free of the frames of a huge page, in ascending order.         *)
HugeFrame(dn, j) == dn * FAN + j
HugeRoles(lev, lev2, dn) ==
    /\ \A j \in Idx : lev[HugeFrame(dn, j)] # FREE /\ lev2[HugeFrame(dn, j)] = FREE
    /\ \A f \in Frames : (\A j \in Idx : f # HugeFrame(dn, j)) => lev2[f] = lev[f]
HugeLinks(m, m2, dn, head) ==
    /\ \A f \in Frames \cup {NULL} : (\A j \in Idx : f # HugeFrame(dn, j)) => m2[f] = m[f]
    /\ m2[HugeFrame(dn, 0)][0] = link(head)
    /\ \A j \in Idx : j > 0 => m2[HugeFrame(dn, j)][0] = link(HugeFrame(dn, j - 1))

(* The frames of a huge page are pushed in ascending order.                *)
LEMMA ListPushHuge ==
    ASSUME NEW m, NEW m2, NEW lev, NEW pt, NEW pi, NEW rank, NEW q, NEW head, NEW count,
           Ghosts(lev, pt, pi, rank, q), List(m, lev, rank, q, head, count),
           NEW dn \in 1 .. HUGES - 1, NEW lev2,
           HugeRoles(lev, lev2, dn), HugeLinks(m, m2, dn, head)
    PROVE  \E rank2 \in [Frames -> Nat], q2 \in [Nat -> 0 .. DT1] :
              List(m2, lev2, rank2, q2, HugeFrame(dn, FAN - 1), count + FAN)
  <1> DEFINE page == {HugeFrame(dn, j) : j \in Idx}
             rank2 == [f \in Frames |-> IF f \in page THEN count + 1 + (f - dn * FAN) ELSE rank[f]]
             q2 == [n \in Nat |-> IF n \in count + 1 .. count + FAN
                                  THEN HugeFrame(dn, n - count - 1) ELSE q[n]]
  <1>1. count \in Nat /\ q[0] = NULL /\ head = q[count]
    BY DEF List
  <1>2. q \in [Nat -> 0 .. DT1] /\ rank \in [Frames -> Nat]
    BY DEF Ghosts
  <1>3. FAN \in Nat /\ FAN > 1 /\ dn * FAN \in Nat /\ \A j \in Idx : j \in 0 .. FAN - 1
    BY ParamFacts DEF Idx
  <1>4. \A j \in 0 .. FAN - 1 : j \in Idx
    BY DEF Idx
  <1>5. ASSUME NEW j \in Idx
        PROVE  HugeFrame(dn, j) \in Frames /\ HugeFrame(dn, j) \in 0 .. DT1 /\ HugeFrame(dn, j) - dn * FAN = j
    <2>1. dn * FAN + j \in Ram
      BY HugeFrames
    <2> DEFINE a == dn * FAN
    <2>2. a \in Nat /\ j \in Nat
      BY <1>3
    <2> HIDE DEF a
    <2>4. HugeFrame(dn, j) = a + j
      BY DEF HugeFrame, a
    <2>5. HugeFrame(dn, j) - a = j
      BY <2>2, <2>4
    <2>6. HugeFrame(dn, j) \in Ram
      BY <2>1 DEF HugeFrame
    <2>7. Ram \subseteq Frames /\ Frames \subseteq 0 .. DT1
      BY FrameFacts
    <2> QED
      BY <2>5, <2>6, <2>7 DEF a
  <1>6. \A f \in page : \E j \in Idx : f = HugeFrame(dn, j)
    OBVIOUS
  <1>7. \A f \in Frames \ page : lev2[f] = lev[f] /\ m2[f] = m[f]
    BY DEF HugeRoles, HugeLinks
  <1>8. \A f \in page : lev[f] # FREE /\ lev2[f] = FREE
    BY DEF HugeRoles
  <1>9. rank2 \in [Frames -> Nat]
    <2>1. ASSUME NEW f \in Frames, f \in page PROVE count + 1 + (f - dn * FAN) \in Nat
      <3>1. PICK j \in Idx : f = HugeFrame(dn, j)
        BY <2>1
      <3>2. f - dn * FAN = j /\ j \in Nat
        BY <1>3, <1>5, <3>1
      <3> QED
        BY <1>1, <3>2
    <2> HIDE DEF page
    <2> QED
      BY <1>2, <2>1
  <1>10. \A n \in Nat : n \in count + 1 .. count + FAN => n - count - 1 \in Idx /\ n - count - 1 \in 0 .. FAN - 1
    BY <1>1, <1>3, <1>4
  <1>11. q2 \in [Nat -> 0 .. DT1]
    BY <1>2, <1>5, <1>10
  <1>12. /\ \A n \in 0 .. count : q2[n] = q[n]
         /\ \A n \in count + 1 .. count + FAN : q2[n] = HugeFrame(dn, n - count - 1)
    BY <1>1, <1>3
  <1>13. /\ \A j \in Idx : rank2[HugeFrame(dn, j)] = count + 1 + j
         /\ \A f \in Frames \ page : rank2[f] = rank[f]
    BY <1>5
  <1> HIDE DEF q2, rank2, page
  <1>14. ASSUME NEW n \in 1 .. count + FAN
         PROVE  /\ q2[n] \in Frames /\ lev2[q2[n]] = FREE /\ rank2[q2[n]] = n
                /\ m2[q2[n]][0] = link(q2[n - 1])
    <2>1. CASE n <= count
      <3>1. n \in 1 .. count /\ n \in 0 .. count /\ n - 1 \in 0 .. count
        BY <1>1, <2>1
      <3>2. q[n] \in Frames /\ lev[q[n]] = FREE /\ rank[q[n]] = n /\ m[q[n]][0] = link(q[n - 1])
        BY <3>1 DEF List
      <3>3. q[n] \notin page
        BY <1>8, <3>2
      <3>4. q2[n] = q[n] /\ q2[n - 1] = q[n - 1]
        BY <1>12, <3>1
      <3> QED
        BY <1>7, <1>13, <3>2, <3>3, <3>4
    <2>2. CASE n = count + 1
      <3>1. n \in count + 1 .. count + FAN /\ n - count - 1 = 0 /\ n - 1 = count /\ 0 \in Idx /\ count \in 0 .. count
        BY <1>1, <1>3, <1>4, <2>2
      <3>2. q2[n] = HugeFrame(dn, 0) /\ q2[n - 1] = head
        BY <1>1, <1>12, <3>1
      <3>3. rank2[HugeFrame(dn, 0)] = n
        BY <1>1, <1>13, <2>2, <3>1
      <3> QED
        BY <1>5, <3>1, <3>2, <3>3 DEF HugeRoles, HugeLinks
    <2>3. CASE n > count + 1
      <3> DEFINE j == n - count - 1
      <3>1. n \in count + 1 .. count + FAN /\ n - 1 \in count + 1 .. count + FAN /\ j \in 0 .. FAN - 1 /\ j > 0
            /\ (n - 1) - count - 1 = j - 1 /\ count + 1 + j = n
        BY <1>1, <1>3, <2>3
      <3>2. j \in Idx
        BY <1>4, <3>1
      <3>3. q2[n] = HugeFrame(dn, j) /\ q2[n - 1] = HugeFrame(dn, j - 1)
        BY <1>12, <3>1
      <3> HIDE DEF j
      <3> QED
        BY <1>5, <1>13, <3>1, <3>2, <3>3 DEF HugeRoles, HugeLinks
    <2> QED
      BY <1>1, <2>1, <2>2, <2>3
  <1>15. ASSUME NEW f \in Frames, lev2[f] = FREE
         PROVE  rank2[f] \in 1 .. count + FAN /\ q2[rank2[f]] = f
    <2>1. CASE f \in page
      <3>1. PICK j \in Idx : f = HugeFrame(dn, j)
        BY <1>6, <2>1 DEF page
      <3>2. rank2[f] = count + 1 + j /\ j \in 0 .. FAN - 1
        BY <1>3, <1>13, <3>1
      <3>3. count + 1 + j \in count + 1 .. count + FAN /\ (count + 1 + j) - count - 1 = j
            /\ count + 1 + j \in 1 .. count + FAN
        BY <1>1, <1>3, <3>2
      <3>4. q2[count + 1 + j] = HugeFrame(dn, j)
        BY <1>12, <3>3
      <3> QED
        BY <3>1, <3>2, <3>3, <3>4
    <2>2. CASE f \notin page
      <3>1. lev[f] = FREE /\ rank2[f] = rank[f]
        BY <1>7, <1>13, <1>15, <2>2
      <3>2. rank[f] \in 1 .. count /\ q[rank[f]] = f
        BY <3>1 DEF List
      <3>3. rank[f] \in 0 .. count /\ rank[f] \in 1 .. count + FAN
        BY <1>1, <1>3, <3>2
      <3> QED
        BY <1>12, <3>1, <3>2, <3>3
    <2> QED
      BY <2>1, <2>2
  <1>16. q2[0] = NULL /\ count + FAN \in Nat /\ q2[count + FAN] = HugeFrame(dn, FAN - 1)
    <2>1. 0 \in 0 .. count /\ count + FAN \in count + 1 .. count + FAN /\ (count + FAN) - count - 1 = FAN - 1
      BY <1>1, <1>3
    <2> QED
      BY <1>1, <1>3, <1>12, <2>1
  <1>17. List(m2, lev2, rank2, q2, HugeFrame(dn, FAN - 1), count + FAN)
    BY <1>14, <1>15, <1>16 DEF List
  <1> QED
    BY <1>9, <1>11, <1>17

(* A huge page goes whose frames stay with their owner.                    *)
LEMMA ShapeHugeKeep ==
    ASSUME NEW m, NEW lev, NEW pt, NEW pi, NEW rank, NEW q, NEW head, NEW count, NEW hd, NEW sp,
           NEW fl, NEW dn \in 1 .. HUGES - 1, dn \notin KeptHuges, dn \notin FreedHuges,
           Shape(m, lev, pt, pi, rank, q, head, count, hd, sp, dn, fl, NULL)
    PROVE  Shape(Put(m, EARLY2(dn \div FAN), dn % FAN, Zero), lev, pt, pi, rank, q,
                 head, count, hd, sp, dn + 1, fl, EARLY2(dn \div FAN))
  <1> DEFINE t == EARLY2(dn \div FAN)
             m2 == Put(m, t, dn % FAN, Zero)
  <1>1. /\ m \in Memory /\ Ghosts(lev, pt, pi, rank, q)
        /\ Tree(m, lev, pt, pi) /\ EarlyTabs(m, lev, pt, pi, dn) /\ Roles(lev, hd, sp, dn)
        /\ List(m, lev, rank, q, head, count) /\ Full(m, lev, pt, fl, NULL)
    BY DEF Shape
  <1>2. /\ m2 \in Memory /\ Tree(m2, lev, pt, pi) /\ EarlyTabs(m2, lev, pt, pi, dn + 1)
        /\ Full(m2, lev, pt, fl, t)
    BY <1>1, ClearHuge
  <1>3. t \in Frames /\ dn % FAN \in Idx /\ lev[t] = 2
    <2>1. dn \in Left(dn)
      BY LeftNext
    <2> QED
      BY <1>1, <2>1, HugeWordFacts DEF EarlyTabs
  <1>4. \A h \in Frames \cup {NULL} : h # t => m2[h] = m[h]
    BY <1>1, <1>3, PutFacts, WordFacts
  <1> HIDE DEF m2, t
  <1>5. List(m2, lev, rank, q, head, count)
    <2>1. \A f \in Frames : lev[f] = FREE => m2[f][0] = m[f][0]
      BY <1>3, <1>4 DEF FREE
    <2> QED
      BY <1>1, <2>1, ListSame
  <1>6. Roles(lev, hd, sp, dn + 1)
    <2>1. \A f \in Ram : f \div FAN \in Int
      BY RamHuge
    <2>2. \A f \in Ram : (f \div FAN \notin FreedHuges \/ f \div FAN >= dn)
                           <=> (f \div FAN \notin FreedHuges \/ f \div FAN >= dn + 1)
      <3>1. ASSUME NEW f \in Ram PROVE f \div FAN \in FreedHuges => (f \div FAN >= dn <=> f \div FAN >= dn + 1)
        <4>1. f \div FAN \in Int /\ (f \div FAN \in FreedHuges => f \div FAN # dn)
          BY <2>1
        <4> DEFINE p == f \div FAN
        <4> HIDE DEF p
        <4>2. p \in Int /\ p # dn => (p >= dn <=> p >= dn + 1)
          OBVIOUS
        <4> QED
          BY <4>1, <4>2 DEF p
      <3> QED
        BY <3>1
    <2> QED
      BY <1>1, <2>2 DEF Roles
  <1>7. Shape(m2, lev, pt, pi, rank, q, head, count, hd, sp, dn + 1, fl, t)
    BY <1>1, <1>2, <1>5, <1>6 DEF Shape
  <1> QED
    BY <1>7 DEF m2, t

(* A huge page goes and its frames are freed: mf is memory after that.     *)
LEMMA ShapeHugeFree ==
    ASSUME NEW m, NEW lev, NEW pt, NEW pi, NEW rank, NEW q, NEW head, NEW count, NEW hd, NEW sp,
           NEW fl, NEW dn \in 1 .. HUGES - 1, dn \notin KeptHuges, dn \in FreedHuges,
           Shape(m, lev, pt, pi, rank, q, head, count, hd, sp, dn, fl, NULL), NEW mf \in Memory,
           HugeLinks(m, mf, dn, head)
    PROVE  \E lev2, rank2, q2 :
              /\ lev2 \in [Frames -> -4 .. 4] /\ SameTree(m, mf, lev, lev2)
              /\ Shape(Put(mf, EARLY2(dn \div FAN), dn % FAN, Zero), lev2, pt, pi, rank2, q2,
                       HugeFrame(dn, FAN - 1), count + FAN, hd, sp, dn + 1, fl, EARLY2(dn \div FAN))
  <1> DEFINE t == EARLY2(dn \div FAN)
             m2 == Put(mf, t, dn % FAN, Zero)
             page == {HugeFrame(dn, j) : j \in Idx}
             lev2 == [f \in Frames |-> IF f \in page THEN FREE ELSE lev[f]]
  <1>1. /\ m \in Memory /\ Ghosts(lev, pt, pi, rank, q)
        /\ Tree(m, lev, pt, pi) /\ EarlyTabs(m, lev, pt, pi, dn) /\ Roles(lev, hd, sp, dn)
        /\ List(m, lev, rank, q, head, count) /\ Full(m, lev, pt, fl, NULL)
        /\ lev \in [Frames -> -4 .. 4]
    BY DEF Shape, Ghosts
  <1>2. \A j \in Idx : HugeFrame(dn, j) \in Ram /\ HugeFrame(dn, j) \div FAN = dn
    <2>1. dn \in 0 .. HUGES - 1 /\ dn > 0
      OBVIOUS
    <2> QED
      BY <2>1, HugeFrames DEF HugeFrame
  <1>3. ASSUME NEW f \in Ram, f \div FAN = dn PROVE f \in page
    <2>1. f = (f \div FAN) * FAN + (f % FAN) /\ f % FAN \in Idx
      BY RamHuge
    <2>2. f = HugeFrame(dn, f % FAN)
      BY <1>3, <2>1 DEF HugeFrame
    <2> QED
      BY <2>1, <2>2
  <1>4. \A f \in page : f \in Ram /\ f \div FAN = dn /\ f \in Frames /\ lev[f] = OUT
    <2>1. \A f \in page : f \in Ram /\ f \div FAN = dn
      BY <1>2
    <2>2. dn >= dn
      OBVIOUS
    <2> QED
      BY <1>1, <2>1, <2>2, FrameFacts DEF Roles
  <1>5. /\ lev2 \in [Frames -> -4 .. 4] /\ \A f \in page : lev2[f] = FREE
        /\ \A f \in Frames \ page : lev2[f] = lev[f]
    <2>1. FREE \in -4 .. 4
      BY DEF FREE
    <2> HIDE DEF page
    <2> QED
      BY <1>1, <1>4, <2>1
  <1>6. \A f \in Frames \cup {NULL} : f \notin page => mf[f] = m[f]
    BY DEF HugeLinks
  <1> HIDE DEF lev2
  <1>7. SameTree(m, mf, lev, lev2)
    <2> HIDE DEF page
    <2>1. \A f \in Frames : lev2[f] = lev[f] \/ (lev[f] < 0 /\ lev2[f] < 0)
      BY <1>4, <1>5 DEF OUT, FREE
    <2>2. \A f \in Frames : lev[f] \in 1 .. 4 => mf[f] = m[f]
      BY <1>4, <1>6 DEF OUT
    <2>3. mf[NULL] = m[NULL]
      BY <1>4, <1>6, FrameFacts
    <2> QED
      BY <2>1, <2>2, <2>3 DEF SameTree
  <1>8. \E rank2 \in [Frames -> Nat], q2 \in [Nat -> 0 .. DT1] :
              List(mf, lev2, rank2, q2, HugeFrame(dn, FAN - 1), count + FAN)
    <2>1. \A j \in Idx : lev[HugeFrame(dn, j)] # FREE /\ lev2[HugeFrame(dn, j)] = FREE
      BY <1>4, <1>5 DEF OUT, FREE
    <2>2. \A f \in Frames : (\A j \in Idx : f # HugeFrame(dn, j)) => lev2[f] = lev[f]
      BY <1>5
    <2>3. HugeRoles(lev, lev2, dn)
      BY <2>1, <2>2 DEF HugeRoles
    <2> QED
      BY <1>1, <2>3, ListPushHuge
  <1>9. PICK rank2 \in [Frames -> Nat], q2 \in [Nat -> 0 .. DT1] :
              List(mf, lev2, rank2, q2, HugeFrame(dn, FAN - 1), count + FAN)
    BY <1>8
  <1> HIDE DEF page
  <1>10. Ghosts(lev2, pt, pi, rank2, q2)
    BY <1>1, <1>5 DEF Ghosts
  <1>11. /\ Tree(mf, lev2, pt, pi) /\ EarlyTabs(mf, lev2, pt, pi, dn) /\ Full(mf, lev2, pt, fl, NULL)
    <2>1. Tree(mf, lev2, pt, pi)
      BY <1>1, <1>5, <1>7, TreeSame
    <2>2. EarlyTabs(mf, lev2, pt, pi, dn)
      BY <1>1, <1>5, <1>7, EarlySame
    <2>3. Full(mf, lev2, pt, fl, NULL)
      BY <1>1, <1>5, <1>7, FullSame
    <2> QED
      BY <2>1, <2>2, <2>3
  <1>12. /\ m2 \in Memory /\ Tree(m2, lev2, pt, pi) /\ EarlyTabs(m2, lev2, pt, pi, dn + 1)
         /\ Full(m2, lev2, pt, fl, t)
    BY <1>10, <1>11, ClearHuge
  <1>13. t \in Frames /\ dn % FAN \in Idx /\ lev2[t] = 2
    <2>1. dn \in Left(dn)
      BY LeftNext
    <2> QED
      BY <1>11, <2>1, HugeWordFacts DEF EarlyTabs
  <1>14. \A h \in Frames \cup {NULL} : h # t => m2[h] = mf[h]
    BY <1>13, PutFacts, WordFacts
  <1> HIDE DEF m2, t
  <1>15. List(m2, lev2, rank2, q2, HugeFrame(dn, FAN - 1), count + FAN)
    <2>1. \A f \in Frames : lev2[f] = FREE => m2[f][0] = mf[f][0]
      BY <1>13, <1>14 DEF FREE
    <2> QED
      BY <1>9, <1>10, <2>1, ListSame
  <1>16. Roles(lev2, hd, sp, dn + 1)
    <2>1. \A f \in Frames : lev2[f] = HELD <=> lev[f] = HELD
      BY <1>4, <1>5 DEF OUT, FREE, HELD
    <2>2. \A f \in Frames : lev2[f] = SPARE <=> lev[f] = SPARE
      BY <1>4, <1>5 DEF OUT, FREE, SPARE
    <2>3. ASSUME NEW f \in Frames
          PROVE  lev2[f] = OUT <=> f \in Ram /\ (f \div FAN \notin FreedHuges \/ f \div FAN >= dn + 1)
      <3>1. CASE f \in page
        <4>1. lev2[f] # OUT
          BY <1>5, <3>1 DEF OUT, FREE
        <4>2. f \div FAN = dn
          BY <1>4, <3>1
        <4>3. ~(dn >= dn + 1)
          OBVIOUS
        <4> QED
          BY <4>1, <4>2, <4>3
      <3>2. CASE f \notin page
        <4>1. lev2[f] = lev[f]
          BY <1>5, <3>2
        <4>2. f \in Ram => f \div FAN # dn /\ f \div FAN \in Int
          BY <1>3, <3>2, RamHuge
        <4> DEFINE p == f \div FAN
        <4> HIDE DEF p
        <4>3. f \in Ram => (p >= dn <=> p >= dn + 1)
          BY <4>2 DEF p
        <4>4. lev[f] = OUT <=> f \in Ram /\ (p \notin FreedHuges \/ p >= dn)
          BY <1>1 DEF Roles, p
        <4>5. lev[f] = OUT <=> f \in Ram /\ (p \notin FreedHuges \/ p >= dn + 1)
          BY <4>3, <4>4
        <4> QED
          BY <4>1, <4>5 DEF p
      <3> QED
        BY <3>1, <3>2
    <2> QED
      BY <1>1, <2>1, <2>2, <2>3 DEF Roles
  <1>17. Shape(m2, lev2, pt, pi, rank2, q2, HugeFrame(dn, FAN - 1), count + FAN, hd, sp, dn + 1, fl, t)
    BY <1>10, <1>12, <1>15, <1>16 DEF Shape
  <1> QED
    BY <1>5, <1>7, <1>17 DEF m2, t
-----------------------------------------------------------------------------
(***************************************************************************)
(* The state.  While unmap_table goes up, one entry is stale: it leads to  *)
(* a frame that is free already.  View is memory without it.  Done counts  *)
(* the huge pages that are dealt with, Cur is the table a call works at.   *)
(***************************************************************************)
View == IF pc = "unmap_table" THEN Put(mem, call.tab[call.lv], idx(call.va, call.lv), Zero) ELSE mem
Done == IF call.huge /\ pc \in {"unmap_walk", "unmap_leaf"} THEN boot - 1 ELSE boot
Cur == IF pc \in {"map_frame", "map_entry", "map_leaf", "unmap_table"} THEN call.tab[call.lv] ELSE NULL

TlbPages == VAs \cup {WIN} \cup {huge_va(k) : k \in 0 .. HUGES - 1}
CallType ==
    [va : TlbPages, pa : 0 .. DT1, lv : 0 .. 5, tab : [0 .. 4 -> 0 .. DT1],
     frame : Frames \cup {NULL}, ok : BOOLEAN, huge : BOOLEAN, free : BOOLEAN]

(* The TLB t remembers nothing wrong, but for page x.                      *)
Remembers(t, lev, pt, pi, x) ==
    /\ t \in [TlbPages -> Frames \cup {NULL}]
    /\ \A va \in TlbPages : t[va] # NULL =>
          /\ va \in VAs
          /\ va = x \/ (lev[t[va]] = 0 /\ On(lev, pt, pi, t[va], va))
Flushing == IF pc \in {"unmap_table", "unmap_flush"} THEN call.va ELSE WIN

(* mm_page_map has come to a table on the way of a page that has no frame. *)
Mapping(lev, pt, pi) ==
    /\ boot = HUGES + 1 /\ ~call.huge /\ call.va \in VAs /\ call.pa \in held
    /\ call.tab[call.lv] \in Frames /\ lev[call.tab[call.lv]] = call.lv
    /\ On(lev, pt, pi, call.tab[call.lv], call.va)
    /\ \A f \in Frames : lev[f] = 0 => ~On(lev, pt, pi, f, call.va)
Blank == call.frame # NULL => \A i \in Idx : mem[call.frame][i] = Zero

(* _unmap works on a client page, or on the last huge page of the loop.    *)
Unmapping ==
    /\ call.frame = NULL
    /\ IF call.huge
       THEN /\ boot - 1 \in (1 .. HUGES - 1) \ KeptHuges /\ call.va = huge_va(boot - 1)
            /\ call.free <=> boot - 1 \in FreedHuges
       ELSE boot = HUGES + 1 /\ call.va \in VAs /\ call.free

(* The tables it goes back up.                                             *)
Way(lev, pt, pi) ==
    \A l \in call.lv .. 4 :
        /\ call.tab[l] \in Frames /\ lev[call.tab[l]] = l
        /\ On(lev, pt, pi, call.tab[l], call.va)

(* The stale entry of a client page: what it leads to has no entries.      *)
Stale ==
    \E g \in Frames :
        /\ mem[call.tab[call.lv]][idx(call.va, call.lv)] = tab_entry(g)
        /\ call.lv > 1 => \A i \in Idx : ~mem[g][i].present

PcOK(lev, pt, pi) ==
    \/ pc = "boot" /\ boot \in 1 .. HUGES /\ call = Idle
    \/ pc = "idle" /\ boot = HUGES + 1 /\ call = Idle
    \/ pc = "map_frame" /\ Mapping(lev, pt, pi) /\ call.lv \in 2 .. 4 /\ Blank
    \/ pc = "map_entry" /\ Mapping(lev, pt, pi) /\ call.lv \in 2 .. 4 /\ Blank /\ call.frame # NULL
    \/ pc = "map_leaf" /\ Mapping(lev, pt, pi) /\ call.lv = 1
    \/ pc = "map_back" /\ boot = HUGES + 1 /\ ~call.huge
    \/ /\ pc = "unmap_walk" /\ Unmapping
       /\ ~call.huge => \E f \in Frames : lev[f] = 0 /\ On(lev, pt, pi, f, call.va)
    \/ /\ pc = "unmap_leaf" /\ Unmapping /\ Way(lev, pt, pi)
       /\ IF call.huge
          THEN /\ call.lv = 2 /\ call.pa = (boot - 1) * FAN
               /\ call.tab[2] = EARLY2((boot - 1) \div FAN)
          ELSE /\ call.lv = 1 /\ call.pa \in Frames /\ lev[call.pa] = 0
               /\ On(lev, pt, pi, call.pa, call.va)
    \/ /\ pc = "unmap_table" /\ Unmapping /\ Way(lev, pt, pi)
       /\ call.lv \in 1 .. 4 /\ (IF call.huge THEN call.lv \in 2 .. 3 ELSE Stale)
    \/ pc = "unmap_flush" /\ Unmapping

GhostInv(lev, pt, pi, rank, q) ==
    /\ Shape(View, lev, pt, pi, rank, q, free_head, free_count, held, call.frame, Done, failed, Cur)
    /\ Remembers(tlb, lev, pt, pi, Flushing) /\ PcOK(lev, pt, pi)

PageInv ==
    /\ mem \in Memory /\ call \in CallType /\ boot \in 1 .. HUGES + 1
    /\ failed \in BOOLEAN /\ held \subseteq Frames
    /\ \E lev, pt, pi, rank, q : GhostInv(lev, pt, pi, rank, q)

(* The way to the window is there, and the window is closed.               *)
LEMMA WindowWay ==
    ASSUME NEW m \in Memory, NEW lev, NEW pt, NEW pi, NEW rank, NEW q,
           Ghosts(lev, pt, pi, rank, q), Tree(m, lev, pt, pi)
    PROVE  /\ m[ROOT][FAN - 1] = tab_entry(DT3) /\ m[DT3][0] = tab_entry(DT2)
           /\ m[DT2][0] = tab_entry(DT1) /\ m[DT1][0] = Zero
           /\ On(lev, pt, pi, DT1, WIN) /\ lev[DT1] = 1
  <1>1. /\ lev[DT3] = 3 /\ pi[DT3] = FAN - 1 /\ pt[DT3] = ROOT
        /\ lev[DT2] = 2 /\ pt[DT2] = DT3 /\ pi[DT2] = 0
        /\ lev[DT1] = 1 /\ pt[DT1] = DT2 /\ pi[DT1] = 0
    BY FrameFacts DEF Ghosts, Tree, Frame0, Up
  <1>2. /\ m[ROOT][FAN - 1] = tab_entry(DT3) /\ m[DT3][0] = tab_entry(DT2)
        /\ m[DT2][0] = tab_entry(DT1)
    BY <1>1, FrameFacts DEF Tree, Up
  <1>3. On(lev, pt, pi, DT1, WIN)
    BY <1>1, HighFacts DEF On
  <1>4. m[DT1][0] = Zero
    <2> SUFFICES ASSUME m[DT1][0] # Zero PROVE FALSE
      OBVIOUS
    <2>1. 0 \in Idx /\ WIN[4] = 0 /\ ~(lev[DT1] = 2 /\ pt[DT1] = EARLY3)
      BY <1>1, ParamFacts, HighFacts
    <2>2. PICK g \in Frames : m[DT1][0] = tab_entry(g)
      BY <1>1, <2>1, EntryDown, FrameFacts
    <2>3. lev[g] = lev[DT1] - 1 /\ On(lev, pt, pi, g, WIN)
      BY <1>1, <1>3, <2>1, <2>2, OnDown, FrameFacts
    <2>4. lev[g] = 0
      BY <1>1, <2>3
    <2>5. PICK va \in VAs : On(lev, pt, pi, g, va)
      BY <2>4 DEF Tree, Frame0
    <2>6. va[1] = WIN[1] /\ va[2] = WIN[2] /\ va[3] = WIN[3] /\ va[4] = WIN[4]
      BY <2>3, <2>4, <2>5 DEF On
    <2>7. va = <<va[1], va[2], va[3], va[4]>> /\ WIN = <<WIN[1], WIN[2], WIN[3], WIN[4]>>
      BY HighFacts
    <2> QED
      BY <2>6, <2>7, ParamFacts
  <1> QED
    BY <1>1, <1>2, <1>3, <1>4

(* The window opens for every frame.                                       *)
LEMMA Window ==
    ASSUME NEW lev, NEW pt, NEW pi, NEW rank, NEW q, mem \in Memory, call \in CallType,
           GhostInv(lev, pt, pi, rank, q)
    PROVE  /\ mem[DT1][0] = Zero /\ tlb[WIN] = NULL
           /\ \A f \in Frames : reached(f) = f /\ accessible(f)
           /\ \A f : reset_tlb(tlb, f) = tlb
  <1>1. View \in Memory /\ Ghosts(lev, pt, pi, rank, q) /\ Tree(View, lev, pt, pi)
    BY DEF GhostInv, Shape
  <1>2. /\ View[ROOT][FAN - 1] = tab_entry(DT3) /\ View[DT3][0] = tab_entry(DT2)
        /\ View[DT2][0] = tab_entry(DT1) /\ View[DT1][0] = Zero
        /\ On(lev, pt, pi, DT1, WIN) /\ lev[DT1] = 1
    BY <1>1, WindowWay
  <1>3. \A f \in Frames : tab_entry(f) # Zero /\ Leads[tab_entry(f)] = f
    BY WordFacts, FrameFacts
  <1>4. /\ mem[ROOT][FAN - 1] = tab_entry(DT3) /\ mem[DT3][0] = tab_entry(DT2)
        /\ mem[DT2][0] = tab_entry(DT1) /\ mem[DT1][0] = Zero
    <2>1. CASE pc # "unmap_table"
      BY <1>2, <2>1 DEF View
    <2>2. CASE pc = "unmap_table"
      <3> DEFINE t == call.tab[call.lv]
                 i == idx(call.va, call.lv)
      <3>1. View = Put(mem, t, i, Zero)
        BY <2>2 DEF View
      <3>2. /\ Unmapping /\ call.lv \in 1 .. 4 /\ (call.huge => call.lv \in 2 .. 3)
            /\ t \in Frames /\ lev[t] = call.lv /\ On(lev, pt, pi, t, call.va)
        BY <2>2 DEF GhostInv, PcOK, Way
      <3>3. i \in Idx
        <4>1. /\ ~call.huge => call.va \in VAs
              /\ call.huge => call.va = huge_va(boot - 1) /\ boot - 1 \in 0 .. HUGES - 1
          BY <3>2 DEF Unmapping
        <4>2. CASE ~call.huge
          <5>1. call.va[1] \in Idx /\ call.va[2] \in Idx /\ call.va[3] \in Idx /\ call.va[4] \in Idx
            BY <4>1, <4>2, HighFacts
          <5>2. call.lv = 1 \/ call.lv = 2 \/ call.lv = 3 \/ call.lv = 4
            BY <3>2
          <5> QED
            BY <5>1, <5>2, IdxFacts
        <4>3. CASE call.huge
          <5>1. call.va[2] = (boot - 1) \div FAN /\ call.va[3] = (boot - 1) % FAN
            BY <4>1, <4>3 DEF huge_va
          <5>2. call.va[2] \in Idx /\ call.va[3] \in Idx
            BY <4>1, <4>3, <5>1, HugeTable
          <5>3. call.lv = 2 \/ call.lv = 3
            BY <3>2, <4>3
          <5> QED
            BY <5>2, <5>3, IdxFacts
        <4> QED
          BY <4>2, <4>3
      <3>4. ~(t = DT1 /\ i = 0)
        <4> SUFFICES ASSUME t = DT1, i = 0 PROVE FALSE
          OBVIOUS
        <4>1. call.lv = 1 /\ ~call.huge /\ call.va \in VAs
          BY <1>2, <3>2 DEF Unmapping
        <4>2. call.va[4] = 0
          BY <4>1, IdxFacts
        <4>3. call.va[1] = WIN[1] /\ call.va[2] = WIN[2] /\ call.va[3] = WIN[3] /\ call.va[4] = WIN[4]
          BY <1>2, <3>2, <4>1, <4>2, HighFacts DEF On
        <4>4. call.va = <<call.va[1], call.va[2], call.va[3], call.va[4]>>
              /\ WIN = <<WIN[1], WIN[2], WIN[3], WIN[4]>>
          BY <4>1, HighFacts
        <4>5. call.va = WIN
          BY <4>3, <4>4
        <4> QED
          BY <4>1, <4>5, ParamFacts
      <3> HIDE DEF t, i
      <3>5. \A h \in Frames \cup {NULL}, j \in Idx : ~(h = t /\ j = i) => View[h][j] = mem[h][j]
        <4> SUFFICES ASSUME NEW h \in Frames \cup {NULL}, NEW j \in Idx, ~(h = t /\ j = i)
                     PROVE  View[h][j] = mem[h][j]
          OBVIOUS
        <4>1. Zero \in Word
          BY WordFacts
        <4>2. Put(mem, t, i, Zero)[h][j] = mem[h][j]
          BY <3>2, <3>3, <4>1, PutAt
        <4> QED
          BY <3>1, <4>2
      <3>6. View[t][i] = Zero
        BY <3>1, <3>2, <3>3, PutFacts, WordFacts
      <3> QED
        BY <1>2, <1>3, <3>4, <3>5, <3>6, ParamFacts, FrameFacts
    <2> QED
      BY <2>1, <2>2
  <1>5. PathIn(mem, WIN)[1] = DT1
    <2>1. WIN[1] = FAN - 1 /\ WIN[2] = 0 /\ WIN[3] = 0
      BY HighFacts
    <2>2. Leads[mem[ROOT][WIN[1]]] = DT3
      BY <1>3, <1>4, <2>1, FrameFacts
    <2>3. Leads[mem[DT3][WIN[2]]] = DT2
      BY <1>3, <1>4, <2>1, FrameFacts
    <2>4. Leads[mem[DT2][WIN[3]]] = DT1
      BY <1>3, <1>4, <2>1, FrameFacts
    <2> QED
      BY <2>2, <2>3, <2>4 DEF PathIn
  <1>6. tlb \in [TlbPages -> Frames \cup {NULL}] /\ WIN \in TlbPages /\ tlb[WIN] = NULL
    BY ParamFacts DEF GhostInv, Remembers, TlbPages
  <1>7. \A f \in Frames : reached(f) = f
    BY <1>5, <1>6, PathIsIn DEF reached
  <1>8. \A f \in Frames : accessible(f)
    BY <1>4, <1>7, IdxFacts, HighFacts, FrameFacts DEF accessible
  <1>9. \A f : reset_tlb(tlb, f) = tlb
    BY <1>6 DEF reset_tlb
  <1> QED
    BY <1>4, <1>6, <1>7, <1>8, <1>9

(* Every frame of the tree keeps its place, and no frame becomes a page.   *)
Stays(lev, pt, pi, lev2, pt2, pi2) ==
    \A f \in Frames : lev[f] \in 0 .. 4 =>
        lev2[f] = lev[f] /\ \A va : On(lev2, pt2, pi2, f, va) <=> On(lev, pt, pi, f, va)

(* Roles off the tree do not matter to it.                                 *)
LEMMA SameStays ==
    ASSUME NEW m, NEW m2, NEW lev, NEW pt, NEW pi, NEW rank, NEW q, Ghosts(lev, pt, pi, rank, q),
           NEW lev2 \in [Frames -> -4 .. 4], SameTree(m, m2, lev, lev2)
    PROVE  Stays(lev, pt, pi, lev2, pt, pi) /\ \A f \in Frames : lev2[f] = 0 => lev[f] = 0
  <1>1. \A f \in Frames : \A va : On(lev, pt, pi, f, va) <=> On(lev2, pt, pi, f, va)
    BY OnSame
  <1>2. \A f \in Frames : lev[f] \in -4 .. 4 /\ (lev2[f] = lev[f] \/ (lev[f] < 0 /\ lev2[f] < 0))
    BY DEF Ghosts, SameTree
  <1> QED
    BY <1>1, <1>2 DEF Stays

(* Nor does one change of role off the tree.                               *)
LEMMA RoleStays ==
    ASSUME NEW lev, NEW pt, NEW pi, NEW rank, NEW q, Ghosts(lev, pt, pi, rank, q),
           NEW f \in Frames, lev[f] < 0, NEW r \in -4 .. -1
    PROVE  Stays(lev, pt, pi, [lev EXCEPT ![f] = r], pt, pi)
           /\ \A h \in Frames : [lev EXCEPT ![f] = r][h] = 0 => lev[h] = 0
  <1> DEFINE lev2 == [lev EXCEPT ![f] = r]
  <1>1. lev \in [Frames -> -4 .. 4]
    BY DEF Ghosts
  <1>2. lev2 \in [Frames -> -4 .. 4] /\ lev2[f] = r /\ \A h \in Frames : h # f => lev2[h] = lev[h]
    BY <1>1
  <1> HIDE DEF lev2
  <1>3. SameTree([h \in Frames \cup {NULL} |-> 0], [h \in Frames \cup {NULL} |-> 0], lev, lev2)
    BY <1>2 DEF SameTree
  <1>4. Stays(lev, pt, pi, lev2, pt, pi) /\ \A h \in Frames : lev2[h] = 0 => lev[h] = 0
    BY <1>2, <1>3, SameStays
  <1> QED
    BY <1>4 DEF lev2

(* What the TLB remembers stays right when mapped frames stay mapped.      *)
LEMMA RemembersStays ==
    ASSUME NEW t, NEW lev, NEW pt, NEW pi, NEW x, NEW lev2, NEW pt2, NEW pi2,
           Remembers(t, lev, pt, pi, x), Stays(lev, pt, pi, lev2, pt2, pi2)
    PROVE  Remembers(t, lev2, pt2, pi2, x)
  <1>1. t \in [TlbPages -> Frames \cup {NULL}]
    BY DEF Remembers
  <1>2. ASSUME NEW va \in TlbPages, t[va] # NULL
        PROVE  va \in VAs /\ (va = x \/ (lev2[t[va]] = 0 /\ On(lev2, pt2, pi2, t[va], va)))
    <2>1. va \in VAs /\ (va = x \/ (lev[t[va]] = 0 /\ On(lev, pt, pi, t[va], va)))
      BY <1>2 DEF Remembers
    <2>2. t[va] \in Frames
      BY <1>1, <1>2
    <2>3. lev[t[va]] = 0 => lev[t[va]] \in 0 .. 4
      OBVIOUS
    <2> QED
      BY <2>1, <2>2, <2>3 DEF Stays
  <1> QED
    BY <1>1, <1>2 DEF Remembers
-----------------------------------------------------------------------------
(* A write through the window: what setup, the write and reset leave.      *)
LEMMA SetupIsPut ==
    ASSUME NEW m
    PROVE  /\ \A f : setup(m, f) = Put(m, DT1, 0, tab_entry(f))
           /\ reset(m) = Put(m, DT1, 0, Zero)
  BY IdxFacts, HighFacts DEF setup, reset, Put

(* Closing the window restores its entry.                                  *)
LEMMA ResetIs ==
    ASSUME NEW x \in Memory, NEW y \in Memory, y[DT1][0] = Zero,
           \A h \in Frames \cup {NULL} : \A j \in Idx : ~(h = DT1 /\ j = 0) => x[h][j] = y[h][j]
    PROVE  reset(x) = y
  <1> DEFINE z == Put(x, DT1, 0, Zero)
  <1>1. Zero \in Word /\ 0 \in Idx /\ DT1 \in Frames
    BY WordFacts, ParamFacts, FrameFacts
  <1>2. z \in Memory
    BY <1>1, PutFacts
  <1>3. ASSUME NEW h \in Frames \cup {NULL}, NEW j \in Idx PROVE z[h][j] = y[h][j]
    <2>1. z[h][j] = IF h = DT1 /\ j = 0 THEN Zero ELSE x[h][j]
      BY <1>1, PutAt
    <2> HIDE DEF z
    <2> QED
      BY <2>1
  <1> HIDE DEF z
  <1>4. z = y
    BY <1>2, <1>3, MemoryEqual
  <1> QED
    BY <1>4, SetupIsPut DEF z

(* A write through the window, between setup and reset, is a plain write.  *)
LEMMA WriteThrough ==
    ASSUME NEW m \in Memory, m[DT1][0] = Zero, NEW t \in Frames, NEW i \in Idx, NEW w \in Word,
           ~(t = DT1 /\ i = 0)
    PROVE  /\ setup(m, t)[t][i] = m[t][i]
           /\ reset([setup(m, t) EXCEPT ![t][i] = w]) = Put(m, t, i, w)
  <1> DEFINE s == Put(m, DT1, 0, tab_entry(t))
             x == Put(s, t, i, w)
             y == Put(m, t, i, w)
  <1>1. tab_entry(t) \in Word /\ 0 \in Idx /\ DT1 \in Frames
    BY WordFacts, ParamFacts, FrameFacts
  <1>2. s \in Memory /\ y \in Memory
    BY <1>1, PutFacts
  <1>3. \A h \in Frames \cup {NULL} : \A j \in Idx :
           s[h][j] = IF h = DT1 /\ j = 0 THEN tab_entry(t) ELSE m[h][j]
    BY <1>1, PutAt
  <1>4. \A h \in Frames \cup {NULL} : \A j \in Idx :
           y[h][j] = IF h = t /\ j = i THEN w ELSE m[h][j]
    BY PutAt
  <1>5. setup(m, t) = s
    BY SetupIsPut
  <1> HIDE DEF s
  <1>6. \A h \in Frames \cup {NULL} : \A j \in Idx :
           x[h][j] = IF h = t /\ j = i THEN w ELSE s[h][j]
    BY <1>2, PutAt
  <1>7. x \in Memory
    BY <1>2, PutFacts
  <1>8. [setup(m, t) EXCEPT ![t][i] = w] = x
    BY <1>5 DEF Put
  <1> HIDE DEF x, y
  <1>9. y[DT1][0] = Zero
    BY <1>1, <1>4
  <1>10. \A h \in Frames \cup {NULL} : \A j \in Idx : ~(h = DT1 /\ j = 0) => x[h][j] = y[h][j]
    BY <1>3, <1>4, <1>6
  <1>11. reset(x) = y
    BY <1>2, <1>7, <1>9, <1>10, ResetIs
  <1> QED
    BY <1>3, <1>5, <1>8, <1>11 DEF y

(* What Idle is.                                                           *)
LEMMA IdleFacts ==
    /\ Idle \in CallType /\ Idle.huge = FALSE /\ Idle.frame = NULL /\ Idle.va = WIN
  <1>1. WIN \in TlbPages
    BY DEF TlbPages
  <1>2. NULL \in 0 .. DT1
    BY FrameFacts DEF NULL
  <1> QED
    BY <1>1, <1>2 DEF Idle, CallType
-----------------------------------------------------------------------------
(* The locals of a call, as they are set.                                  *)
LEMMA MapCall ==
    ASSUME NEW va \in TlbPages, NEW pa \in Frames
    PROVE  LET c == [Idle EXCEPT !.va = va, !.pa = pa, !.lv = 4, !.tab[4] = ROOT]
           IN  /\ c \in CallType /\ c.va = va /\ c.pa = pa /\ c.lv = 4 /\ c.tab[4] = ROOT
               /\ c.frame = NULL /\ c.huge = FALSE
  <1> DEFINE c1 == [Idle EXCEPT !.va = va, !.pa = pa]
             c2 == [c1 EXCEPT !.lv = 4]
             c3 == [c2 EXCEPT !.tab[4] = ROOT]
             c == [Idle EXCEPT !.va = va, !.pa = pa, !.lv = 4, !.tab[4] = ROOT]
  <1>1. pa \in 0 .. DT1 /\ ROOT \in 0 .. DT1
    BY FrameFacts
  <1>2. c1 \in CallType
    BY <1>1, IdleFacts DEF CallType
  <1>3. c = c3
    OBVIOUS
  <1>4. c.va = va /\ c.pa = pa /\ c.lv = 4 /\ c.tab[4] = ROOT /\ c.frame = NULL /\ c.huge = FALSE
    BY DEF Idle
  <1> HIDE DEF c1, c
  <1>5. c2 \in CallType
    BY <1>2 DEF CallType
  <1> HIDE DEF c2
  <1>6. c3 \in CallType
    BY <1>1, <1>5 DEF CallType
  <1> QED
    BY <1>3, <1>4, <1>6 DEF c

LEMMA UnmapCall ==
    ASSUME NEW va \in TlbPages, NEW huge \in BOOLEAN, NEW free \in BOOLEAN
    PROVE  LET c == [Idle EXCEPT !.va = va, !.huge = huge, !.free = free]
           IN  /\ c \in CallType /\ c.va = va /\ c.frame = NULL /\ c.huge = huge /\ c.free = free
  <1> DEFINE c == [Idle EXCEPT !.va = va, !.huge = huge, !.free = free]
  <1>1. c \in CallType
    BY IdleFacts DEF CallType
  <1>2. c.va = va /\ c.frame = NULL /\ c.huge = huge /\ c.free = free
    BY DEF Idle
  <1> QED
    BY <1>1, <1>2

(* The translations of the client pages, in a memory m.                    *)
Pages(m) == [va \in VAs |-> TranslateIn(m, va)]

(* The same frames behind the same pages: the same translations.           *)
LEMMA SamePages ==
    ASSUME NEW m \in Memory, NEW lev, NEW pt, NEW pi, NEW rank, NEW q,
           Ghosts(lev, pt, pi, rank, q), Tree(m, lev, pt, pi),
           NEW m2 \in Memory, NEW lev2, NEW pt2, NEW pi2, NEW rank2, NEW q2,
           Ghosts(lev2, pt2, pi2, rank2, q2), Tree(m2, lev2, pt2, pi2),
           Stays(lev, pt, pi, lev2, pt2, pi2), \A f \in Frames : lev2[f] = 0 => lev[f] = 0
    PROVE  Pages(m2) = Pages(m)
  <1>1. ASSUME NEW va \in VAs PROVE TranslateIn(m2, va) = TranslateIn(m, va)
    <2>1. va \in High
      BY HighFacts
    <2>2. /\ TranslateIn(m, va) # NULL =>
                 /\ TranslateIn(m, va) \in Frames /\ lev[TranslateIn(m, va)] = 0
                 /\ On(lev, pt, pi, TranslateIn(m, va), va)
          /\ \A g \in Frames : lev[g] = 0 /\ On(lev, pt, pi, g, va) => TranslateIn(m, va) = g
      BY <2>1, WalkLeaf
    <2>3. /\ TranslateIn(m2, va) # NULL =>
                 /\ TranslateIn(m2, va) \in Frames /\ lev2[TranslateIn(m2, va)] = 0
                 /\ On(lev2, pt2, pi2, TranslateIn(m2, va), va)
          /\ \A g \in Frames : lev2[g] = 0 /\ On(lev2, pt2, pi2, g, va) => TranslateIn(m2, va) = g
      BY <2>1, WalkLeaf
    <2>4. \A g \in Frames : lev[g] = 0 => lev2[g] = 0 /\ (On(lev2, pt2, pi2, g, va) <=> On(lev, pt, pi, g, va))
      <3>1. \A g \in Frames : lev[g] = 0 => lev[g] \in 0 .. 4
        OBVIOUS
      <3> QED
        BY <3>1 DEF Stays
    <2>5. CASE TranslateIn(m, va) # NULL
      BY <2>2, <2>3, <2>4, <2>5
    <2>6. CASE TranslateIn(m2, va) # NULL
      BY <2>2, <2>3, <2>4, <2>6
    <2> QED
      BY <2>5, <2>6
  <1> QED
    BY <1>1 DEF Pages

(* A frame outside the tree of tables may be written.                      *)
LEMMA TreePages ==
    ASSUME NEW m \in Memory, NEW m2 \in Memory, NEW lev, NEW pt, NEW pi, NEW rank, NEW q,
           Ghosts(lev, pt, pi, rank, q), Tree(m, lev, pt, pi),
           NEW lev2 \in [Frames -> -4 .. 4], SameTree(m, m2, lev, lev2)
    PROVE  Pages(m2) = Pages(m)
  <1>1. Tree(m2, lev2, pt, pi)
    BY TreeSame
  <1>2. Ghosts(lev2, pt, pi, rank, q)
    BY DEF Ghosts
  <1>3. Stays(lev, pt, pi, lev2, pt, pi) /\ \A f \in Frames : lev2[f] = 0 => lev[f] = 0
    BY SameStays
  <1> QED
    BY <1>1, <1>2, <1>3, SamePages

(* Every action preserves the invariant.                                   *)
LEMMA AllocStep ==
    ASSUME PageInv, mm_frame_alloc
    PROVE  PageInv'
  <1>1. PICK lev, pt, pi, rank, q : GhostInv(lev, pt, pi, rank, q)
    BY DEF PageInv
  <1>2. pc = "idle" /\ free_head # NULL
    BY DEF mm_frame_alloc
  <1>3. View = mem /\ Cur = NULL /\ Flushing = WIN /\ Done = boot /\ call = Idle /\ boot = HUGES + 1
    BY <1>1, <1>2, IdleFacts DEF View, Cur, Flushing, Done, GhostInv, PcOK
  <1>4. Shape(mem, lev, pt, pi, rank, q, free_head, free_count, held, call.frame, boot, failed, NULL)
    BY <1>1, <1>3 DEF GhostInv
  <1>5. free_head \in Frames /\ lev[free_head] = FREE /\ Ghosts(lev, pt, pi, rank, q)
    BY <1>2, <1>4, ListHead DEF Shape
  <1>6. accessible(free_head) /\ reached(free_head) = free_head /\ \A f : reset_tlb(tlb, f) = tlb
    BY <1>1, <1>5, Window DEF PageInv
  <1>7. /\ held' = held \cup {free_head} /\ free_head' = mem[free_head][0].pa
        /\ free_count' = free_count - 1 /\ tlb' = tlb
        /\ mem' = mem /\ failed' = failed /\ boot' = boot /\ call' = call /\ pc' = pc
    BY <1>6 DEF mm_frame_alloc, next_free, count_taken
  <1>15. PICK lev2 : lev2 = [lev EXCEPT ![free_head] = HELD]
    OBVIOUS
  <1>8. Shape(mem, lev2, pt, pi, rank, q, mem[free_head][0].pa, free_count - 1,
              held \cup {free_head}, call.frame, boot, failed, NULL)
    <2>1. mem \in Memory
      BY DEF PageInv
    <2> QED
      BY <1>2, <1>4, <1>15, <2>1, ShapeTake
  <1>9. Stays(lev, pt, pi, lev2, pt, pi)
    <2>1. lev[free_head] < 0 /\ HELD \in -4 .. -1
      BY <1>5 DEF FREE, HELD
    <2> QED
      BY <1>5, <1>15, <2>1, RoleStays
  <1>10. Remembers(tlb, lev2, pt, pi, WIN)
    BY <1>1, <1>3, <1>9, RemembersStays DEF GhostInv
  <1>11. View' = mem /\ Cur' = NULL /\ Flushing' = WIN /\ Done' = boot
    BY <1>2, <1>3, <1>7, IdleFacts DEF View, Cur, Flushing, Done
  <1>12. PcOK(lev2, pt, pi)'
    BY <1>2, <1>3, <1>7 DEF PcOK
  <1>13. GhostInv(lev2, pt, pi, rank, q)'
    BY <1>7, <1>8, <1>10, <1>11, <1>12 DEF GhostInv
  <1> QED
    BY <1>5, <1>7, <1>13 DEF PageInv

(* A client's access writes to its own frame, by the TLB or by a walk.     *)
LEMMA UseStep ==
    ASSUME PageInv, NEW va \in VAs, use(va)
    PROVE  PageInv' /\ Pages(mem') = Pages(mem)
  <1>1. PICK lev, pt, pi, rank, q : GhostInv(lev, pt, pi, rank, q)
    BY DEF PageInv
  <1>2. pc = "idle" /\ Translate(va) # NULL /\ va \in TlbPages /\ va \in High /\ va # WIN
    BY HighFacts, ParamFacts DEF use, TlbPages
  <1>3. View = mem /\ Cur = NULL /\ Flushing = WIN /\ Done = boot /\ call = Idle /\ boot = HUGES + 1
    BY <1>1, <1>2, IdleFacts DEF View, Cur, Flushing, Done, GhostInv, PcOK
  <1>4. Shape(mem, lev, pt, pi, rank, q, free_head, free_count, held, call.frame, boot, failed, NULL)
        /\ Remembers(tlb, lev, pt, pi, WIN)
    BY <1>1, <1>3 DEF GhostInv
  <1>5. mem \in Memory /\ Ghosts(lev, pt, pi, rank, q) /\ Tree(mem, lev, pt, pi)
    BY <1>4 DEF Shape
  <1> DEFINE g == Translate(va)
  <1>6. /\ g \in Frames /\ lev[g] = 0 /\ On(lev, pt, pi, g, va)
        /\ \A f \in Frames : lev[f] = 0 /\ On(lev, pt, pi, f, va) => g = f
    BY <1>2, <1>5, WalkLeaf, PathIsIn
  <1> HIDE DEF g
  <1>7. Via(va) = g
    <2>1. tlb[va] # NULL => tlb[va] \in Frames /\ lev[tlb[va]] = 0 /\ On(lev, pt, pi, tlb[va], va)
      BY <1>2, <1>4 DEF Remembers
    <2> QED
      BY <1>6, <2>1 DEF Via, g
  <1>8. /\ tlb' = [tlb EXCEPT ![va] = g] /\ mem' = [mem EXCEPT ![g] = [i \in Idx |-> Data]]
        /\ free_head' = free_head /\ free_count' = free_count /\ held' = held
        /\ failed' = failed /\ boot' = boot /\ call' = call /\ pc' = pc
    BY <1>7 DEF use
  <1>9. mem' \in Memory /\ \A h \in Frames \cup {NULL} : h # g => mem'[h] = mem[h]
    <2>1. [i \in Idx |-> Data] \in [Idx -> Word]
      BY WordFacts
    <2> QED
      BY <1>5, <1>6, <1>8, <2>1 DEF Memory
  <1>10. Shape(mem', lev, pt, pi, rank, q, free_head, free_count, held, call.frame, boot, failed, NULL)
    <2>1. lev[g] \notin 1 .. 4 /\ lev[g] # FREE
      BY <1>6 DEF FREE
    <2> QED
      BY <1>4, <1>6, <1>9, <2>1, ShapeWrite
  <1>11. Remembers(tlb', lev, pt, pi, WIN)
    BY <1>2, <1>4, <1>6, <1>8 DEF Remembers
  <1>12. View' = mem' /\ Cur' = NULL /\ Flushing' = WIN /\ Done' = boot
    BY <1>2, <1>3, <1>8, IdleFacts DEF View, Cur, Flushing, Done
  <1>13. PcOK(lev, pt, pi)'
    BY <1>2, <1>3, <1>8 DEF PcOK
  <1>14. GhostInv(lev, pt, pi, rank, q)'
    BY <1>8, <1>10, <1>11, <1>12, <1>13 DEF GhostInv
  <1>15. Pages(mem') = Pages(mem)
    <2>1. SameTree(mem, mem', lev, lev)
      <3>1. g # NULL /\ lev[g] \notin 1 .. 4
        BY <1>6, FrameFacts DEF NULL
      <3>2. mem'[NULL] = mem[NULL]
        BY <1>9, <3>1
      <3>3. \A f \in Frames : lev[f] \in 1 .. 4 => mem'[f] = mem[f]
        BY <1>9, <3>1
      <3> QED
        BY <3>2, <3>3 DEF SameTree
    <2>2. lev \in [Frames -> -4 .. 4]
      BY <1>5 DEF Ghosts
    <2> QED
      BY <1>5, <1>9, <2>1, <2>2, TreePages
  <1> QED
    BY <1>8, <1>9, <1>14, <1>15 DEF PageInv

(* mm_page_map begins at the root.                                         *)
LEMMA MapStep ==
    ASSUME PageInv, NEW va \in VAs, NEW pa \in held, mm_page_map(va, pa)
    PROVE  PageInv'
  <1>1. PICK lev, pt, pi, rank, q : GhostInv(lev, pt, pi, rank, q)
    BY DEF PageInv
  <1>2. pc = "idle" /\ Translate(va) = NULL /\ va \in TlbPages /\ va \in High
    BY HighFacts DEF mm_page_map, TlbPages
  <1>3. View = mem /\ Cur = NULL /\ Flushing = WIN /\ Done = boot /\ call = Idle /\ boot = HUGES + 1
    BY <1>1, <1>2, IdleFacts DEF View, Cur, Flushing, Done, GhostInv, PcOK
  <1>4. Shape(mem, lev, pt, pi, rank, q, free_head, free_count, held, NULL, boot, failed, NULL)
        /\ Remembers(tlb, lev, pt, pi, WIN)
    BY <1>1, <1>3, IdleFacts DEF GhostInv
  <1>5. mem \in Memory /\ Ghosts(lev, pt, pi, rank, q) /\ Tree(mem, lev, pt, pi)
    BY <1>4 DEF Shape
  <1>6. call' = [Idle EXCEPT !.va = va, !.pa = pa, !.lv = 4, !.tab[4] = ROOT]
        /\ pc' = "map_frame" /\ UNCHANGED <<mem, free_head, free_count, tlb, held, failed, boot>>
    BY DEF mm_page_map
  <1>7. /\ call'.va = va /\ call'.pa = pa /\ call'.lv = 4 /\ call'.tab[4] = ROOT
        /\ call'.frame = NULL /\ call'.huge = FALSE
    BY <1>6 DEF Idle
  <1>8. call' \in CallType
    BY <1>2, <1>6, MapCall DEF PageInv
  <1>9. Shape(mem, lev, pt, pi, rank, q, free_head, free_count, held, NULL, boot, failed, ROOT)
    BY <1>4, ShapeCur, FrameFacts
  <1>10. View' = mem /\ Cur' = ROOT /\ Flushing' = WIN /\ Done' = boot
    BY <1>6, <1>7 DEF View, Cur, Flushing, Done
  <1>11. lev[ROOT] = 4 /\ ROOT \in Frames
    BY <1>5, FrameFacts DEF Tree, Frame0
  <1>12. \A f \in Frames : lev[f] = 0 => ~On(lev, pt, pi, f, va)
    BY <1>2, <1>5, WalkLeaf, PathIsIn, FrameFacts
  <1>13. Mapping(lev, pt, pi)'
    BY <1>3, <1>6, <1>7, <1>11, <1>12 DEF Mapping, On
  <1>14. PcOK(lev, pt, pi)'
    BY <1>6, <1>7, <1>13 DEF PcOK, Blank
  <1>15. GhostInv(lev, pt, pi, rank, q)'
    BY <1>4, <1>6, <1>7, <1>9, <1>10, <1>14 DEF GhostInv
  <1> QED
    BY <1>6, <1>8, <1>15 DEF PageInv

(* _unmap begins.                                                          *)
LEMMA UnmapStep ==
    ASSUME PageInv, NEW va \in VAs, unmap_page(va)
    PROVE  PageInv'
  <1>1. PICK lev, pt, pi, rank, q : GhostInv(lev, pt, pi, rank, q)
    BY DEF PageInv
  <1>2. pc = "idle" /\ Translate(va) # NULL /\ va \in TlbPages /\ va \in High
    BY HighFacts DEF unmap_page, TlbPages
  <1>3. View = mem /\ Cur = NULL /\ Flushing = WIN /\ Done = boot /\ call = Idle /\ boot = HUGES + 1
    BY <1>1, <1>2, IdleFacts DEF View, Cur, Flushing, Done, GhostInv, PcOK
  <1>4. Shape(mem, lev, pt, pi, rank, q, free_head, free_count, held, NULL, boot, failed, NULL)
        /\ Remembers(tlb, lev, pt, pi, WIN)
    BY <1>1, <1>3, IdleFacts DEF GhostInv
  <1>5. mem \in Memory /\ Ghosts(lev, pt, pi, rank, q) /\ Tree(mem, lev, pt, pi)
    BY <1>4 DEF Shape
  <1>6. call' = [Idle EXCEPT !.va = va, !.huge = FALSE, !.free = TRUE]
        /\ pc' = "unmap_walk" /\ UNCHANGED <<mem, free_head, free_count, tlb, held, failed, boot>>
    BY DEF unmap_page, unmap
  <1>7. call'.va = va /\ call'.frame = NULL /\ call'.huge = FALSE /\ call'.free = TRUE
    BY <1>2, <1>6, UnmapCall
  <1>8. call' \in CallType
    BY <1>2, <1>6, UnmapCall
  <1>9. View' = mem /\ Cur' = NULL /\ Flushing' = WIN /\ Done' = boot
    BY <1>6, <1>7 DEF View, Cur, Flushing, Done
  <1>10. \E f \in Frames : lev[f] = 0 /\ On(lev, pt, pi, f, va)
    BY <1>2, <1>5, WalkLeaf, PathIsIn
  <1>11. PcOK(lev, pt, pi)'
    BY <1>3, <1>6, <1>7, <1>10 DEF PcOK, Unmapping
  <1>12. GhostInv(lev, pt, pi, rank, q)'
    BY <1>4, <1>6, <1>7, <1>9, <1>11 DEF GhostInv
  <1> QED
    BY <1>6, <1>8, <1>12 DEF PageInv

(* The flush forgets the page that went, so nothing stale remains.         *)
LEMMA FlushStep ==
    ASSUME PageInv, unmap_flush
    PROVE  PageInv'
  <1>1. PICK lev, pt, pi, rank, q : GhostInv(lev, pt, pi, rank, q)
    BY DEF PageInv
  <1>2. pc = "unmap_flush" /\ Unmapping /\ call \in CallType /\ boot \in 1 .. HUGES + 1
    BY <1>1 DEF unmap_flush, GhostInv, PcOK, PageInv
  <1>3. View = mem /\ Cur = NULL /\ Flushing = call.va /\ Done = boot /\ call.frame = NULL
    BY <1>2 DEF View, Cur, Flushing, Done, Unmapping
  <1>4. Shape(mem, lev, pt, pi, rank, q, free_head, free_count, held, NULL, boot, failed, NULL)
        /\ Remembers(tlb, lev, pt, pi, call.va)
    BY <1>1, <1>3 DEF GhostInv
  <1>5. /\ tlb' = [tlb EXCEPT ![call.va] = NULL] /\ call' = Idle
        /\ pc' = IF boot <= HUGES THEN "boot" ELSE "idle"
        /\ UNCHANGED <<mem, free_head, free_count, held, failed, boot>>
    BY DEF unmap_flush, tlb_flush
  <1>6. PICK t2 : t2 = [tlb EXCEPT ![call.va] = NULL]
    OBVIOUS
  <1>7. Remembers(t2, lev, pt, pi, WIN)
    BY <1>4, <1>6 DEF Remembers
  <1>8. View' = mem /\ Cur' = NULL /\ Flushing' = WIN /\ Done' = boot
    BY <1>5, IdleFacts DEF View, Cur, Flushing, Done
  <1>9. HUGES \in Nat
    BY ParamFacts
  <1>10. PcOK(lev, pt, pi)'
    <2>1. CASE boot <= HUGES
      BY <1>2, <1>5, <1>9, <2>1 DEF PcOK
    <2>2. CASE ~(boot <= HUGES)
      <3>1. boot = HUGES + 1
        BY <1>2, <1>9, <2>2
      <3> QED
        BY <1>5, <2>2, <3>1 DEF PcOK
    <2> QED
      BY <2>1, <2>2
  <1>11. GhostInv(lev, pt, pi, rank, q)'
    BY <1>4, <1>5, <1>6, <1>7, <1>8, <1>10, IdleFacts DEF GhostInv
  <1> QED
    BY <1>5, <1>11, IdleFacts DEF PageInv

(* A huge page that stays mapped is passed over.                           *)
LEMMA ShapeSkip ==
    ASSUME NEW m, NEW lev, NEW pt, NEW pi, NEW rank, NEW q, NEW head, NEW count, NEW hd, NEW sp,
           NEW fl, NEW cr, NEW dn \in 1 .. HUGES, dn \in KeptHuges \cup {HUGES},
           Shape(m, lev, pt, pi, rank, q, head, count, hd, sp, dn, fl, cr)
    PROVE  Shape(m, lev, pt, pi, rank, q, head, count, hd, sp, dn + 1, fl, cr)
  <1>1. Left(dn + 1) = Left(dn)
    <2>1. \A p \in 0 .. HUGES - 1 : (p >= dn + 1 \/ p \in KeptHuges) <=> (p >= dn \/ p \in KeptHuges)
      BY ParamFacts
    <2> QED
      BY <2>1 DEF Left
  <1>2. EarlyTabs(m, lev, pt, pi, dn + 1)
    BY <1>1 DEF EarlyTabs, Shape
  <1>3. \A f \in Ram : (f \div FAN \notin FreedHuges \/ f \div FAN >= dn + 1)
                       <=> (f \div FAN \notin FreedHuges \/ f \div FAN >= dn)
    <2> TAKE f \in Ram
    <2>1. f \div FAN \in 1 .. HUGES - 1
      BY RamHuge
    <2>2. f \div FAN = dn => f \div FAN \notin FreedHuges
      BY <2>1, ParamFacts
    <2> QED
      BY <2>1, <2>2, ParamFacts
  <1>4. Roles(lev, hd, sp, dn + 1)
    BY <1>3 DEF Roles, Shape
  <1> QED
    BY <1>2, <1>4 DEF Shape

(* The loop of mm_page_bootstrap.                                          *)
LEMMA BootStep ==
    ASSUME PageInv, mm_page_bootstrap
    PROVE  PageInv'
  <1>1. PICK lev, pt, pi, rank, q : GhostInv(lev, pt, pi, rank, q)
    BY DEF PageInv
  <1>2. pc = "boot" /\ call = Idle /\ boot \in 1 .. HUGES
    BY <1>1 DEF mm_page_bootstrap, GhostInv, PcOK, PageInv
  <1>3. View = mem /\ Cur = NULL /\ Flushing = WIN /\ Done = boot /\ call.frame = NULL
    BY <1>2, IdleFacts DEF View, Cur, Flushing, Done
  <1>4. Shape(mem, lev, pt, pi, rank, q, free_head, free_count, held, NULL, boot, failed, NULL)
        /\ Remembers(tlb, lev, pt, pi, WIN)
    BY <1>1, <1>3 DEF GhostInv
  <1>5. HUGES \in Nat
    BY ParamFacts
  <1>6. boot' = boot + 1
    BY DEF mm_page_bootstrap
  <1>7. CASE boot \in (1 .. HUGES - 1) \ KeptHuges /\ unmap(huge_va(boot), TRUE, boot \in FreedHuges)
    <2>1. call' = [Idle EXCEPT !.va = huge_va(boot), !.huge = TRUE, !.free = boot \in FreedHuges]
          /\ pc' = "unmap_walk" /\ UNCHANGED <<mem, free_head, free_count, tlb, held, failed>>
      BY <1>7 DEF unmap
    <2>2. huge_va(boot) \in TlbPages /\ (boot \in FreedHuges) \in BOOLEAN
      BY <1>2, <1>5, <1>7 DEF TlbPages
    <2>3. call' \in CallType /\ call'.va = huge_va(boot) /\ call'.frame = NULL
          /\ call'.huge = TRUE /\ call'.free = (boot \in FreedHuges)
      BY <2>1, <2>2, UnmapCall
    <2>4. boot' - 1 = boot
      BY <1>2, <1>6
    <2>5. View' = mem /\ Cur' = NULL /\ Flushing' = WIN /\ Done' = boot
      BY <2>1, <2>3, <2>4 DEF View, Cur, Flushing, Done
    <2>6. PcOK(lev, pt, pi)'
      <3>1. Unmapping'
        BY <1>7, <2>3, <2>4 DEF Unmapping
      <3> QED
        BY <2>1, <2>3, <3>1 DEF PcOK
    <2>7. GhostInv(lev, pt, pi, rank, q)'
      BY <1>4, <2>1, <2>3, <2>5, <2>6 DEF GhostInv
    <2>8. boot' \in 1 .. HUGES + 1
      BY <1>2, <1>5, <1>6
    <2> QED
      BY <2>1, <2>3, <2>7, <2>8 DEF PageInv
  <1>8. CASE /\ boot \in KeptHuges \cup {HUGES}
             /\ pc' = IF boot = HUGES THEN "idle" ELSE "boot"
             /\ UNCHANGED <<mem, free_head, free_count, tlb, held, failed, call>>
    <2>1. Shape(mem, lev, pt, pi, rank, q, free_head, free_count, held, NULL, boot + 1, failed, NULL)
      BY <1>2, <1>4, <1>8, ShapeSkip
    <2>2. View' = mem /\ Cur' = NULL /\ Flushing' = WIN /\ Done' = boot + 1 /\ call' = Idle
      BY <1>2, <1>6, <1>8, IdleFacts DEF View, Cur, Flushing, Done
    <2>3. boot' \in 1 .. HUGES + 1
      BY <1>2, <1>5, <1>6
    <2>4. PcOK(lev, pt, pi)'
      <3>1. CASE boot = HUGES
        BY <1>6, <1>8, <2>2, <3>1 DEF PcOK
      <3>2. CASE boot # HUGES
        <4>1. boot' \in 1 .. HUGES
          BY <1>2, <1>5, <1>6, <3>2
        <4> QED
          BY <1>8, <2>2, <3>2, <4>1 DEF PcOK
      <3> QED
        BY <3>1, <3>2
    <2>5. GhostInv(lev, pt, pi, rank, q)'
      BY <1>4, <1>8, <2>1, <2>2, <2>4, IdleFacts DEF GhostInv
    <2> QED
      BY <1>8, <2>2, <2>3, <2>5, IdleFacts DEF PageInv
  <1> QED
    BY <1>7, <1>8 DEF mm_page_bootstrap

(* A table on the way of a client page is not an early one, and its entry  *)
(* is not the window's.                                                    *)
LEMMA ClientTable ==
    ASSUME NEW m, NEW lev, NEW pt, NEW pi, NEW rank, NEW q,
           Ghosts(lev, pt, pi, rank, q), Tree(m, lev, pt, pi),
           NEW va \in VAs, NEW t \in Frames, On(lev, pt, pi, t, va), lev[t] \in 1 .. 4
    PROVE  /\ ~(lev[t] = 2 /\ pt[t] = EARLY3) /\ t # EARLY3
           /\ ~(t = DT1 /\ idx(va, lev[t]) = 0)
  <1>1. va \in High /\ va # WIN
    BY HighFacts, ParamFacts
  <1>2. va[1] # 0 /\ va = <<va[1], va[2], va[3], va[4]>>
    BY <1>1, HighFacts
  <1>3. pi[EARLY3] = 0 /\ lev[EARLY3] = 3
    BY DEF Tree, Frame0
  <1>4. ~(lev[t] = 2 /\ pt[t] = EARLY3) /\ t # EARLY3
    BY <1>2, <1>3 DEF On
  <1>5. ASSUME t = DT1, idx(va, lev[t]) = 0 PROVE FALSE
    <2>1. lev[t] = 1 /\ pt[t] = DT2 /\ pt[DT2] = DT3 /\ pi[t] = 0 /\ pi[DT2] = 0 /\ pi[DT3] = FAN - 1
      BY <1>5 DEF Tree, Frame0
    <2>2. va[4] = 0
      BY <1>5, <2>1, IdxFacts
    <2>3. va[3] = 0 /\ va[2] = 0 /\ va[1] = FAN - 1
      BY <2>1 DEF On
    <2> QED
      BY <1>1, <1>2, <2>2, <2>3 DEF WIN
  <1> QED
    BY <1>4, <1>5

(* A frame from the free list is zeroed before it can become a table.      *)
LEMMA MapFrameStep ==
    ASSUME PageInv, map_frame
    PROVE  PageInv' /\ Pages(mem') = Pages(mem)
  <1>1. PICK lev, pt, pi, rank, q : GhostInv(lev, pt, pi, rank, q)
    BY DEF PageInv
  <1>2. /\ pc = "map_frame" /\ Mapping(lev, pt, pi) /\ call.lv \in 2 .. 4 /\ Blank
        /\ call \in CallType /\ mem \in Memory
    BY <1>1 DEF map_frame, GhostInv, PcOK, PageInv
  <1> DEFINE t == call.tab[call.lv]
  <1>3. View = mem /\ Cur = t /\ Flushing = WIN /\ Done = boot /\ ~call.huge
        /\ boot = HUGES + 1 /\ call.pa \in held
    BY <1>2 DEF View, Cur, Flushing, Done, Mapping
  <1>4. Shape(mem, lev, pt, pi, rank, q, free_head, free_count, held, call.frame, boot, failed, t)
        /\ Remembers(tlb, lev, pt, pi, WIN)
    BY <1>1, <1>3 DEF GhostInv
  <1>5. Ghosts(lev, pt, pi, rank, q) /\ Tree(mem, lev, pt, pi)
        /\ List(mem, lev, rank, q, free_head, free_count) /\ Roles(lev, held, call.frame, boot)
    BY <1>4 DEF Shape
  <1>6. CASE /\ call.frame # NULL /\ pc' = "map_entry"
             /\ UNCHANGED <<mem, free_head, free_count, tlb, held, failed, boot, call>>
    <2>1. View' = mem /\ Cur' = t /\ Flushing' = WIN /\ Done' = boot
      BY <1>3, <1>6 DEF View, Cur, Flushing, Done
    <2>2. PcOK(lev, pt, pi)'
      BY <1>2, <1>6 DEF PcOK, Mapping, Blank
    <2>3. GhostInv(lev, pt, pi, rank, q)'
      BY <1>4, <1>6, <2>1, <2>2 DEF GhostInv
    <2> QED
      BY <1>6, <2>3 DEF PageInv
  <1>7. CASE /\ call.frame = NULL /\ free_head = NULL
             /\ call' = [call EXCEPT !.ok = FALSE] /\ failed' = TRUE /\ pc' = "map_back"
             /\ UNCHANGED <<mem, free_head, free_count, tlb, held, boot>>
    <2>1. /\ call' \in CallType /\ call'.huge = call.huge /\ call'.frame = call.frame
      BY <1>2, <1>7 DEF CallType
    <2>2. t \in Frames \ Kernel /\ lev[t] \in 1 .. 3 => pt[t] # EARLY3
      <3>1. t \in Frames /\ lev[t] = call.lv /\ On(lev, pt, pi, t, call.va) /\ call.va \in VAs
        BY <1>2 DEF Mapping
      <3>2. ~(lev[t] = 2 /\ pt[t] = EARLY3)
        BY <1>2, <1>5, <3>1, ClientTable
      <3>3. lev[t] = 3 => pt[t] # EARLY3
        BY <1>5, <3>1, FrameFacts DEF Tree, Up, Frame0
      <3> QED
        BY <1>2, <3>1, <3>2, <3>3
    <2>3. Shape(mem, lev, pt, pi, rank, q, free_head, free_count, held, call.frame, boot, TRUE, NULL)
      <3> HIDE DEF t
      <3> QED
        BY <1>4, <2>2, ShapeCur
    <2>4. View' = mem /\ Cur' = NULL /\ Flushing' = WIN /\ Done' = boot
      BY <1>3, <1>7, <2>1 DEF View, Cur, Flushing, Done
    <2>5. PcOK(lev, pt, pi)'
      BY <1>3, <1>7, <2>1 DEF PcOK
    <2>6. GhostInv(lev, pt, pi, rank, q)'
      BY <1>4, <1>7, <2>1, <2>3, <2>4, <2>5 DEF GhostInv
    <2> QED
      BY <1>7, <2>1, <2>6 DEF PageInv
  <1>8. CASE /\ call.frame = NULL /\ free_head # NULL
             /\ IF ~accessible(free_head) THEN Panic
                ELSE /\ call' = [call EXCEPT !.frame = free_head]
                     /\ free_head' = next_free
                     /\ free_count' = count_taken(free_count)
                     /\ mem' = tab_zero(mem, reached(free_head))
                     /\ tlb' = reset_tlb(tlb, free_head)
                     /\ pc' = "map_entry"
                     /\ UNCHANGED <<held, failed, boot>>
    <2>1. free_head \in Frames /\ lev[free_head] = FREE
      BY <1>2, <1>5, <1>8, ListHead
    <2>2. accessible(free_head) /\ reached(free_head) = free_head /\ \A f : reset_tlb(tlb, f) = tlb
      BY <1>1, <1>2, <2>1, Window
    <2>3. /\ call' = [call EXCEPT !.frame = free_head] /\ free_head' = mem[free_head][0].pa
          /\ free_count' = free_count - 1 /\ tlb' = tlb /\ mem' = tab_zero(mem, free_head)
          /\ failed' = failed /\ boot' = boot /\ held' = held /\ pc' = "map_entry"
      BY <1>8, <2>2 DEF next_free, count_taken
    <2>4. /\ call' \in CallType /\ call'.frame = free_head /\ call'.huge = call.huge
          /\ call'.va = call.va /\ call'.lv = call.lv /\ call'.tab = call.tab /\ call'.pa = call.pa
      BY <1>2, <2>1, <2>3 DEF CallType
    <2>5. PICK l2 : l2 = [lev EXCEPT ![free_head] = SPARE]
      OBVIOUS
    <2>6. mem' \in Memory /\ \A h \in Frames \cup {NULL} : h # free_head => mem'[h] = mem[h]
      <3>1. [i \in Idx |-> Zero] \in [Idx -> Word]
        BY WordFacts
      <3> QED
        BY <1>2, <2>1, <2>3, <3>1 DEF Memory, tab_zero
    <2>7. \A i \in Idx : mem'[free_head][i] = Zero
      BY <1>2, <2>1, <2>3 DEF Memory, tab_zero
    <2>8. Shape(mem', l2, pt, pi, rank, q, mem[free_head][0].pa, free_count - 1,
                held, free_head, boot, failed, t)
      <3> HIDE DEF t
      <3>1. Shape(mem, lev, pt, pi, rank, q, free_head, free_count, held, NULL, boot, failed, t)
        BY <1>4, <1>8
      <3> QED
        BY <1>8, <2>5, <2>6, <3>1, ShapeTake
    <2>9. Stays(lev, pt, pi, l2, pt, pi) /\ \A h \in Frames : l2[h] = 0 => lev[h] = 0
      <3>1. lev[free_head] < 0 /\ SPARE \in -4 .. -1 /\ SPARE # 0
        BY <2>1 DEF FREE, SPARE
      <3>2. Stays(lev, pt, pi, l2, pt, pi)
        BY <1>5, <2>1, <2>5, <3>1, RoleStays
      <3>3. \A h \in Frames : l2[h] = 0 => lev[h] = 0
        BY <1>5, <2>5, <3>1 DEF Ghosts
      <3> QED
        BY <3>2, <3>3
    <2>10. Remembers(tlb, l2, pt, pi, WIN)
      BY <1>4, <2>9, RemembersStays
    <2>11. View' = mem' /\ Cur' = t /\ Flushing' = WIN /\ Done' = boot
      BY <1>3, <2>3, <2>4 DEF View, Cur, Flushing, Done
    <2>12. Mapping(l2, pt, pi)'
      BY <1>2, <2>3, <2>4, <2>9 DEF Mapping, Stays
    <2>13. PcOK(l2, pt, pi)'
      <3>1. Blank' /\ call'.frame # NULL /\ call'.lv \in 2 .. 4
        BY <1>2, <1>8, <2>4, <2>7 DEF Blank
      <3> QED
        BY <2>3, <2>12, <3>1 DEF PcOK
    <2>14. GhostInv(l2, pt, pi, rank, q)'
      BY <2>3, <2>4, <2>8, <2>10, <2>11, <2>13 DEF GhostInv
    <2>15. boot' \in 1 .. HUGES + 1 /\ held' \subseteq Frames /\ failed' \in BOOLEAN
      BY <2>3 DEF PageInv
    <2>16. Pages(mem') = Pages(mem)
      <3>1. l2 \in [Frames -> -4 .. 4] /\ \A f \in Frames : l2[f] = IF f = free_head THEN SPARE ELSE lev[f]
        <4>1. lev \in [Frames -> -4 .. 4] /\ SPARE \in -4 .. 4
          BY <1>5 DEF Ghosts, SPARE
        <4> QED
          BY <2>5, <4>1
      <3>2. lev[free_head] < 0 /\ SPARE < 0 /\ lev[free_head] \notin 1 .. 4
        BY <2>1 DEF FREE, SPARE
      <3>3. SameTree(mem, mem', lev, l2)
        BY <2>1, <2>6, <3>1, <3>2, FrameFacts DEF SameTree
      <3> QED
        BY <1>2, <1>5, <2>6, <3>1, <3>3, TreePages
    <2> QED
      BY <2>4, <2>6, <2>14, <2>15, <2>16 DEF PageInv
  <1> QED
    BY <1>6, <1>7, <1>8 DEF map_frame

(* The frame that is linked lies on the way of the page.                   *)
LEMMA OnNew ==
    ASSUME NEW m, NEW lev, NEW pt, NEW pi, NEW rank, NEW q,
           Ghosts(lev, pt, pi, rank, q), Tree(m, lev, pt, pi),
           NEW g \in Frames, lev[g] < 0, NEW t \in Frames, NEW i \in Idx, NEW va,
           On(lev, pt, pi, t, va),
           \/ lev[t] = 4 /\ i = va[1]
           \/ lev[t] = 3 /\ i = va[2]
           \/ lev[t] = 2 /\ i = va[3]
           \/ lev[t] = 1 /\ i = va[4]
    PROVE  LET lev2 == [lev EXCEPT ![g] = lev[t] - 1]
               pt2 == [pt EXCEPT ![g] = t]
               pi2 == [pi EXCEPT ![g] = i]
           IN  /\ On(lev2, pt2, pi2, g, va) /\ lev2[g] = lev[t] - 1
               /\ Stays(lev, pt, pi, lev2, pt2, pi2)
               /\ \A f \in Frames : lev2[f] = 0 => f = g \/ lev[f] = 0
  <1> DEFINE lev2 == [lev EXCEPT ![g] = lev[t] - 1]
             pt2 == [pt EXCEPT ![g] = t]
             pi2 == [pi EXCEPT ![g] = i]
  <1>1. lev \in [Frames -> -4 .. 4] /\ pt \in [Frames -> Frames] /\ pi \in [Frames -> Idx]
    BY DEF Ghosts
  <1>2. /\ lev2[g] = lev[t] - 1 /\ pt2[g] = t /\ pi2[g] = i
        /\ Moved(g, lev, pt, pi, lev2, pt2, pi2)
        /\ \A f \in Frames : lev2[f] = 0 => f = g \/ lev[f] = 0
    BY <1>1 DEF Moved
  <1> HIDE DEF lev2, pt2, pi2
  <1>3. Kept(g, lev, pt, pi, lev2, pt2, pi2)
    BY <1>2, OnAttach
  <1>4. Stays(lev, pt, pi, lev2, pt2, pi2)
    BY <1>2, <1>3 DEF Kept, Moved, Stays
  <1>5. /\ t # g /\ On(lev2, pt2, pi2, t, va) /\ lev2[t] = lev[t]
        /\ pt2[t] = pt[t] /\ pi2[t] = pi[t]
    BY <1>2, <1>3 DEF Kept, Moved
  <1>6. On(lev2, pt2, pi2, g, va)
    <2>1. CASE lev[t] = 3 /\ i = va[2]
      <3>1. lev2[g] = 2 /\ lev2[t] = 3
        BY <1>2, <1>5, <2>1
      <3> QED
        BY <1>2, <1>5, <2>1, <3>1 DEF On
    <2>2. CASE lev[t] = 2 /\ i = va[3]
      <3>1. lev2[g] = 1 /\ lev2[t] = 2
        BY <1>2, <1>5, <2>2
      <3> QED
        BY <1>2, <1>5, <2>2, <3>1 DEF On
    <2>3. CASE lev[t] = 1 /\ i = va[4]
      <3>1. lev2[g] = 0 /\ lev2[t] = 1
        BY <1>2, <1>5, <2>3
      <3> QED
        BY <1>2, <1>5, <2>3, <3>1 DEF On
    <2>4. CASE lev[t] = 4 /\ i = va[1]
      <3>1. lev2[g] = 3
        BY <1>2, <2>4
      <3> QED
        BY <1>2, <2>4, <3>1 DEF On
    <2> QED
      BY <2>1, <2>2, <2>3, <2>4
  <1> QED
    BY <1>2, <1>4, <1>6 DEF lev2, pt2, pi2

(* The index of the entry on the way of a client page.                     *)
LEMMA WayIndex ==
    ASSUME NEW va \in High, NEW lv \in 1 .. 4
    PROVE  /\ idx(va, lv) \in Idx
           /\ \/ lv = 4 /\ idx(va, lv) = va[1]
              \/ lv = 3 /\ idx(va, lv) = va[2]
              \/ lv = 2 /\ idx(va, lv) = va[3]
              \/ lv = 1 /\ idx(va, lv) = va[4]
  BY HighFacts, IdxFacts

(* The word written back is the word read.                                 *)
LEMMA PutSame ==
    ASSUME NEW m \in Memory, NEW f \in Frames, NEW i \in Idx
    PROVE  Put(m, f, i, m[f][i]) = m
  <1>1. m[f][i] \in Word
    BY DEF Memory
  <1>2. Put(m, f, i, m[f][i]) \in Memory
    BY <1>1, PutFacts
  <1>3. \A h \in Frames \cup {NULL} : \A j \in Idx : Put(m, f, i, m[f][i])[h][j] = m[h][j]
    BY <1>1, PutAt
  <1> QED
    BY <1>2, <1>3, MemoryEqual

(* The locals behind one turn of mm_page_map.                              *)
EntryCall(c, fr, pa) == [c EXCEPT !.frame = fr, !.lv = c.lv - 1, !.tab[c.lv - 1] = pa]

LEMMA EntryCallFacts ==
    ASSUME NEW c \in CallType, NEW fr \in Frames \cup {NULL}, NEW pa \in 0 .. DT1, c.lv \in 2 .. 4
    PROVE  /\ EntryCall(c, fr, pa) \in CallType
           /\ EntryCall(c, fr, pa).va = c.va /\ EntryCall(c, fr, pa).pa = c.pa
           /\ EntryCall(c, fr, pa).lv = c.lv - 1 /\ EntryCall(c, fr, pa).tab[c.lv - 1] = pa
           /\ EntryCall(c, fr, pa).frame = fr /\ EntryCall(c, fr, pa).huge = c.huge
  <1>1. PICK n \in 0 .. 4 : n = c.lv - 1
    OBVIOUS
  <1> DEFINE c1 == [c EXCEPT !.frame = fr, !.lv = n]
             c2 == [c EXCEPT !.frame = fr, !.lv = n, !.tab[n] = pa]
  <1>2. c1 \in CallType
    <2>1. n \in 0 .. 5
      OBVIOUS
    <2> QED
      BY <2>1 DEF CallType
  <1>3. c2 = [c1 EXCEPT !.tab[n] = pa]
    OBVIOUS
  <1>4. c2.va = c.va /\ c2.pa = c.pa /\ c2.lv = n /\ c2.frame = fr /\ c2.huge = c.huge
    BY DEF CallType
  <1>5. c2.tab[n] = pa
    BY DEF CallType
  <1>7. EntryCall(c, fr, pa) = c2
    BY <1>1 DEF EntryCall
  <1> HIDE DEF c1, c2
  <1>6. c2 \in CallType
    BY <1>2, <1>3 DEF CallType
  <1> QED
    BY <1>1, <1>4, <1>5, <1>6, <1>7

(* A frame is linked: the tree behind it.                                  *)
Linked(lev, pt, pi, lev2, pt2, pi2, t, g, va) ==
    /\ On(lev2, pt2, pi2, g, va) /\ lev2[g] = lev[t] - 1
    /\ Stays(lev, pt, pi, lev2, pt2, pi2)
    /\ \A f \in Frames : lev2[f] = 0 => f = g \/ lev[f] = 0

Empty(m, g) == \A j \in Idx : m[g][j] = Zero

(* A blank frame becomes a table.                                          *)
LEMMA LinkTable ==
    ASSUME NEW m, NEW lev, NEW pt, NEW pi, NEW rank, NEW q, NEW head, NEW count, NEW hd,
           NEW dn, NEW fl, NEW t \in Frames, NEW i \in Idx, NEW g \in Frames, NEW va \in VAs,
           Shape(m, lev, pt, pi, rank, q, head, count, hd, g, dn, fl, t),
           m[t][i] = Zero, On(lev, pt, pi, t, va), Empty(m, g),
           (lev[t] = 4 /\ i = va[1]) \/ (lev[t] = 3 /\ i = va[2]) \/ (lev[t] = 2 /\ i = va[3])
    PROVE  \E lev2, pt2, pi2 :
              /\ Shape(Put(m, t, i, tab_entry(g)), lev2, pt2, pi2, rank, q, head, count,
                       hd, NULL, dn, fl, g)
              /\ Linked(lev, pt, pi, lev2, pt2, pi2, t, g, va)
  <1>1. Ghosts(lev, pt, pi, rank, q) /\ Tree(m, lev, pt, pi) /\ Roles(lev, hd, g, dn)
    BY DEF Shape
  <1>2. lev[g] = SPARE /\ g \notin hd
    BY <1>1 DEF Roles, SPARE, HELD
  <1>3. lev[g] < 0 /\ lev[g] \in {SPARE, HELD} /\ lev[t] \in 1 .. 4 /\ (lev[t] = 1 => i = va[4])
    BY <1>2 DEF SPARE
  <1>4. lev[t] > 1 => g = g /\ \A j \in Idx : m[g][j] = Zero
    BY DEF Empty
  <1> DEFINE lev2 == [lev EXCEPT ![g] = lev[t] - 1]
             pt2 == [pt EXCEPT ![g] = t]
             pi2 == [pi EXCEPT ![g] = i]
  <1>5. Shape(Put(m, t, i, tab_entry(g)), lev2, pt2, pi2, rank, q, head, count, hd \ {g},
              IF g = g THEN NULL ELSE g, dn, fl, g)
    BY <1>3, <1>4, Attach
  <1>6. hd \ {g} = hd
    BY <1>2
  <1>7. Linked(lev, pt, pi, lev2, pt2, pi2, t, g, va)
    <2>1. \/ lev[t] = 4 /\ i = va[1]
          \/ lev[t] = 3 /\ i = va[2]
          \/ lev[t] = 2 /\ i = va[3]
          \/ lev[t] = 1 /\ i = va[4]
      OBVIOUS
    <2> QED
      BY <1>1, <1>3, <2>1, OnNew DEF Linked
  <1> HIDE DEF lev2, pt2, pi2
  <1> QED
    BY <1>5, <1>6, <1>7

(* A held frame goes behind its page.                                      *)
LEMMA LinkPage ==
    ASSUME NEW m, NEW lev, NEW pt, NEW pi, NEW rank, NEW q, NEW head, NEW count, NEW hd, NEW sp,
           NEW dn, NEW fl, NEW t \in Frames, NEW i \in Idx, NEW g \in hd, NEW va \in VAs,
           hd \subseteq Frames, Shape(m, lev, pt, pi, rank, q, head, count, hd, sp, dn, fl, t),
           m[t][i] = Zero, On(lev, pt, pi, t, va), lev[t] = 1, i = va[4]
    PROVE  \E lev2, pt2, pi2 :
              /\ Shape(Put(m, t, i, tab_entry(g)), lev2, pt2, pi2, rank, q, head, count,
                       hd \ {g}, sp, dn, fl, NULL)
              /\ Linked(lev, pt, pi, lev2, pt2, pi2, t, g, va)
  <1>1. Ghosts(lev, pt, pi, rank, q) /\ Tree(m, lev, pt, pi) /\ Roles(lev, hd, sp, dn) /\ g \in Frames
    BY DEF Shape
  <1>2. lev[g] = HELD /\ g # sp
    BY <1>1 DEF Roles, SPARE, HELD
  <1>3. lev[g] < 0 /\ lev[g] \in {SPARE, HELD} /\ lev[t] \in 1 .. 4 /\ (lev[t] = 1 => i = va[4])
    BY <1>2 DEF HELD
  <1>4. lev[t] > 1 => NULL = g /\ \A j \in Idx : m[g][j] = Zero
    OBVIOUS
  <1> DEFINE lev2 == [lev EXCEPT ![g] = lev[t] - 1]
             pt2 == [pt EXCEPT ![g] = t]
             pi2 == [pi EXCEPT ![g] = i]
  <1>5. Shape(Put(m, t, i, tab_entry(g)), lev2, pt2, pi2, rank, q, head, count, hd \ {g},
              IF g = sp THEN NULL ELSE sp, dn, fl, NULL)
    BY <1>1, <1>3, <1>4, Attach
  <1>7. Linked(lev, pt, pi, lev2, pt2, pi2, t, g, va)
    <2>1. \/ lev[t] = 4 /\ i = va[1]
          \/ lev[t] = 3 /\ i = va[2]
          \/ lev[t] = 2 /\ i = va[3]
          \/ lev[t] = 1 /\ i = va[4]
      OBVIOUS
    <2> QED
      BY <1>1, <1>3, <2>1, OnNew DEF Linked
  <1> HIDE DEF lev2, pt2, pi2
  <1> QED
    BY <1>2, <1>5, <1>7

(* A turn of mm_page_map goes down to a table on the way of the page,      *)
(* linking the spare frame if there is none.                               *)
LEMMA MapEntryStep ==
    ASSUME PageInv, map_entry
    PROVE  PageInv' /\ Pages(mem') = Pages(mem)
  <1>1. PICK lev, pt, pi, rank, q : GhostInv(lev, pt, pi, rank, q)
    BY DEF PageInv
  <1>2. /\ pc = "map_entry" /\ Mapping(lev, pt, pi) /\ call.lv \in 2 .. 4 /\ Blank
        /\ call.frame # NULL /\ call \in CallType /\ mem \in Memory
        /\ boot \in 1 .. HUGES + 1 /\ failed \in BOOLEAN /\ held \subseteq Frames
    BY <1>1 DEF map_entry, GhostInv, PcOK, PageInv
  <1>3. PICK t, va, i : t = call.tab[call.lv] /\ va = call.va /\ i = idx(call.va, call.lv)
    OBVIOUS
  <1>4. /\ View = mem /\ Cur = t /\ Flushing = WIN /\ Done = boot /\ ~call.huge
        /\ boot = HUGES + 1 /\ call.pa \in held /\ va \in VAs
        /\ t \in Frames /\ lev[t] = call.lv /\ On(lev, pt, pi, t, va)
        /\ \A f \in Frames : lev[f] = 0 => ~On(lev, pt, pi, f, va)
    BY <1>2, <1>3 DEF View, Cur, Flushing, Done, Mapping
  <1>5. Shape(mem, lev, pt, pi, rank, q, free_head, free_count, held, call.frame, boot, failed, t)
        /\ Remembers(tlb, lev, pt, pi, WIN)
    BY <1>1, <1>4 DEF GhostInv
  <1>6. Ghosts(lev, pt, pi, rank, q) /\ Tree(mem, lev, pt, pi) /\ Roles(lev, held, call.frame, boot)
    BY <1>5 DEF Shape
  <1>7. call.frame \in Frames /\ lev[call.frame] = SPARE
    BY <1>2, <1>6 DEF CallType, Roles
  <1>8. /\ i \in Idx
        /\ \/ lev[t] = 4 /\ i = va[1]
           \/ lev[t] = 3 /\ i = va[2]
           \/ lev[t] = 2 /\ i = va[3]
    <2>1. va \in High /\ call.lv \in 1 .. 4
      BY <1>2, <1>4, HighFacts
    <2> QED
      BY <1>2, <1>3, <1>4, <2>1, WayIndex
  <1>9. ~(lev[t] = 2 /\ pt[t] = EARLY3) /\ t # DT1
    <2>1. lev[t] \in 1 .. 4 /\ lev[t] # 1
      BY <1>2, <1>4
    <2>2. lev[DT1] = 1
      BY <1>6 DEF Tree, Frame0
    <2> QED
      BY <1>4, <1>6, <2>1, <2>2, ClientTable
  <1>10. mem[t][i] = Zero \/ \E g \in Frames : mem[t][i] = tab_entry(g)
    <2>1. lev[t] \in 1 .. 4
      BY <1>2, <1>4
    <2> QED
      BY <1>2, <1>4, <1>6, <1>8, <1>9, <2>1, EntryDown
  <1>11. accessible(t) /\ reached(t) = t /\ (\A f : reset_tlb(tlb, f) = tlb) /\ mem[DT1][0] = Zero
    BY <1>1, <1>2, <1>4, Window
  <1>12. /\ setup(mem, t)[t][i] = mem[t][i]
         /\ \A x \in Word : reset([setup(mem, t) EXCEPT ![t][i] = x]) = Put(mem, t, i, x)
    <2>1. Zero \in Word
      BY WordFacts
    <2>2. setup(mem, t)[t][i] = mem[t][i]
      BY <1>2, <1>4, <1>8, <1>9, <1>11, <2>1, WriteThrough
    <2>3. ASSUME NEW x \in Word PROVE reset([setup(mem, t) EXCEPT ![t][i] = x]) = Put(mem, t, i, x)
      BY <1>2, <1>4, <1>8, <1>9, <1>11, WriteThrough
    <2> QED
      BY <2>2, <2>3
  <1> DEFINE w == mem[t][i]
             linked == IF w.present THEN w ELSE tab_entry(call.frame)
  <1>13. ~(~w.present /\ (w # Zero \/ call.frame = NULL))
    <2>1. \A g \in Frames : tab_entry(g).present
      BY WordFacts, FrameFacts
    <2> QED
      BY <1>2, <1>10, <2>1
  <1>14. /\ mem' = reset([setup(mem, t) EXCEPT ![t][i] = linked]) /\ tlb' = tlb
         /\ call' = [call EXCEPT !.frame = map_entry_frame(call.frame, w.present),
                                 !.lv = call.lv - 1, !.tab[call.lv - 1] = linked.pa]
         /\ pc' = IF call.lv - 1 > Lowest THEN "map_frame" ELSE "map_leaf"
         /\ UNCHANGED <<free_head, free_count, held, failed, boot>>
    BY <1>3, <1>11, <1>12, <1>13 DEF map_entry, lower
  <1>15. CASE w.present
    <2>1. PICK g \in Frames : w = tab_entry(g)
      BY <1>10, <1>15, WordFacts
    <2>2. w.pa = g /\ w \in Word /\ g \in 0 .. DT1
      BY <2>1, WordFacts, FrameFacts
    <2>3. mem' = mem
      BY <1>2, <1>4, <1>8, <1>12, <1>14, <1>15, <2>2, PutSame
    <2>4. /\ call' \in CallType /\ call'.va = va /\ call'.pa = call.pa /\ call'.lv = call.lv - 1
          /\ call'.tab[call'.lv] = g /\ call'.frame = call.frame /\ call'.huge = call.huge
      <3>1. call' = EntryCall(call, call.frame, g)
        BY <1>14, <1>15, <2>2 DEF map_entry_frame, EntryCall
      <3> HIDE DEF w, linked
      <3> QED
        BY <1>2, <1>3, <1>7, <2>2, <3>1, EntryCallFacts
    <2>5. lev[g] = lev[t] - 1 /\ On(lev, pt, pi, g, va)
      BY <1>2, <1>4, <1>6, <1>8, <2>1, OnDown
    <2>6. Shape(mem, lev, pt, pi, rank, q, free_head, free_count, held, call.frame, boot, failed, g)
      <3>1. mem[t][i] # Zero
        BY <1>15, WordFacts
      <3> QED
        BY <1>5, <1>8, <3>1, ShapeCur
    <2>7. View' = mem /\ Cur' = g /\ Flushing' = WIN /\ Done' = boot
      BY <1>4, <1>14, <2>3, <2>4 DEF View, Cur, Flushing, Done
    <2>8. Mapping(lev, pt, pi)'
      BY <1>2, <1>4, <1>14, <2>4, <2>5 DEF Mapping
    <2>9. PcOK(lev, pt, pi)'
      <3>1. Blank'
        BY <1>2, <2>3, <2>4 DEF Blank
      <3>2. CASE call.lv - 1 > Lowest
        <4>1. call'.lv \in 2 .. 4 /\ pc' = "map_frame"
          BY <1>2, <1>14, <2>4, <3>2 DEF Lowest
        <4> QED
          BY <2>8, <3>1, <4>1 DEF PcOK
      <3>3. CASE ~(call.lv - 1 > Lowest)
        <4>1. call'.lv = 1 /\ pc' = "map_leaf"
          BY <1>2, <1>14, <2>4, <3>3 DEF Lowest
        <4> QED
          BY <2>8, <4>1 DEF PcOK
      <3> QED
        BY <3>2, <3>3
    <2>10. GhostInv(lev, pt, pi, rank, q)'
      BY <1>5, <1>14, <2>4, <2>6, <2>7, <2>9 DEF GhostInv
    <2> QED
      BY <1>2, <1>14, <2>3, <2>4, <2>10 DEF PageInv
  <1>16. CASE ~w.present
    <2>1. w = Zero
      BY <1>13, <1>16
    <2>2. PICK g : g = call.frame
      OBVIOUS
    <2>3. /\ g \in Frames /\ g \in 0 .. DT1 /\ lev[g] = SPARE /\ lev[g] < 0 /\ g \notin held
          /\ tab_entry(g) \in Word /\ tab_entry(g).pa = g
      <3>1. g \in Frames /\ g \in 0 .. DT1 /\ lev[g] = SPARE
        BY <1>7, <2>2, FrameFacts
      <3>2. g \notin held /\ lev[g] < 0
        BY <1>6, <3>1 DEF Roles, SPARE, HELD
      <3> QED
        BY <3>1, <3>2, WordFacts
    <2>4. mem' = Put(mem, t, i, tab_entry(g))
      BY <1>12, <1>14, <1>16, <2>2, <2>3
    <2>5. /\ call' \in CallType /\ call'.va = va /\ call'.pa = call.pa /\ call'.lv = call.lv - 1
          /\ call'.tab[call'.lv] = g /\ call'.frame = NULL /\ call'.huge = call.huge
      <3>1. call' = EntryCall(call, NULL, g)
        BY <1>14, <1>16, <2>2, <2>3 DEF map_entry_frame, EntryCall
      <3> HIDE DEF w, linked
      <3> QED
        <4>1. NULL \in Frames \cup {NULL}
          OBVIOUS
        <4>2. g \in 0 .. DT1 /\ call \in CallType /\ call.lv \in 2 .. 4 /\ call.va = va
          BY <1>2, <1>3, <2>3
        <4>3. PICK c : c = EntryCall(call, NULL, g)
          OBVIOUS
        <4>4. /\ c \in CallType /\ c.va = call.va /\ c.pa = call.pa /\ c.lv = call.lv - 1
              /\ c.tab[call.lv - 1] = g /\ c.frame = NULL /\ c.huge = call.huge
          BY <4>1, <4>2, <4>3, EntryCallFacts
        <4>5. call' = c
          BY <3>1, <4>3
        <4> QED
          BY <4>2, <4>4, <4>5
    <2>6. lev[t] \in 2 .. 4
      BY <1>2, <1>4
    <2>7. PICK lev2, pt2, pi2 :
            /\ Shape(Put(mem, t, i, tab_entry(g)), lev2, pt2, pi2, rank, q, free_head, free_count,
                     held, NULL, boot, failed, g)
            /\ Linked(lev, pt, pi, lev2, pt2, pi2, t, g, va)
      <3>1. Empty(mem, g)
        BY <1>2, <2>2 DEF Blank, Empty
      <3>2. (lev[t] = 4 /\ i = va[1]) \/ (lev[t] = 3 /\ i = va[2]) \/ (lev[t] = 2 /\ i = va[3])
        BY <1>8, <2>6
      <3>3. Shape(mem, lev, pt, pi, rank, q, free_head, free_count, held, g, boot, failed, t)
        BY <1>5, <2>2
      <3>4. mem[t][i] = Zero
        BY <2>1
      <3> HIDE DEF w, linked
      <3> QED
        BY <1>4, <1>8, <2>3, <3>1, <3>2, <3>3, <3>4, LinkTable
    <2>8. Shape(mem', lev2, pt2, pi2, rank, q, free_head, free_count, held, NULL, boot, failed, g)
      BY <2>4, <2>7
    <2>9. /\ On(lev2, pt2, pi2, g, va) /\ lev2[g] = lev[t] - 1
          /\ Stays(lev, pt, pi, lev2, pt2, pi2)
          /\ \A f \in Frames : lev2[f] = 0 => f = g \/ lev[f] = 0
      BY <2>7 DEF Linked
    <2>10. Remembers(tlb, lev2, pt2, pi2, WIN)
      BY <1>5, <2>9, RemembersStays
    <2>11. View' = mem' /\ Cur' = g /\ Flushing' = WIN /\ Done' = boot
      BY <1>4, <1>14, <2>5 DEF View, Cur, Flushing, Done
    <2>12. Mapping(lev2, pt2, pi2)'
      <3>1. lev2[g] = call'.lv /\ lev2[g] # 0
        BY <1>4, <2>5, <2>6, <2>9
      <3>2. \A f \in Frames : lev2[f] = 0 => ~On(lev2, pt2, pi2, f, va)
        <4> TAKE f \in Frames
        <4> HAVE lev2[f] = 0
        <4>2. f # g
          BY <3>1
        <4>3. lev[f] = 0
          BY <2>9, <4>2
        <4>1. lev[f] = 0 /\ lev[f] \in 0 .. 4
          BY <4>3
        <4> QED
          BY <1>4, <2>9, <4>1 DEF Stays
      <3> QED
        BY <1>4, <1>14, <2>3, <2>5, <2>9, <3>1, <3>2 DEF Mapping
    <2>13. PcOK(lev2, pt2, pi2)'
      <3>1. Blank'
        BY <2>5 DEF Blank
      <3>2. CASE call.lv - 1 > Lowest
        <4>1. call'.lv \in 2 .. 4 /\ pc' = "map_frame"
          BY <1>2, <1>14, <2>5, <3>2 DEF Lowest
        <4> QED
          BY <2>12, <3>1, <4>1 DEF PcOK
      <3>3. CASE ~(call.lv - 1 > Lowest)
        <4>1. call'.lv = 1 /\ pc' = "map_leaf"
          BY <1>2, <1>14, <2>5, <3>3 DEF Lowest
        <4> QED
          BY <2>12, <4>1 DEF PcOK
      <3> QED
        BY <3>2, <3>3
    <2>14. GhostInv(lev2, pt2, pi2, rank, q)'
      BY <1>14, <2>5, <2>8, <2>10, <2>11, <2>13 DEF GhostInv
    <2>15. mem' \in Memory /\ Ghosts(lev2, pt2, pi2, rank, q) /\ Tree(mem', lev2, pt2, pi2)
      BY <2>8 DEF Shape
    <2>16. Pages(mem') = Pages(mem)
      <3>1. lev2[g] # 0
        BY <2>6, <2>9
      <3>2. \A f \in Frames : lev2[f] = 0 => lev[f] = 0
        BY <2>9, <3>1
      <3> QED
        BY <1>2, <1>6, <2>9, <2>15, <3>2, SamePages
    <2> QED
      BY <1>2, <1>14, <2>5, <2>14, <2>15, <2>16 DEF PageInv
  <1> QED
    BY <1>15, <1>16

(* One frame lies behind one page only.                                    *)
LEMMA OnePage ==
    ASSUME NEW lev, NEW pt, NEW pi, NEW f, lev[f] = 0, NEW va \in VAs, NEW vb \in VAs,
           On(lev, pt, pi, f, va), On(lev, pt, pi, f, vb)
    PROVE  va = vb
  <1>1. va \in High /\ vb \in High
    BY HighFacts
  <1>2. va = <<va[1], va[2], va[3], va[4]>> /\ vb = <<vb[1], vb[2], vb[3], vb[4]>>
    BY <1>1, HighFacts
  <1>3. va[1] = vb[1] /\ va[2] = vb[2] /\ va[3] = vb[3] /\ va[4] = vb[4]
    BY DEF On
  <1> QED
    BY <1>2, <1>3

(* A page gets a frame.                                                    *)
LEMMA NewPage ==
    ASSUME NEW m \in Memory, NEW lev, NEW pt, NEW pi, NEW rank, NEW q,
           Ghosts(lev, pt, pi, rank, q), Tree(m, lev, pt, pi),
           NEW m2 \in Memory, NEW lev2, NEW pt2, NEW pi2, NEW rank2, NEW q2,
           Ghosts(lev2, pt2, pi2, rank2, q2), Tree(m2, lev2, pt2, pi2),
           NEW t, lev[t] = 1, NEW g \in Frames, NEW va \in VAs,
           Linked(lev, pt, pi, lev2, pt2, pi2, t, g, va)
    PROVE  Pages(m2) = [Pages(m) EXCEPT ![va] = g]
  <1>1. lev2[g] = 0 /\ On(lev2, pt2, pi2, g, va) /\ Stays(lev, pt, pi, lev2, pt2, pi2)
        /\ \A f \in Frames : lev2[f] = 0 => f = g \/ lev[f] = 0
    BY DEF Linked
  <1>2. TranslateIn(m2, va) = g
    <2>1. va \in High
      BY HighFacts
    <2> QED
      BY <1>1, <2>1, WalkLeaf
  <1>3. ASSUME NEW vb \in VAs, vb # va PROVE TranslateIn(m2, vb) = TranslateIn(m, vb)
    <2>1. vb \in High
      BY HighFacts
    <2>2. /\ TranslateIn(m, vb) # NULL =>
                 /\ TranslateIn(m, vb) \in Frames /\ lev[TranslateIn(m, vb)] = 0
                 /\ On(lev, pt, pi, TranslateIn(m, vb), vb)
          /\ \A h \in Frames : lev[h] = 0 /\ On(lev, pt, pi, h, vb) => TranslateIn(m, vb) = h
      BY <2>1, WalkLeaf
    <2>3. /\ TranslateIn(m2, vb) # NULL =>
                 /\ TranslateIn(m2, vb) \in Frames /\ lev2[TranslateIn(m2, vb)] = 0
                 /\ On(lev2, pt2, pi2, TranslateIn(m2, vb), vb)
          /\ \A h \in Frames : lev2[h] = 0 /\ On(lev2, pt2, pi2, h, vb) => TranslateIn(m2, vb) = h
      BY <2>1, WalkLeaf
    <2>4. \A h \in Frames : lev[h] = 0 => lev2[h] = 0 /\ (On(lev2, pt2, pi2, h, vb) <=> On(lev, pt, pi, h, vb))
      <3>1. \A h \in Frames : lev[h] = 0 => lev[h] \in 0 .. 4
        OBVIOUS
      <3> QED
        BY <1>1, <3>1 DEF Stays
    <2>5. ~On(lev2, pt2, pi2, g, vb)
      BY <1>1, <1>3, OnePage
    <2>6. CASE TranslateIn(m, vb) # NULL
      BY <2>2, <2>3, <2>4, <2>6
    <2>7. CASE TranslateIn(m2, vb) # NULL
      BY <1>1, <2>2, <2>3, <2>4, <2>5, <2>7
    <2> QED
      BY <2>6, <2>7
  <1> QED
    BY <1>2, <1>3 DEF Pages

(* The lowest entry gets the frame, and the page that translation only.    *)
LEMMA MapLeafStep ==
    ASSUME PageInv, map_leaf
    PROVE  PageInv' /\ Pages(mem') = [Pages(mem) EXCEPT ![call.va] = call.pa]
  <1>1. PICK lev, pt, pi, rank, q : GhostInv(lev, pt, pi, rank, q)
    BY DEF PageInv
  <1>2. /\ pc = "map_leaf" /\ Mapping(lev, pt, pi) /\ call.lv = 1
        /\ call \in CallType /\ mem \in Memory
        /\ boot \in 1 .. HUGES + 1 /\ failed \in BOOLEAN /\ held \subseteq Frames
    BY <1>1 DEF map_leaf, GhostInv, PcOK, PageInv
  <1>3. PICK t, va, i, g : /\ t = call.tab[call.lv] /\ va = call.va
                           /\ i = idx(call.va, call.lv) /\ g = call.pa
    OBVIOUS
  <1>4. /\ View = mem /\ Cur = t /\ Flushing = WIN /\ Done = boot /\ ~call.huge
        /\ boot = HUGES + 1 /\ g \in held /\ g \in Frames /\ va \in VAs
        /\ t \in Frames /\ lev[t] = 1 /\ On(lev, pt, pi, t, va)
        /\ \A f \in Frames : lev[f] = 0 => ~On(lev, pt, pi, f, va)
    BY <1>2, <1>3 DEF View, Cur, Flushing, Done, Mapping
  <1>5. Shape(mem, lev, pt, pi, rank, q, free_head, free_count, held, call.frame, boot, failed, t)
        /\ Remembers(tlb, lev, pt, pi, WIN)
    BY <1>1, <1>4 DEF GhostInv
  <1>6. Ghosts(lev, pt, pi, rank, q) /\ Tree(mem, lev, pt, pi) /\ Roles(lev, held, call.frame, boot)
    BY <1>5 DEF Shape
  <1>8. i \in Idx /\ i = va[4] /\ i = idx(va, 1)
    <2>1. va \in High
      BY <1>4, HighFacts
    <2> QED
      BY <1>2, <1>3, <2>1, HighFacts, IdxFacts
  <1>9. ~(lev[t] = 2 /\ pt[t] = EARLY3) /\ ~(t = DT1 /\ i = 0) /\ lev[t] \in 1 .. 4
    BY <1>4, <1>6, <1>8, ClientTable
  <1>10. mem[t][i] = Zero
    <2>1. mem[t][i] = Zero \/ \E h \in Frames : mem[t][i] = tab_entry(h)
      BY <1>2, <1>4, <1>6, <1>8, <1>9, EntryDown
    <2>2. ASSUME NEW h \in Frames, mem[t][i] = tab_entry(h) PROVE FALSE
      <3>2. \/ lev[t] = 4 /\ i = va[1]
            \/ lev[t] = 3 /\ i = va[2]
            \/ lev[t] = 2 /\ i = va[3]
            \/ lev[t] = 1 /\ i = va[4]
        BY <1>4, <1>8
      <3>1. lev[h] = lev[t] - 1 /\ On(lev, pt, pi, h, va)
        <4>1. mem \in Memory /\ t \in Frames /\ i \in Idx /\ On(lev, pt, pi, t, va)
          BY <1>2, <1>4, <1>8
        <4> QED
          BY <1>6, <2>2, <3>2, <4>1, OnDown
      <3> QED
        BY <1>4, <3>1
    <2> QED
      BY <2>1, <2>2
  <1>11. accessible(t) /\ reached(t) = t /\ (\A f : reset_tlb(tlb, f) = tlb) /\ mem[DT1][0] = Zero
    BY <1>1, <1>2, <1>4, Window
  <1>12. tab_entry(g) \in Word
    BY <1>4, WordFacts, FrameFacts
  <1>13. /\ setup(mem, t)[t][i] = mem[t][i]
         /\ reset([setup(mem, t) EXCEPT ![t][i] = tab_entry(g)]) = Put(mem, t, i, tab_entry(g))
    BY <1>2, <1>4, <1>8, <1>9, <1>11, <1>12, WriteThrough
  <1>14. /\ mem' = Put(mem, t, i, tab_entry(g)) /\ tlb' = tlb /\ held' = held \ {g}
         /\ pc' = "map_back" /\ UNCHANGED <<free_head, free_count, failed, boot, call>>
    BY <1>2, <1>3, <1>8, <1>10, <1>11, <1>13 DEF map_leaf
  <1>15. PICK lev2, pt2, pi2 :
           /\ Shape(Put(mem, t, i, tab_entry(g)), lev2, pt2, pi2, rank, q, free_head, free_count,
                    held \ {g}, call.frame, boot, failed, NULL)
           /\ Linked(lev, pt, pi, lev2, pt2, pi2, t, g, va)
    BY <1>2, <1>4, <1>5, <1>8, <1>10, LinkPage
  <1>16. Remembers(tlb, lev2, pt2, pi2, WIN)
    BY <1>5, <1>15, RemembersStays DEF Linked
  <1>17. View' = mem' /\ Cur' = NULL /\ Flushing' = WIN /\ Done' = boot
    BY <1>4, <1>14 DEF View, Cur, Flushing, Done
  <1>18. PcOK(lev2, pt2, pi2)'
    BY <1>4, <1>14 DEF PcOK
  <1>19. GhostInv(lev2, pt2, pi2, rank, q)'
    BY <1>14, <1>15, <1>16, <1>17, <1>18 DEF GhostInv
  <1>20. mem' \in Memory /\ held' \subseteq Frames
    BY <1>2, <1>14, <1>15 DEF Shape
  <1>21. Pages(mem') = [Pages(mem) EXCEPT ![va] = g]
    <2>1. mem' \in Memory /\ Ghosts(lev2, pt2, pi2, rank, q) /\ Tree(mem', lev2, pt2, pi2)
      BY <1>14, <1>15 DEF Shape
    <2> QED
      BY <1>2, <1>4, <1>6, <1>15, <2>1, NewPage
  <1> QED
    BY <1>2, <1>3, <1>14, <1>19, <1>20, <1>21 DEF PageInv

(* The frame that was not needed goes back to the list.                    *)
LEMMA MapBackStep ==
    ASSUME PageInv, map_back
    PROVE  PageInv' /\ Pages(mem') = Pages(mem)
  <1>1. PICK lev, pt, pi, rank, q : GhostInv(lev, pt, pi, rank, q)
    BY DEF PageInv
  <1>2. /\ pc = "map_back" /\ boot = HUGES + 1 /\ ~call.huge
        /\ call \in CallType /\ mem \in Memory
        /\ boot \in 1 .. HUGES + 1 /\ failed \in BOOLEAN /\ held \subseteq Frames
    BY <1>1 DEF map_back, GhostInv, PcOK, PageInv
  <1>3. PICK f : f = call.frame
    OBVIOUS
  <1>4. View = mem /\ Cur = NULL /\ Flushing = WIN /\ Done = boot
    BY <1>2 DEF View, Cur, Flushing, Done
  <1>5. Shape(mem, lev, pt, pi, rank, q, free_head, free_count, held, f, boot, failed, NULL)
        /\ Remembers(tlb, lev, pt, pi, WIN)
    BY <1>1, <1>3, <1>4 DEF GhostInv
  <1>6. Ghosts(lev, pt, pi, rank, q) /\ Tree(mem, lev, pt, pi) /\ Roles(lev, held, f, boot)
        /\ List(mem, lev, rank, q, free_head, free_count)
    BY <1>5 DEF Shape
  <1>7. CASE f = NULL
    <2>1. /\ call' = Idle /\ pc' = "idle"
          /\ UNCHANGED <<mem, free_head, free_count, tlb, held, failed, boot>>
      BY <1>3, <1>7 DEF map_back
    <2>2. View' = mem /\ Cur' = NULL /\ Flushing' = WIN /\ Done' = boot
      BY <2>1, IdleFacts DEF View, Cur, Flushing, Done
    <2>3. PcOK(lev, pt, pi)'
      BY <1>2, <2>1 DEF PcOK
    <2>4. GhostInv(lev, pt, pi, rank, q)'
      BY <1>5, <1>7, <2>1, <2>2, <2>3, IdleFacts DEF GhostInv
    <2> QED
      BY <1>2, <2>1, <2>4, IdleFacts DEF PageInv
  <1>8. CASE f # NULL
    <2>1. f \in Frames /\ lev[f] = SPARE /\ f # DT1
      <3>1. f \in Frames
        BY <1>2, <1>3, <1>8 DEF CallType
      <3>2. lev[f] = SPARE /\ lev[DT1] = 1
        BY <1>6, <3>1 DEF Roles, Tree, Frame0
      <3> QED
        BY <3>1, <3>2 DEF SPARE
    <2>2. accessible(f) /\ reached(f) = f /\ (\A h : reset_tlb(tlb, h) = tlb) /\ mem[DT1][0] = Zero
      BY <1>1, <1>2, <2>1, Window
    <2>3. free_head \in 0 .. DT1 /\ link(free_head) \in Word /\ 0 \in Idx
      <3>1. free_head \in 0 .. DT1
        BY <1>2, <1>6, ListHead, FrameFacts DEF NULL
      <3> QED
        BY <3>1, WordFacts, ParamFacts
    <2>4. reset([setup(mem, f) EXCEPT ![f][0] = link(free_head)]) = Put(mem, f, 0, link(free_head))
      BY <1>2, <2>1, <2>2, <2>3, WriteThrough
    <2>5. /\ mem' = Put(mem, f, 0, link(free_head)) /\ free_head' = f /\ free_count' = free_count + 1
          /\ tlb' = tlb /\ call' = Idle /\ pc' = "idle" /\ UNCHANGED <<held, failed, boot>>
      BY <1>3, <1>8, <2>2, <2>4 DEF map_back, frame_free
    <2>6. PICK lev2, rank2, q2 :
            /\ lev2 = [lev EXCEPT ![f] = FREE] /\ rank2 = [rank EXCEPT ![f] = free_count + 1]
            /\ q2 = [q EXCEPT ![free_count + 1] = f]
      OBVIOUS
    <2>7. Shape(mem', lev2, pt, pi, rank2, q2, f, free_count + 1, held, NULL, boot, failed, NULL)
      BY <1>5, <2>1, <2>5, <2>6, ShapeGive
    <2>8. Stays(lev, pt, pi, lev2, pt, pi)
      <3>1. lev[f] < 0 /\ FREE \in -4 .. -1
        BY <2>1 DEF FREE, SPARE
      <3> QED
        BY <1>6, <2>1, <2>6, <3>1, RoleStays
    <2>9. Remembers(tlb, lev2, pt, pi, WIN)
      BY <1>5, <2>8, RemembersStays
    <2>10. View' = mem' /\ Cur' = NULL /\ Flushing' = WIN /\ Done' = boot
      BY <2>5, IdleFacts DEF View, Cur, Flushing, Done
    <2>11. PcOK(lev2, pt, pi)'
      BY <1>2, <2>5 DEF PcOK
    <2>12. GhostInv(lev2, pt, pi, rank2, q2)'
      BY <2>5, <2>7, <2>9, <2>10, <2>11, IdleFacts DEF GhostInv
    <2>13. mem' \in Memory
      BY <2>7 DEF Shape
    <2>14. Pages(mem') = Pages(mem)
      <3>1. lev2 \in [Frames -> -4 .. 4] /\ \A h \in Frames : lev2[h] = IF h = f THEN FREE ELSE lev[h]
        <4>1. lev \in [Frames -> -4 .. 4] /\ FREE \in -4 .. 4
          BY <1>6 DEF Ghosts, FREE
        <4> QED
          BY <2>6, <4>1
      <3>2. lev[f] < 0 /\ FREE < 0 /\ lev[f] \notin 1 .. 4
        BY <2>1 DEF FREE, SPARE
      <3>3. \A h \in Frames \cup {NULL} : h # f => mem'[h] = mem[h]
        BY <1>2, <2>1, <2>3, <2>5, PutFacts
      <3>4. SameTree(mem, mem', lev, lev2)
        BY <2>1, <3>1, <3>2, <3>3, FrameFacts DEF SameTree
      <3> QED
        BY <1>2, <1>6, <2>13, <3>1, <3>4, TreePages
    <2> QED
      BY <1>2, <2>5, <2>12, <2>13, <2>14, IdleFacts DEF PageInv
  <1> QED
    BY <1>7, <1>8

(* The walk to a huge page that is still mapped.                           *)
HugeTab(p) == EARLY2(p \div FAN)
HugeWalked(m, lev, pt, pi, t, va, p) ==
    /\ PathIn(m, va) = <<NULL, t, EARLY3, ROOT>> /\ m[t][idx(va, 2)] = HugeWord(p)
    /\ t \in Frames /\ lev[t] = 2 /\ lev[EARLY3] = 3 /\ lev[ROOT] = 4
    /\ On(lev, pt, pi, t, va) /\ On(lev, pt, pi, EARLY3, va) /\ On(lev, pt, pi, ROOT, va)

(* The walk of a huge page that bootstrap unmaps ends at its early table.  *)
LEMMA HugeWalk ==
    ASSUME NEW m \in Memory, NEW lev, NEW pt, NEW pi, NEW rank, NEW q, NEW dn, NEW p \in Left(dn),
           Ghosts(lev, pt, pi, rank, q), Tree(m, lev, pt, pi), EarlyTabs(m, lev, pt, pi, dn)
    PROVE  HugeWalked(m, lev, pt, pi, HugeTab(p), huge_va(p), p)
  <1> DEFINE t == HugeTab(p)
             va == huge_va(p)
  <1>1. t = EARLY2(p \div FAN) /\ va = huge_va(p)
    BY DEF HugeTab
  <1> HIDE DEF t, va
  <1>2. va[1] = 0 /\ va[2] = p \div FAN /\ va[3] = p % FAN /\ va[4] = 0
    BY <1>1 DEF huge_va
  <1>3. /\ t \in Frames /\ p \div FAN \in Idx /\ p % FAN \in Idx /\ HugeNo(p \div FAN, p % FAN) = p
        /\ Leads[HugeWord(p)] = NULL
    BY <1>1, HugeWordFacts
  <1>4. lev[t] = 2 /\ pt[t] = EARLY3 /\ pi[t] = p \div FAN
    BY <1>1 DEF EarlyTabs
  <1>5. m[t][p % FAN] = HugeWord(p)
    <2>1. m[t][p % FAN] = IF HugeNo(pi[t], p % FAN) \in Left(dn)
                          THEN HugeWord(HugeNo(pi[t], p % FAN)) ELSE Zero
      BY <1>3, <1>4 DEF EarlyTabs
    <2> QED
      BY <1>3, <1>4, <2>1
  <1>6. lev[EARLY3] = 3 /\ pi[EARLY3] = 0 /\ EARLY3 \in Frames /\ lev[ROOT] = 4
        /\ \A f \in Frames : lev[f] = 4 => f = ROOT
    BY FrameFacts DEF Tree, Frame0
  <1>7. pt[EARLY3] = ROOT /\ m[ROOT][0] = tab_entry(EARLY3)
    <2>1. pt[EARLY3] \in Frames
      BY <1>6 DEF Ghosts
    <2>2. lev[EARLY3] \in 0 .. 3
      BY <1>6
    <2>3. lev[pt[EARLY3]] = lev[EARLY3] + 1 /\ m[pt[EARLY3]][pi[EARLY3]] = tab_entry(EARLY3)
      BY <1>6, <2>2 DEF Tree, Up
    <2>4. pt[EARLY3] = ROOT
      BY <1>6, <2>1, <2>3
    <2> QED
      BY <1>6, <2>3, <2>4
  <1>8. m[EARLY3][p \div FAN] = tab_entry(t)
    <2>1. lev[t] \in 0 .. 3
      BY <1>4
    <2>2. m[pt[t]][pi[t]] = tab_entry(t)
      BY <1>3, <2>1 DEF Tree, Up
    <2> QED
      BY <1>4, <2>2
  <1>9. Leads[tab_entry(EARLY3)] = EARLY3 /\ Leads[tab_entry(t)] = t
    BY <1>3, <1>6, WordFacts
  <1>10. PathIn(m, va) = <<NULL, t, EARLY3, ROOT>>
    BY <1>2, <1>3, <1>5, <1>7, <1>8, <1>9 DEF PathIn
  <1>11. On(lev, pt, pi, t, va) /\ On(lev, pt, pi, EARLY3, va) /\ On(lev, pt, pi, ROOT, va)
    BY <1>2, <1>4, <1>6 DEF On
  <1>12. idx(va, 2) = p % FAN
    BY <1>2, IdxFacts
  <1> QED
    BY <1>3, <1>4, <1>5, <1>6, <1>10, <1>11, <1>12 DEF HugeWalked, t, va

(* The walk to the page of a frame.                                        *)
LEMMA PageWalk ==
    ASSUME NEW m \in Memory, NEW lev, NEW pt, NEW pi, NEW rank, NEW q,
           Ghosts(lev, pt, pi, rank, q), Tree(m, lev, pt, pi),
           NEW va \in High, NEW f \in Frames, lev[f] = 0, On(lev, pt, pi, f, va)
    PROVE  /\ PathIn(m, va)[4] = ROOT
           /\ \A l \in 1 .. 4 : /\ PathIn(m, va)[l] \in Frames /\ lev[PathIn(m, va)[l]] = l
                                /\ On(lev, pt, pi, PathIn(m, va)[l], va)
           /\ PathIn(m, va)[1] = pt[f] /\ m[pt[f]][va[4]] = tab_entry(f) /\ pi[f] = va[4]
  <1>1. pt[f] \in Frames /\ lev[pt[f]] = 1 /\ On(lev, pt, pi, pt[f], va)
    BY OnUp
  <1>2. pt[pt[f]] \in Frames /\ lev[pt[pt[f]]] = 2 /\ On(lev, pt, pi, pt[pt[f]], va)
    BY <1>1, OnUp
  <1>3. pi[f] = va[4] /\ m[pt[f]][pi[f]] = tab_entry(f)
    <2>1. lev[f] \in 0 .. 3
      OBVIOUS
    <2>2. m[pt[f]][pi[f]] = tab_entry(f)
      BY <2>1 DEF Tree, Up
    <2> QED
      BY <2>2 DEF On
  <1> DEFINE p == PathIn(m, va)
  <1>9. pt[pt[pt[f]]] \in Frames /\ lev[pt[pt[pt[f]]]] = 3 /\ On(lev, pt, pi, pt[pt[pt[f]]], va)
    BY <1>2, OnUp
  <1>4. p[4] = ROOT
    BY WalkTables
  <1>5. p[1] = pt[f] /\ p[2] = pt[pt[f]] /\ p[3] = pt[pt[pt[f]]]
    BY <1>1, <1>2, <1>9, WalkTables
  <1> HIDE DEF p
  <1>6. lev[ROOT] = 4 /\ ROOT \in Frames
    BY FrameFacts DEF Tree, Frame0
  <1>7. On(lev, pt, pi, ROOT, va)
    BY <1>6 DEF On
  <1>8. ASSUME NEW l \in 1 .. 4 PROVE p[l] \in Frames /\ lev[p[l]] = l /\ On(lev, pt, pi, p[l], va)
    <2>1. l = 1 \/ l = 2 \/ l = 3 \/ l = 4
      OBVIOUS
    <2> QED
      BY <1>1, <1>2, <1>4, <1>5, <1>6, <1>7, <1>9, <2>1
  <1> QED
    BY <1>3, <1>4, <1>5, <1>8 DEF p

(* The locals behind the walk.                                             *)
WalkCall(c, lv, pa, tab) == [c EXCEPT !.lv = lv, !.pa = pa, !.tab = tab]
Tabs == [0 .. 4 -> 0 .. DT1]
AtBottom(d, c, lv, pa, tab) ==
    /\ d \in CallType /\ d.va = c.va /\ d.lv = lv /\ d.pa = pa
    /\ d.tab = tab /\ d.frame = c.frame /\ d.huge = c.huge /\ d.free = c.free

LEMMA WalkCallFacts ==
    ASSUME NEW c \in CallType, NEW lv \in 0 .. 4, NEW pa \in 0 .. DT1, NEW tab \in Tabs
    PROVE  AtBottom(WalkCall(c, lv, pa, tab), c, lv, pa, tab)
  <1>1. lv \in 0 .. 5
    OBVIOUS
  <1> QED
    BY <1>1 DEF CallType, WalkCall, Tabs, AtBottom

Passed(p, b) == [lv \in 0 .. 4 |-> IF lv < b THEN NULL ELSE p[lv]]

(* What unmap_walk does when it finds its entries, for a page and for a    *)
(* huge page.                                                              *)
Walked(p, b) ==
    /\ call' = WalkCall(call, b, mem[p[b]][idx(call.va, b)].pa, Passed(p, b))
    /\ tlb' = reset_tlb(tlb, ROOT) /\ pc' = "unmap_leaf"
    /\ UNCHANGED <<mem, free_head, free_count, held, failed, boot>>

(* The walk of a page goes on when every entry is there.                   *)
LEMMA WalkSmall ==
    ASSUME unmap_walk, NEW p, p = Path(call.va), p[1] # NULL, call.huge = FALSE,
           \A l \in 1 .. 4 : p[l] # NULL /\ accessible(p[l]),
           mem[p[1]][idx(call.va, 1)].present
    PROVE  Walked(p, 1)
  BY Zenon DEF unmap_walk, Walked, WalkCall, Passed

(* The walk of a huge page goes on when every entry is there.              *)
LEMMA WalkHuge ==
    ASSUME unmap_walk, NEW p, p = Path(call.va), p[1] = NULL, call.huge = TRUE,
           \A l \in 2 .. 4 : p[l] # NULL /\ accessible(p[l]),
           mem[p[2]][idx(call.va, 2)].present
    PROVE  Walked(p, 2)
  BY Zenon DEF unmap_walk, Walked, WalkCall, Passed

(* The walk of _unmap finds every entry it asserts.                        *)
LEMMA UnmapWalkStep ==
    ASSUME PageInv, unmap_walk
    PROVE  PageInv'
  <1>1. PICK lev, pt, pi, rank, q : GhostInv(lev, pt, pi, rank, q)
    BY DEF PageInv
  <1>2. /\ pc = "unmap_walk" /\ Unmapping /\ call \in CallType /\ mem \in Memory
        /\ ~call.huge => \E f \in Frames : lev[f] = 0 /\ On(lev, pt, pi, f, call.va)
        /\ boot \in 1 .. HUGES + 1 /\ failed \in BOOLEAN /\ held \subseteq Frames
    BY <1>1 DEF unmap_walk, GhostInv, PcOK, PageInv
  <1>3. PICK va, dn : va = call.va /\ dn = Done
    OBVIOUS
  <1>4. View = mem /\ Cur = NULL /\ Flushing = WIN
    BY <1>2 DEF View, Cur, Flushing
  <1>5. Shape(mem, lev, pt, pi, rank, q, free_head, free_count, held, call.frame, dn, failed, NULL)
        /\ Remembers(tlb, lev, pt, pi, WIN)
    BY <1>1, <1>3, <1>4 DEF GhostInv
  <1>6. Ghosts(lev, pt, pi, rank, q) /\ Tree(mem, lev, pt, pi) /\ EarlyTabs(mem, lev, pt, pi, dn)
    BY <1>5 DEF Shape
  <1>7. (\A f \in Frames : accessible(f)) /\ \A f : reset_tlb(tlb, f) = tlb
    BY <1>1, <1>2, Window
  <1>8. PICK p : p = Path(va) /\ p = PathIn(mem, va)
    BY PathIsIn
  <1>9. CASE ~call.huge
    <2>1. va \in VAs /\ va \in High /\ call.free /\ boot = HUGES + 1
      BY <1>2, <1>3, <1>9, HighFacts DEF Unmapping
    <2>2. PICK f \in Frames : lev[f] = 0 /\ On(lev, pt, pi, f, va)
      BY <1>2, <1>3, <1>9
    <2>3. /\ \A l \in 1 .. 4 : p[l] \in Frames /\ lev[p[l]] = l /\ On(lev, pt, pi, p[l], va)
          /\ mem[p[1]][va[4]] = tab_entry(f)
      BY <1>2, <1>6, <1>8, <2>1, <2>2, PageWalk
    <2>4. p[1] # NULL /\ \A l \in 1 .. 4 : p[l] # NULL /\ accessible(p[l]) /\ p[l] \in 0 .. DT1
      BY <1>7, <2>3, FrameFacts
    <2>5. tab_entry(f).present /\ tab_entry(f).pa = f /\ f \in 0 .. DT1
      BY WordFacts, FrameFacts
    <2>6. idx(va, 1) = va[4]
      BY IdxFacts
    <2>7. Walked(p, 1)
      <3>1. call.huge = FALSE /\ p[1] # NULL
        BY <1>2, <1>9, <2>4 DEF CallType
      <3>2. mem[p[1]][idx(va, 1)].present
        BY <2>3, <2>5, <2>6
      <3> QED
        BY <1>3, <1>8, <2>4, <3>1, <3>2, WalkSmall
    <2>16. tlb' = tlb /\ pc' = "unmap_leaf" /\ UNCHANGED <<mem, free_head, free_count, held, failed, boot>>
      BY <1>7, <2>7 DEF Walked
    <2>8. call' = WalkCall(call, 1, f, Passed(p, 1))
      BY <1>3, <2>3, <2>5, <2>6, <2>7 DEF Walked
    <2>9. Passed(p, 1) \in [0 .. 4 -> 0 .. DT1] /\ \A l \in 1 .. 4 : Passed(p, 1)[l] = p[l]
      BY <2>4, FrameFacts DEF Passed, NULL
    <2>10. /\ call' \in CallType /\ call'.va = va /\ call'.lv = 1 /\ call'.pa = f
           /\ call'.tab = Passed(p, 1) /\ call'.frame = call.frame /\ call'.huge = call.huge
           /\ call'.free = call.free
      <3>1. PICK tab \in Tabs, pa \in 0 .. DT1, lv \in 0 .. 4 :
              tab = Passed(p, 1) /\ pa = f /\ lv = 1
        BY <2>5, <2>9 DEF Tabs
      <3>2. call' = WalkCall(call, lv, pa, tab) /\ call \in CallType /\ call.va = va
        BY <1>2, <1>3, <2>8, <3>1
      <3>3. /\ call' \in CallType /\ call'.va = va /\ call'.lv = lv /\ call'.pa = pa
            /\ call'.tab = tab /\ call'.frame = call.frame /\ call'.huge = call.huge
            /\ call'.free = call.free
        <4>1. AtBottom(WalkCall(call, lv, pa, tab), call, lv, pa, tab)
          BY <3>2, WalkCallFacts
        <4>2. AtBottom(call', call, lv, pa, tab)
          BY <3>2, <4>1, Zenon
        <4> QED
          BY <3>2, <4>2, Zenon DEF AtBottom
      <3> QED
        BY <3>1, <3>3
    <2>11. Unmapping'
      BY <1>2, <1>3, <1>9, <2>10, <2>16 DEF Unmapping
    <2>12. Way(lev, pt, pi)'
      BY <2>3, <2>9, <2>10 DEF Way
    <2>13. PcOK(lev, pt, pi)'
      BY <1>9, <2>2, <2>10, <2>11, <2>12, <2>16 DEF PcOK
    <2>14. View' = mem /\ Cur' = NULL /\ Flushing' = WIN /\ Done' = dn
      BY <1>2, <1>3, <1>9, <2>10, <2>16 DEF View, Cur, Flushing, Done
    <2>15. GhostInv(lev, pt, pi, rank, q)'
      BY <1>5, <2>10, <2>13, <2>14, <2>16 DEF GhostInv
    <2> QED
      BY <1>2, <2>10, <2>15, <2>16 DEF PageInv
  <1>10. CASE call.huge
    <2>1. dn = boot - 1 /\ dn \in 1 .. HUGES - 1 /\ dn \notin KeptHuges /\ va = huge_va(dn)
      BY <1>2, <1>3, <1>10 DEF Unmapping, Done
    <2>2. dn \in Left(dn)
      BY <2>1, LeftNext
    <2>3. PICK t : t = EARLY2(dn \div FAN) /\ t = HugeTab(dn)
      BY DEF HugeTab
    <2>4. /\ p = <<NULL, t, EARLY3, ROOT>> /\ mem[t][idx(va, 2)] = HugeWord(dn)
          /\ t \in Frames /\ lev[t] = 2 /\ lev[EARLY3] = 3 /\ lev[ROOT] = 4
          /\ On(lev, pt, pi, t, va) /\ On(lev, pt, pi, EARLY3, va) /\ On(lev, pt, pi, ROOT, va)
      <3>1. HugeWalked(mem, lev, pt, pi, HugeTab(dn), huge_va(dn), dn)
        BY <1>2, <1>6, <2>2, HugeWalk
      <3> QED
        BY <1>8, <2>1, <2>3, <3>1 DEF HugeWalked
    <2>5. /\ p[1] = NULL /\ p[2] = t
          /\ \A l \in 2 .. 4 : p[l] \in Frames /\ lev[p[l]] = l /\ On(lev, pt, pi, p[l], va)
      <3>1. p[1] = NULL /\ p[2] = t /\ p[3] = EARLY3 /\ p[4] = ROOT
        BY <2>4
      <3>2. \A l \in 2 .. 4 : l = 2 \/ l = 3 \/ l = 4
        OBVIOUS
      <3> QED
        BY <2>4, <3>1, <3>2, FrameFacts
    <2>6. \A l \in 2 .. 4 : p[l] # NULL /\ accessible(p[l]) /\ p[l] \in 0 .. DT1
      BY <1>7, <2>5, FrameFacts
    <2>7. HugeWord(dn).present /\ HugeWord(dn).pa = dn * FAN /\ dn * FAN \in 0 .. DT1
      <3>1. dn \in 0 .. HUGES - 1
        BY <2>1
      <3> QED
        BY <2>2, <3>1, HugeWordFacts, HugeFrames
    <2>8. Walked(p, 2)
      <3>1. call.huge = TRUE
        BY <1>2, <1>10 DEF CallType
      <3>2. mem[p[2]][idx(va, 2)].present
        BY <2>4, <2>5, <2>7
      <3> QED
        BY <1>3, <1>8, <2>5, <2>6, <3>1, <3>2, WalkHuge
    <2>18. tlb' = tlb /\ pc' = "unmap_leaf" /\ UNCHANGED <<mem, free_head, free_count, held, failed, boot>>
      BY <1>7, <2>8 DEF Walked
    <2>9. call' = WalkCall(call, 2, dn * FAN, Passed(p, 2))
      BY <1>3, <2>4, <2>5, <2>7, <2>8 DEF Walked
    <2>10. Passed(p, 2) \in [0 .. 4 -> 0 .. DT1] /\ \A l \in 2 .. 4 : Passed(p, 2)[l] = p[l]
      BY <2>6, FrameFacts DEF Passed, NULL
    <2>11. /\ call' \in CallType /\ call'.va = va /\ call'.lv = 2 /\ call'.pa = dn * FAN
           /\ call'.tab = Passed(p, 2) /\ call'.frame = call.frame /\ call'.huge = call.huge
           /\ call'.free = call.free
      <3>1. PICK tab \in Tabs, pa \in 0 .. DT1, lv \in 0 .. 4 :
              tab = Passed(p, 2) /\ pa = dn * FAN /\ lv = 2
        BY <2>7, <2>10 DEF Tabs
      <3>2. call' = WalkCall(call, lv, pa, tab) /\ call \in CallType /\ call.va = va
        BY <1>2, <1>3, <2>9, <3>1
      <3>3. /\ call' \in CallType /\ call'.va = va /\ call'.lv = lv /\ call'.pa = pa
            /\ call'.tab = tab /\ call'.frame = call.frame /\ call'.huge = call.huge
            /\ call'.free = call.free
        <4>1. AtBottom(WalkCall(call, lv, pa, tab), call, lv, pa, tab)
          BY <3>2, WalkCallFacts
        <4>2. AtBottom(call', call, lv, pa, tab)
          BY <3>2, <4>1, Zenon
        <4> QED
          BY <3>2, <4>2, Zenon DEF AtBottom
      <3> QED
        BY <3>1, <3>3
    <2>12. Unmapping'
      BY <1>2, <1>3, <1>10, <2>11, <2>18 DEF Unmapping
    <2>13. Way(lev, pt, pi)'
      BY <2>5, <2>10, <2>11 DEF Way
    <2>14. call'.tab[2] = t
      BY <2>5, <2>10, <2>11
    <2>15. PcOK(lev, pt, pi)'
      BY <1>10, <2>1, <2>3, <2>11, <2>12, <2>13, <2>14, <2>18 DEF PcOK
    <2>16. View' = mem /\ Cur' = NULL /\ Flushing' = WIN /\ Done' = dn
      BY <1>2, <1>10, <2>1, <2>11, <2>18 DEF View, Cur, Flushing, Done
    <2>17. GhostInv(lev, pt, pi, rank, q)'
      BY <1>5, <2>11, <2>15, <2>16, <2>18 DEF GhostInv
    <2> QED
      BY <1>2, <2>11, <2>17, <2>18 DEF PageInv
  <1> QED
    BY <1>9, <1>10

(* A frame without entries leaves the tree for the free list.              *)
Gone(lev, lev2, g) == lev2[g] = FREE /\ \A f \in Frames : f # g => lev2[f] = lev[f]

(* A page's entry is cleared, its frame already on the list.               *)
LEMMA Unlink ==
    ASSUME NEW m, NEW lev, NEW pt, NEW pi, NEW rank, NEW q, NEW head, NEW count, NEW hd, NEW dn,
           NEW fl, NEW cr, Shape(m, lev, pt, pi, rank, q, head, count, hd, NULL, dn, fl, cr),
           NEW g \in Frames \ Kernel, lev[g] \in 0 .. 3, cr \in {NULL, g}, lev[g] = 0 \/ Empty(m, g)
    PROVE  \E lev2, rank2, q2 :
              /\ Shape(Put(Put(m, g, 0, link(head)), pt[g], pi[g], Zero), lev2, pt, pi, rank2, q2,
                       g, count + 1, hd, NULL, dn, fl, pt[g])
              /\ Gone(lev, lev2, g)
  <1>1. /\ m \in Memory /\ Ghosts(lev, pt, pi, rank, q) /\ Tree(m, lev, pt, pi)
        /\ List(m, lev, rank, q, head, count)
    BY DEF Shape
  <1>2. lev[g] > 0 => \A i \in Idx : m[g][i] = Zero
    BY DEF Empty
  <1>3. Shape(Put(m, pt[g], pi[g], Zero), [lev EXCEPT ![g] = SPARE], pt, pi, rank, q,
              head, count, hd, g, dn, fl, pt[g])
    BY <1>2, Detach
  <1> DEFINE lev1 == [lev EXCEPT ![g] = SPARE]
             m1 == Put(m, pt[g], pi[g], Zero)
  <1> HIDE DEF lev1, m1
  <1>4. Shape(m1, lev1, pt, pi, rank, q, head, count, hd, g, dn, fl, pt[g])
    BY <1>3 DEF lev1, m1
  <1> DEFINE lev2 == [lev1 EXCEPT ![g] = FREE]
             rank2 == [rank EXCEPT ![g] = count + 1]
             q2 == [q EXCEPT ![count + 1] = g]
  <1>5. Shape(Put(m1, g, 0, link(head)), lev2, pt, pi, rank2, q2, g, count + 1, hd, NULL, dn, fl, pt[g])
    BY <1>4, ShapeGive
  <1>6. Gone(lev, lev2, g)
    BY <1>1 DEF Gone, Ghosts, lev1
  <1>7. pt[g] \in Frames /\ pi[g] \in Idx /\ lev[pt[g]] = lev[g] + 1 /\ pt[g] # g
    <2>1. pt[g] \in Frames /\ pi[g] \in Idx /\ lev[g] \in 0 .. 3
      BY <1>1 DEF Ghosts
    <2>2. lev[pt[g]] = lev[g] + 1
      BY <1>1, <2>1 DEF Tree, Up
    <2> QED
      BY <2>1, <2>2
  <1>8. head \in 0 .. DT1
    BY <1>1, ListHead, FrameFacts DEF NULL
  <1>9. link(head) \in Word /\ Zero \in Word /\ 0 \in Idx
    BY <1>8, WordFacts, ParamFacts
  <1>10. Put(m1, g, 0, link(head)) = Put(Put(m, g, 0, link(head)), pt[g], pi[g], Zero)
    BY <1>1, <1>7, <1>9, PutPut DEF m1
  <1> HIDE DEF lev2, rank2, q2
  <1>11. Shape(Put(Put(m, g, 0, link(head)), pt[g], pi[g], Zero), lev2, pt, pi, rank2, q2,
               g, count + 1, hd, NULL, dn, fl, pt[g])
    BY <1>5, <1>10
  <1> QED
    BY <1>6, <1>11

(* The window is never remembered, so any page may be excused.             *)
LEMMA RemembersAny ==
    ASSUME NEW t, NEW lev, NEW pt, NEW pi, NEW x, Remembers(t, lev, pt, pi, WIN)
    PROVE  Remembers(t, lev, pt, pi, x)
  BY ParamFacts DEF Remembers

(* The walks of the others stay.                                           *)
LEMMA OnGone ==
    ASSUME NEW lev, NEW pt, NEW pi, NEW lev2, NEW g, NEW f \in Frames, NEW va, f # g,
           Gone(lev, lev2, g), On(lev, pt, pi, f, va)
    PROVE  lev2[f] = lev[f] /\ On(lev2, pt, pi, f, va)
  BY DEF Gone, On

(* A frame that goes makes the TLB wrong about its own page alone.         *)
LEMMA RemembersGone ==
    ASSUME NEW t, NEW lev, NEW pt, NEW pi, NEW lev2, NEW g, NEW va \in VAs,
           Gone(lev, lev2, g), Remembers(t, lev, pt, pi, va) \/ Remembers(t, lev, pt, pi, WIN),
           lev[g] # 0 \/ On(lev, pt, pi, g, va)
    PROVE  Remembers(t, lev2, pt, pi, va)
  <1>1. Remembers(t, lev, pt, pi, va)
    BY RemembersAny
  <1>2. ASSUME NEW vb \in TlbPages, t[vb] # NULL
        PROVE  vb \in VAs /\ (vb = va \/ (lev2[t[vb]] = 0 /\ On(lev2, pt, pi, t[vb], vb)))
    <2>1. vb \in VAs /\ t[vb] \in Frames
      BY <1>1, <1>2 DEF Remembers
    <2>2. SUFFICES ASSUME vb # va PROVE lev2[t[vb]] = 0 /\ On(lev2, pt, pi, t[vb], vb)
      BY <2>1
    <2>3. lev[t[vb]] = 0 /\ On(lev, pt, pi, t[vb], vb)
      BY <1>1, <1>2, <2>2 DEF Remembers
    <2>4. t[vb] # g
      <3>1. ASSUME t[vb] = g PROVE FALSE
        <4>1. lev[g] = 0 /\ On(lev, pt, pi, g, vb) /\ On(lev, pt, pi, g, va)
          BY <2>3, <3>1
        <4> QED
          BY <2>1, <2>2, <4>1, OnePage
      <3> QED
        BY <3>1
    <2> QED
      BY <2>1, <2>3, <2>4, OnGone
  <1> QED
    BY <1>1, <1>2 DEF Remembers

(* The frames behind a huge page.                                          *)
LEMMA HugeTarget ==
    ASSUME NEW m \in Memory, NEW lev, NEW pt, NEW pi, NEW rank, NEW q, NEW dn, NEW p \in Left(dn),
           Ghosts(lev, pt, pi, rank, q), Tree(m, lev, pt, pi), EarlyTabs(m, lev, pt, pi, dn),
           NEW j \in Idx
    PROVE  TranslateIn(m, [huge_va(p) EXCEPT ![4] = j]) = HugeFrame(p, j)
  <1>1. PICK t, va : t = HugeTab(p) /\ va = huge_va(p)
    OBVIOUS
  <1>2. PathIn(m, va) = <<NULL, t, EARLY3, ROOT>> /\ m[t][idx(va, 2)] = HugeWord(p)
    <2>1. HugeWalked(m, lev, pt, pi, HugeTab(p), huge_va(p), p)
      BY HugeWalk
    <2> QED
      BY <1>1, <2>1 DEF HugeWalked
  <1>10. PICK vb : vb = [huge_va(p) EXCEPT ![4] = j]
    OBVIOUS
  <1>3. vb[1] = va[1] /\ vb[2] = va[2] /\ vb[3] = va[3] /\ vb[4] = j
    BY <1>1, <1>10 DEF huge_va
  <1>4. PathIn(m, vb) = PathIn(m, va)
    BY <1>3 DEF PathIn
  <1>5. idx(vb, 1) = j /\ idx(vb, 2) = idx(va, 2)
    BY <1>3, IdxFacts
  <1>6. PathIn(m, vb)[1] = NULL /\ PathIn(m, vb)[2] = t
    BY <1>2, <1>4
  <1>7. m[NULL][j] = Zero /\ ~Zero.present
    BY WordFacts DEF Tree, Down
  <1>8. HugeWord(p).present /\ HugeWord(p).huge /\ HugeWord(p).pa = p * FAN
    BY HugeWordFacts
  <1>9. TranslateIn(m, vb) = p * FAN + j
    BY <1>2, <1>5, <1>6, <1>7, <1>8 DEF TranslateIn
  <1> QED
    BY <1>9, <1>10 DEF HugeFrame


(* _unmap of a client page frees the frame through that page.              *)
LEMMA LeafClient ==
    ASSUME PageInv, unmap_leaf, ~call.huge
    PROVE  PageInv' /\ Pages(mem') = Pages(mem)
  <1>1. PICK lev, pt, pi, rank, q : GhostInv(lev, pt, pi, rank, q)
    BY DEF PageInv
  <1>2. /\ pc = "unmap_leaf" /\ Unmapping /\ Way(lev, pt, pi) /\ call.lv = 1 /\ call.pa \in Frames
        /\ lev[call.pa] = 0 /\ On(lev, pt, pi, call.pa, call.va)
        /\ call \in CallType /\ mem \in Memory
        /\ boot \in 1 .. HUGES + 1 /\ failed \in BOOLEAN /\ held \subseteq Frames
    BY <1>1 DEF unmap_leaf, GhostInv, PcOK, PageInv
  <1>3. PICK va, f, t, i : va = call.va /\ f = call.pa /\ t = call.tab[1] /\ i = idx(call.va, 1)
    OBVIOUS
  <1>4. /\ View = mem /\ Cur = NULL /\ Flushing = WIN /\ Done = boot /\ call.frame = NULL
        /\ va \in VAs /\ va \in High /\ va \in TlbPages /\ call.free /\ boot = HUGES + 1
    BY <1>2, <1>3, HighFacts DEF View, Cur, Flushing, Done, Unmapping, TlbPages
  <1>5. Shape(mem, lev, pt, pi, rank, q, free_head, free_count, held, NULL, boot, failed, NULL)
        /\ Remembers(tlb, lev, pt, pi, WIN)
    BY <1>1, <1>4 DEF GhostInv
  <1>6. Ghosts(lev, pt, pi, rank, q) /\ Tree(mem, lev, pt, pi)
        /\ List(mem, lev, rank, q, free_head, free_count)
    BY <1>5 DEF Shape
  <1>7. /\ f \in Frames /\ lev[f] = 0 /\ On(lev, pt, pi, f, va) /\ i = va[4]
        /\ t \in Frames /\ lev[t] = 1 /\ On(lev, pt, pi, t, va)
    BY <1>2, <1>3, IdxFacts DEF Way
  <1>8. Via(va) = f
    <2>1. tlb[va] # NULL => tlb[va] \in Frames /\ lev[tlb[va]] = 0 /\ On(lev, pt, pi, tlb[va], va)
      BY <1>4, <1>5, ParamFacts DEF Remembers
    <2>2. tlb[va] # NULL => tlb[va] = f
      <3>1. lev[f] \in 0 .. 4
        BY <1>7
      <3> QED
        BY <1>2, <1>6, <1>7, <2>1, <3>1, OnOne
    <2>3. Translate(va) = f
      BY <1>2, <1>4, <1>6, <1>7, WalkLeaf, PathIsIn
    <2> QED
      BY <2>2, <2>3 DEF Via
  <1>9. f # NULL /\ f \in Int /\ free_head \in 0 .. DT1 /\ link(free_head) \in Word /\ 0 \in Idx
        /\ Zero \in Word
    <2>1. free_head \in 0 .. DT1
      BY <1>2, <1>6, ListHead, FrameFacts DEF NULL
    <2> QED
      BY <1>7, <2>1, FrameFacts, WordFacts, ParamFacts
  <1>10. /\ mem' = Put(mem, f, 0, link(free_head)) /\ free_head' = f /\ free_count' = free_count + 1
         /\ pc' = "unmap_table" /\ UNCHANGED <<tlb, held, failed, boot, call>>
    <2> DEFINE mm == [g \in DOMAIN mem |->
                        IF \E j \in 0 .. 1 - 1 : g = f
                        THEN [mem[g] EXCEPT ![0] =
                                link(IF (CHOOSE j \in 0 .. 1 - 1 : g = f) = 0 THEN free_head
                                     ELSE f + (CHOOSE j \in 0 .. 1 - 1 : g = f) - 1)]
                        ELSE mem[g]]
    <2>1. call.huge = FALSE /\ call.free = TRUE
      BY <1>2, <1>4 DEF CallType
    <2>2. /\ mem' = mm /\ free_head' = f + 1 - 1 /\ free_count' = free_count + 1
          /\ pc' = "unmap_table" /\ UNCHANGED <<tlb, held, failed, boot, call>>
      BY <1>3, <1>7, <1>8, <2>1 DEF unmap_leaf
    <2>3. mm = Put(mem, f, 0, link(free_head))
      <3>1. 0 .. 1 - 1 = {0}
        OBVIOUS
      <3>2. \A g : g = f => (CHOOSE j \in 0 .. 1 - 1 : g = f) = 0
        BY <3>1
      <3>3. mm = [g \in DOMAIN mem |-> IF g = f THEN [mem[g] EXCEPT ![0] = link(free_head)] ELSE mem[g]]
        BY <3>1, <3>2
      <3> QED
        BY <1>2, <1>7, <3>3 DEF Put, Memory
    <2> HIDE DEF mm
    <2> QED
      BY <1>9, <2>2, <2>3
  <1>11. t = pt[f] /\ i = pi[f] /\ mem[t][i] = tab_entry(f) /\ f # t /\ f \notin Kernel
    <2>1. PathIn(mem, va)[1] = pt[f] /\ mem[pt[f]][va[4]] = tab_entry(f) /\ pi[f] = va[4]
      BY <1>2, <1>4, <1>6, <1>7, PageWalk
    <2>2. PathIn(mem, va)[1] = t
      BY <1>2, <1>4, <1>6, <1>7, WalkTables
    <2>3. f \notin Kernel
      BY <1>6, <1>7, FrameFacts DEF Tree, Frame0
    <2> QED
      BY <1>7, <2>1, <2>2, <2>3
  <1>12. PICK lev2, rank2, q2 :
           /\ Shape(Put(Put(mem, f, 0, link(free_head)), pt[f], pi[f], Zero), lev2, pt, pi, rank2, q2,
                    f, free_count + 1, held, NULL, boot, failed, pt[f])
           /\ Gone(lev, lev2, f)
    <2>1. f \in Frames \ Kernel /\ lev[f] \in 0 .. 3 /\ NULL \in {NULL, f} /\ (lev[f] = 0 \/ Empty(mem, f))
      BY <1>7, <1>11
    <2> QED
      BY <1>5, <2>1, Unlink
  <1>13. View' = Put(mem', t, i, Zero) /\ Cur' = t /\ Flushing' = va /\ Done' = boot
    BY <1>2, <1>3, <1>4, <1>10 DEF View, Cur, Flushing, Done
  <1>14. Shape(View', lev2, pt, pi, rank2, q2, f, free_count + 1, held, NULL, boot, failed, t)
    BY <1>10, <1>11, <1>12, <1>13
  <1>15. Remembers(tlb, lev2, pt, pi, va)
    BY <1>4, <1>5, <1>7, <1>12, RemembersGone
  <1>16. Way(lev2, pt, pi)'
    <2>1. ASSUME NEW l \in 1 .. 4
          PROVE  call.tab[l] \in Frames /\ lev2[call.tab[l]] = l /\ On(lev2, pt, pi, call.tab[l], va)
      <3>1. call.tab[l] \in Frames /\ lev[call.tab[l]] = l /\ On(lev, pt, pi, call.tab[l], va)
        BY <1>2, <1>3 DEF Way
      <3>2. call.tab[l] # f
        BY <1>7, <3>1
      <3> QED
        BY <1>12, <3>1, <3>2, OnGone
    <2> QED
      BY <1>2, <1>3, <1>10, <2>1 DEF Way
  <1>17. mem' \in Memory /\ mem'[t] = mem[t]
    BY <1>2, <1>7, <1>9, <1>10, <1>11, PutFacts
  <1>18. Stale'
    <2>1. mem'[call'.tab[call'.lv]][idx(call'.va, call'.lv)] = tab_entry(f) /\ ~(call'.lv > 1)
      <3>1. call'.tab[call'.lv] = t /\ idx(call'.va, call'.lv) = i /\ call'.lv = 1
        BY <1>2, <1>3, <1>10
      <3>2. mem'[t][i] = tab_entry(f)
        BY <1>11, <1>17
      <3> QED
        BY <3>1, <3>2
    <2> QED
      BY <1>7, <2>1 DEF Stale
  <1>19. PcOK(lev2, pt, pi)'
    <2>1. Unmapping'
      BY <1>2, <1>10 DEF Unmapping
    <2>2. call' = call /\ call.huge = FALSE /\ call.lv \in 1 .. 4
      BY <1>2, <1>10 DEF CallType
    <2> QED
      BY <1>10, <1>16, <1>18, <2>1, <2>2 DEF PcOK
  <1>20. GhostInv(lev2, pt, pi, rank2, q2)'
    BY <1>4, <1>10, <1>13, <1>14, <1>15, <1>19 DEF GhostInv
  <1>21. Pages(mem') = Pages(mem)
    <2>1. \A h \in Frames \cup {NULL} : h # f => mem'[h] = mem[h]
      BY <1>2, <1>7, <1>9, <1>10, PutFacts
    <2>2. SameTree(mem, mem', lev, lev)
      <3>1. f # NULL /\ lev[f] \notin 1 .. 4
        BY <1>7, FrameFacts DEF NULL
      <3>2. mem'[NULL] = mem[NULL]
        BY <2>1, <3>1
      <3>3. \A h \in Frames : lev[h] \in 1 .. 4 => mem'[h] = mem[h]
        BY <2>1, <3>1
      <3> QED
        BY <3>2, <3>3 DEF SameTree
    <2>3. lev \in [Frames -> -4 .. 4]
      BY <1>6 DEF Ghosts
    <2> QED
      BY <1>2, <1>6, <1>17, <2>2, <2>3, TreePages
  <1> QED
    BY <1>2, <1>10, <1>17, <1>20, <1>21 DEF PageInv

(* _unmap of a huge page frees its frames, or leaves them, as asked.       *)
LEMMA LeafHuge ==
    ASSUME PageInv, unmap_leaf, call.huge
    PROVE  PageInv' /\ Pages(mem') = Pages(mem)
  <1>1. PICK lev, pt, pi, rank, q : GhostInv(lev, pt, pi, rank, q)
    BY DEF PageInv
  <1>2. /\ pc = "unmap_leaf" /\ Unmapping /\ Way(lev, pt, pi) /\ call.lv = 2
        /\ call.pa = (boot - 1) * FAN /\ call.tab[2] = EARLY2((boot - 1) \div FAN)
        /\ call \in CallType /\ mem \in Memory
        /\ boot \in 1 .. HUGES + 1 /\ failed \in BOOLEAN /\ held \subseteq Frames
    BY <1>1 DEF unmap_leaf, GhostInv, PcOK, PageInv
  <1>3. PICK va, dn, t : va = call.va /\ dn = boot - 1 /\ t = call.tab[2]
    OBVIOUS
  <1>4. /\ View = mem /\ Cur = NULL /\ Flushing = WIN /\ Done = dn /\ call.frame = NULL
        /\ dn \in 1 .. HUGES - 1 /\ dn \notin KeptHuges /\ va = huge_va(dn)
        /\ call.free <=> dn \in FreedHuges
    BY <1>2, <1>3 DEF View, Cur, Flushing, Done, Unmapping
  <1>5. boot = dn + 1 /\ t = EARLY2(dn \div FAN) /\ call.pa = dn * FAN /\ call.huge = TRUE
        /\ call.free = (dn \in FreedHuges)
    BY <1>2, <1>3, <1>4 DEF CallType
  <1>6. Shape(mem, lev, pt, pi, rank, q, free_head, free_count, held, NULL, dn, failed, NULL)
        /\ Remembers(tlb, lev, pt, pi, WIN)
    BY <1>1, <1>4 DEF GhostInv
  <1>7. /\ Ghosts(lev, pt, pi, rank, q) /\ Tree(mem, lev, pt, pi) /\ EarlyTabs(mem, lev, pt, pi, dn)
        /\ List(mem, lev, rank, q, free_head, free_count)
    BY <1>6 DEF Shape
  <1>8. dn \in Left(dn)
    BY <1>4, LeftNext
  <1>9. /\ \A j \in Idx : Translate([va EXCEPT ![4] = j]) = HugeFrame(dn, j)
        /\ \A j \in Idx : HugeFrame(dn, j) \in Frames
    <2>1. \A j \in Idx : TranslateIn(mem, [huge_va(dn) EXCEPT ![4] = j]) = HugeFrame(dn, j)
      BY <1>2, <1>7, <1>8, HugeTarget
    <2>2. dn \in 0 .. HUGES - 1 /\ dn > 0
      BY <1>4
    <2>3. \A j \in Idx : HugeFrame(dn, j) \in Frames
      BY <2>2, HugeFrames, FrameFacts DEF HugeFrame
    <2> QED
      BY <1>4, <2>1, <2>3, PathIsIn
  <1>10. idx(va, 2) = dn % FAN
    BY <1>4, IdxFacts DEF huge_va
  <1>11. FAN \in Nat /\ FAN > 1 /\ Idx = 0 .. FAN - 1 /\ dn \in Nat /\ FAN - 1 \in Idx /\ 0 \in Idx
    BY <1>4, ParamFacts DEF Idx
  <1>12. pc' = "unmap_table" /\ UNCHANGED <<tlb, held, failed, boot, call>>
    BY <1>3, <1>5, <1>9, <1>11 DEF unmap_leaf
  <1>13. \E lev2, rank2, q2 :
           /\ lev2 \in [Frames -> -4 .. 4] /\ Stays(lev, pt, pi, lev2, pt, pi) /\ mem' \in Memory
           /\ Pages(mem') = Pages(mem)
           /\ Shape(Put(mem', t, dn % FAN, Zero), lev2, pt, pi, rank2, q2, free_head', free_count',
                    held, NULL, dn + 1, failed, t)
    <2>1. CASE dn \notin FreedHuges
      <3>1. UNCHANGED <<mem, free_head, free_count>>
        BY <1>5, <2>1 DEF unmap_leaf
      <3>2. Shape(Put(mem, t, dn % FAN, Zero), lev, pt, pi, rank, q, free_head, free_count,
                  held, NULL, dn + 1, failed, t)
        BY <1>4, <1>5, <1>6, <2>1, ShapeHugeKeep
      <3>3. Stays(lev, pt, pi, lev, pt, pi) /\ lev \in [Frames -> -4 .. 4]
        BY <1>7 DEF Stays, Ghosts
      <3> QED
        BY <1>2, <3>1, <3>2, <3>3
    <2>2. CASE dn \in FreedHuges
      <3> DEFINE n == IF call.huge THEN FAN ELSE 1
                 target(j) == IF call.huge THEN Translate([call.va EXCEPT ![4] = j]) ELSE Via(call.va)
                 J(g) == CHOOSE j \in 0 .. n - 1 : g = target(j)
      <3>16. n = FAN /\ \A j \in Idx : target(j) = HugeFrame(dn, j)
        BY <1>3, <1>5, <1>9
      <3>17. ~(call.free /\ \E j \in 0 .. n - 1 : target(j) \notin Frames) /\ call.free
        BY <1>5, <1>9, <1>11, <2>2, <3>16
      <3>1. /\ mem' = [g \in DOMAIN mem |->
                         IF \E j \in 0 .. n - 1 : g = target(j)
                         THEN [mem[g] EXCEPT ![0] =
                                 link(IF J(g) = 0 THEN free_head ELSE call.pa + J(g) - 1)]
                         ELSE mem[g]]
            /\ free_head' = call.pa + n - 1 /\ free_count' = free_count + n
        BY <3>17, Zenon DEF unmap_leaf
      <3> HIDE DEF n, target
      <3>2. \A j, k \in Idx : HugeFrame(dn, j) = HugeFrame(dn, k) => j = k
        BY <1>11 DEF HugeFrame
      <3>3. \A j \in Idx : J(HugeFrame(dn, j)) = j
        <4>1. ASSUME NEW j \in Idx PROVE J(HugeFrame(dn, j)) = j
          <5>1. \E k \in 0 .. n - 1 : HugeFrame(dn, j) = target(k)
            BY <1>11, <3>16
          <5>2. J(HugeFrame(dn, j)) \in 0 .. n - 1
                /\ HugeFrame(dn, j) = target(J(HugeFrame(dn, j)))
            BY <5>1
          <5> HIDE DEF J
          <5>3. HugeFrame(dn, j) = HugeFrame(dn, J(HugeFrame(dn, j))) /\ J(HugeFrame(dn, j)) \in Idx
            BY <1>11, <3>16, <5>2
          <5> QED
            BY <3>2, <5>3
        <4> QED
          BY <4>1
      <3> HIDE DEF J
      <3>4. \A g \in Frames \cup {NULL} : (\A j \in Idx : g # HugeFrame(dn, j)) => mem'[g] = mem[g]
        BY <1>2, <1>11, <3>1, <3>16 DEF Memory
      <3>5. \A j \in Idx : mem'[HugeFrame(dn, j)]
                 = [mem[HugeFrame(dn, j)] EXCEPT ![0] = link(IF j = 0 THEN free_head ELSE call.pa + j - 1)]
        BY <1>2, <1>9, <1>11, <3>1, <3>3, <3>16 DEF Memory
      <3>6. free_head \in 0 .. DT1
        BY <1>2, <1>7, ListHead, FrameFacts DEF NULL
      <3>7. \A j \in Idx : j > 0 => call.pa + j - 1 = HugeFrame(dn, j - 1) /\ j - 1 \in Idx
        <4>1. PICK b \in Nat : b = dn * FAN /\ call.pa = b
          BY <1>5, <1>11
        <4> QED
          BY <1>11, <4>1 DEF HugeFrame
      <3>8. \A j \in Idx : (IF j = 0 THEN free_head ELSE call.pa + j - 1) \in 0 .. DT1
        <4>1. \A j \in Idx : j > 0 => call.pa + j - 1 \in 0 .. DT1
          BY <1>9, <3>7, FrameFacts
        <4> QED
          BY <1>11, <3>6, <4>1
      <3>9. mem' \in Memory
        <4>1. ASSUME NEW g \in Frames \cup {NULL} PROVE mem'[g] \in [Idx -> Word]
          <5>1. CASE \A j \in Idx : g # HugeFrame(dn, j)
            BY <1>2, <3>4, <5>1 DEF Memory
          <5>2. CASE \E j \in Idx : g = HugeFrame(dn, j)
            <6>1. PICK j \in Idx : g = HugeFrame(dn, j)
              BY <5>2
            <6>2. PICK w \in Word : w = link(IF j = 0 THEN free_head ELSE call.pa + j - 1)
              BY <3>8, WordFacts
            <6>3. mem'[g] = [mem[g] EXCEPT ![0] = w]
              BY <3>5, <6>1, <6>2
            <6> QED
              BY <1>2, <1>11, <6>3 DEF Memory
          <5> QED
            BY <5>1, <5>2
        <4>2. mem' = [g \in Frames \cup {NULL} |-> mem'[g]]
          BY <1>2, <3>1 DEF Memory
        <4> QED
          BY <4>1, <4>2 DEF Memory
      <3>10. HugeLinks(mem, mem', dn, free_head)
        <4>1. mem'[HugeFrame(dn, 0)][0] = link(free_head)
          <5>1. mem'[HugeFrame(dn, 0)] = [mem[HugeFrame(dn, 0)] EXCEPT ![0] = link(free_head)]
            BY <1>11, <3>5
          <5>2. mem[HugeFrame(dn, 0)] \in [Idx -> Word]
            BY <1>2, <1>9, <1>11 DEF Memory
          <5> QED
            BY <1>11, <5>1, <5>2
        <4>2. ASSUME NEW j \in Idx, j > 0 PROVE mem'[HugeFrame(dn, j)][0] = link(HugeFrame(dn, j - 1))
          <5>1. mem'[HugeFrame(dn, j)] = [mem[HugeFrame(dn, j)] EXCEPT ![0] = link(call.pa + j - 1)]
            BY <1>11, <3>5, <4>2
          <5>2. mem[HugeFrame(dn, j)] \in [Idx -> Word]
            BY <1>2, <1>9 DEF Memory
          <5>3. call.pa + j - 1 = HugeFrame(dn, j - 1)
            BY <3>7, <4>2
          <5> QED
            BY <1>11, <5>1, <5>2, <5>3
        <4> QED
          BY <3>4, <4>1, <4>2 DEF HugeLinks
      <3>11. free_head' = HugeFrame(dn, FAN - 1)
        <4>1. PICK b \in Nat : b = dn * FAN /\ call.pa = b
          BY <1>5, <1>11
        <4> QED
          BY <1>11, <3>1, <3>16, <4>1 DEF HugeFrame
      <3>12. PICK mf \in Memory : mf = mem'
        BY <3>9
      <3>13. PICK lev2, rank2, q2 :
              /\ lev2 \in [Frames -> -4 .. 4] /\ SameTree(mem, mf, lev, lev2)
              /\ Shape(Put(mf, EARLY2(dn \div FAN), dn % FAN, Zero), lev2, pt, pi, rank2, q2,
                       HugeFrame(dn, FAN - 1), free_count + FAN, held, NULL, dn + 1, failed,
                       EARLY2(dn \div FAN))
        <4>1. HugeLinks(mem, mf, dn, free_head)
          BY <3>10, <3>12
        <4> QED
          BY <1>4, <1>6, <2>2, <4>1, ShapeHugeFree
      <3>14. Stays(lev, pt, pi, lev2, pt, pi)
        BY <1>7, <3>13, SameStays
      <3>15. Shape(Put(mem', t, dn % FAN, Zero), lev2, pt, pi, rank2, q2, free_head', free_count',
                   held, NULL, dn + 1, failed, t)
        BY <1>5, <3>1, <3>11, <3>12, <3>13, <3>16
      <3>18. Pages(mf) = Pages(mem)
        BY <1>2, <1>7, <3>12, <3>13, TreePages
      <3> QED
        BY <3>9, <3>12, <3>13, <3>14, <3>15, <3>18
    <2> QED
      BY <2>1, <2>2
  <1>14. PICK lev2, rank2, q2 :
           /\ lev2 \in [Frames -> -4 .. 4] /\ Stays(lev, pt, pi, lev2, pt, pi) /\ mem' \in Memory
           /\ Pages(mem') = Pages(mem)
           /\ Shape(Put(mem', t, dn % FAN, Zero), lev2, pt, pi, rank2, q2, free_head', free_count',
                    held, NULL, dn + 1, failed, t)
    BY <1>13
  <1>15. View' = Put(mem', t, dn % FAN, Zero) /\ Cur' = t /\ Flushing' = va /\ Done' = dn + 1
    BY <1>2, <1>3, <1>5, <1>10, <1>12 DEF View, Cur, Flushing, Done
  <1>16. Remembers(tlb, lev2, pt, pi, va)
    BY <1>6, <1>14, RemembersStays, RemembersAny
  <1>17. Way(lev2, pt, pi)'
    <2>1. ASSUME NEW l \in 2 .. 4
          PROVE  call.tab[l] \in Frames /\ lev2[call.tab[l]] = l /\ On(lev2, pt, pi, call.tab[l], call.va)
      <3>1. call.tab[l] \in Frames /\ lev[call.tab[l]] = l /\ On(lev, pt, pi, call.tab[l], call.va)
            /\ lev[call.tab[l]] \in 0 .. 4
        BY <1>2 DEF Way
      <3> QED
        BY <1>14, <3>1 DEF Stays
    <2> QED
      BY <1>2, <1>12, <2>1 DEF Way
  <1>18. PcOK(lev2, pt, pi)'
    <2>1. Unmapping'
      BY <1>2, <1>12 DEF Unmapping
    <2>2. call' = call /\ call.huge /\ call.lv \in 1 .. 4 /\ call.lv \in 2 .. 3
      BY <1>2, <1>12
    <2> QED
      BY <1>12, <1>17, <2>1, <2>2 DEF PcOK
  <1>19. GhostInv(lev2, pt, pi, rank2, q2)'
    BY <1>4, <1>12, <1>14, <1>15, <1>16, <1>18 DEF GhostInv
  <1> QED
    BY <1>2, <1>12, <1>14, <1>19 DEF PageInv

(* The index of the entry that is cleared, on the way to a huge page.      *)
LEMMA HugeIndex ==
    ASSUME NEW p \in 0 .. HUGES - 1
    PROVE  /\ idx(huge_va(p), 2) \in Idx /\ idx(huge_va(p), 3) \in Idx
           /\ idx(huge_va(p), 4) \in Idx
           /\ idx(huge_va(p), 2) = huge_va(p)[3] /\ idx(huge_va(p), 3) = huge_va(p)[2]
           /\ idx(huge_va(p), 4) = huge_va(p)[1]
  <1>1. idx(huge_va(p), 2) = p % FAN /\ idx(huge_va(p), 3) = p \div FAN /\ idx(huge_va(p), 4) = 0
        /\ idx(huge_va(p), 2) = huge_va(p)[3] /\ idx(huge_va(p), 3) = huge_va(p)[2]
        /\ idx(huge_va(p), 4) = huge_va(p)[1]
    BY IdxFacts DEF huge_va
  <1> QED
    BY <1>1, HugeTable, ParamFacts

(* The kernel's tables above the lowest level always map something.        *)
LEMMA KernelFull ==
    ASSUME NEW m \in Memory, NEW lev, NEW pt, NEW pi, NEW rank, NEW q, NEW dn,
           Ghosts(lev, pt, pi, rank, q), Tree(m, lev, pt, pi), EarlyTabs(m, lev, pt, pi, dn),
           NEW t \in Kernel, Empty(m, t)
    PROVE  t = DT1
  <1>1. /\ m[ROOT][FAN - 1] = tab_entry(DT3) /\ m[DT3][0] = tab_entry(DT2)
        /\ m[DT2][0] = tab_entry(DT1)
    BY WindowWay
  <1>2. \A f \in Frames : tab_entry(f) # Zero
    <2>1. \A f \in Frames : tab_entry(f).present /\ ~Zero.present
      BY WordFacts, FrameFacts
    <2> QED
      BY <2>1
  <1>3. 0 \in Left(dn)
    BY ParamFacts DEF Left
  <1>4. HugeWalked(m, lev, pt, pi, HugeTab(0), huge_va(0), 0)
    BY <1>3, HugeWalk
  <1>5. m[EARLY3][pi[HugeTab(0)]] = tab_entry(HugeTab(0)) /\ HugeTab(0) \in Frames
    <2>1. HugeTab(0) \in Frames /\ lev[HugeTab(0)] = 2 /\ pt[HugeTab(0)] = EARLY3
      BY <1>3, <1>4 DEF HugeWalked, EarlyTabs, HugeTab
    <2>2. lev[HugeTab(0)] \in 0 .. 3
      BY <2>1
    <2> QED
      BY <2>1, <2>2 DEF Tree, Up
  <1>6. pi[HugeTab(0)] \in Idx
    BY <1>5 DEF Ghosts
  <1>7. FAN - 1 \in Idx /\ 0 \in Idx
    BY ParamFacts
  <1>8. t \notin {ROOT, DT3, DT2, EARLY3}
    BY <1>1, <1>2, <1>5, <1>6, <1>7, FrameFacts DEF Empty
  <1> QED
    BY <1>8, FrameFacts

(* The locals behind one turn of the way up.                               *)
UpCall(c) == [c EXCEPT !.lv = c.lv + 1]
LEMMA UpCallFacts ==
    ASSUME NEW c \in CallType, c.lv \in 1 .. 4
    PROVE  /\ UpCall(c) \in CallType /\ UpCall(c).va = c.va /\ UpCall(c).lv = c.lv + 1
           /\ UpCall(c).tab = c.tab /\ UpCall(c).frame = c.frame
           /\ UpCall(c).huge = c.huge /\ UpCall(c).free = c.free
  <1>1. PICK n \in 0 .. 5 : n = c.lv + 1
    OBVIOUS
  <1>2. UpCall(c) = [c EXCEPT !.lv = n]
    BY <1>1 DEF UpCall
  <1> QED
    BY <1>1, <1>2 DEF CallType

(* Words without the present bit are all the same to a walk.               *)
Alike(m, m2) ==
    \A h \in Frames \cup {NULL} : \A j \in Idx :
        m2[h][j] = m[h][j] \/ (~m[h][j].present /\ ~m2[h][j].present)

(* Memories that agree on the words walks read have the same               *)
(* translations.                                                           *)
LEMMA AlikePages ==
    ASSUME NEW m \in Memory, NEW m2 \in Memory, Alike(m, m2)
    PROVE  Pages(m2) = Pages(m)
  <1>1. \A h \in Frames \cup {NULL} : \A j \in Idx : m[h][j] \in Word /\ m2[h][j] \in Word
    BY DEF Memory
  <1>2. \A w \in Word : Leads[w] \in Frames \cup {NULL} /\ (~w.present => Leads[w] = NULL)
    BY DEF Leads
  <1>3. \A h \in Frames \cup {NULL} : \A j \in Idx :
           Leads[m2[h][j]] = Leads[m[h][j]] /\ Leads[m[h][j]] \in Frames \cup {NULL}
    BY <1>1, <1>2 DEF Alike
  <1>4. ASSUME NEW va \in VAs PROVE TranslateIn(m2, va) = TranslateIn(m, va)
    <2>1. va[1] \in Idx /\ va[2] \in Idx /\ va[3] \in Idx /\ va[4] \in Idx
      BY HighFacts
    <2>9. ROOT \in Frames \cup {NULL}
      BY FrameFacts
    <2>2. PICK t3 \in Frames \cup {NULL} : t3 = Leads[m[ROOT][va[1]]] /\ t3 = Leads[m2[ROOT][va[1]]]
      BY <1>3, <2>1, <2>9
    <2>3. PICK t2 \in Frames \cup {NULL} : t2 = Leads[m[t3][va[2]]] /\ t2 = Leads[m2[t3][va[2]]]
      BY <1>3, <2>1
    <2>4. PICK t1 \in Frames \cup {NULL} : t1 = Leads[m[t2][va[3]]] /\ t1 = Leads[m2[t2][va[3]]]
      BY <1>3, <2>1
    <2>5. PathIn(m, va) = <<t1, t2, t3, ROOT>> /\ PathIn(m2, va) = <<t1, t2, t3, ROOT>>
      BY <2>2, <2>3, <2>4 DEF PathIn
    <2>6. TranslateIn(m, va) = IF m[t1][va[4]].present THEN m[t1][va[4]].pa
                               ELSE IF m[t2][va[3]].present /\ m[t2][va[3]].huge THEN m[t2][va[3]].pa + va[4]
                               ELSE NULL
      BY <2>5, IdxFacts DEF TranslateIn
    <2>7. TranslateIn(m2, va) = IF m2[t1][va[4]].present THEN m2[t1][va[4]].pa
                               ELSE IF m2[t2][va[3]].present /\ m2[t2][va[3]].huge THEN m2[t2][va[3]].pa + va[4]
                               ELSE NULL
      BY <2>5, IdxFacts DEF TranslateIn
    <2>8. /\ m2[t1][va[4]] = m[t1][va[4]] \/ (~m[t1][va[4]].present /\ ~m2[t1][va[4]].present)
          /\ m2[t2][va[3]] = m[t2][va[3]] \/ (~m[t2][va[3]].present /\ ~m2[t2][va[3]].present)
      BY <2>1 DEF Alike
    <2> QED
      BY <2>6, <2>7, <2>8
  <1> QED
    BY <1>4 DEF Pages

(* What a walk makes of a memory, by the words it reads.                   *)
Found(m, t1, t2, va) ==
    IF m[t1][va[4]].present THEN m[t1][va[4]].pa
    ELSE IF m[t2][va[3]].present /\ m[t2][va[3]].huge THEN m[t2][va[3]].pa + va[4]
    ELSE NULL
LEMMA PathFound ==
    ASSUME NEW m, NEW va, NEW t1, NEW t2, NEW t3, PathIn(m, va) = <<t1, t2, t3, ROOT>>
    PROVE  TranslateIn(m, va) = Found(m, t1, t2, va)
  <1>1. PathIn(m, va)[1] = t1 /\ PathIn(m, va)[2] = t2
    OBVIOUS
  <1>2. idx(va, 1) = va[4] /\ idx(va, 2) = va[3]
    BY IdxFacts
  <1> QED
    BY <1>1, <1>2, Zenon DEF TranslateIn, Found

LEMMA WalkWords ==
    ASSUME NEW m, NEW va, NEW t1, NEW t2, NEW t3,
           t3 = Leads[m[ROOT][va[1]]], t2 = Leads[m[t3][va[2]]], t1 = Leads[m[t2][va[3]]]
    PROVE  TranslateIn(m, va) = Found(m, t1, t2, va)
  <1>1. PathIn(m, va) = <<t1, t2, t3, ROOT>>
    BY Zenon DEF PathIn
  <1> QED
    BY <1>1, PathFound, Zenon

(* One word is written back into a tree.  It changes no walk that does not *)
(* read it; an entry that leads to a frame without entries changes none;   *)
(* an entry of the lowest level gives its page a frame.                    *)
Reads(lev, pt, pi, t, i, va) ==
    /\ On(lev, pt, pi, t, va)
    /\ \/ lev[t] = 4 /\ i = va[1]
       \/ lev[t] = 3 /\ i = va[2]
       \/ lev[t] = 2 /\ i = va[3]
       \/ lev[t] = 1 /\ i = va[4]

(* The stale entry belongs to one page: no other walk reads it.            *)
LEMMA WrittenBack ==
    ASSUME NEW v \in Memory, NEW m \in Memory, NEW lev, NEW pt, NEW pi, NEW rank, NEW q,
           Ghosts(lev, pt, pi, rank, q), Tree(v, lev, pt, pi),
           NEW t \in Frames, NEW i \in Idx, lev[t] \in 1 .. 4, v = Put(m, t, i, Zero), NEW va \in VAs
    PROVE  /\ ~Reads(lev, pt, pi, t, i, va) => TranslateIn(m, va) = TranslateIn(v, va)
           /\ \A g \in Frames :
                 /\ Reads(lev, pt, pi, t, i, va) /\ m[t][i] = tab_entry(g)
                 /\ lev[t] > 1 => \A j \in Idx : ~m[g][j].present
                 => /\ TranslateIn(v, va) = NULL
                    /\ TranslateIn(m, va) = IF lev[t] = 1 THEN g ELSE NULL
  <1>1. va \in High
    BY HighFacts
  <1>2. va[1] \in Idx /\ va[2] \in Idx /\ va[3] \in Idx /\ va[4] \in Idx
    BY <1>1, HighFacts
  <1>3. Zero \in Word /\ ~Zero.present /\ Leads[Zero] = NULL
    BY WordFacts
  <1>4. \A h \in Frames \cup {NULL} : \A j \in Idx : v[h][j] = IF h = t /\ j = i THEN Zero ELSE m[h][j]
    BY <1>3, PutAt
  <1>5. \A j \in Idx : v[NULL][j] = Zero /\ m[NULL][j] = Zero
    BY <1>4, FrameFacts DEF Tree, Down
  <1>6. lev[ROOT] = 4 /\ ROOT \in Frames /\ NULL \notin Frames /\ On(lev, pt, pi, ROOT, va)
        /\ (lev[t] = 4 => t = ROOT)
    BY FrameFacts DEF Tree, Frame0, On
  <1>7. \A w \in Word : Leads[w] \in Frames \cup {NULL} /\ (~w.present => Leads[w] = NULL)
    BY DEF Leads
  <1>8. \A h \in Frames \cup {NULL} : \A j \in Idx : m[h][j] \in Word /\ v[h][j] \in Word
    BY DEF Memory
  <1>17. PICK p3 \in Frames \cup {NULL} : p3 = Leads[v[ROOT][va[1]]]
    BY <1>2, <1>6, <1>7, <1>8
  <1>9. PICK p2 \in Frames \cup {NULL} : p2 = Leads[v[p3][va[2]]]
    BY <1>2, <1>7, <1>8
  <1>10. PICK p1 \in Frames \cup {NULL} : p1 = Leads[v[p2][va[3]]]
    BY <1>2, <1>7, <1>8
  <1>11. PathIn(v, va)[1] = p1 /\ PathIn(v, va)[2] = p2 /\ PathIn(v, va)[3] = p3
    <2>1. PathIn(v, va) = <<p1, p2, p3, ROOT>>
      BY <1>9, <1>10, <1>17, Zenon DEF PathIn
    <2> QED
      BY <2>1
  <1>12. /\ p1 # NULL => p1 \in Frames /\ lev[p1] = 1 /\ On(lev, pt, pi, p1, va)
         /\ p2 # NULL => p2 \in Frames /\ lev[p2] = 2 /\ On(lev, pt, pi, p2, va)
         /\ p3 # NULL => p3 \in Frames /\ lev[p3] = 3 /\ On(lev, pt, pi, p3, va)
         /\ (lev[t] = 1 /\ On(lev, pt, pi, t, va) => p1 = t)
         /\ (lev[t] = 2 /\ On(lev, pt, pi, t, va) => p2 = t)
         /\ (lev[t] = 3 /\ On(lev, pt, pi, t, va) => p3 = t)
    BY <1>1, <1>11, WalkTables
  <1>14. TranslateIn(v, va) = IF v[p1][va[4]].present THEN v[p1][va[4]].pa
                              ELSE IF v[p2][va[3]].present /\ v[p2][va[3]].huge
                              THEN v[p2][va[3]].pa + va[4] ELSE NULL
    <2>1. TranslateIn(v, va) = Found(v, p1, p2, va)
      BY <1>9, <1>10, <1>17, WalkWords, Zenon
    <2> QED
      BY <2>1 DEF Found
  <1>13. p2 = NULL /\ p1 = NULL => TranslateIn(v, va) = NULL
    BY <1>2, <1>3, <1>5, <1>14
  <1>19. /\ Leads[v[NULL][va[2]]] = NULL /\ Leads[v[NULL][va[3]]] = NULL
    BY <1>2, <1>3, <1>5, Zenon
  <1>20. p2 = NULL => p1 = NULL
    BY <1>10, <1>19, Zenon
  <1>18. p3 = NULL => p2 = NULL /\ p1 = NULL
    BY <1>9, <1>19, <1>20, Zenon
  <1>15. ASSUME ~Reads(lev, pt, pi, t, i, va) PROVE TranslateIn(m, va) = TranslateIn(v, va)
    <2>0. ~(ROOT = t /\ va[1] = i)
      BY <1>6, <1>15 DEF Reads
    <2>1. ~(p3 = t /\ va[2] = i)
      BY <1>6, <1>12, <1>15 DEF Reads
    <2>2. ~(p2 = t /\ va[3] = i)
      BY <1>6, <1>12, <1>15 DEF Reads
    <2>3. ~(p1 = t /\ va[4] = i)
      BY <1>6, <1>12, <1>15 DEF Reads
    <2>4. /\ m[ROOT][va[1]] = v[ROOT][va[1]] /\ m[p3][va[2]] = v[p3][va[2]]
          /\ m[p2][va[3]] = v[p2][va[3]] /\ m[p1][va[4]] = v[p1][va[4]]
      BY <1>2, <1>4, <1>6, <2>0, <2>1, <2>2, <2>3
    <2>5. TranslateIn(m, va) = IF m[p1][va[4]].present THEN m[p1][va[4]].pa
                               ELSE IF m[p2][va[3]].present /\ m[p2][va[3]].huge
                               THEN m[p2][va[3]].pa + va[4] ELSE NULL
      <3>1. TranslateIn(m, va) = Found(m, p1, p2, va)
        BY <1>9, <1>10, <1>17, <2>4, WalkWords, Zenon
      <3> QED
        BY <3>1 DEF Found
    <2> QED
      BY <1>14, <2>4, <2>5
  <1>16. ASSUME NEW g \in Frames, Reads(lev, pt, pi, t, i, va), m[t][i] = tab_entry(g),
                lev[t] > 1 => \A j \in Idx : ~m[g][j].present
         PROVE  /\ TranslateIn(v, va) = NULL
                /\ TranslateIn(m, va) = IF lev[t] = 1 THEN g ELSE NULL
    <2>1. v[t][i] = Zero /\ Leads[tab_entry(g)] = g /\ tab_entry(g).present /\ ~tab_entry(g).huge
          /\ tab_entry(g).pa = g
      BY <1>4, <1>16, WordFacts, FrameFacts
    <2>5. CASE lev[t] = 4
      <3>1. t = ROOT /\ i = va[1]
        BY <1>6, <1>16, <2>5 DEF Reads
      <3>2. p3 = NULL
        BY <1>3, <1>17, <2>1, <3>1
      <3>3. TranslateIn(v, va) = NULL
        BY <1>13, <1>18, <3>2
      <3>6. \A j \in Idx : ~m[g][j].present
        BY <1>16, <2>5
      <3>4. Leads[m[ROOT][va[1]]] = g /\ Leads[m[g][va[2]]] = NULL
        BY <1>2, <1>7, <1>8, <1>16, <2>1, <3>1, <3>6
      <3>7. m[NULL][va[3]] = Zero /\ m[NULL][va[4]] = Zero /\ Leads[m[NULL][va[3]]] = NULL
        BY <1>2, <1>3, <1>5
      <3>5. TranslateIn(m, va) = IF m[NULL][va[4]].present THEN m[NULL][va[4]].pa
                                ELSE IF m[NULL][va[3]].present /\ m[NULL][va[3]].huge
                                THEN m[NULL][va[3]].pa + va[4] ELSE NULL
        <4>1. TranslateIn(m, va) = Found(m, NULL, NULL, va)
          BY <3>4, <3>7, WalkWords, Zenon
        <4> QED
          BY <4>1 DEF Found
      <3> QED
        BY <1>3, <2>5, <3>3, <3>5, <3>7
    <2>2. CASE lev[t] = 3
      <3>1. t = p3 /\ i = va[2]
        BY <1>12, <1>16, <2>2 DEF Reads
      <3>2. p2 = NULL /\ p1 = NULL
        <4>1. p2 = NULL
          BY <1>3, <1>9, <2>1, <3>1, Zenon
        <4> QED
          BY <1>20, <4>1
      <3>3. TranslateIn(v, va) = NULL
        BY <1>13, <3>2
      <3>6. \A j \in Idx : ~m[g][j].present
        BY <1>16, <2>2
      <3>7. m[ROOT][va[1]] = v[ROOT][va[1]]
        BY <1>2, <1>4, <1>6, <2>2
      <3>4. /\ Leads[m[ROOT][va[1]]] = t /\ Leads[m[t][va[2]]] = g /\ ~m[g][va[3]].present
            /\ Leads[m[g][va[3]]] = NULL
        BY <1>2, <1>7, <1>8, <1>16, <1>17, <2>1, <3>1, <3>6, <3>7
      <3>5. TranslateIn(m, va) = IF m[NULL][va[4]].present THEN m[NULL][va[4]].pa
                                ELSE IF m[g][va[3]].present /\ m[g][va[3]].huge
                                THEN m[g][va[3]].pa + va[4] ELSE NULL
        <4>1. TranslateIn(m, va) = Found(m, NULL, g, va)
          BY <3>4, WalkWords, Zenon
        <4> QED
          BY <4>1 DEF Found
      <3> QED
        BY <1>2, <1>3, <1>5, <2>2, <3>3, <3>4, <3>5
    <2>3. CASE lev[t] = 2
      <3>1. p2 = t /\ i = va[3]
        BY <1>12, <1>16, <2>3 DEF Reads
      <3>2. p1 = NULL /\ v[p2][va[3]] = Zero
        BY <1>3, <1>10, <2>1, <3>1
      <3>3. TranslateIn(v, va) = NULL
        BY <1>2, <1>3, <1>5, <1>14, <3>2
      <3>11. p3 # NULL
        BY <1>6, <1>18, <3>1
      <3>4. m[ROOT][va[1]] = v[ROOT][va[1]] /\ m[p3][va[2]] = v[p3][va[2]]
        BY <1>2, <1>4, <1>6, <1>12, <2>3, <3>11
      <3>8. Leads[m[ROOT][va[1]]] = p3 /\ Leads[m[p3][va[2]]] = t
        BY <1>9, <1>17, <3>1, <3>4
      <3>9. Leads[m[t][va[3]]] = g
        BY <1>16, <2>1, <3>1
      <3>10. ~m[g][va[4]].present
        <4>1. \A j \in Idx : ~m[g][j].present
          BY <1>16, <2>3
        <4> QED
          BY <1>2, <4>1
      <3>6. TranslateIn(m, va) = IF m[g][va[4]].present THEN m[g][va[4]].pa
                                ELSE IF m[t][va[3]].present /\ m[t][va[3]].huge
                                THEN m[t][va[3]].pa + va[4] ELSE NULL
        <4>1. TranslateIn(m, va) = Found(m, g, t, va)
          BY <3>8, <3>9, WalkWords, Zenon
        <4> QED
          BY <4>1 DEF Found
      <3>7. ~m[t][va[3]].huge
        BY <1>16, <2>1, <3>1
      <3> QED
        BY <2>3, <3>3, <3>6, <3>7, <3>10
    <2>4. CASE lev[t] = 1
      <3>1. p1 = t /\ i = va[4]
        BY <1>12, <1>16, <2>4 DEF Reads
      <3>2. p1 # NULL /\ p2 # NULL /\ p3 # NULL
        <4>1. p1 # NULL
          BY <1>6, <3>1
        <4> QED
          BY <1>2, <1>3, <1>5, <1>10, <1>18, <4>1
      <3>3. ~(v[p2][va[3]].present /\ v[p2][va[3]].huge)
        BY <1>2, <1>8, <1>10, <3>2 DEF Leads
      <3>4. TranslateIn(v, va) = NULL
        BY <1>3, <1>14, <2>1, <3>1, <3>3
      <3>5. lev[p2] = 2 /\ lev[p3] = 3
        BY <1>12, <3>2
      <3>6. /\ m[ROOT][va[1]] = v[ROOT][va[1]] /\ m[p3][va[2]] = v[p3][va[2]]
            /\ m[p2][va[3]] = v[p2][va[3]]
        BY <1>2, <1>4, <1>6, <2>4, <3>5
      <3>7. TranslateIn(m, va) = IF m[p1][va[4]].present THEN m[p1][va[4]].pa
                                ELSE IF m[p2][va[3]].present /\ m[p2][va[3]].huge
                                THEN m[p2][va[3]].pa + va[4] ELSE NULL
        <4>1. TranslateIn(m, va) = Found(m, p1, p2, va)
          BY <1>9, <1>10, <1>17, <3>6, WalkWords, Zenon
        <4> QED
          BY <4>1 DEF Found
      <3> QED
        BY <1>16, <2>1, <2>4, <3>1, <3>4, <3>7
    <2> QED
      BY <2>2, <2>3, <2>4, <2>5
  <1> QED
    BY <1>15, <1>16

(* The stale entry of unmap_table: only in its first turn does the client  *)
(* page still have its frame.                                              *)
LEMMA StalePages ==
    ASSUME NEW lev, NEW pt, NEW pi, NEW rank, NEW q, mem \in Memory, call \in CallType,
           GhostInv(lev, pt, pi, rank, q), pc = "unmap_table"
    PROVE  Pages(View) = IF ~call.huge /\ call.lv = 1 THEN [Pages(mem) EXCEPT ![call.va] = NULL]
                         ELSE Pages(mem)
  <1>1. /\ Unmapping /\ Way(lev, pt, pi) /\ call.lv \in 1 .. 4
        /\ IF call.huge THEN call.lv \in 2 .. 3 ELSE Stale
    BY DEF GhostInv, PcOK
  <1>2. PICK va, t, i, v, lv : /\ va = call.va /\ t = call.tab[call.lv] /\ i = idx(call.va, call.lv)
                               /\ v = View /\ lv = call.lv
    OBVIOUS
  <1>3. /\ v = Put(mem, t, i, Zero) /\ t \in Frames /\ lev[t] = lv /\ lv \in 1 .. 4
        /\ On(lev, pt, pi, t, va)
    BY <1>1, <1>2 DEF View, Way
  <1>4. v \in Memory /\ Ghosts(lev, pt, pi, rank, q) /\ Tree(v, lev, pt, pi)
    BY <1>2 DEF GhostInv, Shape
  <1>5. CASE call.huge
    <2>1. PICK p \in 0 .. HUGES - 1 : va = huge_va(p)
      BY <1>1, <1>2, <1>5 DEF Unmapping
    <2>2. lv = 2 \/ lv = 3
      BY <1>1, <1>2, <1>5
    <2>3. i \in Idx /\ va[1] = 0
      BY <1>2, <2>1, <2>2, HugeIndex DEF huge_va
    <2>4. ASSUME NEW vb \in VAs PROVE TranslateIn(v, vb) = TranslateIn(mem, vb)
      <3>1. vb[1] # 0
        BY HighFacts
      <3>2. ~On(lev, pt, pi, t, vb)
        <4>3. PICK a, b : a = va[1] /\ b = vb[1] /\ a # b
          BY <2>3, <3>1
        <4>1. CASE lev[t] = 2
          <5>1. pi[pt[t]] = va[1]
            BY <1>3, <4>1 DEF On
          <5> QED
            BY <4>1, <4>3, <5>1 DEF On
        <4>2. CASE lev[t] = 3
          <5>1. pi[t] = va[1]
            BY <1>3, <4>2 DEF On
          <5> QED
            BY <4>2, <4>3, <5>1 DEF On
        <4> QED
          BY <1>3, <2>2, <4>1, <4>2
      <3>3. ~Reads(lev, pt, pi, t, i, vb)
        BY <3>2 DEF Reads
      <3> QED
        BY <1>3, <1>4, <2>3, <3>3, WrittenBack
    <2> QED
      BY <1>2, <1>5, <2>4 DEF Pages
  <1>6. CASE ~call.huge
    <2>1. va \in VAs /\ va \in High /\ lv \in 1 .. 4
      BY <1>1, <1>2, <1>3, <1>6, HighFacts DEF Unmapping
    <2>2. /\ i \in Idx
          /\ \/ lv = 4 /\ i = va[1]
             \/ lv = 3 /\ i = va[2]
             \/ lv = 2 /\ i = va[3]
             \/ lv = 1 /\ i = va[4]
      BY <1>2, <1>3, <2>1, WayIndex
    <2>3. PICK g \in Frames : mem[t][i] = tab_entry(g) /\ (lv > 1 => \A j \in Idx : ~mem[g][j].present)
      BY <1>1, <1>2, <1>6 DEF Stale
    <2>4. \A vb \in VAs : Reads(lev, pt, pi, t, i, vb) =>
             TranslateIn(v, vb) = NULL /\ TranslateIn(mem, vb) = IF lv = 1 THEN g ELSE NULL
      BY <1>3, <1>4, <2>2, <2>3, WrittenBack
    <2>5. \A vb \in VAs : ~Reads(lev, pt, pi, t, i, vb) => TranslateIn(mem, vb) = TranslateIn(v, vb)
      BY <1>3, <1>4, <2>2, WrittenBack
    <2>6. CASE lv = 1
      <3>1. Reads(lev, pt, pi, t, i, va)
        BY <1>3, <2>2, <2>6 DEF Reads
      <3>2. ASSUME NEW vb \in VAs, Reads(lev, pt, pi, t, i, vb) PROVE vb = va
        <4>1. vb = <<vb[1], vb[2], vb[3], vb[4]>> /\ va = <<va[1], va[2], va[3], va[4]>>
          BY <2>1, HighFacts
        <4>2. vb[1] = va[1] /\ vb[2] = va[2] /\ vb[3] = va[3] /\ vb[4] = va[4]
          BY <1>3, <2>2, <2>6, <3>2 DEF Reads, On
        <4> QED
          BY <4>1, <4>2
      <3>3. TranslateIn(v, va) = NULL /\ \A vb \in VAs : vb # va => TranslateIn(v, vb) = TranslateIn(mem, vb)
        BY <2>1, <2>4, <2>5, <3>1, <3>2
      <3> QED
        BY <1>2, <1>6, <2>1, <2>6, <3>3 DEF Pages
    <2>7. CASE lv # 1
      <3>1. \A vb \in VAs : TranslateIn(v, vb) = TranslateIn(mem, vb)
        BY <2>4, <2>5, <2>7
      <3> QED
        BY <1>2, <2>7, <3>1 DEF Pages
    <2> QED
      BY <2>6, <2>7
  <1> QED
    BY <1>5, <1>6

(* A turn of the way up clears the entry and frees the table that has      *)
(* none left; the first turn ends the page's translation.                  *)
LEMMA UnmapTableStep ==
    ASSUME PageInv, unmap_table
    PROVE  /\ PageInv'
           /\ Pages(mem') = IF ~call.huge /\ call.lv = 1 THEN [Pages(mem) EXCEPT ![call.va] = NULL]
                            ELSE Pages(mem)
  <1>1. PICK lev, pt, pi, rank, q : GhostInv(lev, pt, pi, rank, q)
    BY DEF PageInv
  <1>2. /\ pc = "unmap_table" /\ Unmapping /\ Way(lev, pt, pi) /\ call.lv \in 1 .. 4
        /\ IF call.huge THEN call.lv \in 2 .. 3 ELSE Stale
        /\ call \in CallType /\ mem \in Memory
        /\ boot \in 1 .. HUGES + 1 /\ failed \in BOOLEAN /\ held \subseteq Frames
    BY <1>1 DEF unmap_table, GhostInv, PcOK, PageInv
  <1>3. PICK va, t, i, v : /\ va = call.va /\ t = call.tab[call.lv] /\ i = idx(call.va, call.lv)
                           /\ v = View
    OBVIOUS
  <1>4. /\ v = Put(mem, t, i, Zero) /\ Cur = t /\ Flushing = va /\ Done = boot /\ call.frame = NULL
        /\ t \in Frames /\ lev[t] = call.lv /\ On(lev, pt, pi, t, va) /\ va \in TlbPages
    BY <1>2, <1>3 DEF View, Cur, Flushing, Done, Unmapping, Way, CallType
  <1>5. Shape(v, lev, pt, pi, rank, q, free_head, free_count, held, NULL, boot, failed, t)
        /\ Remembers(tlb, lev, pt, pi, va)
    BY <1>1, <1>3, <1>4 DEF GhostInv
  <1>6. /\ v \in Memory /\ Ghosts(lev, pt, pi, rank, q) /\ Tree(v, lev, pt, pi)
        /\ EarlyTabs(v, lev, pt, pi, boot) /\ List(v, lev, rank, q, free_head, free_count)
    BY <1>5 DEF Shape
  <1>7. /\ i \in Idx /\ ~(t = DT1 /\ i = 0)
        /\ \/ call.lv = 4 /\ i = va[1]
           \/ call.lv = 3 /\ i = va[2]
           \/ call.lv = 2 /\ i = va[3]
           \/ call.lv = 1 /\ i = va[4]
    <2>1. CASE ~call.huge
      <3>1. va \in VAs /\ va \in High
        BY <1>2, <1>3, <2>1, HighFacts DEF Unmapping
      <3>2. call.lv \in 1 .. 4 /\ lev[t] \in 1 .. 4
        BY <1>2, <1>4
      <3>3. ~(t = DT1 /\ idx(va, lev[t]) = 0)
        BY <1>4, <1>6, <3>1, <3>2, ClientTable
      <3>4. /\ i \in Idx
            /\ \/ call.lv = 4 /\ i = va[1]
               \/ call.lv = 3 /\ i = va[2]
               \/ call.lv = 2 /\ i = va[3]
               \/ call.lv = 1 /\ i = va[4]
        BY <1>3, <3>1, <3>2, WayIndex
      <3> QED
        BY <1>3, <1>4, <3>3, <3>4
    <2>2. CASE call.huge
      <3>1. PICK p \in 0 .. HUGES - 1 : va = huge_va(p)
        BY <1>2, <1>3, <2>2 DEF Unmapping
      <3>2. call.lv = 2 \/ call.lv = 3
        BY <1>2, <2>2
      <3>3. t # DT1
        <4>1. lev[DT1] = 1
          BY <1>6 DEF Tree, Frame0
        <4> QED
          BY <1>4, <3>2, <4>1
      <3> QED
        BY <1>3, <3>1, <3>2, <3>3, HugeIndex
    <2> QED
      BY <2>1, <2>2
  <1>8. accessible(t) /\ reached(t) = t /\ (\A f : reset_tlb(tlb, f) = tlb) /\ mem[DT1][0] = Zero
    BY <1>1, <1>2, <1>4, Window
  <1>9. Zero \in Word /\ tab_entry(t) \in Word /\ tab_entry(t) # Zero /\ 0 \in Idx /\ DT1 \in Frames
    <2>1. tab_entry(t) \in Word /\ tab_entry(t).present /\ ~Zero.present
      BY <1>4, WordFacts, FrameFacts
    <2> QED
      BY <2>1, WordFacts, ParamFacts, FrameFacts
  <1>10. PICK m : m = [setup(mem, t) EXCEPT ![t][i] = Zero]
    OBVIOUS
  <1>11. reset(m) = v
    BY <1>2, <1>4, <1>7, <1>8, <1>9, <1>10, WriteThrough
  <1>12. /\ m \in Memory
         /\ \A h \in Frames \cup {NULL} : \A j \in Idx : ~(h = DT1 /\ j = 0) => m[h][j] = v[h][j]
         /\ m[DT1][0] = tab_entry(t) /\ v[DT1][0] = Zero
    <2>1. setup(mem, t) = Put(mem, DT1, 0, tab_entry(t))
      BY SetupIsPut
    <2>2. setup(mem, t) \in Memory
      BY <1>2, <1>9, <2>1, PutFacts
    <2>3. m = Put(setup(mem, t), t, i, Zero)
      BY <1>10 DEF Put
    <2>4. m \in Memory
      BY <1>4, <1>7, <1>9, <2>2, <2>3, PutFacts
    <2>5. \A h \in Frames \cup {NULL} : \A j \in Idx :
            setup(mem, t)[h][j] = IF h = DT1 /\ j = 0 THEN tab_entry(t) ELSE mem[h][j]
      BY <1>2, <1>9, <2>1, PutAt
    <2>6. \A h \in Frames \cup {NULL} : \A j \in Idx :
            m[h][j] = IF h = t /\ j = i THEN Zero ELSE setup(mem, t)[h][j]
      BY <1>4, <1>7, <1>9, <2>2, <2>3, PutAt
    <2>7. \A h \in Frames \cup {NULL} : \A j \in Idx :
            v[h][j] = IF h = t /\ j = i THEN Zero ELSE mem[h][j]
      BY <1>2, <1>4, <1>7, <1>9, PutAt
    <2> QED
      BY <1>7, <1>8, <1>9, <2>4, <2>5, <2>6, <2>7
  <1>13. tab_is_zero(m, t) <=> t # DT1 /\ Empty(v, t)
    BY <1>4, <1>9, <1>12 DEF tab_is_zero, Empty
  <1> DEFINE goes == tab_is_zero(m, t)
  <1>14. /\ mem' = reset(IF goes THEN frame_free(m, t, free_head) ELSE m)
         /\ free_head' = IF goes THEN t ELSE free_head
         /\ free_count' = IF goes THEN free_count + 1 ELSE free_count
         /\ tlb' = tlb /\ call' = UpCall(call)
         /\ pc' = IF goes /\ call.lv < Highest THEN "unmap_table" ELSE "unmap_flush"
         /\ UNCHANGED <<held, failed, boot>>
    BY <1>3, <1>8, <1>10 DEF unmap_table, table_goes, UpCall
  <1>15. /\ call' \in CallType /\ call'.va = va /\ call'.lv = call.lv + 1 /\ call'.tab = call.tab
         /\ call'.frame = NULL /\ call'.huge = call.huge /\ call'.free = call.free
    BY <1>2, <1>3, <1>4, <1>14, UpCallFacts
  <1>16. Unmapping'
    BY <1>2, <1>3, <1>4, <1>14, <1>15 DEF Unmapping
  <1>19. Pages(v) = IF ~call.huge /\ call.lv = 1 THEN [Pages(mem) EXCEPT ![call.va] = NULL]
                    ELSE Pages(mem)
    BY <1>1, <1>2, <1>3, StalePages
  <1> HIDE DEF goes
  <1>17. CASE ~goes
    <2>1. mem' = v /\ free_head' = free_head /\ free_count' = free_count /\ pc' = "unmap_flush"
      BY <1>11, <1>14, <1>17
    <2>2. Shape(v, lev, pt, pi, rank, q, free_head, free_count, held, NULL, boot, failed, NULL)
      <3>1. t \in Frames \ Kernel => \E j \in Idx : v[t][j] # Zero
        BY <1>13, <1>17, FrameFacts DEF goes, Empty
      <3> QED
        BY <1>5, <3>1, ShapeCur
    <2>3. View' = v /\ Cur' = NULL /\ Flushing' = va /\ Done' = boot
      BY <1>14, <1>15, <2>1 DEF View, Cur, Flushing, Done
    <2>4. PcOK(lev, pt, pi)'
      BY <1>16, <2>1 DEF PcOK
    <2>5. GhostInv(lev, pt, pi, rank, q)'
      BY <1>5, <1>14, <1>15, <2>1, <2>2, <2>3, <2>4 DEF GhostInv
    <2> QED
      BY <1>2, <1>6, <1>14, <1>15, <1>19, <2>1, <2>5 DEF PageInv
  <1>18. CASE goes
    <2>1. t # DT1 /\ Empty(v, t) /\ t \in Frames \ Kernel
      BY <1>4, <1>6, <1>13, <1>18, KernelFull DEF goes
    <2>2. lev[t] \in 1 .. 3 /\ call.lv < 4 /\ (call.huge => call.lv = 2)
      <3>1. lev[t] # 4 /\ lev[EARLY3] = 3 /\ pi[EARLY3] = 0 /\ t # EARLY3 /\ EARLY3 \in Frames
        BY <1>4, <1>6, <2>1, FrameFacts DEF Tree, Frame0
      <3>2. lev[t] \in 1 .. 3 /\ call.lv < 4
        BY <1>2, <1>4, <3>1
      <3>3. ASSUME call.huge, call.lv = 3
            PROVE  FALSE
        <4>1. PICK p \in 0 .. HUGES - 1 : va = huge_va(p)
          BY <1>2, <1>3, <3>3 DEF Unmapping
        <4>2. va[1] = 0
          BY <4>1 DEF huge_va
        <4>3. On(lev, pt, pi, EARLY3, va)
          BY <3>1, <4>2 DEF On
        <4>4. lev[t] = lev[EARLY3] /\ lev[t] \in 0 .. 4
          BY <1>4, <3>1, <3>3
        <4>5. t = EARLY3
          BY <1>4, <1>6, <3>1, <4>3, <4>4, OnOne
        <4> QED
          BY <3>1, <4>5
      <3> QED
        BY <1>2, <3>2, <3>3
    <2>3. /\ free_head' = t /\ free_count' = free_count + 1 /\ pc' = "unmap_table"
          /\ mem' = reset(frame_free(m, t, free_head))
      BY <1>2, <1>14, <1>18, <2>2 DEF Highest
    <2>4. link(free_head) \in Word
      <3>1. free_head \in 0 .. DT1
        BY <1>6, ListHead, FrameFacts DEF NULL
      <3> QED
        BY <3>1, WordFacts
    <2>5. mem' = Put(v, t, 0, link(free_head))
      <3> DEFINE x == frame_free(m, t, free_head)
                 y == Put(v, t, 0, link(free_head))
      <3>1. x = Put(m, t, 0, link(free_head))
        BY DEF frame_free, Put
      <3>2. x \in Memory /\ y \in Memory
        BY <1>4, <1>6, <1>9, <1>12, <2>4, <3>1, PutFacts
      <3>3. \A h \in Frames \cup {NULL} : \A j \in Idx :
              x[h][j] = IF h = t /\ j = 0 THEN link(free_head) ELSE m[h][j]
        BY <1>4, <1>9, <1>12, <2>4, <3>1, PutAt
      <3>4. \A h \in Frames \cup {NULL} : \A j \in Idx :
              y[h][j] = IF h = t /\ j = 0 THEN link(free_head) ELSE v[h][j]
        BY <1>4, <1>6, <1>9, <2>4, PutAt
      <3> HIDE DEF x, y
      <3>5. y[DT1][0] = Zero
        BY <1>9, <1>12, <2>1, <3>4
      <3>6. \A h \in Frames \cup {NULL} : \A j \in Idx : ~(h = DT1 /\ j = 0) => x[h][j] = y[h][j]
        BY <1>12, <3>3, <3>4
      <3>7. reset(x) = y
        BY <3>2, <3>5, <3>6, ResetIs
      <3> QED
        BY <2>3, <3>7 DEF x, y
    <2>6. PICK lev2, rank2, q2 :
            /\ Shape(Put(Put(v, t, 0, link(free_head)), pt[t], pi[t], Zero), lev2, pt, pi, rank2, q2,
                     t, free_count + 1, held, NULL, boot, failed, pt[t])
            /\ Gone(lev, lev2, t)
      <3>1. lev[t] \in 0 .. 3 /\ t \in {NULL, t} /\ (lev[t] = 0 \/ Empty(v, t))
        BY <2>1, <2>2
      <3> QED
        BY <1>5, <2>1, <3>1, Unlink
    <2>7. PICK t2, i2 : t2 = call.tab[call.lv + 1] /\ i2 = idx(va, call.lv + 1)
      OBVIOUS
    <2>8. \A l \in call.lv + 1 .. 4 : /\ call.tab[l] \in Frames /\ lev2[call.tab[l]] = l
                                      /\ On(lev2, pt, pi, call.tab[l], va)
      <3>1. ASSUME NEW l \in call.lv + 1 .. 4
            PROVE  call.tab[l] \in Frames /\ lev2[call.tab[l]] = l /\ On(lev2, pt, pi, call.tab[l], va)
        <4>1. l \in call.lv .. 4 /\ l # call.lv
          BY <1>2
        <4>2. call.tab[l] \in Frames /\ lev[call.tab[l]] = l /\ On(lev, pt, pi, call.tab[l], va)
          BY <1>2, <1>3, <4>1 DEF Way
        <4>3. call.tab[l] # t
          BY <1>4, <4>1, <4>2
        <4> QED
          BY <2>6, <4>2, <4>3, OnGone
      <3> QED
        BY <3>1
    <2>9. /\ t2 = pt[t] /\ i2 = pi[t] /\ t2 \in Frames /\ i2 \in Idx /\ t2 # t
          /\ v[t2][i2] = tab_entry(t)
      <3>1. call.lv + 1 \in call.lv .. 4
        BY <1>2, <2>2
      <3>2. t2 \in Frames /\ lev[t2] = call.lv + 1 /\ On(lev, pt, pi, t2, va)
        BY <1>2, <1>3, <2>7, <3>1 DEF Way
      <3>3. lev[t] \in 0 .. 3
        BY <2>2
      <3>4. pt[t] \in Frames /\ lev[pt[t]] = lev[t] + 1 /\ On(lev, pt, pi, pt[t], va)
        BY <1>4, <1>6, <3>3, OnUp
      <3>5. lev[t2] \in 0 .. 4 /\ lev[t2] = lev[pt[t]]
        BY <1>4, <2>2, <3>2, <3>4
      <3>6. t2 = pt[t]
        BY <1>6, <3>2, <3>4, <3>5, OnOne
      <3>7. v[pt[t]][pi[t]] = tab_entry(t) /\ pi[t] \in Idx
        BY <1>4, <1>6, <3>3 DEF Tree, Up, Ghosts
      <3>8. i2 = pi[t]
        <4>1. CASE lev[t] = 1
          <5>1. pi[t] = va[3] /\ i2 = idx(va, 2)
            BY <1>4, <2>7, <4>1 DEF On
          <5> QED
            BY <5>1, IdxFacts
        <4>2. CASE lev[t] = 2
          <5>1. pi[t] = va[2] /\ i2 = idx(va, 3)
            BY <1>4, <2>7, <4>2 DEF On
          <5> QED
            BY <5>1, IdxFacts
        <4>3. CASE lev[t] = 3
          <5>1. pi[t] = va[1] /\ i2 = idx(va, 4)
            BY <1>4, <2>7, <4>3 DEF On
          <5> QED
            BY <5>1, IdxFacts
        <4> QED
          BY <2>2, <4>1, <4>2, <4>3
      <3>9. t2 # t
        BY <1>2, <1>4, <3>2
      <3> QED
        BY <3>2, <3>6, <3>7, <3>8, <3>9
    <2>10. View' = Put(mem', t2, i2, Zero) /\ Cur' = t2 /\ Flushing' = va /\ Done' = boot
      BY <1>14, <1>15, <2>3, <2>7 DEF View, Cur, Flushing, Done
    <2>11. Shape(View', lev2, pt, pi, rank2, q2, t, free_count + 1, held, NULL, boot, failed, t2)
      BY <2>5, <2>6, <2>9, <2>10
    <2>12. Remembers(tlb, lev2, pt, pi, va)
      <3>1. lev[t] # 0
        BY <2>2
      <3>2. ASSUME NEW vb \in TlbPages, tlb[vb] # NULL
            PROVE  vb \in VAs /\ (vb = va \/ (lev2[tlb[vb]] = 0 /\ On(lev2, pt, pi, tlb[vb], vb)))
        <4>1. /\ vb \in VAs /\ tlb[vb] \in Frames
              /\ vb = va \/ (lev[tlb[vb]] = 0 /\ On(lev, pt, pi, tlb[vb], vb))
          BY <1>5, <3>2 DEF Remembers
        <4>2. CASE vb = va
          BY <4>1, <4>2
        <4>3. CASE lev[tlb[vb]] = 0 /\ On(lev, pt, pi, tlb[vb], vb)
          <5>1. tlb[vb] # t
            BY <3>1, <4>3
          <5> QED
            BY <2>6, <4>1, <4>3, <5>1, OnGone
        <4> QED
          BY <4>1, <4>2, <4>3
      <3> QED
        BY <1>5, <3>2 DEF Remembers
    <2>13. Way(lev2, pt, pi)'
      BY <1>15, <2>8 DEF Way
    <2>14. Stale'
      <3>1. mem'[t2][i2] = tab_entry(t)
        BY <1>4, <1>6, <1>9, <2>4, <2>5, <2>9, PutAt
      <3>2. \A j \in Idx : ~mem'[t][j].present
        <4>1. \A j \in Idx : mem'[t][j] = IF j = 0 THEN link(free_head) ELSE v[t][j]
          BY <1>4, <1>6, <1>9, <2>4, <2>5, PutAt
        <4>2. ~link(free_head).present /\ ~Zero.present
          <5>1. free_head \in 0 .. DT1
            BY <1>6, ListHead, FrameFacts DEF NULL
          <5> QED
            BY <5>1, WordFacts
        <4> QED
          BY <2>1, <4>1, <4>2 DEF Empty
      <3>3. call'.tab[call'.lv] = t2 /\ idx(call'.va, call'.lv) = i2
        BY <1>15, <2>7
      <3> QED
        BY <1>4, <3>1, <3>2, <3>3 DEF Stale
    <2>15. PcOK(lev2, pt, pi)'
      <3>1. call'.lv \in 1 .. 4 /\ (call'.huge => call'.lv \in 2 .. 3)
        BY <1>2, <1>4, <1>15, <2>2
      <3> QED
        BY <1>16, <2>3, <2>13, <2>14, <3>1 DEF PcOK
    <2>16. GhostInv(lev2, pt, pi, rank2, q2)'
      BY <1>14, <1>15, <2>3, <2>10, <2>11, <2>12, <2>15 DEF GhostInv
    <2>17. mem' \in Memory
      BY <1>4, <1>6, <1>9, <2>4, <2>5, PutFacts
    <2>18. Pages(mem') = Pages(v)
      <3>1. \A h \in Frames \cup {NULL} : \A j \in Idx :
              mem'[h][j] = IF h = t /\ j = 0 THEN link(free_head) ELSE v[h][j]
        BY <1>4, <1>6, <1>9, <2>4, <2>5, PutAt
      <3>2. ~link(free_head).present /\ ~Zero.present /\ v[t][0] = Zero
        <4>1. free_head \in 0 .. DT1
          BY <1>6, ListHead, FrameFacts DEF NULL
        <4> QED
          BY <1>9, <2>1, <4>1, WordFacts DEF Empty
      <3>3. Alike(v, mem')
        BY <3>1, <3>2 DEF Alike
      <3> QED
        BY <1>6, <2>17, <3>3, AlikePages
    <2> QED
      BY <1>2, <1>14, <1>15, <1>19, <2>16, <2>17, <2>18 DEF PageInv
  <1> QED
    BY <1>17, <1>18
-----------------------------------------------------------------------------
(* The tables that mm_page_early_bootstrap and _init_direct_access leave.  *)
LEMMA InitWords ==
    ASSUME Init
    PROVE  /\ mem \in Memory
           /\ mem[ROOT][0] = tab_entry(EARLY3) /\ mem[ROOT][FAN - 1] = tab_entry(DT3)
           /\ \A i \in Idx : i # 0 /\ i # FAN - 1 => mem[ROOT][i] = Zero
           /\ \A i \in Idx : mem[EARLY3][i] = IF EARLY2(i) \in Early THEN tab_entry(EARLY2(i)) ELSE Zero
           /\ \A k, i \in Idx : EARLY2(k) \in Early =>
                 mem[EARLY2(k)][i] = IF HugeNo(k, i) < HUGES THEN HugeWord(HugeNo(k, i)) ELSE Zero
           /\ mem[DT3][0] = tab_entry(DT2) /\ mem[DT2][0] = tab_entry(DT1)
           /\ \A i \in Idx : i # 0 => mem[DT3][i] = Zero /\ mem[DT2][i] = Zero
           /\ \A i \in Idx : mem[DT1][i] = Zero /\ mem[NULL][i] = Zero
  <1> DEFINE No(f, i) == (f - EARLY2(0)) * FAN + i
             W(f, i) == CASE f = ROOT /\ i = 0                 -> tab_entry(EARLY3)
                          [] f = ROOT /\ i = FAN - 1           -> tab_entry(DT3)
                          [] f = EARLY3 /\ EARLY2(i) \in Early -> tab_entry(EARLY2(i))
                          [] f \in Early /\ No(f, i) < HUGES   -> huge_entry(No(f, i) * FAN)
                          [] f = DT3 /\ i = 0                  -> tab_entry(DT2)
                          [] f = DT2 /\ i = 0                  -> tab_entry(DT1)
                          [] f \in Ram                         -> Data
                          [] OTHER                             -> Zero
  <1>1. mem = [f \in Frames \cup {NULL} |-> [i \in Idx |-> W(f, i)]]
    BY DEF Init
  <1> HIDE DEF No
  <1>2. /\ \A i \in Idx : W(ROOT, i) = IF i = 0 THEN tab_entry(EARLY3)
                                       ELSE IF i = FAN - 1 THEN tab_entry(DT3) ELSE Zero
        /\ \A i \in Idx : W(EARLY3, i) = IF EARLY2(i) \in Early THEN tab_entry(EARLY2(i)) ELSE Zero
    BY FrameFacts, ParamFacts
  <1>3. /\ \A i \in Idx : W(DT3, i) = IF i = 0 THEN tab_entry(DT2) ELSE Zero
        /\ \A i \in Idx : W(DT2, i) = IF i = 0 THEN tab_entry(DT1) ELSE Zero
        /\ \A i \in Idx : W(DT1, i) = Zero
    BY FrameFacts, ParamFacts
  <1>4. \A i \in Idx : W(NULL, i) = Zero
    BY FrameFacts
  <1>5. \A f \in Ram, i \in Idx : W(f, i) = Data
    BY FrameFacts
  <1>6. \A f \in Early, i \in Idx : W(f, i) = IF No(f, i) < HUGES THEN huge_entry(No(f, i) * FAN) ELSE Zero
    BY FrameFacts
  <1> HIDE DEF W
  <1>7. \A k, i \in Idx : No(EARLY2(k), i) = HugeNo(k, i)
    <2> TAKE k, i \in Idx
    <2>1. EARLY2(k) - EARLY2(0) = k
      BY FrameFacts, ParamFacts DEF EARLY2, ROOT
    <2> QED
      BY <2>1 DEF No, HugeNo
  <1>8. \A k, i \in Idx : EARLY2(k) \in Early =>
          W(EARLY2(k), i) = IF HugeNo(k, i) < HUGES THEN HugeWord(HugeNo(k, i)) ELSE Zero
    BY <1>6, <1>7 DEF HugeWord
  <1>9. \A f \in Frames \cup {NULL}, i \in Idx : W(f, i) \in Word
    <2> TAKE f \in Frames \cup {NULL}, i \in Idx
    <2>1. CASE f \in Kernel \/ f = NULL
      <3>1. /\ Zero \in Word /\ tab_entry(EARLY3) \in Word /\ tab_entry(DT3) \in Word
            /\ tab_entry(DT2) \in Word /\ tab_entry(DT1) \in Word
            /\ \A g \in Early : tab_entry(g) \in Word
        BY WordFacts, FrameFacts
      <3>2. f = ROOT \/ f = EARLY3 \/ f = DT3 \/ f = DT2 \/ f = DT1 \/ f = NULL
        BY <2>1, FrameFacts
      <3>3. CASE f = ROOT \/ f = EARLY3
        BY <1>2, <3>1, <3>3
      <3>4. CASE f = DT3 \/ f = DT2 \/ f = DT1 \/ f = NULL
        BY <1>3, <1>4, <3>1, <3>4
      <3> QED
        BY <3>2, <3>3, <3>4
    <2>2. CASE f \in Ram
      BY <1>5, <2>2, WordFacts
    <2>3. CASE f \in Early
      <3>1. PICK k \in Idx : f = EARLY2(k)
        BY <2>3, FrameFacts
      <3>2. CASE HugeNo(k, i) < HUGES
        <4>1. HugeNo(k, i) \in 0 .. HUGES - 1
          BY <3>2, HugeNumber, ParamFacts DEF HugeNo
        <4>2. HugeNo(k, i) * FAN \in 0 .. DT1
          BY <4>1, HugeFrames
        <4>3. HugeWord(HugeNo(k, i)) \in Word
          BY <4>2, WordFacts DEF HugeWord
        <4> QED
          BY <1>8, <2>3, <3>1, <3>2, <4>3
      <3>3. CASE ~(HugeNo(k, i) < HUGES)
        BY <1>8, <2>3, <3>1, <3>3, WordFacts
      <3> QED
        BY <3>2, <3>3
    <2> QED
      BY <2>1, <2>2, <2>3, FrameFacts
  <1>10. mem \in Memory
    BY <1>1, <1>9 DEF Memory
  <1>11. \A f \in Frames \cup {NULL}, i \in Idx : mem[f][i] = W(f, i)
    BY <1>1
  <1>12. 0 \in Idx /\ FAN - 1 \in Idx /\ 0 # FAN - 1 /\ Early \subseteq Frames
         /\ ROOT \in Frames /\ EARLY3 \in Frames /\ DT3 \in Frames /\ DT2 \in Frames /\ DT1 \in Frames
    BY ParamFacts, FrameFacts
  <1>13. /\ mem[ROOT][0] = tab_entry(EARLY3) /\ mem[ROOT][FAN - 1] = tab_entry(DT3)
         /\ \A i \in Idx : i # 0 /\ i # FAN - 1 => mem[ROOT][i] = Zero
    BY <1>2, <1>11, <1>12
  <1>14. \A i \in Idx : mem[EARLY3][i] = IF EARLY2(i) \in Early THEN tab_entry(EARLY2(i)) ELSE Zero
    BY <1>2, <1>11, <1>12
  <1>15. \A k, i \in Idx : EARLY2(k) \in Early =>
           mem[EARLY2(k)][i] = IF HugeNo(k, i) < HUGES THEN HugeWord(HugeNo(k, i)) ELSE Zero
    BY <1>8, <1>11, <1>12
  <1>16. /\ mem[DT3][0] = tab_entry(DT2) /\ mem[DT2][0] = tab_entry(DT1)
         /\ \A i \in Idx : i # 0 => mem[DT3][i] = Zero /\ mem[DT2][i] = Zero
         /\ \A i \in Idx : mem[DT1][i] = Zero /\ mem[NULL][i] = Zero
    BY <1>3, <1>4, <1>11, <1>12
  <1> QED
    BY <1>10, <1>13, <1>14, <1>15, <1>16

(* The early tables: their indices.                                        *)
LEMMA EarlyIndex ==
    ASSUME NEW f \in Early
    PROVE  /\ f - EARLY2(0) \in Idx /\ f = EARLY2(f - EARLY2(0))
           /\ (f - EARLY2(0)) * FAN < HUGES
  <1>1. PICK k \in 0 .. (HUGES - 1) \div FAN : f = EARLY2(k)
    BY DEF Early
  <1>2. HUGES - 1 \in 0 .. HUGES - 1 /\ HUGES \in Nat
    BY ParamFacts
  <1>3. (HUGES - 1) \div FAN \in Idx /\ (HUGES - 1) % FAN \in Idx
        /\ HUGES - 1 = ((HUGES - 1) \div FAN) * FAN + ((HUGES - 1) % FAN)
    BY <1>2, HugeTable
  <1>4. k \in Idx /\ k <= (HUGES - 1) \div FAN /\ k \in Nat
    BY <1>1, <1>3, ParamFacts DEF Idx
  <1>5. f - EARLY2(0) = k
    BY <1>1, <1>4, ParamFacts DEF EARLY2, ROOT
  <1>6. k * FAN <= ((HUGES - 1) \div FAN) * FAN
    <2>1. PICK d \in Nat : d = (HUGES - 1) \div FAN
      BY <1>3, ParamFacts
    <2> QED
      BY <1>4, <2>1, ParamFacts
  <1>7. k * FAN < HUGES
    <2>1. PICK a \in Nat, b \in Nat, c \in Nat :
            a = k * FAN /\ b = ((HUGES - 1) \div FAN) * FAN /\ c = (HUGES - 1) % FAN
      BY <1>3, <1>4, ParamFacts
    <2> QED
      BY <1>2, <1>3, <1>6, <2>1
  <1> QED
    BY <1>1, <1>4, <1>5, <1>7

(* The ghosts of the initial state.                                        *)
Lev0 == [f \in Frames |-> IF f = ROOT THEN 4 ELSE IF f \in {EARLY3, DT3} THEN 3
                          ELSE IF f = DT1 THEN 1 ELSE IF f \in Ram THEN OUT ELSE 2]
Pt0 == [f \in Frames |-> IF f = DT2 THEN DT3 ELSE IF f = DT1 THEN DT2
                         ELSE IF f \in Early THEN EARLY3 ELSE ROOT]
Pi0 == [f \in Frames |-> IF f = DT3 THEN FAN - 1 ELSE IF f \in Early THEN f - EARLY2(0) ELSE 0]

LEMMA InitGhosts ==
    /\ Ghosts(Lev0, Pt0, Pi0, [f \in Frames |-> 0], [n \in Nat |-> 0])
    /\ Lev0[ROOT] = 4 /\ Lev0[EARLY3] = 3 /\ Lev0[DT3] = 3 /\ Lev0[DT2] = 2 /\ Lev0[DT1] = 1
    /\ Pt0[EARLY3] = ROOT /\ Pt0[DT3] = ROOT /\ Pt0[DT2] = DT3 /\ Pt0[DT1] = DT2
    /\ Pi0[EARLY3] = 0 /\ Pi0[DT3] = FAN - 1 /\ Pi0[DT2] = 0 /\ Pi0[DT1] = 0
    /\ \A f \in Ram : Lev0[f] = OUT
    /\ \A f \in Early : Lev0[f] = 2 /\ Pt0[f] = EARLY3 /\ Pi0[f] = f - EARLY2(0)
  <1>1. Lev0 \in [Frames -> -4 .. 4]
    BY DEF Lev0, OUT
  <1>2. Pt0 \in [Frames -> Frames]
    BY FrameFacts DEF Pt0
  <1>3. Pi0 \in [Frames -> Idx]
    <2>1. \A f \in Early : f - EARLY2(0) \in Idx
      BY EarlyIndex
    <2> QED
      BY <2>1, ParamFacts DEF Pi0
  <1>4. [f \in Frames |-> 0] \in [Frames -> Nat] /\ [n \in Nat |-> 0] \in [Nat -> 0 .. DT1]
    BY FrameFacts
  <1>5. Ghosts(Lev0, Pt0, Pi0, [f \in Frames |-> 0], [n \in Nat |-> 0])
    BY <1>1, <1>2, <1>3, <1>4 DEF Ghosts
  <1>6. Lev0[ROOT] = 4 /\ Lev0[EARLY3] = 3 /\ Lev0[DT3] = 3 /\ Lev0[DT2] = 2 /\ Lev0[DT1] = 1
    BY FrameFacts DEF Lev0
  <1>7. /\ Pt0[EARLY3] = ROOT /\ Pt0[DT3] = ROOT /\ Pt0[DT2] = DT3 /\ Pt0[DT1] = DT2
        /\ Pi0[EARLY3] = 0 /\ Pi0[DT3] = FAN - 1 /\ Pi0[DT2] = 0 /\ Pi0[DT1] = 0
    BY FrameFacts DEF Pt0, Pi0
  <1>8. \A f \in Ram : Lev0[f] = OUT
    BY FrameFacts DEF Lev0
  <1>9. \A f \in Early : Lev0[f] = 2 /\ Pt0[f] = EARLY3 /\ Pi0[f] = f - EARLY2(0)
    BY FrameFacts DEF Lev0, Pt0, Pi0
  <1> QED
    BY <1>5, <1>6, <1>7, <1>8, <1>9

(* The tables after _init_direct_access form the tree.                     *)
LEMMA InitTree ==
    ASSUME Init
    PROVE  Tree(mem, Lev0, Pt0, Pi0)
  <1>1. /\ ROOT \in Frames /\ EARLY3 \in Frames /\ DT3 \in Frames /\ DT2 \in Frames /\ DT1 \in Frames
        /\ Early \subseteq Frames /\ 0 \in Idx /\ FAN - 1 \in Idx /\ 0 # FAN - 1
    BY FrameFacts, ParamFacts
  <1>2. \A f \in Frames : \/ f = ROOT \/ f = EARLY3 \/ f = DT3 \/ f = DT2 \/ f = DT1
                          \/ f \in Ram \/ f \in Early
    BY FrameFacts
  <1>3. \A f \in Frames : tab_entry(f).pa = f
    BY FrameFacts, WordFacts
  <1>4. Down(mem, Lev0, Pt0, Pi0)
    <2>1. ASSUME NEW t \in Frames, NEW i \in Idx, Lev0[t] \in 1 .. 4
          PROVE  Entry(mem[t][i], t, i, Lev0, Pt0, Pi0)
      <3>1. CASE t = ROOT
        <4>1. /\ Lev0[EARLY3] = Lev0[t] - 1 /\ Lev0[DT3] = Lev0[t] - 1
              /\ Pt0[EARLY3] = t /\ Pt0[DT3] = t /\ Pi0[EARLY3] = 0 /\ Pi0[DT3] = FAN - 1
          BY <3>1, InitGhosts
        <4>2. mem[t][i] = IF i = 0 THEN tab_entry(EARLY3)
                          ELSE IF i = FAN - 1 THEN tab_entry(DT3) ELSE Zero
          BY <3>1, InitWords
        <4> QED
          BY <1>1, <1>3, <4>1, <4>2 DEF Entry
      <3>2. CASE t = EARLY3
        <4>1. mem[t][i] = IF EARLY2(i) \in Early THEN tab_entry(EARLY2(i)) ELSE Zero
          BY <3>2, InitWords
        <4>2. CASE EARLY2(i) \in Early
          <5>1. Lev0[EARLY2(i)] = 2 /\ Lev0[t] = 3 /\ Pt0[EARLY2(i)] = t
                /\ Pi0[EARLY2(i)] = EARLY2(i) - EARLY2(0) /\ EARLY2(i) \in Frames
            BY <1>1, <3>2, <4>2, InitGhosts
          <5>2. Pi0[EARLY2(i)] = i
            BY <5>1, ParamFacts DEF EARLY2, ROOT, Idx
          <5>3. mem[t][i].pa = EARLY2(i) /\ mem[t][i] = tab_entry(EARLY2(i))
            BY <1>3, <4>1, <4>2, <5>1
          <5> QED
            BY <5>1, <5>2, <5>3 DEF Entry
        <4>3. CASE EARLY2(i) \notin Early
          BY <4>1, <4>3 DEF Entry
        <4> QED
          BY <4>2, <4>3
      <3>3. CASE t = DT3 \/ t = DT2 \/ t = DT1
        <4>1. /\ Lev0[DT3] = 3 /\ Lev0[DT2] = 2 /\ Lev0[DT1] = 1
              /\ Pt0[DT2] = DT3 /\ Pt0[DT1] = DT2 /\ Pi0[DT2] = 0 /\ Pi0[DT1] = 0
          BY InitGhosts
        <4>2. CASE t = DT3
          <5>1. mem[t][i] = IF i = 0 THEN tab_entry(DT2) ELSE Zero
            BY <4>2, InitWords
          <5> QED
            BY <1>1, <1>3, <4>1, <4>2, <5>1 DEF Entry
        <4>3. CASE t = DT2
          <5>1. mem[t][i] = IF i = 0 THEN tab_entry(DT1) ELSE Zero
            BY <4>3, InitWords
          <5> QED
            BY <1>1, <1>3, <4>1, <4>3, <5>1 DEF Entry
        <4>4. CASE t = DT1
          BY <4>4, InitWords DEF Entry
        <4> QED
          BY <3>3, <4>2, <4>3, <4>4
      <3>4. CASE t \in Ram
        BY <2>1, <3>4, InitGhosts DEF OUT
      <3>5. CASE t \in Early
        <4>1. PICK k \in Idx : t = EARLY2(k)
          BY <3>5, FrameFacts
        <4>2. Lev0[t] = 2 /\ Pt0[t] = EARLY3
          BY <3>5, InitGhosts
        <4>3. mem[t][i] = IF HugeNo(k, i) < HUGES THEN HugeWord(HugeNo(k, i)) ELSE Zero
          BY <3>5, <4>1, InitWords
        <4>4. HugeNo(k, i) < HUGES => HugeWord(HugeNo(k, i)).present /\ HugeWord(HugeNo(k, i)).huge
          <5>1. SUFFICES ASSUME HugeNo(k, i) < HUGES
                         PROVE  HugeWord(HugeNo(k, i)).present /\ HugeWord(HugeNo(k, i)).huge
            OBVIOUS
          <5>2. HugeNo(k, i) \in 0 .. HUGES - 1
            BY <5>1, HugeNumber, ParamFacts DEF HugeNo
          <5>3. HugeNo(k, i) * FAN \in 0 .. DT1
            BY <5>2, HugeFrames
          <5> QED
            BY <5>3, WordFacts DEF HugeWord
        <4> QED
          BY <4>2, <4>3, <4>4 DEF Entry
      <3> QED
        BY <1>2, <3>1, <3>2, <3>3, <3>4, <3>5
    <2> QED
      BY <2>1, InitWords DEF Down
  <1>5. Up(mem, Lev0, Pt0, Pi0)
    <2>1. ASSUME NEW f \in Frames, Lev0[f] \in 0 .. 3
          PROVE  Lev0[Pt0[f]] = Lev0[f] + 1 /\ mem[Pt0[f]][Pi0[f]] = tab_entry(f)
      <3>1. CASE f = ROOT
        BY <2>1, <3>1, InitGhosts
      <3>2. CASE f = EARLY3 \/ f = DT3 \/ f = DT2 \/ f = DT1
        BY <3>2, InitGhosts, InitWords
      <3>3. CASE f \in Ram
        BY <2>1, <3>3, InitGhosts DEF OUT
      <3>4. CASE f \in Early
        <4>1. Lev0[f] = 2 /\ Pt0[f] = EARLY3 /\ Pi0[f] = f - EARLY2(0) /\ Lev0[EARLY3] = 3
          BY <3>4, InitGhosts
        <4>2. f - EARLY2(0) \in Idx /\ f = EARLY2(f - EARLY2(0))
          BY <3>4, EarlyIndex
        <4>3. mem[EARLY3][f - EARLY2(0)] = tab_entry(f)
          BY <3>4, <4>2, InitWords
        <4> QED
          BY <4>1, <4>3
      <3> QED
        BY <1>2, <3>1, <3>2, <3>3, <3>4
    <2> QED
      BY <2>1 DEF Up
  <1>6. Frame0(Lev0, Pt0, Pi0)
    <2>1. /\ \A f \in Frames : Lev0[f] = 4 <=> f = ROOT
          /\ \A f \in Frames : Lev0[f] = 1 => f = DT1
          /\ \A f \in Frames : Lev0[f] # 0
      BY FrameFacts DEF Lev0, OUT
    <2>2. Pt0[Pt0[DT1]] # EARLY3
      BY FrameFacts, InitGhosts
    <2> QED
      BY <2>1, <2>2, InitGhosts DEF Frame0
  <1> QED
    BY <1>4, <1>5, <1>6 DEF Tree

(* The initial memory has the shape of the invariant.                      *)
LEMMA InitShape ==
    ASSUME Init
    PROVE  Shape(mem, Lev0, Pt0, Pi0, [f \in Frames |-> 0], [n \in Nat |-> 0],
                 NULL, 0, {}, NULL, 1, FALSE, NULL)
  <1>1. HUGES \in Nat /\ HUGES >= 1
    BY ParamFacts
  <1>2. Left(1) = 0 .. HUGES - 1
    BY <1>1 DEF Left
  <1>3. \A k, i \in Idx : HugeNo(k, i) < HUGES <=> HugeNo(k, i) \in Left(1)
    BY <1>1, <1>2, HugeNumber DEF HugeNo
  <1>4. EarlyTabs(mem, Lev0, Pt0, Pi0, 1)
    <2>1. ASSUME NEW t \in Frames, Lev0[t] = 2, Pt0[t] = EARLY3
          PROVE  /\ t \in Early /\ t = EARLY2(Pi0[t])
                 /\ \A i \in Idx : mem[t][i] = IF HugeNo(Pi0[t], i) \in Left(1)
                                               THEN HugeWord(HugeNo(Pi0[t], i)) ELSE Zero
      <3>1. t \in Early
        BY <2>1, FrameFacts DEF Lev0, Pt0, OUT
      <3>2. Pi0[t] \in Idx /\ t = EARLY2(Pi0[t])
        BY <3>1, InitGhosts, EarlyIndex
      <3>3. \A i \in Idx : mem[t][i] = IF HugeNo(Pi0[t], i) < HUGES
                                       THEN HugeWord(HugeNo(Pi0[t], i)) ELSE Zero
        BY <3>1, <3>2, InitWords
      <3> QED
        BY <1>3, <3>1, <3>2, <3>3
    <2>2. ASSUME NEW p \in Left(1)
          PROVE  /\ Lev0[EARLY2(p \div FAN)] = 2 /\ Pt0[EARLY2(p \div FAN)] = EARLY3
                 /\ Pi0[EARLY2(p \div FAN)] = p \div FAN
      <3>1. PICK k \in Idx : k = p \div FAN /\ EARLY2(k) \in Early
        BY <1>2, HugeFrames, HugeTable
      <3>2. EARLY2(k) - EARLY2(0) = k
        BY <3>1, ParamFacts DEF EARLY2, ROOT, Idx
      <3> QED
        BY <3>1, <3>2, InitGhosts
    <2> QED
      BY <2>1, <2>2 DEF EarlyTabs
  <1>5. Roles(Lev0, {}, NULL, 1)
    <2>1. \A f \in Frames : Lev0[f] = OUT <=> f \in Ram
      BY FrameFacts DEF Lev0, OUT
    <2>2. \A f \in Ram : f \div FAN >= 1
      BY RamHuge
    <2>3. \A f \in Frames : Lev0[f] # HELD /\ Lev0[f] # SPARE /\ f # NULL
      BY FrameFacts DEF Lev0, OUT, HELD, SPARE
    <2> QED
      BY <2>1, <2>2, <2>3 DEF Roles
  <1>6. List(mem, Lev0, [f \in Frames |-> 0], [n \in Nat |-> 0], NULL, 0)
    <2>1. \A f \in Frames : Lev0[f] # FREE
      BY DEF Lev0, OUT, FREE
    <2> QED
      BY <2>1 DEF List, NULL
  <1>7. Full(mem, Lev0, Pt0, FALSE, NULL)
    <2>1. ASSUME NEW t \in Frames \ Kernel, Lev0[t] \in 1 .. 3 PROVE \E i \in Idx : mem[t][i] # Zero
      <3>1. t \in Early
        BY <2>1, FrameFacts DEF Lev0, OUT
      <3>2. PICK k \in Idx : k = t - EARLY2(0) /\ t = EARLY2(k) /\ k * FAN < HUGES
        BY <3>1, EarlyIndex
      <3>3. 0 \in Idx /\ HugeNo(k, 0) = k * FAN
        BY ParamFacts DEF HugeNo
      <3>4. mem[t][0] = HugeWord(HugeNo(k, 0)) /\ HugeNo(k, 0) \in Left(1)
        BY <1>3, <3>1, <3>2, <3>3, InitWords
      <3>5. HugeWord(HugeNo(k, 0)) # Zero
        BY <3>4, HugeWordFacts
      <3> QED
        BY <3>3, <3>4, <3>5
    <2> QED
      BY <2>1 DEF Full
  <1>8. mem \in Memory
    BY InitWords
  <1> QED
    BY <1>4, <1>5, <1>6, <1>7, <1>8, InitGhosts, InitTree DEF Shape

(* The initial state satisfies the invariant.                              *)
LEMMA InitInv == Init => PageInv
  <1> SUFFICES ASSUME Init PROVE PageInv
    OBVIOUS
  <1>1. /\ free_head = NULL /\ free_count = 0 /\ held = {} /\ failed = FALSE /\ boot = 1
        /\ call = Idle /\ pc = "boot" /\ tlb = [va \in TlbPages |-> NULL]
    BY DEF Init, TlbPages
  <1>2. View = mem /\ Cur = NULL /\ Flushing = WIN /\ Done = 1
    BY <1>1, IdleFacts DEF View, Cur, Flushing, Done
  <1>3. Remembers(tlb, Lev0, Pt0, Pi0, WIN)
    BY <1>1 DEF Remembers
  <1>4. PcOK(Lev0, Pt0, Pi0) /\ boot \in 1 .. HUGES + 1
    BY <1>1, ParamFacts DEF PcOK
  <1>5. GhostInv(Lev0, Pt0, Pi0, [f \in Frames |-> 0], [n \in Nat |-> 0])
    BY <1>1, <1>2, <1>3, <1>4, InitShape, IdleFacts DEF GhostInv
  <1>6. mem \in Memory /\ call \in CallType
    BY <1>1, InitWords, IdleFacts
  <1> QED
    BY <1>1, <1>4, <1>5, <1>6 DEF PageInv

(* Nothing changes.                                                        *)
LEMMA StutterStep ==
    ASSUME PageInv, UNCHANGED vars
    PROVE  PageInv'
  <1>1. PICK lev, pt, pi, rank, q : GhostInv(lev, pt, pi, rank, q)
    BY DEF PageInv
  <1>2. /\ mem' = mem /\ free_head' = free_head /\ free_count' = free_count /\ tlb' = tlb
        /\ held' = held /\ failed' = failed /\ boot' = boot /\ call' = call /\ pc' = pc
    BY DEF vars
  <1>3. View' = View /\ Cur' = Cur /\ Flushing' = Flushing /\ Done' = Done
    BY <1>2 DEF View, Cur, Flushing, Done
  <1>6. PcOK(lev, pt, pi)
    BY <1>1 DEF GhostInv
  <1>7. /\ Mapping(lev, pt, pi)' = Mapping(lev, pt, pi) /\ Blank' = Blank /\ Unmapping' = Unmapping
        /\ Way(lev, pt, pi)' = Way(lev, pt, pi) /\ Stale' = Stale
    BY <1>2, Zenon DEF Mapping, Blank, Unmapping, Way, Stale
  <1>4. PcOK(lev, pt, pi)'
    BY <1>2, <1>6, <1>7 DEF PcOK
  <1>5. GhostInv(lev, pt, pi, rank, q)'
    BY <1>1, <1>2, <1>3, <1>4 DEF GhostInv
  <1> QED
    BY <1>2, <1>5 DEF PageInv

(* Every step preserves the invariant.                                     *)
LEMMA StepInv == PageInv /\ [Next]_vars => PageInv'
  <1> SUFFICES ASSUME PageInv, [Next]_vars PROVE PageInv'
    OBVIOUS
  <1>1. CASE Step
    <2>1. CASE unmap_leaf
      BY <2>1, LeafClient, LeafHuge
    <2> QED
      BY <1>1, <2>1, MapFrameStep, MapEntryStep, MapLeafStep, MapBackStep, UnmapWalkStep,
         UnmapTableStep, FlushStep, BootStep DEF Step
  <1>2. CASE mm_frame_alloc
    BY <1>2, AllocStep
  <1>3. CASE \E va \in VAs : use(va) \/ unmap_page(va) \/ \E pa \in held : mm_page_map(va, pa)
    BY <1>3, UseStep, UnmapStep, MapStep
  <1>4. CASE UNCHANGED vars
    BY <1>4, StutterStep
  <1> QED
    BY <1>1, <1>2, <1>3, <1>4 DEF Next

(* Every frame always has one role, the tables form a tree without         *)
(* sharing, free frames form one list, and a running mm_page_map or        *)
(* _unmap is at a table on the way of its page.                            *)
THEOREM PageInvariant == Spec => []PageInv
  BY InitInv, StepInv, PTL DEF Spec
-----------------------------------------------------------------------------
(* Between calls there is no stale entry, no spare frame and no table at   *)
(* work.                                                                   *)
RestShape(lev, pt, pi, rank, q) ==
    /\ Shape(mem, lev, pt, pi, rank, q, free_head, free_count, held, NULL, boot, failed, NULL)
    /\ Remembers(tlb, lev, pt, pi, WIN)

LEMMA Rest ==
    ASSUME PageInv, AtRest
    PROVE  /\ \E lev, pt, pi, rank, q : RestShape(lev, pt, pi, rank, q)
           /\ pc = "idle" => boot = HUGES + 1
  <1>1. PICK lev, pt, pi, rank, q : GhostInv(lev, pt, pi, rank, q)
    BY DEF PageInv
  <1>2. pc \in {"boot", "idle"}
    BY DEF AtRest
  <1>3. call = Idle /\ (pc = "idle" => boot = HUGES + 1)
    BY <1>1, <1>2 DEF GhostInv, PcOK
  <1>4. call.huge = FALSE /\ call.frame = NULL
    BY <1>3, IdleFacts
  <1>5. View = mem /\ Done = boot /\ Cur = NULL /\ Flushing = WIN
    BY <1>2, <1>4 DEF View, Done, Cur, Flushing
  <1>6. RestShape(lev, pt, pi, rank, q)
    BY <1>1, <1>4, <1>5 DEF GhostInv, RestShape
  <1> QED
    BY <1>3, <1>6

(* A failed assertion or a page fault of these functions ends in panic.    *)
NoPanic == pc # "panic"

(* No assertion of mm_page_map, _unmap and mm_page_direct_access_setup     *)
(* fails and no table access faults, whatever clients wrote into their     *)
(* pages.                                                                  *)
THEOREM PagingNeverPanics == Spec => []NoPanic
  <1>1. PageInv => NoPanic
    BY DEF PageInv, GhostInv, PcOK, NoPanic
  <1> QED
    BY <1>1, PageInvariant, PTL

(* At rest the invariant is about every page of the TLB.                   *)
LEMMA StaleInv == PageInv => NoStaleTranslation
  <1> SUFFICES ASSUME PageInv, AtRest
               PROVE  /\ mem[DT1][idx(WIN, 1)] = Zero /\ tlb[WIN] = NULL
                      /\ \A va \in DOMAIN tlb : tlb[va] # NULL => tlb[va] = Translate(va)
    BY DEF NoStaleTranslation
  <1>1. PICK lev, pt, pi, rank, q : RestShape(lev, pt, pi, rank, q)
    BY Rest
  <1>2. mem \in Memory /\ Ghosts(lev, pt, pi, rank, q) /\ Tree(mem, lev, pt, pi)
    BY <1>1 DEF RestShape, Shape
  <1>3. mem[DT1][idx(WIN, 1)] = Zero
    BY <1>2, WindowWay, IdxFacts, HighFacts
  <1>4. tlb \in [TlbPages -> Frames \cup {NULL}] /\ WIN \in TlbPages
    BY <1>1 DEF RestShape, Remembers, TlbPages
  <1>5. ASSUME NEW va \in TlbPages, tlb[va] # NULL
        PROVE  va \in VAs /\ tlb[va] = Translate(va)
    <2>1. va \in VAs /\ (va = WIN \/ (lev[tlb[va]] = 0 /\ On(lev, pt, pi, tlb[va], va)))
      BY <1>1, <1>5 DEF RestShape, Remembers
    <2>2. lev[tlb[va]] = 0 /\ On(lev, pt, pi, tlb[va], va) /\ tlb[va] \in Frames
      BY <1>4, <1>5, <2>1, ParamFacts
    <2>3. va \in High
      BY <2>1, HighFacts
    <2>4. TranslateIn(mem, va) = tlb[va]
      BY <1>2, <2>2, <2>3, WalkLeaf
    <2> QED
      BY <2>1, <2>4, PathIsIn
  <1>6. tlb[WIN] = NULL
    BY <1>4, <1>5, ParamFacts
  <1> QED
    BY <1>3, <1>4, <1>5, <1>6

(* Between calls the TLB remembers no page wrong and the window is         *)
(* closed: the flushes of _unmap and mm_page_direct_access_reset are       *)
(* enough.                                                                 *)
THEOREM TranslationsNeverStale == Spec => []NoStaleTranslation
  BY StaleInv, PageInvariant, PTL

-----------------------------------------------------------------------------
(* Counting with a function that pairs two sets off.                       *)
Pairs(f, S, T) ==
    /\ f \in [S -> T]
    /\ \A a, b \in S : f[a] = f[b] => a = b
    /\ \A t \in T : \E s \in S : f[s] = t

(* A bijection preserves cardinality.                                      *)
LEMMA PairsCount ==
    ASSUME NEW S, NEW T, NEW f, Pairs(f, S, T), IsFiniteSet(S)
    PROVE  IsFiniteSet(T) /\ Cardinality(T) = Cardinality(S)
  <1>1. f \in Bijection(S, T)
    BY DEF Pairs, Bijection, Injection, Surjection, IsInjective
  <1>2. ExistsBijection(S, T)
    BY <1>1 DEF ExistsBijection
  <1> QED
    BY <1>2, FS_Bijection

LEMMA FramesFinite == \A S \in SUBSET Frames : IsFiniteSet(S) /\ Cardinality(S) \in Nat
  <1> SUFFICES ASSUME NEW S \in SUBSET Frames PROVE IsFiniteSet(S)
    BY FS_CardinalityType
  <1>1. DT1 \in Int /\ 1 \in Int /\ S \subseteq 1 .. DT1
    BY FrameFacts
  <1> QED
    BY <1>1, FS_Interval, FS_Subset

(* The frames of a role.                                                   *)
OfRole(lev, r) == {f \in Frames : lev[f] = r}

(* The free frames are counted by their places in the list.                *)
LEMMA FreeCounted ==
    ASSUME NEW m, NEW lev, NEW rank, NEW q, NEW head, NEW count,
           List(m, lev, rank, q, head, count)
    PROVE  count = Cardinality(OfRole(lev, FREE))
  <1> DEFINE f == [n \in 1 .. count |-> q[n]]
  <1>1. count \in Nat
    BY DEF List
  <1>2. \A n \in 1 .. count : q[n] \in OfRole(lev, FREE) /\ rank[q[n]] = n
    BY DEF List, OfRole
  <1>3. f \in [1 .. count -> OfRole(lev, FREE)]
    BY <1>2
  <1>4. \A a, b \in 1 .. count : f[a] = f[b] => a = b
    BY <1>2
  <1>5. ASSUME NEW g \in OfRole(lev, FREE) PROVE \E n \in 1 .. count : f[n] = g
    <2>1. rank[g] \in 1 .. count /\ q[rank[g]] = g
      BY DEF List, OfRole
    <2> QED
      BY <2>1
  <1>6. Pairs(f, 1 .. count, OfRole(lev, FREE))
    BY <1>3, <1>4, <1>5 DEF Pairs
  <1>7. IsFiniteSet(1 .. count) /\ Cardinality(1 .. count) = count
    BY <1>1, FS_Interval
  <1> HIDE DEF f
  <1> QED
    BY <1>6, <1>7, PairsCount

(* The kernel's own tables are tables.                                     *)
LEMMA KernelRoles ==
    ASSUME NEW m, NEW lev, NEW pt, NEW pi, Tree(m, lev, pt, pi), NEW f \in Frames,
           lev[f] \notin 1 .. 4
    PROVE  f \in Ram \cup Early
  <1>1. lev[ROOT] = 4 /\ lev[EARLY3] = 3 /\ lev[DT3] = 3 /\ lev[DT2] = 2 /\ lev[DT1] = 1
    BY FrameFacts DEF Tree, Frame0
  <1>2. f \notin Kernel
    BY <1>1, FrameFacts
  <1> QED
    BY <1>2, FrameFacts

(* The types follow from the invariant, the count from that of the free    *)
(* frames.                                                                 *)
LEMMA TypeInv == PageInv => TypeOK
  <1> SUFFICES ASSUME PageInv PROVE TypeOK
    OBVIOUS
  <1>1. PICK lev, pt, pi, rank, q : GhostInv(lev, pt, pi, rank, q)
    BY DEF PageInv
  <1>2. /\ View \in Memory /\ Ghosts(lev, pt, pi, rank, q) /\ Tree(View, lev, pt, pi)
        /\ List(View, lev, rank, q, free_head, free_count)
        /\ Roles(lev, held, call.frame, Done)
    BY <1>1 DEF GhostInv, Shape
  <1>3. free_head \in Frames \cup {NULL} /\ free_count \in Nat
    BY <1>2, ListHead
  <1>4. free_count \in 0 .. Cardinality(Ram \cup Early)
    <2>1. OfRole(lev, FREE) \in SUBSET (Ram \cup Early)
      <3>1. ASSUME NEW f \in Frames, lev[f] = FREE PROVE f \in Ram \cup Early
        <4>1. lev[f] \notin 1 .. 4
          BY <3>1 DEF FREE
        <4> QED
          BY <1>2, <4>1, KernelRoles
      <3> QED
        BY <3>1 DEF OfRole
    <2>2. IsFiniteSet(Ram \cup Early) /\ Cardinality(Ram \cup Early) \in Nat
      BY FrameFacts, FramesFinite
    <2>3. Cardinality(OfRole(lev, FREE)) <= Cardinality(Ram \cup Early)
      BY <2>1, <2>2, FS_Subset
    <2>4. free_count = Cardinality(OfRole(lev, FREE))
      BY <1>2, FreeCounted
    <2> QED
      BY <1>3, <2>2, <2>3, <2>4
  <1>5. \A va \in DOMAIN tlb : tlb[va] \in Frames \cup {NULL}
    BY <1>1 DEF GhostInv, Remembers
  <1>6. held \subseteq Ram \cup Early
    <2> SUFFICES ASSUME NEW f \in held PROVE f \in Ram \cup Early
      OBVIOUS
    <2>1. f \in Frames
      BY DEF PageInv
    <2>2. lev[f] = HELD
      BY <1>2, <2>1 DEF Roles
    <2>3. lev[f] \notin 1 .. 4
      BY <2>2 DEF HELD
    <2> QED
      BY <1>2, <2>1, <2>3, KernelRoles
  <1>7. mem \in Memory /\ boot \in 1 .. HUGES + 1 /\ call.frame \in Frames \cup {NULL}
    BY DEF PageInv, CallType
  <1> QED
    BY <1>3, <1>4, <1>5, <1>6, <1>7 DEF TypeOK, Memory

(* Type correctness of the paging state.                                   *)
THEOREM PagingTypes == Spec => []TypeOK
  BY TypeInv, PageInvariant, PTL

-----------------------------------------------------------------------------
(* Following the links from the head passes the free list, then NULL.      *)
LEMMA FreeWalk ==
    ASSUME NEW lev, NEW pt, NEW pi, NEW rank, NEW q, mem \in Memory,
           Ghosts(lev, pt, pi, rank, q), List(mem, lev, rank, q, free_head, free_count)
    PROVE  /\ free_count = Cardinality(FreeLinks)
           /\ Free = OfRole(lev, FREE)
  <1> DEFINE N == Cardinality(Frames)
             c == free_count
             Def(f) == f = [n \in 0 .. N |-> IF n = 0 THEN free_head
                                ELSE IF f[n - 1] \in Frames THEN mem[f[n - 1]][0].pa ELSE NULL]
             s == [n \in 0 .. N |-> IF n < c THEN q[c - n] ELSE NULL]
  <1>1. N \in Nat /\ c \in Nat /\ c <= N
    <2>1. OfRole(lev, FREE) \in SUBSET Frames
      BY DEF OfRole
    <2>2. IsFiniteSet(Frames) /\ N \in Nat
      BY FramesFinite
    <2>3. c = Cardinality(OfRole(lev, FREE))
      BY FreeCounted
    <2>4. Cardinality(OfRole(lev, FREE)) <= N
      BY <2>1, <2>2, FS_Subset
    <2>5. c \in Nat
      BY DEF List
    <2> QED
      BY <2>2, <2>3, <2>4, <2>5
  <1>2. free_head = q[c] /\ q[0] = NULL
    BY DEF List
  <1>3. ASSUME NEW n \in 1 .. c
        PROVE  q[n] \in Frames /\ mem[q[n]][0].pa = q[n - 1] /\ rank[q[n]] = n /\ lev[q[n]] = FREE
    <2>1. q[n] \in Frames /\ mem[q[n]][0] = link(q[n - 1]) /\ rank[q[n]] = n /\ lev[q[n]] = FREE
      BY DEF List
    <2>2. n - 1 \in Nat
      BY <1>1
    <2>3. q[n - 1] \in 0 .. DT1
      BY <2>2 DEF Ghosts
    <2>4. link(q[n - 1]).pa = q[n - 1]
      BY <2>3, WordFacts
    <2> QED
      BY <2>1, <2>4
  <1>4. NULL \notin Frames
    BY FrameFacts
  (* What each link leads to. *)
  <1>5. ASSUME NEW n \in 1 .. N
        PROVE  s[n] = IF s[n - 1] \in Frames THEN mem[s[n - 1]][0].pa ELSE NULL
    <2>1. n - 1 \in 0 .. N /\ n \in 0 .. N
      BY <1>1
    <2>2. s[n] = (IF n < c THEN q[c - n] ELSE NULL) /\ s[n - 1] = (IF n - 1 < c THEN q[c - (n - 1)] ELSE NULL)
      BY <2>1
    <2> HIDE DEF s
    <2>3. CASE n - 1 < c
      <3>1. c - (n - 1) \in 1 .. c /\ (c - (n - 1)) - 1 = c - n
        BY <1>1, <2>3
      <3>2. s[n - 1] \in Frames /\ mem[s[n - 1]][0].pa = q[c - n]
        BY <1>3, <2>2, <2>3, <3>1
      <3>3. s[n] = q[c - n]
        BY <1>1, <1>2, <2>2, <2>3
      <3> QED
        BY <3>2, <3>3
    <2>4. CASE ~(n - 1 < c)
      BY <1>1, <1>4, <2>2, <2>4
    <2> QED
      BY <2>3, <2>4
  <1>6. s[0] = free_head
    BY <1>1, <1>2
  <1>7. Def(s)
    <2>1. \A n \in 0 .. N : s[n] = IF n = 0 THEN free_head
                                ELSE IF s[n - 1] \in Frames THEN mem[s[n - 1]][0].pa ELSE NULL
      <3> TAKE n \in 0 .. N
      <3>1. n = 0 \/ n \in 1 .. N
        BY <1>1
      <3> HIDE DEF s
      <3> QED
        BY <1>5, <1>6, <3>1
    <2>2. DOMAIN s = 0 .. N /\ s = [n \in 0 .. N |-> s[n]]
      OBVIOUS
    <2> HIDE DEF s
    <2> QED
      BY <2>1, <2>2, Zenon
  <1> DEFINE g == CHOOSE h : Def(h)
  <1>8. Def(g)
    <2> HIDE DEF s
    <2> QED
      BY <1>7
  <1>9. FreeAt = g
    BY DEF FreeAt
  <1> HIDE DEF g
  <1>10. DOMAIN g = 0 .. N
    BY <1>8
  <1>11. ASSUME NEW n \in 0 .. N
         PROVE  g[n] = IF n = 0 THEN free_head
                       ELSE IF g[n - 1] \in Frames THEN mem[g[n - 1]][0].pa ELSE NULL
    BY <1>8, Zenon
  <1> DEFINE S == {k \in Nat : k <= N => g[k] = s[k]}
  <1>12. \A k \in Nat : k \in S
    <2>1. 0 \in S
      <3>1. 0 \in 0 .. N
        BY <1>1
      <3>2. g[0] = free_head
        BY <3>1, <1>11
      <3> QED
        BY <1>6, <3>2
    <2>2. ASSUME NEW k \in Nat, k \in S PROVE k + 1 \in S
      <3> SUFFICES ASSUME k + 1 <= N PROVE g[k + 1] = s[k + 1]
        OBVIOUS
      <3>1. k + 1 \in 1 .. N /\ k + 1 \in 0 .. N /\ (k + 1) - 1 = k /\ k + 1 # 0
        BY <1>1
      <3>2. g[k] = s[k]
        BY <2>2, <1>1
      <3> HIDE DEF s
      <3>3. s[k + 1] = IF s[k] \in Frames THEN mem[s[k]][0].pa ELSE NULL
        BY <1>5, <3>1
      <3>4. g[k + 1] = IF g[k] \in Frames THEN mem[g[k]][0].pa ELSE NULL
        BY <1>11, <3>1
      <3> QED
        BY <3>2, <3>3, <3>4
    <2> HIDE DEF S
    <2> QED
      BY <2>1, <2>2, SetInduction
  <1>13. \A n \in 0 .. N : g[n] = IF n < c THEN q[c - n] ELSE NULL
    <2> TAKE n \in 0 .. N
    <2>1. n \in Nat /\ n <= N
      BY <1>1
    <2>2. n \in S
      BY <2>1, <1>12
    <2>3. g[n] = s[n]
      BY <2>1, <2>2
    <2>4. s[n] = IF n < c THEN q[c - n] ELSE NULL
      OBVIOUS
    <2> QED
      BY <2>3, <2>4
  <1> HIDE DEF S, s
  <1>14. ASSUME NEW n \in 0 .. N, n < c PROVE c - n \in 1 .. c /\ g[n] = q[c - n] /\ g[n] \in Frames /\ lev[g[n]] = FREE
    <2>1. c - n \in 1 .. c
      BY <1>1, <1>14
    <2>2. g[n] = q[c - n]
      BY <1>13, <1>14
    <2> QED
      BY <1>3, <2>1, <2>2
  <1>15. FreeLinks = 0 .. c - 1
    <2>1. FreeLinks = {n \in 0 .. N : g[n] # NULL}
      BY <1>9, <1>10 DEF FreeLinks
    <2>2. \A n \in 0 .. N : g[n] # NULL <=> n < c
      BY <1>4, <1>13, <1>14
    <2>3. \A n : n \in 0 .. c - 1 <=> n \in 0 .. N /\ n < c
      BY <1>1
    <2> QED
      BY <2>1, <2>2, <2>3
  <1>16. Cardinality(FreeLinks) = c
    <2>1. 0 \in Int /\ c - 1 \in Int
      BY <1>1
    <2>2. Cardinality(0 .. c - 1) = IF 0 > c - 1 THEN 0 ELSE (c - 1) - 0 + 1
      BY <2>1, FS_Interval
    <2> QED
      BY <1>1, <1>15, <2>2
  <1>17. Free = OfRole(lev, FREE)
    <2>1. Free = {g[n] : n \in 0 .. N} \ {NULL}
      BY <1>9, <1>10 DEF Free
    <2>2. ASSUME NEW f \in Free PROVE f \in OfRole(lev, FREE)
      <3>1. PICK n \in 0 .. N : f = g[n] /\ f # NULL
        BY <2>1
      <3>2. n < c
        BY <1>13, <3>1
      <3> QED
        BY <1>14, <3>1, <3>2 DEF OfRole
    <2>3. ASSUME NEW f \in OfRole(lev, FREE) PROVE f \in Free
      <3>1. f \in Frames /\ rank[f] \in 1 .. c /\ q[rank[f]] = f
        BY DEF OfRole, List
      <3>2. c - rank[f] \in 0 .. N /\ c - rank[f] < c /\ c - (c - rank[f]) = rank[f]
        BY <1>1, <3>1
      <3>3. g[c - rank[f]] = f
        BY <1>13, <3>1, <3>2
      <3> QED
        BY <1>4, <2>1, <3>1, <3>2, <3>3
    <2> QED
      BY <2>2, <2>3
  <1> QED
    BY <1>16, <1>17

-----------------------------------------------------------------------------
(* The frames of the levels in A.                                          *)
Level(lev, A) == {f \in Frames : lev[f] \in A}

(* An entry of an upper table leads to the frame that has it.              *)
LEMMA LeadsDown ==
    ASSUME NEW m \in Memory, NEW lev, NEW pt, NEW pi, Tree(m, lev, pt, pi),
           NEW t \in Frames, NEW i \in Idx, lev[t] \in 2 .. 4, Leads[m[t][i]] # NULL
    PROVE  LET g == Leads[m[t][i]]
           IN  g \in Frames /\ lev[g] = lev[t] - 1 /\ pt[g] = t /\ pi[g] = i
  <1>1. Entry(m[t][i], t, i, lev, pt, pi)
    BY DEF Tree, Down
  <1>2. m[t][i] \in Word
    BY DEF Memory
  <1>3. Leads[Zero] = NULL
    BY WordFacts
  <1>4. m[t][i] # Zero
    BY <1>3
  <1>5. ~(m[t][i].present /\ m[t][i].huge)
    BY <1>2 DEF Leads
  <1>6. m[t][i].pa \in Frames /\ m[t][i] = tab_entry(m[t][i].pa) /\ lev[m[t][i].pa] = lev[t] - 1
        /\ pt[m[t][i].pa] = t /\ pi[m[t][i].pa] = i
    BY <1>1, <1>4, <1>5 DEF Entry
  <1>7. Leads[m[t][i]] = m[t][i].pa
    BY <1>6, WordFacts
  <1> QED
    BY <1>6, <1>7

(* Every table but the root is led to by an entry.                         *)
LEMMA LeadsUp ==
    ASSUME NEW m, NEW lev, NEW pt, NEW pi, NEW rank, NEW q, Ghosts(lev, pt, pi, rank, q),
           Tree(m, lev, pt, pi), NEW f \in Frames, lev[f] \in 0 .. 3
    PROVE  /\ pt[f] \in Frames /\ pi[f] \in Idx /\ lev[pt[f]] = lev[f] + 1
           /\ Leads[m[pt[f]][pi[f]]] = f
  <1>1. pt[f] \in Frames /\ pi[f] \in Idx
    BY DEF Ghosts
  <1>2. lev[pt[f]] = lev[f] + 1 /\ m[pt[f]][pi[f]] = tab_entry(f)
    BY DEF Tree, Up
  <1>3. Leads[tab_entry(f)] = f
    BY WordFacts
  <1> QED
    BY <1>1, <1>2, <1>3

(* The children of the tables of a level are the tables of the next.       *)
LEMMA ChildrenLevel ==
    ASSUME NEW lev, NEW pt, NEW pi, NEW rank, NEW q, Ghosts(lev, pt, pi, rank, q),
           mem \in Memory, Tree(mem, lev, pt, pi), NEW A \in SUBSET (2 .. 4),
           NEW B \in SUBSET (1 .. 3), \A l \in 1 .. 3 : l \in B <=> l + 1 \in A
    PROVE  Children(Level(lev, A)) = Level(lev, B)
  <1>1. \A f \in Frames : lev[f] \in -4 .. 4
    BY DEF Ghosts
  <1>2. ASSUME NEW g \in Children(Level(lev, A)) PROVE g \in Level(lev, B)
    <2>1. PICK t \in Level(lev, A), i \in Idx : g = Leads[mem[t][i]] /\ g # NULL
      BY DEF Children
    <2>2. t \in Frames /\ lev[t] \in A /\ lev[t] \in 2 .. 4
      BY DEF Level
    <2>3. g \in Frames /\ lev[g] = lev[t] - 1
      BY <2>1, <2>2, LeadsDown
    <2>4. lev[g] \in 1 .. 3 /\ lev[g] + 1 = lev[t]
      BY <2>2, <2>3
    <2> QED
      BY <2>2, <2>3, <2>4 DEF Level
  <1>3. ASSUME NEW g \in Level(lev, B) PROVE g \in Children(Level(lev, A))
    <2>5. g \in Frames /\ lev[g] \in B
      BY DEF Level
    <2>6. lev[g] \in 1 .. 3
      BY <2>5
    <2>1. g \in Frames /\ lev[g] \in B /\ lev[g] \in 1 .. 3 /\ lev[g] \in 0 .. 3
      BY <2>5, <2>6
    <2>2. pt[g] \in Frames /\ pi[g] \in Idx /\ lev[pt[g]] = lev[g] + 1 /\ Leads[mem[pt[g]][pi[g]]] = g
      BY <2>1, LeadsUp
    <2>3. pt[g] \in Level(lev, A)
      BY <2>1, <2>2 DEF Level
    <2>4. g # NULL
      BY <2>1, FrameFacts
    <2> QED
      BY <2>2, <2>3, <2>4 DEF Children
  <1> QED
    BY <1>2, <1>3

(* The tables of the tree, by following the entries from the root.         *)
LEMMA TablesLevel ==
    ASSUME NEW lev, NEW pt, NEW pi, NEW rank, NEW q, Ghosts(lev, pt, pi, rank, q),
           mem \in Memory, Tree(mem, lev, pt, pi)
    PROVE  UpperTables = Level(lev, 2 .. 4) /\ Tables = Level(lev, 1 .. 4)
  <1>1. \A f \in Frames : lev[f] \in -4 .. 4
    BY DEF Ghosts
  <1>2. {ROOT} = Level(lev, {4})
    BY FrameFacts DEF Tree, Frame0, Level
  <1>3. Children(Level(lev, {4})) = Level(lev, {3})
    <2>1. {4} \in SUBSET (2 .. 4) /\ {3} \in SUBSET (1 .. 3) /\ \A l \in 1 .. 3 : l \in {3} <=> l + 1 \in {4}
      OBVIOUS
    <2> QED
      BY <2>1, ChildrenLevel
  <1>4. Children(Level(lev, {3})) = Level(lev, {2})
    <2>1. {3} \in SUBSET (2 .. 4) /\ {2} \in SUBSET (1 .. 3) /\ \A l \in 1 .. 3 : l \in {2} <=> l + 1 \in {3}
      OBVIOUS
    <2> QED
      BY <2>1, ChildrenLevel
  <1>5. UpperTables = Level(lev, 2 .. 4)
    <2>1. UpperTables = Level(lev, {4}) \cup Level(lev, {3}) \cup Level(lev, {2})
      BY <1>2, <1>3, <1>4 DEF UpperTables
    <2>2. Level(lev, {4}) \cup Level(lev, {3}) \cup Level(lev, {2}) = Level(lev, 2 .. 4)
      BY <1>1 DEF Level
    <2> QED
      BY <2>1, <2>2
  <1>6. Children(Level(lev, 2 .. 4)) = Level(lev, 1 .. 3)
    <2>1. 2 .. 4 \in SUBSET (2 .. 4) /\ 1 .. 3 \in SUBSET (1 .. 3) /\ \A l \in 1 .. 3 : l \in 1 .. 3 <=> l + 1 \in 2 .. 4
      OBVIOUS
    <2> QED
      BY <2>1, ChildrenLevel
  <1>7. Tables = Level(lev, 2 .. 4) \cup Level(lev, 1 .. 3)
    BY <1>5, <1>6 DEF Tables
  <1>8. Level(lev, 2 .. 4) \cup Level(lev, 1 .. 3) = Level(lev, 1 .. 4)
    BY <1>1 DEF Level
  <1> QED
    BY <1>5, <1>7, <1>8

(* Every table but the root has one entry.                                 *)
LEMMA OneEntry ==
    ASSUME NEW lev, NEW pt, NEW pi, NEW rank, NEW q, Ghosts(lev, pt, pi, rank, q),
           mem \in Memory, Tree(mem, lev, pt, pi)
    PROVE  Cardinality({e \in UpperTables \X Idx : Leads[mem[e[1]][e[2]]] # NULL})
              = Cardinality(Tables \ {ROOT})
  <1> DEFINE E == {e \in UpperTables \X Idx : Leads[mem[e[1]][e[2]]] # NULL}
             T == Level(lev, 1 .. 3)
             h == [f \in T |-> <<pt[f], pi[f]>>]
  <1>1. UpperTables = Level(lev, 2 .. 4) /\ Tables = Level(lev, 1 .. 4)
    BY TablesLevel
  <1>2. Tables \ {ROOT} = T
    BY <1>1, FrameFacts DEF Level, Tree, Frame0
  <1>3. ASSUME NEW f \in T
        PROVE  /\ f \in Frames /\ pt[f] \in UpperTables /\ pi[f] \in Idx
               /\ Leads[mem[pt[f]][pi[f]]] = f /\ f # NULL
    <2>1. f \in Frames /\ lev[f] \in 1 .. 3 /\ lev[f] \in 0 .. 3
      BY DEF Level
    <2>2. pt[f] \in Frames /\ pi[f] \in Idx /\ lev[pt[f]] = lev[f] + 1 /\ Leads[mem[pt[f]][pi[f]]] = f
      BY <2>1, LeadsUp
    <2>3. pt[f] \in Level(lev, 2 .. 4)
      BY <2>1, <2>2 DEF Level
    <2> QED
      BY <1>1, <2>1, <2>2, <2>3, FrameFacts
  <1>4. h \in [T -> E]
    <2>1. ASSUME NEW f \in T PROVE <<pt[f], pi[f]>> \in E
      BY <1>3
    <2> QED
      BY <2>1
  <1>5. ASSUME NEW a \in T, NEW b \in T, h[a] = h[b] PROVE a = b
    <2>1. pt[a] = pt[b] /\ pi[a] = pi[b]
      BY <1>5
    <2> QED
      BY <1>3, <2>1
  <1>6. ASSUME NEW e \in E PROVE \E f \in T : h[f] = e
    <2>1. e \in UpperTables \X Idx /\ Leads[mem[e[1]][e[2]]] # NULL
      OBVIOUS
    <2>2. e[1] \in Level(lev, 2 .. 4) /\ e[2] \in Idx /\ e = <<e[1], e[2]>>
      BY <1>1, <2>1
    <2>3. e[1] \in Frames /\ lev[e[1]] \in 2 .. 4
      BY <2>2 DEF Level
    <2> DEFINE g == Leads[mem[e[1]][e[2]]]
    <2>4. g \in Frames /\ lev[g] = lev[e[1]] - 1 /\ pt[g] = e[1] /\ pi[g] = e[2]
      BY <2>1, <2>2, <2>3, LeadsDown
    <2>5. g \in T
      BY <2>3, <2>4 DEF Level
    <2> HIDE DEF g
    <2>6. h[g] = <<pt[g], pi[g]>>
      BY <2>5
    <2> QED
      BY <2>2, <2>4, <2>5, <2>6
  <1>7. Pairs(h, T, E)
    BY <1>4, <1>5, <1>6 DEF Pairs
  <1>8. IsFiniteSet(T)
    BY FramesFinite DEF Level
  <1> HIDE DEF h, T, E
  <1>9. Cardinality(E) = Cardinality(T)
    BY <1>7, <1>8, PairsCount
  <1> QED
    BY <1>2, <1>9 DEF E

(* The frames behind client pages.                                         *)
LEMMA MappedLevel ==
    ASSUME NEW lev, NEW pt, NEW pi, NEW rank, NEW q, Ghosts(lev, pt, pi, rank, q),
           mem \in Memory, Tree(mem, lev, pt, pi)
    PROVE  Mapped = OfRole(lev, 0)
  <1>1. ASSUME NEW va \in VAs
        PROVE  /\ Translate(va) # NULL => Translate(va) \in Frames /\ lev[Translate(va)] = 0
               /\ \A g \in Frames : lev[g] = 0 /\ On(lev, pt, pi, g, va) => Translate(va) = g
    <2>1. va \in High
      BY HighFacts
    <2> QED
      BY <2>1, WalkLeaf, PathIsIn
  <1>2. ASSUME NEW g \in OfRole(lev, 0) PROVE g \in Mapped
    <2>1. g \in Frames /\ lev[g] = 0 /\ g # NULL
      BY FrameFacts DEF OfRole
    <2>2. PICK va \in VAs : On(lev, pt, pi, g, va)
      BY <2>1 DEF Tree, Frame0
    <2>3. Translate(va) = g
      BY <1>1, <2>1, <2>2
    <2> QED
      BY <2>1, <2>3 DEF Mapped
  <1>3. ASSUME NEW g \in Mapped PROVE g \in OfRole(lev, 0)
    BY <1>1 DEF Mapped, OfRole
  <1> QED
    BY <1>2, <1>3

(* The sets of the property are the frames of each role.                   *)
LEMMA AccountedInv == PageInv => FramesAccounted
  <1> SUFFICES ASSUME PageInv, AtRest PROVE FramesAccounted
    BY DEF FramesAccounted
  <1>1. PICK lev, pt, pi, rank, q : RestShape(lev, pt, pi, rank, q)
    BY Rest
  <1>2. /\ mem \in Memory /\ Ghosts(lev, pt, pi, rank, q) /\ Tree(mem, lev, pt, pi)
        /\ List(mem, lev, rank, q, free_head, free_count) /\ Roles(lev, held, NULL, boot)
    BY <1>1 DEF RestShape, Shape
  <1>3. free_count = Cardinality(FreeLinks) /\ Free = OfRole(lev, FREE)
    BY <1>2, FreeWalk
  <1>4. free_count = Cardinality(Free)
    BY <1>2, <1>3, FreeCounted
  <1>5. Tables = Level(lev, 1 .. 4)
    BY <1>2, TablesLevel
  <1>6. Mapped = OfRole(lev, 0)
    BY <1>2, MappedLevel
  <1>7. held = OfRole(lev, HELD)
    <2>1. held \subseteq Frames
      BY DEF PageInv
    <2> QED
      BY <1>2, <2>1 DEF Roles, OfRole
  <1>8. Free \cap (Tables \cup Mapped \cup held) = {}
    BY <1>3, <1>5, <1>6, <1>7 DEF OfRole, Level, FREE, HELD
  <1>9. Tables \cap (Mapped \cup held) = {}
    BY <1>5, <1>6, <1>7 DEF OfRole, Level, HELD
  <1>10. Mapped \cap held = {}
    BY <1>6, <1>7 DEF OfRole, HELD
  <1>11. Kernel \subseteq Tables
    <2>1. lev[ROOT] = 4 /\ lev[EARLY3] = 3 /\ lev[DT3] = 3 /\ lev[DT2] = 2 /\ lev[DT1] = 1
      BY <1>2, FrameFacts DEF Tree, Frame0
    <2> QED
      BY <1>5, <2>1, FrameFacts DEF Level
  <1>12. ASSUME NEW va \in VAs, NEW vb \in VAs, Translate(va) # NULL, va # vb
         PROVE  Translate(va) # Translate(vb)
    <2> SUFFICES ASSUME Translate(va) = Translate(vb) PROVE FALSE
      OBVIOUS
    <2>1. va \in High /\ vb \in High
      BY HighFacts
    <2> DEFINE f == Translate(va)
    <2>2. f \in Frames /\ lev[f] = 0 /\ On(lev, pt, pi, f, va)
      BY <1>2, <1>12, <2>1, WalkLeaf, PathIsIn
    <2>3. On(lev, pt, pi, f, vb)
      BY <1>2, <1>12, <2>1, WalkLeaf, PathIsIn
    <2> HIDE DEF f
    <2>4. va = vb
      BY <2>2, <2>3, OnePage
    <2> QED
      BY <1>12, <2>4
  <1>13. Cardinality({e \in UpperTables \X Idx : Leads[mem[e[1]][e[2]]] # NULL})
              = Cardinality(Tables \ {ROOT})
    BY <1>2, OneEntry
  <1> QED
    BY <1>3, <1>4, <1>8, <1>9, <1>10, <1>11, <1>12, <1>13 DEF FramesAccounted

(* Between calls no frame has two roles: mm_frame_alloc never hands out a  *)
(* frame that is a table, mapped or held, and _unmap frees each table      *)
(* once.                                                                   *)
THEOREM FramesHaveOneRole == Spec => []FramesAccounted
  BY AccountedInv, PageInvariant, PTL

-----------------------------------------------------------------------------
(* The frames that mm_page_bootstrap frees.                                *)
Freed == {f \in Ram : f \div FAN \in FreedHuges}

(* Each freed huge page has FAN frames.                                    *)
LEMMA FreedCount ==
    /\ IsFiniteSet(Freed) /\ Cardinality(Freed) = FAN * Cardinality(FreedHuges)
    /\ Freed \subseteq Frames /\ FAN * Cardinality(FreedHuges) \in Nat
  <1> DEFINE P == FreedHuges \X Idx
             h == [e \in P |-> e[1] * FAN + e[2]]
  <1>1. \A e \in P : e[1] \in FreedHuges /\ e[2] \in Idx /\ e = <<e[1], e[2]>>
    OBVIOUS
  <1>2. ASSUME NEW p \in FreedHuges
        PROVE  p \in 0 .. HUGES - 1 /\ p > 0 /\ p \in Nat
    BY ParamFacts
  <1>3. ASSUME NEW p \in FreedHuges, NEW j \in Idx
        PROVE  /\ p * FAN + j \in Freed /\ (p * FAN + j) \div FAN = p /\ (p * FAN + j) % FAN = j
    <2>1. p * FAN + j \in Ram /\ (p * FAN + j) \div FAN = p
      BY <1>2, HugeFrames
    <2>2. p \in Nat /\ j \in 0 .. FAN - 1 /\ FAN \in Nat /\ FAN > 0
      BY <1>2, ParamFacts DEF Idx
    <2>3. (p * FAN + j) % FAN = j
      BY <2>2, DivUnique
    <2> QED
      BY <2>1, <2>3 DEF Freed
  <1>4. h \in [P -> Freed]
    BY <1>1, <1>3
  <1>5. ASSUME NEW a \in P, NEW b \in P, h[a] = h[b] PROVE a = b
    <2>1. a[1] * FAN + a[2] = b[1] * FAN + b[2]
      BY <1>5
    <2>2. a[1] = b[1] /\ a[2] = b[2]
      BY <1>1, <1>3, <2>1
    <2> QED
      BY <1>1, <2>2
  <1>6. ASSUME NEW f \in Freed PROVE \E e \in P : h[e] = f
    <2>1. f \in Ram /\ f \div FAN \in FreedHuges
      BY DEF Freed
    <2>2. f % FAN \in Idx /\ f = (f \div FAN) * FAN + (f % FAN)
      BY <2>1, RamHuge
    <2> DEFINE d == f \div FAN
               r == f % FAN
    <2>3. d \in FreedHuges /\ r \in Idx /\ f = d * FAN + r
      BY <2>1, <2>2
    <2> HIDE DEF d, r
    <2>4. <<d, r>> \in P
      BY <2>3
    <2>5. h[<<d, r>>] = d * FAN + r
      BY <2>4
    <2> QED
      BY <2>3, <2>4, <2>5
  <1>7. Pairs(h, P, Freed)
    BY <1>4, <1>5, <1>6 DEF Pairs
  <1>8. IsFiniteSet(FreedHuges) /\ Cardinality(FreedHuges) \in Nat
    <2>1. 1 \in Int /\ HUGES - 1 \in Int /\ FreedHuges \in SUBSET (1 .. HUGES - 1)
      BY ParamFacts
    <2>2. IsFiniteSet(FreedHuges)
      BY <2>1, FS_Interval, FS_Subset
    <2> QED
      BY <2>2, FS_CardinalityType
  <1>9. IsFiniteSet(Idx) /\ Cardinality(Idx) = FAN
    <2>1. 0 \in Int /\ FAN - 1 \in Int
      BY ParamFacts
    <2>2. IsFiniteSet(0 .. FAN - 1) /\ Cardinality(0 .. FAN - 1) = IF 0 > FAN - 1 THEN 0 ELSE (FAN - 1) - 0 + 1
      BY <2>1, FS_Interval
    <2> QED
      BY <2>2, ParamFacts DEF Idx
  <1>10. IsFiniteSet(P) /\ Cardinality(P) = Cardinality(FreedHuges) * Cardinality(Idx)
    BY <1>8, <1>9, FS_Product
  <1> HIDE DEF h, P
  <1>11. IsFiniteSet(Freed) /\ Cardinality(Freed) = Cardinality(P)
    BY <1>7, <1>10, PairsCount
  <1>12. Cardinality(FreedHuges) * FAN = FAN * Cardinality(FreedHuges) /\ FAN * Cardinality(FreedHuges) \in Nat
    BY <1>8, ParamFacts
  <1>13. Freed \subseteq Frames
    BY FrameFacts DEF Freed
  <1> QED
    BY <1>9, <1>10, <1>11, <1>12, <1>13

(* After bootstrap the frames outside the kernel's tables and not given    *)
(* back are just those the paging code manages.                            *)
LEMMA ManagedFrames ==
    ASSUME NEW m, NEW lev, NEW pt, NEW pi, NEW rank, NEW q, NEW hd, Ghosts(lev, pt, pi, rank, q),
           Tree(m, lev, pt, pi), Roles(lev, hd, NULL, HUGES + 1)
    PROVE  OfRole(lev, FREE) \cup OfRole(lev, 0) \cup OfRole(lev, HELD) \cup (Level(lev, 1 .. 4) \ Kernel)
              = Early \cup Freed
  <1> DEFINE L == OfRole(lev, FREE) \cup OfRole(lev, 0) \cup OfRole(lev, HELD) \cup (Level(lev, 1 .. 4) \ Kernel)
  <1>1. \A f \in Frames : lev[f] \in -4 .. 4
    BY DEF Ghosts
  <1>2. \A f \in Frames : lev[f] # SPARE
    BY FrameFacts DEF Roles
  <1>3. \A f \in Frames : lev[f] \notin 1 .. 4 => f \notin Kernel
    BY KernelRoles, FrameFacts
  <1>4. ASSUME NEW f \in Frames PROVE f \in L <=> lev[f] # OUT /\ f \notin Kernel
    BY <1>1, <1>2, <1>3 DEF OfRole, Level, FREE, HELD, SPARE, OUT
  <1>5. ASSUME NEW f \in Frames PROVE f \in Early \cup Freed <=> lev[f] # OUT /\ f \notin Kernel
    <2>1. lev[f] = OUT <=> f \in Ram /\ (f \div FAN \notin FreedHuges \/ f \div FAN >= HUGES + 1)
      BY DEF Roles
    <2>2. f \in Ram => f \div FAN \in 1 .. HUGES - 1
      BY RamHuge
    <2>3. f \in Ram => ~(f \div FAN >= HUGES + 1)
      BY <2>2, ParamFacts
    <2>4. lev[f] = OUT <=> f \in Ram /\ f \div FAN \notin FreedHuges
      BY <2>1, <2>3
    <2> QED
      BY <2>4, FrameFacts DEF Freed
  <1>6. L \subseteq Frames /\ Early \cup Freed \subseteq Frames
    BY FrameFacts DEF OfRole, Level, Freed
  <1>7. L = Early \cup Freed
    <2> HIDE DEF L
    <2> QED
      BY <1>4, <1>5, <1>6
  <1> QED
    BY <1>7

(* When no page is mapped and no mapping failed, the tables that are left  *)
(* are the kernel's own and the early ones that still map a huge page.     *)
LEMMA TablesLeft ==
    ASSUME NEW m \in Memory, NEW lev, NEW pt, NEW pi, NEW rank, NEW q, Ghosts(lev, pt, pi, rank, q),
           Tree(m, lev, pt, pi), EarlyTabs(m, lev, pt, pi, HUGES + 1), Full(m, lev, pt, FALSE, NULL),
           OfRole(lev, 0) = {}
    PROVE  Level(lev, 1 .. 4) = Kernel \cup KeptEarly /\ KeptEarly \subseteq Early
  <1>1. \A f \in Frames : lev[f] # 0 /\ f # NULL
    BY FrameFacts DEF OfRole
  <1>2. lev[ROOT] = 4 /\ lev[EARLY3] = 3 /\ lev[DT3] = 3 /\ lev[DT2] = 2 /\ lev[DT1] = 1 /\ pt[DT1] = DT2
    BY FrameFacts DEF Tree, Frame0
  <1>3. ASSUME NEW t \in Frames \ Kernel, lev[t] \in 1 .. 3 PROVE \E i \in Idx : m[t][i] # Zero
    BY <1>1, <1>3 DEF Full
  <1>4. \A f \in Frames : tab_entry(f) # Zero /\ Leads[tab_entry(f)] = f
    <2>1. \A f \in Frames : tab_entry(f).present /\ ~Zero.present /\ Leads[tab_entry(f)] = f
      BY WordFacts, FrameFacts
    <2> QED
      BY <2>1
  <1>5. ASSUME NEW t \in Frames, NEW i \in Idx, NEW g \in Frames, lev[t] \in 1 .. 4, m[t][i] = tab_entry(g)
        PROVE  lev[g] = lev[t] - 1 /\ pt[g] = t
    <2>1. Entry(m[t][i], t, i, lev, pt, pi)
      BY <1>5 DEF Tree, Down
    <2>2. tab_entry(g).pa = g /\ ~tab_entry(g).huge
      BY WordFacts, FrameFacts
    <2> QED
      BY <1>4, <1>5, <2>1, <2>2 DEF Entry
  <1>6. ASSUME NEW t \in Frames, lev[t] = 1 PROVE t \in Kernel
    <2> SUFFICES ASSUME t \notin Kernel PROVE FALSE
      OBVIOUS
    <2>1. PICK i \in Idx : m[t][i] # Zero
      BY <1>3, <1>6
    <2>2. PICK g \in Frames : m[t][i] = tab_entry(g)
      BY <1>6, <2>1, EntryDown
    <2>3. lev[g] = lev[t] - 1
      BY <1>5, <1>6, <2>2
    <2> QED
      BY <1>1, <1>6, <2>3
  <1>11. ASSUME NEW t \in Frames, lev[t] = 2, t \notin Kernel PROVE pt[t] = EARLY3
    <2> SUFFICES ASSUME pt[t] # EARLY3 PROVE FALSE
      OBVIOUS
    <2>1. PICK i \in Idx : m[t][i] # Zero
      BY <1>3, <1>11
    <2>2. PICK g \in Frames : m[t][i] = tab_entry(g)
      BY <1>11, <2>1, EntryDown
    <2>3. lev[g] = lev[t] - 1 /\ pt[g] = t
      BY <1>5, <1>11, <2>2
    <2>4. lev[g] = 1
      BY <1>11, <2>3
    <2>5. g \in Kernel
      BY <1>6, <2>4
    <2>6. g = DT1
      BY <1>2, <2>4, <2>5, FrameFacts
    <2> QED
      BY <1>2, <1>11, <2>3, <2>6, FrameFacts
  <1>12. ASSUME NEW t \in Frames, lev[t] = 3 PROVE t \in Kernel
    <2> SUFFICES ASSUME t \notin Kernel PROVE FALSE
      OBVIOUS
    <2>1. PICK i \in Idx : m[t][i] # Zero
      BY <1>3, <1>12
    <2>2. PICK g \in Frames : m[t][i] = tab_entry(g)
      BY <1>12, <2>1, EntryDown
    <2>3. lev[g] = lev[t] - 1 /\ pt[g] = t
      BY <1>5, <1>12, <2>2
    <2>4. lev[g] = 2
      BY <1>12, <2>3
    <2>5. pt[DT2] = DT3 /\ DT3 \in Kernel /\ EARLY3 \in Kernel
      BY FrameFacts DEF Tree, Frame0
    <2>6. g \in Kernel => g = DT2
      BY <1>2, <2>4, FrameFacts
    <2> QED
      BY <1>11, <2>3, <2>4, <2>5, <2>6
  <1>7. ASSUME NEW t \in Frames, lev[t] = 2, t \notin Kernel PROVE t \in KeptEarly
    <2>1. PICK i \in Idx : m[t][i] # Zero
      BY <1>3, <1>7
    <2>2. pt[t] = EARLY3
      BY <1>7, <1>11
    <2>3. t = EARLY2(pi[t]) /\ HugeNo(pi[t], i) \in Left(HUGES + 1)
      BY <1>7, <2>1, <2>2 DEF EarlyTabs
    <2>4. pi[t] \in Idx
      BY DEF Ghosts
    <2> DEFINE p == HugeNo(pi[t], i)
    <2>5. p \div FAN = pi[t]
      BY <2>4, HugeNumber DEF HugeNo
    <2> HIDE DEF p
    <2>6. p \in {0} \cup KeptHuges
      <3>1. p \in 0 .. HUGES - 1 /\ (p = 0 \/ p >= HUGES + 1 \/ p \in KeptHuges)
        BY <2>3 DEF Left, p
      <3> QED
        BY <3>1, ParamFacts
    <2> QED
      BY <2>3, <2>5, <2>6 DEF KeptEarly
  <1>8. ASSUME NEW t \in KeptEarly PROVE t \in Early /\ t \in Frames /\ lev[t] = 2
    <2>1. PICK k \in {0} \cup KeptHuges : t = EARLY2(k \div FAN)
      BY DEF KeptEarly
    <2>2. k \in 0 .. HUGES - 1 /\ k \in Left(HUGES + 1)
      BY ParamFacts DEF Left
    <2> QED
      BY <2>1, <2>2, HugeFrames DEF EarlyTabs
  <1>9. ASSUME NEW t \in Level(lev, 1 .. 4) PROVE t \in Kernel \cup KeptEarly
    <2>1. t \in Frames /\ lev[t] \in 1 .. 4
      BY DEF Level
    <2>2. lev[t] = 4 => t \in Kernel
      BY <2>1, FrameFacts DEF Tree, Frame0
    <2> QED
      BY <1>6, <1>7, <1>12, <2>1, <2>2
  <1>10. ASSUME NEW t \in Kernel \cup KeptEarly PROVE t \in Level(lev, 1 .. 4)
    BY <1>2, <1>8, FrameFacts DEF Level
  <1> QED
    BY <1>8, <1>9, <1>10

(* No role is left for a lost frame; without pages and failures, none for  *)
(* a table that clients' pages needed.                                     *)
LEMMA LostInv == PageInv => NoFrameLost
  <1> SUFFICES ASSUME PageInv, pc = "idle" PROVE NoFrameLost
    BY DEF NoFrameLost
  <1>1. AtRest
    BY DEF AtRest
  <1>2. PICK lev, pt, pi, rank, q : RestShape(lev, pt, pi, rank, q)
    BY <1>1, Rest
  <1>3. boot = HUGES + 1
    BY <1>1, Rest
  <1>4. /\ mem \in Memory /\ Ghosts(lev, pt, pi, rank, q) /\ Tree(mem, lev, pt, pi)
        /\ EarlyTabs(mem, lev, pt, pi, HUGES + 1) /\ Full(mem, lev, pt, failed, NULL)
        /\ List(mem, lev, rank, q, free_head, free_count) /\ Roles(lev, held, NULL, HUGES + 1)
    BY <1>2, <1>3 DEF RestShape, Shape
  <1>5. Free = OfRole(lev, FREE) /\ Mapped = OfRole(lev, 0) /\ Tables = Level(lev, 1 .. 4)
    BY <1>4, FreeWalk, MappedLevel, TablesLevel
  <1>6. held = OfRole(lev, HELD)
    <2>1. held \subseteq Frames
      BY DEF PageInv
    <2> QED
      BY <1>4, <2>1 DEF Roles, OfRole
  <1>7. Free \cup Mapped \cup held \cup (Tables \ Kernel) = Early \cup Freed
    BY <1>4, <1>5, <1>6, ManagedFrames
  <1>8. ASSUME Mapped = {}, held = {}, ~failed
        PROVE  /\ Tables = Kernel \cup KeptEarly
               /\ free_count = FAN * Cardinality(FreedHuges) + Cardinality(Early \ KeptEarly)
    <2>1. Full(mem, lev, pt, FALSE, NULL)
      BY <1>4, <1>8 DEF Full
    <2>2. Tables = Kernel \cup KeptEarly /\ KeptEarly \subseteq Early
      BY <1>4, <1>5, <1>8, <2>1, TablesLeft
    <2>3. Free \cap Tables = {}
      BY <1>5 DEF OfRole, Level, FREE
    <2>4. Early \cap Kernel = {} /\ Freed \cap Early = {}
      BY FrameFacts DEF Freed
    <2>5. Free = Freed \cup (Early \ KeptEarly)
      BY <1>7, <1>8, <2>2, <2>3, <2>4, FrameFacts DEF Freed
    <2>6. IsFiniteSet(Early \ KeptEarly) /\ Cardinality(Early \ KeptEarly) \in Nat
      BY FramesFinite, FrameFacts
    <2>7. Freed \cap (Early \ KeptEarly) = {}
      BY <2>4
    <2>8. Cardinality({}) = 0
      BY FS_EmptySet
    <2>9. Cardinality(Freed \cup (Early \ KeptEarly))
             = Cardinality(Freed) + Cardinality(Early \ KeptEarly) - Cardinality(Freed \cap (Early \ KeptEarly))
      BY <2>6, FreedCount, FS_Union
    <2>10. free_count = Cardinality(Free)
      BY <1>4, <1>5, FreeCounted
    <2>11. Cardinality(Freed) \in Nat
      BY FreedCount, FS_CardinalityType
    <2>13. free_count = Cardinality(Freed) + Cardinality(Early \ KeptEarly) - 0
      BY <2>5, <2>7, <2>8, <2>9, <2>10, Zenon
    <2>12. free_count = Cardinality(Freed) + Cardinality(Early \ KeptEarly)
      BY <2>6, <2>11, <2>13
    <2> QED
      BY <2>2, <2>12, FreedCount
  <1> QED
    BY <1>7, <1>8 DEF NoFrameLost, Freed

(* mm_page_map and _unmap leak no frame, not even when mm_page_map runs    *)
(* out of frames with tables linked.                                       *)
THEOREM NoFrameIsLost == Spec => []NoFrameLost
  BY LostInv, PageInvariant, PTL
-----------------------------------------------------------------------------
(***************************************************************************)
(* Paging implements PageAbs.  Its translations and its call, by name:     *)
(***************************************************************************)
PMap == [va \in VAs |-> Translate(va)]
ReqOf(op, va, pa) ==
    [op |-> op, page |-> IF op \in {"map", "unmap"} THEN va ELSE NULL,
     frame |-> IF op = "map" THEN pa ELSE NULL]
Req == ReqOf(AbsOp, call.va, call.pa)

(* The translations of the refinement are those of the lemmas.             *)
LEMMA PMapIs == PMap = Pages(mem) /\ PMap' = Pages(mem')
  <1>1. PMap = Pages(mem)
    BY PathIsIn DEF PMap, Pages
  <1>2. PMap' = Pages(mem')
    BY DEF PMap, Pages, Path, PathIn, Translate, TranslateIn
  <1> QED
    BY <1>1, <1>2

(* The steps of PageAbs.                                                   *)
LEMMA StutterSim == PMap' = PMap /\ Req' = Req => [Abs!Next]_(Abs!absvars)
  BY DEF PMap, Req, ReqOf, Abs!absvars

LEMMA MapSim ==
    ASSUME AbsOp = "map", PMap' = [PMap EXCEPT ![call.va] = call.pa], AbsOp' = "return"
    PROVE  [Abs!Next]_(Abs!absvars)
  <1>1. Abs!Map
    BY DEF Abs!Map, Abs!Returning, Abs!Fault, PMap, NULL
  <1> QED
    BY <1>1 DEF Abs!Next

LEMMA FailSim ==
    ASSUME AbsOp = "map", PMap' = PMap, AbsOp' = "return"
    PROVE  [Abs!Next]_(Abs!absvars)
  <1>1. Abs!Fail
    BY DEF Abs!Fail, Abs!Returning, Abs!Fault, PMap, NULL
  <1> QED
    BY <1>1 DEF Abs!Next

LEMMA UnmapSim ==
    ASSUME AbsOp = "unmap", PMap' = [PMap EXCEPT ![call.va] = NULL], AbsOp' = "return"
    PROVE  [Abs!Next]_(Abs!absvars)
  <1>1. Abs!Unmap
    BY DEF Abs!Unmap, Abs!Returning, Abs!Fault, PMap, NULL
  <1> QED
    BY <1>1 DEF Abs!Next

LEMMA ReturnSim ==
    ASSUME AbsOp = "return", PMap' = PMap, AbsOp' = "none"
    PROVE  [Abs!Next]_(Abs!absvars)
  <1>1. Abs!Return
    BY DEF Abs!Return, Abs!NoReq, Abs!Fault, PMap, NULL
  <1> QED
    BY <1>1 DEF Abs!Next

LEMMA CallMapSim ==
    ASSUME NEW va \in VAs, AbsOp = "none", AbsOp' = "map", call'.va = va,
           call'.pa \in Ram \cup Early, Translate(va) = NULL,
           \A v \in VAs : Translate(v) # call'.pa, PMap' = PMap
    PROVE  [Abs!Next]_(Abs!absvars)
  <1>1. Abs!CallMap(va)
    BY DEF Abs!CallMap, Abs!NoReq, Abs!Fault, Abs!Used, PMap, NULL
  <1> QED
    BY <1>1 DEF Abs!Next

LEMMA CallUnmapSim ==
    ASSUME NEW va \in VAs, AbsOp = "none", AbsOp' = "unmap", call'.va = va,
           Translate(va) # NULL, PMap' = PMap
    PROVE  [Abs!Next]_(Abs!absvars)
  <1>1. Abs!CallUnmap(va)
    BY DEF Abs!CallUnmap, Abs!NoReq, Abs!Fault, PMap, NULL
  <1> QED
    BY <1>1 DEF Abs!Next

(* A step that changes neither the translations nor the call.              *)
LEMMA SameSim ==
    ASSUME Pages(mem') = Pages(mem), AbsOp' = AbsOp,
           AbsOp = "none" \/ AbsOp = "return" \/ (call'.va = call.va /\ call'.pa = call.pa)
              \/ (AbsOp = "unmap" /\ call'.va = call.va)
    PROVE  [Abs!Next]_(Abs!absvars)
  <1>1. PMap' = PMap
    BY PMapIs
  <1>2. Req' = Req
    BY DEF Req, ReqOf
  <1> QED
    BY <1>1, <1>2, StutterSim

(* The operation PageAbs sees, at each point of a call.                    *)
LEMMA OpFacts ==
    /\ call.huge = TRUE \/ pc \in {"boot", "idle"} => AbsOp = "none"
    /\ call.huge = FALSE =>
          /\ pc \in {"map_frame", "map_entry", "map_leaf"} => AbsOp = "map"
          /\ pc \in {"unmap_walk", "unmap_leaf"} => AbsOp = "unmap"
          /\ pc = "unmap_table" => AbsOp = IF call.lv = 1 THEN "unmap" ELSE "return"
          /\ pc \in {"map_back", "unmap_flush"} => AbsOp = "return"
  BY DEF AbsOp, Lowest

LEMMA NextOpFacts ==
    /\ call'.huge = TRUE \/ pc' \in {"boot", "idle"} => AbsOp' = "none"
    /\ call'.huge = FALSE =>
          /\ pc' \in {"map_frame", "map_entry", "map_leaf"} => AbsOp' = "map"
          /\ pc' \in {"unmap_walk", "unmap_leaf"} => AbsOp' = "unmap"
          /\ pc' = "unmap_table" => AbsOp' = IF call'.lv = 1 THEN "unmap" ELSE "return"
          /\ pc' \in {"map_back", "unmap_flush"} => AbsOp' = "return"
  BY DEF AbsOp, Lowest

(* What the simulation needs of the invariant.                             *)
Ready ==
    /\ pc # "panic"
    /\ pc \in {"boot", "idle"} => call = Idle
    /\ pc \in {"map_frame", "map_entry", "map_leaf", "map_back"} => call.huge = FALSE
    /\ pc = "unmap_leaf" /\ call.huge = FALSE => call.lv = 1
    /\ pc = "unmap_table" => call.lv \in 1 .. 4
    /\ call \in CallType

LEMMA ReadyInv == PageInv => Ready
  <1> SUFFICES ASSUME PageInv PROVE Ready
    OBVIOUS
  <1>1. PICK lev, pt, pi, rank, q : GhostInv(lev, pt, pi, rank, q)
    BY DEF PageInv
  <1>2. PcOK(lev, pt, pi) /\ call \in CallType
    BY <1>1 DEF GhostInv, PageInv
  <1>3. call.huge \in BOOLEAN
    BY <1>2 DEF CallType
  <1> QED
    BY <1>2, <1>3 DEF Ready, PcOK, Mapping

LEMMA ReadyNext == PageInv' => pc' # "panic"
  <1> SUFFICES ASSUME PageInv' PROVE pc' # "panic"
    OBVIOUS
  <1>1. PICK lev, pt, pi, rank, q : GhostInv(lev, pt, pi, rank, q)'
    BY DEF PageInv
  <1>2. PcOK(lev, pt, pi)'
    BY <1>1 DEF GhostInv
  <1> QED
    BY <1>2 DEF PcOK

(* The steps of mm_page_map, _unmap and bootstrap, one by one.             *)
LEMMA MapFrameSim == ASSUME PageInv, map_frame PROVE [Abs!Next]_(Abs!absvars)
  <1>1. Ready /\ pc' # "panic" /\ Pages(mem') = Pages(mem)
    BY MapFrameStep, ReadyInv, ReadyNext
  <1>2. pc = "map_frame" /\ call.huge = FALSE /\ AbsOp = "map" /\ call \in CallType
    BY <1>1, OpFacts DEF Ready, map_frame
  <1>3. CASE call.frame = NULL /\ free_head = NULL
    <2>1. call' = [call EXCEPT !.ok = FALSE] /\ pc' = "map_back"
      BY <1>3 DEF map_frame
    <2>2. call'.huge = FALSE
      BY <1>2, <2>1 DEF CallType
    <2>3. AbsOp' = "return"
      BY <2>1, <2>2, NextOpFacts
    <2> QED
      BY <1>1, <1>2, <2>3, PMapIs, FailSim
  <1>4. CASE ~(call.frame = NULL /\ free_head = NULL)
    <2>1. (call' = call \/ call' = [call EXCEPT !.frame = free_head]) /\ pc' = "map_entry"
      BY <1>1, <1>4 DEF map_frame, Panic
    <2>2. call'.huge = FALSE /\ call'.va = call.va /\ call'.pa = call.pa
      BY <1>2, <2>1 DEF CallType
    <2>3. AbsOp' = "map"
      BY <2>1, <2>2, NextOpFacts
    <2> QED
      BY <1>1, <1>2, <2>2, <2>3, SameSim
  <1> QED
    BY <1>3, <1>4

LEMMA MapEntrySim == ASSUME PageInv, map_entry PROVE [Abs!Next]_(Abs!absvars)
  <1>1. Ready /\ pc' # "panic" /\ Pages(mem') = Pages(mem)
    BY MapEntryStep, ReadyInv, ReadyNext
  <1>2. pc = "map_entry" /\ call.huge = FALSE /\ AbsOp = "map" /\ call \in CallType
    BY <1>1, OpFacts DEF Ready, map_entry
  <1> DEFINE t == call.tab[call.lv]
             i == idx(call.va, call.lv)
             w == setup(mem, t)[reached(t)][i]
             linked == IF w.present THEN w ELSE tab_entry(call.frame)
  <1>3. /\ call' = [call EXCEPT !.frame = map_entry_frame(@, w.present),
                                !.lv = lower(@), !.tab[call.lv - 1] = linked.pa]
        /\ pc' \in {"map_frame", "map_leaf"}
    <2>1. ~Panic
      BY <1>1 DEF Panic
    <2> QED
      BY <2>1 DEF map_entry
  <1> HIDE DEF t, i, w, linked
  <1>4. call'.huge = FALSE /\ call'.va = call.va /\ call'.pa = call.pa
    BY <1>2, <1>3 DEF CallType
  <1>5. AbsOp' = "map"
    BY <1>3, <1>4, NextOpFacts
  <1> QED
    BY <1>1, <1>2, <1>4, <1>5, SameSim

LEMMA MapLeafSim == ASSUME PageInv, map_leaf PROVE [Abs!Next]_(Abs!absvars)
  <1>1. Ready /\ pc' # "panic" /\ Pages(mem') = [Pages(mem) EXCEPT ![call.va] = call.pa]
    BY MapLeafStep, ReadyInv, ReadyNext
  <1>2. pc = "map_leaf" /\ call.huge = FALSE /\ AbsOp = "map"
    BY <1>1, OpFacts DEF Ready, map_leaf
  <1>3. pc' = "map_back" /\ call' = call
    BY <1>1 DEF map_leaf, Panic
  <1>4. AbsOp' = "return"
    BY <1>2, <1>3, NextOpFacts
  <1> QED
    BY <1>1, <1>2, <1>4, PMapIs, MapSim

LEMMA MapBackSim == ASSUME PageInv, map_back PROVE [Abs!Next]_(Abs!absvars)
  <1>1. Ready /\ pc' # "panic" /\ Pages(mem') = Pages(mem)
    BY MapBackStep, ReadyInv, ReadyNext
  <1>2. pc = "map_back" /\ call.huge = FALSE /\ AbsOp = "return"
    BY <1>1, OpFacts DEF Ready, map_back
  <1>3. pc' = "idle"
    BY <1>1 DEF map_back, Panic
  <1>4. AbsOp' = "none"
    BY <1>3, NextOpFacts
  <1> QED
    BY <1>1, <1>2, <1>4, PMapIs, ReturnSim

LEMMA UnmapWalkSim == ASSUME PageInv, unmap_walk PROVE [Abs!Next]_(Abs!absvars)
  <1>1. Ready /\ pc' # "panic"
    BY UnmapWalkStep, ReadyInv, ReadyNext
  <1>2. pc = "unmap_walk" /\ call \in CallType /\ call.huge \in BOOLEAN
    BY <1>1 DEF Ready, unmap_walk, CallType
  <1> DEFINE p == Path(call.va)
             bottom == IF p[1] = NULL THEN 2 ELSE 1
  <1>3. /\ call' = [call EXCEPT !.lv = bottom,
                       !.pa = mem[p[bottom]][idx(call.va, bottom)].pa,
                       !.tab = [lv \in 0 .. 4 |-> IF lv < bottom THEN NULL ELSE p[lv]]]
        /\ pc' = "unmap_leaf" /\ mem' = mem
    <2>1. ~Panic
      BY <1>1 DEF Panic
    <2> QED
      BY <2>1, Zenon DEF unmap_walk
  <1> HIDE DEF p, bottom
  <1>4. call'.huge = call.huge /\ call'.va = call.va
    BY <1>2, <1>3 DEF CallType
  <1>5. AbsOp' = AbsOp /\ AbsOp \in {"none", "unmap"}
    BY <1>2, <1>3, <1>4, OpFacts, NextOpFacts
  <1>6. Pages(mem') = Pages(mem)
    BY <1>3
  <1> QED
    BY <1>4, <1>5, <1>6, SameSim

LEMMA UnmapLeafSim == ASSUME PageInv, unmap_leaf PROVE [Abs!Next]_(Abs!absvars)
  <1>1. Ready /\ pc' # "panic" /\ Pages(mem') = Pages(mem)
    BY LeafClient, LeafHuge, ReadyInv, ReadyNext
  <1>2. pc = "unmap_leaf" /\ call.huge \in BOOLEAN /\ (call.huge = FALSE => call.lv = 1)
    BY <1>1 DEF Ready, unmap_leaf, CallType
  <1>3. pc' = "unmap_table" /\ call' = call
    BY <1>1 DEF unmap_leaf, Panic
  <1>4. AbsOp' = AbsOp
    BY <1>2, <1>3, OpFacts, NextOpFacts
  <1> QED
    BY <1>1, <1>3, <1>4, SameSim

LEMMA UnmapTableSim == ASSUME PageInv, unmap_table PROVE [Abs!Next]_(Abs!absvars)
  <1>1. /\ Ready /\ pc' # "panic"
        /\ Pages(mem') = IF ~call.huge /\ call.lv = 1 THEN [Pages(mem) EXCEPT ![call.va] = NULL]
                         ELSE Pages(mem)
    BY UnmapTableStep, ReadyInv, ReadyNext
  <1>2. pc = "unmap_table" /\ call \in CallType /\ call.huge \in BOOLEAN /\ call.lv \in 1 .. 4
    BY <1>1 DEF Ready, unmap_table, CallType
  <1>3. call' = [call EXCEPT !.lv = @ + 1] /\ pc' \in {"unmap_table", "unmap_flush"}
    BY <1>1 DEF unmap_table, Panic
  <1>4. call'.huge = call.huge /\ call'.lv = call.lv + 1
    BY <1>2, <1>3 DEF CallType
  <1>5. call'.lv # 1
    BY <1>2, <1>4
  <1>6. CASE call.huge = TRUE
    <2>1. AbsOp = "none" /\ AbsOp' = "none"
      BY <1>4, <1>6, OpFacts, NextOpFacts
    <2>2. Pages(mem') = Pages(mem)
      BY <1>1, <1>6
    <2> QED
      BY <2>1, <2>2, SameSim
  <1>7. CASE call.huge = FALSE
    <2>1. AbsOp' = "return" /\ AbsOp = IF call.lv = 1 THEN "unmap" ELSE "return"
      BY <1>2, <1>3, <1>4, <1>5, <1>7, OpFacts, NextOpFacts
    <2>2. CASE call.lv = 1
      <3>1. Pages(mem') = [Pages(mem) EXCEPT ![call.va] = NULL]
        BY <1>1, <1>7, <2>2
      <3> QED
        BY <2>1, <2>2, <3>1, PMapIs, UnmapSim
    <2>3. CASE call.lv # 1
      <3>1. Pages(mem') = Pages(mem)
        BY <1>1, <2>3
      <3> QED
        BY <2>1, <2>3, <3>1, SameSim
    <2> QED
      BY <2>2, <2>3
  <1> QED
    BY <1>2, <1>6, <1>7

LEMMA FlushSim == ASSUME PageInv, unmap_flush PROVE [Abs!Next]_(Abs!absvars)
  <1>1. Ready
    BY ReadyInv
  <1>2. pc = "unmap_flush" /\ call.huge \in BOOLEAN
    BY <1>1 DEF Ready, unmap_flush, CallType
  <1>3. mem' = mem /\ pc' \in {"boot", "idle"}
    BY DEF unmap_flush
  <1>4. Pages(mem') = Pages(mem) /\ AbsOp' = "none"
    BY <1>3, NextOpFacts
  <1>5. CASE call.huge = TRUE
    <2>1. AbsOp = "none"
      BY <1>5, OpFacts
    <2> QED
      BY <1>4, <2>1, SameSim
  <1>6. CASE call.huge = FALSE
    <2>1. AbsOp = "return"
      BY <1>2, <1>6, OpFacts
    <2> QED
      BY <1>4, <2>1, PMapIs, ReturnSim
  <1> QED
    BY <1>2, <1>5, <1>6

LEMMA BootSim == ASSUME PageInv, mm_page_bootstrap PROVE [Abs!Next]_(Abs!absvars)
  <1>1. pc = "boot" /\ AbsOp = "none"
    BY OpFacts DEF mm_page_bootstrap
  <1>2. Pages(mem') = Pages(mem)
    BY DEF mm_page_bootstrap, unmap
  <1>3. AbsOp' = "none"
    <2>1. CASE unmap(huge_va(boot), TRUE, boot \in FreedHuges)
      <3>1. call'.huge = TRUE
        BY <2>1 DEF unmap, Idle
      <3> QED
        BY <3>1, NextOpFacts
    <2>2. CASE pc' = IF boot = HUGES THEN "idle" ELSE "boot"
      BY <2>2, NextOpFacts
    <2> QED
      BY <2>1, <2>2 DEF mm_page_bootstrap
  <1> QED
    BY <1>1, <1>2, <1>3, SameSim

LEMMA AllocSim == ASSUME PageInv, mm_frame_alloc PROVE [Abs!Next]_(Abs!absvars)
  <1>1. pc' # "panic"
    BY AllocStep, ReadyNext
  <1>2. pc = "idle" /\ mem' = mem /\ pc' = pc
    BY <1>1 DEF mm_frame_alloc, Panic
  <1>3. AbsOp = "none" /\ AbsOp' = "none" /\ Pages(mem') = Pages(mem)
    BY <1>2, OpFacts, NextOpFacts
  <1> QED
    BY <1>3, SameSim

LEMMA UseSim == ASSUME PageInv, NEW va \in VAs, use(va) PROVE [Abs!Next]_(Abs!absvars)
  <1>1. pc = "idle" /\ pc' = pc
    BY DEF use
  <1>2. AbsOp = "none" /\ AbsOp' = "none" /\ Pages(mem') = Pages(mem)
    BY <1>1, OpFacts, NextOpFacts, UseStep
  <1> QED
    BY <1>2, SameSim

(* A call to unmap: the page has a frame.                                  *)
LEMMA UnmapPageSim ==
    ASSUME PageInv, NEW va \in VAs, unmap_page(va) PROVE [Abs!Next]_(Abs!absvars)
  <1>1. pc = "idle" /\ Translate(va) # NULL /\ mem' = mem /\ pc' = "unmap_walk"
        /\ call' = [Idle EXCEPT !.va = va, !.huge = FALSE, !.free = TRUE]
    BY DEF unmap_page, unmap
  <1>2. call'.huge = FALSE /\ call'.va = va
    BY <1>1 DEF Idle
  <1>3. AbsOp = "none" /\ AbsOp' = "unmap"
    BY <1>1, <1>2, OpFacts, NextOpFacts
  <1>4. PMap' = PMap
    BY <1>1, PMapIs
  <1> QED
    BY <1>1, <1>2, <1>3, <1>4, CallUnmapSim

(* A call to map: a held frame is behind no page.                          *)
LEMMA PageMapSim ==
    ASSUME PageInv, NEW va \in VAs, NEW pa \in held, mm_page_map(va, pa)
    PROVE  [Abs!Next]_(Abs!absvars)
  <1>1. pc = "idle" /\ Translate(va) = NULL /\ mem' = mem /\ pc' = "map_frame"
        /\ call' = [Idle EXCEPT !.va = va, !.pa = pa, !.lv = 4, !.tab[4] = ROOT]
    BY DEF mm_page_map
  <1>2. call'.huge = FALSE /\ call'.va = va /\ call'.pa = pa
    BY <1>1 DEF Idle
  <1>3. AbsOp = "none" /\ AbsOp' = "map"
    BY <1>1, <1>2, OpFacts, NextOpFacts
  <1>4. PMap' = PMap
    BY <1>1, PMapIs
  <1>5. pa \in Ram \cup Early
    BY TypeInv DEF TypeOK
  <1>6. Mapped \cap held = {}
    BY <1>1, AccountedInv DEF FramesAccounted, AtRest
  <1>7. pa # NULL
    BY <1>5, FrameFacts DEF Frames
  <1>8. \A v \in VAs : Translate(v) # pa
    BY <1>6, <1>7 DEF Mapped
  <1> QED
    BY <1>1, <1>2, <1>3, <1>4, <1>5, <1>8, CallMapSim

(* Every step is a step of PageAbs or leaves it unchanged.                 *)
LEMMA StepSimulates == PageInv /\ [Next]_vars => [Abs!Next]_(Abs!absvars)
  <1> SUFFICES ASSUME PageInv, [Next]_vars PROVE [Abs!Next]_(Abs!absvars)
    OBVIOUS
  <1>1. CASE Step
    BY <1>1, MapFrameSim, MapEntrySim, MapLeafSim, MapBackSim, UnmapWalkSim, UnmapLeafSim,
       UnmapTableSim, FlushSim, BootSim DEF Step
  <1>2. CASE mm_frame_alloc
    BY <1>2, AllocSim
  <1>3. CASE \E va \in VAs : use(va) \/ unmap_page(va) \/ \E pa \in held : mm_page_map(va, pa)
    BY <1>3, UseSim, UnmapPageSim, PageMapSim
  <1>4. CASE UNCHANGED vars
    <2>1. Pages(mem') = Pages(mem) /\ AbsOp' = AbsOp /\ call' = call
      BY <1>4 DEF vars, AbsOp
    <2> QED
      BY <2>1, SameSim
  <1> QED
    BY <1>1, <1>2, <1>3, <1>4 DEF Next

(* After bootstrap no client page is mapped.                               *)
LEMMA InitSimulates == Init => Abs!Init
  <1> SUFFICES ASSUME Init PROVE Abs!Init
    OBVIOUS
  <1>1. mem \in Memory /\ Ghosts(Lev0, Pt0, Pi0, [f \in Frames |-> 0], [n \in Nat |-> 0])
        /\ Tree(mem, Lev0, Pt0, Pi0)
    BY InitShape DEF Shape
  <1>2. ASSUME NEW va \in VAs PROVE Translate(va) = NULL
    <2>1. va \in High
      BY HighFacts
    <2>2. \A f \in Frames : Lev0[f] # 0
      BY DEF Lev0, OUT
    <2> QED
      BY <1>1, <2>1, <2>2, WalkLeaf, PathIsIn
  <1>3. AbsOp = "none"
    BY OpFacts DEF Init
  <1> QED
    BY <1>2, <1>3 DEF Abs!Init, Abs!NoReq, Abs!Fault, NULL

(* Paging implements PageAbs: mm_page_map and _unmap change the            *)
(* translation of their own page, once, and no step changes any other,     *)
(* not the turns that link and free tables, and not a client's writes.     *)
THEOREM PagingImplementsPageAbs == Spec => ImplementsPageAbs
  BY InitSimulates, StepSimulates, PageInvariant, PTL DEF Spec, Abs!Spec, ImplementsPageAbs
=============================================================================

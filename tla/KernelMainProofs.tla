-------------------------- MODULE KernelMainProofs --------------------------
(***************************************************************************)
(* The kernel's start for every loader, firmware, message and screen that  *)
(* the assumptions of KernelMain admit, and for every size of the buffer   *)
(* and of the tables.                                                      *)
(***************************************************************************)
EXTENDS KernelMain, WellFoundedInduction, SequenceTheorems, FiniteSetTheorems, TLAPS

(* A product grows by a factor for each step of the other.                 *)
LEMMA MulStep ==
    ASSUME NEW w \in Nat, NEW i \in Nat, NEW j \in Nat, i < j
    PROVE  w * i + w <= w * j /\ w * i \in Nat /\ w * j \in Nat
  <1>1. PICK d \in Nat : j = i + 1 + d
    <2>1. j - i - 1 \in Nat /\ j = i + 1 + (j - i - 1)
      OBVIOUS
    <2> QED
      BY <2>1
  <1>2. w * j = w * i + w + w * d
    BY <1>1
  <1>3. w * d \in Nat /\ w * i \in Nat /\ w * j \in Nat
    OBVIOUS
  <1> QED
    BY <1>2, <1>3

(* Quotient and remainder.                                                 *)
LEMMA DivMod ==
    ASSUME NEW a \in Nat, NEW w \in Nat, w > 0
    PROVE  a \div w \in Nat /\ a % w \in 0 .. w - 1 /\ a = w * (a \div w) + (a % w)
  OBVIOUS

(* There is only one quotient and one remainder.                           *)
LEMMA DivUnique ==
    ASSUME NEW w \in Nat, w > 0, NEW q \in Nat, NEW r \in 0 .. w - 1
    PROVE  (q * w + r) \div w = q /\ (q * w + r) % w = r
  <1> DEFINE a == q * w + r
  <1>1. a \in Nat /\ q * w = w * q
    OBVIOUS
  <1>2. a \div w \in Nat /\ a % w \in 0 .. w - 1 /\ a = w * (a \div w) + (a % w)
    BY <1>1, DivMod
  <1> DEFINE p == a \div w
             s == a % w
  <1>3. p \in Nat /\ s \in 0 .. w - 1 /\ w * q + r = w * p + s
    BY <1>1, <1>2
  <1> HIDE DEF p, s
  <1>4. ~(p < q)
    <2>1. p < q => w * p + w <= w * q /\ w * p \in Nat /\ w * q \in Nat
      BY <1>3, MulStep
    <2> QED
      BY <1>3, <2>1
  <1>5. ~(q < p)
    <2>1. q < p => w * q + w <= w * p /\ w * p \in Nat /\ w * q \in Nat
      BY <1>3, MulStep
    <2> QED
      BY <1>3, <2>1
  <1>6. p = q
    BY <1>3, <1>4, <1>5
  <1>7. s = r
    BY <1>3, <1>6
  <1> QED
    BY <1>6, <1>7 DEF p, s

(* Every set of natural numbers that is not empty has a least element.     *)
LEMMA LeastNat ==
    ASSUME NEW T, T \subseteq Nat, T # {}
    PROVE  \E x \in T : \A y \in T : x <= y
  <1> DEFINE R == OpToRel(<, Nat)
  <1>1. IsWellFoundedOn(R, Nat)
    BY NatLessThanWellFounded
  <1>2. R = {ss \in Nat \X Nat : ss[1] < ss[2]}
    BY DEF OpToRel
  <1>3. \A x, y \in Nat : x < y => <<x, y>> \in R
    BY <1>2
  <1> HIDE DEF R
  <1>4. PICK x \in T : \A y \in T : ~(<<y, x>> \in R)
    BY <1>1, WFMin
  <1>5. ASSUME NEW y \in T PROVE x <= y
    <2>1. x \in Nat /\ y \in Nat
      OBVIOUS
    <2>2. ~(y < x)
      BY <1>3, <1>4, <2>1
    <2> QED
      BY <2>1, <2>2
  <1> QED
    BY <1>5

(* Induction, with the property given as the set of numbers that have it.  *)
LEMMA SetInduction ==
    ASSUME NEW S, 0 \in S, \A i \in Nat : i \in S => i + 1 \in S
    PROVE  \A i \in Nat : i \in S
  <1> DEFINE T == {i \in Nat : i \notin S}
  <1> SUFFICES ASSUME T # {} PROVE FALSE
    OBVIOUS
  <1>1. PICK x \in T : \A y \in T : x <= y
    BY LeastNat
  <1>2. x \in Nat /\ x # 0 /\ x \notin S
    BY <1>1
  <1>3. x - 1 \in Nat /\ x - 1 \notin T
    BY <1>1, <1>2
  <1>4. (x - 1) + 1 \in S
    BY <1>3
  <1>5. (x - 1) + 1 = x
    BY <1>2
  <1> QED
    BY <1>2, <1>4, <1>5

(* f is defined by recursion over 0 .. top, from c with the steps F[i].      *)
Recursion(f, V, c, top, F) ==
    /\ f \in [0 .. top -> V] /\ f[0] = c
    /\ \A i \in 1 .. top : f[i] = F[i][f[i - 1]]

(* There is such a function.                                               *)
LEMMA RecursionExists ==
    ASSUME NEW V, NEW c \in V, NEW top \in Nat, NEW F \in [1 .. top -> [V -> V]]
    PROVE  \E f : Recursion(f, V, c, top, F)
  <1> DEFINE S == {k \in Nat : k <= top => \E f : Recursion(f, V, c, k, F)}
  <1>1. 0 \in S
    <2> DEFINE f == [i \in 0 .. 0 |-> c]
    <2>1. Recursion(f, V, c, 0, F)
      BY DEF Recursion
    <2> QED
      BY <2>1
  <1>2. ASSUME NEW k \in Nat, k \in S PROVE k + 1 \in S
    <2> SUFFICES ASSUME k + 1 <= top PROVE \E f : Recursion(f, V, c, k + 1, F)
      OBVIOUS
    <2>1. PICK f : Recursion(f, V, c, k, F)
      BY <1>2
    <2> DEFINE g == [i \in 0 .. k + 1 |-> IF i = k + 1 THEN F[k + 1][f[k]] ELSE f[i]]
    <2>2. f \in [0 .. k -> V] /\ f[k] \in V /\ k + 1 \in 1 .. top
      BY <2>1 DEF Recursion
    <2>3. F[k + 1][f[k]] \in V
      BY <2>2
    <2>4. g \in [0 .. k + 1 -> V] /\ g[0] = c
      BY <2>1, <2>3 DEF Recursion
    <2>5. ASSUME NEW i \in 1 .. k + 1 PROVE g[i] = F[i][g[i - 1]]
      <3>1. CASE i = k + 1
        <4>1. g[i] = F[k + 1][f[k]] /\ g[k] = f[k] /\ i - 1 = k
          BY <3>1
        <4> HIDE DEF g
        <4> QED
          BY <3>1, <4>1
      <3>2. CASE i # k + 1
        <4>1. i \in 1 .. k /\ i - 1 \in 0 .. k
          BY <3>2
        <4>2. g[i] = f[i] /\ g[i - 1] = f[i - 1]
          BY <4>1
        <4> HIDE DEF g
        <4> QED
          BY <2>1, <4>1, <4>2 DEF Recursion
      <3> QED
        BY <3>1, <3>2
    <2> HIDE DEF g
    <2>6. Recursion(g, V, c, k + 1, F)
      BY <2>4, <2>5 DEF Recursion
    <2> QED
      BY <2>6
  <1> HIDE DEF S
  <1>3. top \in S
    BY <1>1, <1>2, SetInduction
  <1> QED
    BY <1>3 DEF S
-----------------------------------------------------------------------------
(* Everything but a message has a length of its own.                       *)
Pieces == {p \in [kind : {"text", "message", "end"}, parts : Seq(Part)] :
              p.kind # "message" => p.parts # <<>>}

(* Before d_vesa_bootstrap the screen has no cells and the cursor cannot   *)
(* move; afterwards it stays on the screen, or behind the end of a row.    *)
NoScreen == width = 0 /\ height = 0 /\ screen_row = 0 /\ screen_col = 0
CursorOnScreen ==
    /\ width \in Nat /\ height \in Nat /\ height >= 16
    /\ screen_row \in Nat /\ screen_row < video_char_row_max
    /\ screen_col \in Nat /\ screen_col <= video_char_col_max

ConsoleOK ==
    /\ write_screen \in BOOLEAN /\ line \in Seq(Pieces)
    /\ NoScreen \/ CursorOnScreen

(* The reasons of a failure, without the console's own.                    *)
Reasons == {"none", "loader", "component", "message", "exception", "firmware"}

BootOK ==
    /\ pc \in {"start", "save", "tags", "mem_1", "vesa", "acpi", "intr", "mem_2", "ended",
               "failed", "hlt", "reset", "wild"}
    /\ idt \in BOOLEAN /\ why \in Reasons /\ left \in 0 .. 1 /\ lines \in 0 .. MAX_LINES
    /\ machine \in Machines /\ DOMAIN saved \subseteq known_types
    /\ pc \in {"start", "save", "tags", "mem_1", "vesa"} => NoScreen
    /\ ptr \in Nat /\ n \in 1 .. Len(machine.tags) + 1
    /\ pc \in {"start", "save"} => n = 1
    /\ pc = "tags" => /\ ptr = Ends(machine.tags)[n - 1]
                      /\ \A i \in 1 .. n - 1 : machine.tags[i].type # 0

(* The place of a function, as the loops over a table's groups reach it:   *)
(* it answers, and so does function 0 of its device, which says that there *)
(* are more.                                                               *)
Wanted(mcfg, i, bus, dev, fun) ==
    /\ i \in DOMAIN mcfg.groups
    /\ bus \in mcfg.groups[i].bus_start .. mcfg.groups[i].bus_end - 1
    /\ dev \in 0 .. DEVICE_MAX - 1 /\ fun \in 0 .. FUNCTION_MAX - 1
    /\ present(mcfg.groups[i], bus, dev, fun)
    /\ fun = 0 \/ (present(mcfg.groups[i], bus, dev, 0) /\ config(mcfg.groups[i], bus, dev, 0).multi)

(* The loops have passed it.                                               *)
Passed(i, bus, dev, fun) ==
    \/ i < at.group
    \/ /\ stage = "scan" /\ i = at.group
       /\ \/ bus < at.bus
          \/ bus = at.bus /\ (dev < at.dev \/ (dev = at.dev /\ fun < at.fun))

Place(f, i, bus, dev, fun) == f.group = i /\ f.bus = bus /\ f.dev = dev /\ f.fun = fun

(* The table of functions holds the wanted ones passed so far, each once,  *)
(* with what their configuration space says.                               *)
ListOK(mcfg) ==
    /\ \A k \in DOMAIN functions :
          LET f == functions[k]
          IN  /\ Wanted(mcfg, f.group, f.bus, f.dev, f.fun) /\ Passed(f.group, f.bus, f.dev, f.fun)
              /\ f.config = config(mcfg.groups[f.group], f.bus, f.dev, f.fun)
    /\ \A i \in DOMAIN mcfg.groups, dev \in 0 .. DEVICE_MAX - 1, fun \in 0 .. FUNCTION_MAX - 1 :
          \A bus \in mcfg.groups[i].bus_start .. mcfg.groups[i].bus_end - 1 :
             Wanted(mcfg, i, bus, dev, fun) /\ Passed(i, bus, dev, fun) =>
                \E k \in DOMAIN functions : Place(functions[k], i, bus, dev, fun)
    /\ \A k, l \in DOMAIN functions :
          Place(functions[k], functions[l].group, functions[l].bus, functions[l].dev, functions[l].fun) => k = l

(* The loop over groups, in the table it works on.                         *)
InTable ==
    /\ tab <= Len(firmware.tables) /\ Table.mcfg /\ group_cnt = Len(Table.groups)
    /\ at.group <= group_cnt + 1
    /\ stage = "scan" => at.group <= group_cnt /\ at.bus >= Table.groups[at.group].bus_start
    /\ \A g \in 1 .. group_cnt :
          g < at.group \/ (stage = "scan" /\ g = at.group) =>
             g \in DOMAIN groups /\ groups[g] = Table.groups[g] /\ aligned(Table.groups[g])
    /\ ListOK(Table)

Entries == [group : 1 .. GROUP_CAP, bus : Nat, dev : 0 .. DEVICE_MAX - 1, fun : 0 .. FUNCTION_MAX - 1,
            config : {firmware.space[a] : a \in DOMAIN firmware.space}]

DiscoveryType ==
    /\ firmware \in Firmwares /\ stage \in {"idle", "tables", "groups", "scan"}
    /\ tab \in 1 .. Len(firmware.tables) + 1
    /\ group_cnt \in 0 .. GROUP_CAP /\ DOMAIN groups \subseteq 1 .. GROUP_CAP
    /\ at \in [group : 1 .. GROUP_CAP + 1, bus : Nat, dev : 0 .. DEVICE_MAX - 1, fun : 0 .. FUNCTION_MAX]
    /\ functions \in Seq(Entries) /\ Len(functions) <= FUNCTIONS_CAP

DiscoveryOK ==
    /\ DiscoveryType
    /\ stage = "idle" => functions = <<>>
    /\ stage \in {"groups", "scan"} => InTable
    /\ FunctionsFound

(* The inductive invariant.                                                *)
IInv == ConsoleOK /\ BootOK /\ DiscoveryOK
-----------------------------------------------------------------------------
(* The parts of a format have lengths.                                     *)
LEMMA PartLen ==
    ASSUME NEW parts \in Seq(Part), NEW i \in 1 .. Len(parts)
    PROVE  parts[i] \in Part /\ parts[i].len \in Nat
  <1>1. parts[i] \in Part
    BY ElementOfSeq
  <1> QED
    BY <1>1 DEF Part

(* The offsets of a format: each part adds its length.                     *)
LEMMA OffsetsStep ==
    ASSUME NEW parts \in Seq(Part)
    PROVE  /\ Offsets(parts) \in [0 .. Len(parts) -> Nat] /\ Offsets(parts)[0] = 0
           /\ \A i \in 1 .. Len(parts) : Offsets(parts)[i] = Offsets(parts)[i - 1] + parts[i].len
  <1> DEFINE m == Len(parts)
             F == [i \in 1 .. m |-> [x \in Nat |-> x + parts[i].len]]
             Def(f) == f = [i \in 0 .. m |-> IF i = 0 THEN 0 ELSE f[i - 1] + parts[i].len]
  <1>1. m \in Nat /\ \A i \in 1 .. m : parts[i].len \in Nat
    BY PartLen
  <1>2. F \in [1 .. m -> [Nat -> Nat]] /\ 0 \in Nat
    BY <1>1
  <1>3. PICK f : Recursion(f, Nat, 0, m, F)
    <2> HIDE DEF F, m
    <2> QED
      BY <1>1, <1>2, RecursionExists
  <1>4. \A i \in 1 .. m : f[i] = f[i - 1] + parts[i].len
    <2> TAKE i \in 1 .. m
    <2>1. i - 1 \in 0 .. m
      BY <1>1
    <2>2. f[i - 1] \in Nat
      BY <1>3, <2>1 DEF Recursion
    <2>3. F[i][f[i - 1]] = f[i - 1] + parts[i].len
      BY <2>2
    <2> QED
      BY <1>3, <2>3 DEF Recursion
  <1>5. Def(f)
    BY <1>3, <1>4 DEF Recursion
  <1> DEFINE g == CHOOSE h : Def(h)
  <1>6. Def(g)
    BY <1>5
  <1>7. Offsets(parts) = g
    BY DEF Offsets
  <1> HIDE DEF g, F
  <1>8. g[0] = 0 /\ \A i \in 1 .. m : g[i] = g[i - 1] + parts[i].len
    BY <1>1, <1>6
  <1> DEFINE S == {k \in Nat : k <= m => g[k] \in Nat}
  <1>9. \A k \in Nat : k \in S
    <2>1. 0 \in S
      BY <1>8
    <2>2. ASSUME NEW k \in Nat, k \in S PROVE k + 1 \in S
      <3> SUFFICES ASSUME k + 1 <= m PROVE g[k + 1] \in Nat
        OBVIOUS
      <3>1. g[k] \in Nat /\ k + 1 \in 1 .. m /\ (k + 1) - 1 = k
        BY <1>1, <2>2
      <3> QED
        BY <1>1, <1>8, <3>1
    <2> HIDE DEF S
    <2> QED
      BY <2>1, <2>2, SetInduction
  <1>10. g \in [0 .. m -> Nat]
    BY <1>1, <1>6, <1>9
  <1> QED
    BY <1>7, <1>8, <1>10

(* They never decrease.                                                    *)
LEMMA OffsetsGrow ==
    ASSUME NEW parts \in Seq(Part), NEW i \in 0 .. Len(parts)
    PROVE  Offsets(parts)[i] <= Offsets(parts)[Len(parts)]
  <1> DEFINE m == Len(parts)
             g == Offsets(parts)
             S == {k \in Nat : i + k <= m => g[i] <= g[i + k]}
  <1>1. m \in Nat /\ g \in [0 .. m -> Nat] /\ \A j \in 1 .. m : g[j] = g[j - 1] + parts[j].len
    BY OffsetsStep
  <1>2. \A j \in 1 .. m : parts[j].len \in Nat
    BY PartLen
  <1> HIDE DEF g
  <1>3. 0 \in S
    BY <1>1
  <1>4. ASSUME NEW k \in Nat, k \in S PROVE k + 1 \in S
    <2> SUFFICES ASSUME i + (k + 1) <= m PROVE g[i] <= g[i + (k + 1)]
      OBVIOUS
    <2>1. i + (k + 1) \in 1 .. m /\ (i + (k + 1)) - 1 = i + k /\ i + k \in 0 .. m /\ i + k <= m
      BY <1>1
    <2>2. g[i + (k + 1)] = g[i + k] + parts[i + (k + 1)].len /\ parts[i + (k + 1)].len \in Nat
      BY <1>1, <1>2, <2>1
    <2>3. g[i + k] \in Nat /\ g[i] \in Nat /\ g[i] <= g[i + k]
      BY <1>1, <1>4, <2>1
    <2> QED
      BY <2>2, <2>3
  <1>5. m - i \in S
    <2> HIDE DEF S
    <2>1. m - i \in Nat
      BY <1>1
    <2> QED
      BY <1>3, <1>4, <2>1, SetInduction
  <1>6. i + (m - i) = m /\ m - i \in Nat
    BY <1>1
  <1> QED
    BY <1>1, <1>5, <1>6 DEF g

(* str_buf_marshal_format_v: what returns has been written in full and     *)
(* within the buffer, and what leaves room for a terminator returns.       *)
LEMMA MarshalCorrect ==
    ASSUME NEW parts \in Seq(Part)
    PROVE  LET r == str_buf_marshal_format_v(parts, BUF_CAP)
           IN  /\ r.returns => r.written = r.len /\ r.len <= BUF_CAP
               /\ Offsets(parts)[Len(parts)] < BUF_CAP => r.returns
               /\ r.len = Offsets(parts)[Len(parts)] /\ r.len \in Nat
  <1> DEFINE g == Offsets(parts)
             m == Len(parts)
             bad == {i \in DOMAIN parts : ~part_ok(parts[i], BUF_CAP, g[i - 1])}
             r == str_buf_marshal_format_v(parts, BUF_CAP)
  <1>1. /\ r.returns <=> (bad = {} /\ g[m] <= BUF_CAP)
        /\ r.len = g[m]
        /\ bad = {} => r.written = g[m]
    BY DEF str_buf_marshal_format_v, format_end_ok
  <1>2. m \in Nat /\ g \in [0 .. m -> Nat] /\ \A j \in 1 .. m : g[j] = g[j - 1] + parts[j].len
    BY OffsetsStep
  <1>3. DOMAIN parts = 1 .. m
    OBVIOUS
  <1>4. g[m] \in Nat
    BY <1>2
  <1>5. \A j \in 0 .. m : g[j] <= g[m]
    BY OffsetsGrow
  <1>6. BUF_CAP \in Nat /\ USZ_MOD \in Nat /\ BUF_CAP < USZ_MOD
    BY ConsoleAssumption, WidthAssumption, FormatAssumption
  <1> HIDE DEF g, r
  <1>7. ASSUME g[m] < BUF_CAP PROVE bad = {}
    <2> SUFFICES ASSUME NEW i \in 1 .. m PROVE part_ok(parts[i], BUF_CAP, g[i - 1])
      BY <1>3
    <2>1. i \in 0 .. m /\ i - 1 \in 0 .. m
      BY <1>2
    <2>2. /\ g[i] = g[i - 1] + parts[i].len /\ g[i] <= g[m] /\ g[i - 1] \in Nat /\ g[i] \in Nat
          /\ parts[i].len \in Nat
      BY <1>2, <1>5, <2>1, PartLen
    <2>3. g[i - 1] + parts[i].len < BUF_CAP
      BY <1>4, <1>6, <1>7, <2>2
    <2>4. BUF_CAP - g[i - 1] \in 0 .. USZ_MOD - 1 /\ BUF_CAP - g[i - 1] > parts[i].len
      BY <1>6, <2>2, <2>3, SMTT(20)
    <2>5. (BUF_CAP - g[i - 1]) % USZ_MOD = BUF_CAP - g[i - 1]
      <3> DEFINE d == BUF_CAP - g[i - 1]
      <3> HIDE DEF d
      <3>1. d \in 0 .. USZ_MOD - 1 /\ USZ_MOD > 0 /\ 0 \in Nat
        BY <1>6, <2>4 DEF d
      <3>2. (0 * USZ_MOD + d) % USZ_MOD = d
        BY <1>6, <3>1, DivUnique
      <3>3. 0 * USZ_MOD + d = d
        BY <1>6, <3>1
      <3> QED
        BY <3>2, <3>3 DEF d
    <2> QED
      BY <1>6, <2>2, <2>3, <2>4, <2>5 DEF part_ok, marshal_ok, room
  <1>8. r.returns => r.written = r.len /\ r.len <= BUF_CAP
    BY <1>1
  <1>9. g[m] < BUF_CAP => r.returns
    <2>1. g[m] < BUF_CAP => g[m] <= BUF_CAP
      BY <1>4, <1>6
    <2> QED
      BY <1>1, <1>7, <2>1
  <1> QED
    BY <1>1, <1>4, <1>8, <1>9 DEF r, g
-----------------------------------------------------------------------------
(* The ends of the tags: each adds its size, padded.                       *)
LEMMA EndsStep ==
    ASSUME NEW tags \in Seq([type : Nat, size : Nat])
    PROVE  /\ Ends(tags) \in [0 .. Len(tags) -> Nat] /\ Ends(tags)[0] = 8
           /\ \A i \in 1 .. Len(tags) : Ends(tags)[i] = align_up(Ends(tags)[i - 1] + tags[i].size)
  <1> DEFINE m == Len(tags)
             F == [i \in 1 .. m |-> [x \in Nat |-> align_up(x + tags[i].size)]]
             Def(f) == f = [i \in 0 .. m |-> IF i = 0 THEN 8 ELSE align_up(f[i - 1] + tags[i].size)]
  <1>1. m \in Nat /\ \A i \in 1 .. m : tags[i].size \in Nat
    <2>1. ASSUME NEW i \in 1 .. m PROVE tags[i] \in [type : Nat, size : Nat]
      BY ElementOfSeq
    <2> QED
      BY <2>1
  <1>2. \A x \in Nat : align_up(x) \in Nat
    BY DEF align_up
  <1>3. F \in [1 .. m -> [Nat -> Nat]] /\ 8 \in Nat
    <2>1. ASSUME NEW i \in 1 .. m, NEW x \in Nat PROVE align_up(x + tags[i].size) \in Nat
      <3>1. x + tags[i].size \in Nat
        BY <1>1, SMTT(20)
      <3> QED
        BY <1>2, <3>1, Zenon
    <2> QED
      BY <2>1
  <1>4. PICK f : Recursion(f, Nat, 8, m, F)
    <2> HIDE DEF F, m
    <2> QED
      BY <1>1, <1>3, RecursionExists
  <1>5. \A i \in 1 .. m : f[i] = align_up(f[i - 1] + tags[i].size)
    <2> TAKE i \in 1 .. m
    <2>1. i - 1 \in 0 .. m
      BY <1>1
    <2>2. f[i - 1] \in Nat
      BY <1>4, <2>1 DEF Recursion
    <2>3. F[i][f[i - 1]] = align_up(f[i - 1] + tags[i].size)
      BY <2>2
    <2> QED
      BY <1>4, <2>3 DEF Recursion
  <1>6. Def(f)
    BY <1>4, <1>5 DEF Recursion
  <1> DEFINE g == CHOOSE h : Def(h)
  <1>7. Def(g)
    BY <1>6
  <1>8. Ends(tags) = g
    BY DEF Ends
  <1> HIDE DEF g, F
  <1>9. g[0] = 8 /\ \A i \in 1 .. m : g[i] = align_up(g[i - 1] + tags[i].size)
    <2>1. ASSUME NEW i \in 0 .. m
          PROVE  g[i] = IF i = 0 THEN 8 ELSE align_up(g[i - 1] + tags[i].size)
      BY <1>7, Zenon
    <2>2. 0 \in 0 .. m /\ \A i \in 1 .. m : i \in 0 .. m /\ i # 0
      BY <1>1
    <2> QED
      BY <2>1, <2>2, Zenon
  <1> DEFINE S == {k \in Nat : k <= m => g[k] \in Nat}
  <1>10. \A k \in Nat : k \in S
    <2>1. 0 \in S
      BY <1>9
    <2>2. ASSUME NEW k \in Nat, k \in S PROVE k + 1 \in S
      <3> SUFFICES ASSUME k + 1 <= m PROVE g[k + 1] \in Nat
        OBVIOUS
      <3>1. g[k] \in Nat /\ k + 1 \in 1 .. m /\ (k + 1) - 1 = k
        BY <1>1, <2>2
      <3>2. tags[k + 1].size \in Nat /\ g[k + 1] = align_up(g[k] + tags[k + 1].size)
        BY <1>1, <1>9, <3>1
      <3> QED
        BY <3>1, <3>2, SMTT(20) DEF align_up
    <2> HIDE DEF S
    <2> QED
      BY <2>1, <2>2, SetInduction
  <1>11. g \in [0 .. m -> Nat]
    <2>1. \A i \in 0 .. m : g[i] \in Nat
      BY <1>1, <1>10
    <2>2. g = [i \in 0 .. m |-> g[i]]
      BY <1>7, Zenon
    <2> QED
      BY <2>1, <2>2
  <1> QED
    BY <1>8, <1>9, <1>11

(* A machine's tags and screen.                                            *)
LEMMA MachineType ==
    ASSUME machine \in Machines
    PROVE  /\ machine.tags \in Seq([type : Nat, size : Nat]) /\ machine.total \in Nat
           /\ \/ machine.total <= TotalOf(machine.tags)
              \/ \E i \in DOMAIN machine.tags : machine.tags[i].type = 0
           /\ machine.screen.width \in Nat /\ machine.screen.height \in Nat /\ machine.screen.height >= 16
  BY LoaderAssumption

(* The parser looks only at tags that are there.                           *)
LEMMA TagThere ==
    ASSUME BootOK, pc = "tags", MoreTags
    PROVE  n \in 1 .. Len(machine.tags) /\ Tag \in [type : Nat, size : Nat]
  <1> DEFINE tags == machine.tags
             m == Len(tags)
  <1>1. tags \in Seq([type : Nat, size : Nat]) /\ m \in Nat /\ DOMAIN tags = 1 .. m
    BY MachineType DEF BootOK
  <1>2. n \in 1 .. m + 1 /\ ptr = Ends(tags)[n - 1] /\ \A i \in 1 .. n - 1 : tags[i].type # 0
    BY DEF BootOK
  <1>3. n # m + 1
    <2> SUFFICES ASSUME n = m + 1 PROVE FALSE
      OBVIOUS
    <2>1. n - 1 = m /\ ptr = TotalOf(tags)
      BY <1>1, <1>2 DEF TotalOf
    <2>2. Ends(tags)[m] \in Nat
      BY <1>1, EndsStep
    <2>3. ~(machine.total <= TotalOf(tags)) /\ machine.total \in Nat
      BY <1>2, <2>1, <2>2, MachineType DEF BootOK, MoreTags
    <2>4. \E i \in DOMAIN tags : tags[i].type = 0
      BY <2>3, MachineType DEF BootOK
    <2> QED
      BY <1>1, <1>2, <2>1, <2>4
  <1>4. n \in 1 .. m
    BY <1>1, <1>2, <1>3
  <1> QED
    BY <1>1, <1>4, ElementOfSeq DEF Tag
-----------------------------------------------------------------------------
(* A line that is logged consists of pieces.                               *)
LEMMA LineOfPieces ==
    ASSUME NEW format \in Seq(Part)
    PROVE  log_line_format(format) \in Seq(Pieces)
  <1>1. \A k \in Nat : text(k) \in Pieces
    <2> TAKE k \in Nat
    <2>1. literal(k) \in Part
      BY DEF literal, Part
    <2>2. <<literal(k)>> \in Seq(Part) /\ <<literal(k)>> # <<>>
      BY <2>1
    <2> QED
      BY <2>2 DEF text, Piece, Pieces
  <1>2. Piece("message", format) \in Pieces
    BY DEF Piece, Pieces
  <1>3. Piece("end", <<literal(2)>>) \in Pieces
    <2>1. literal(2) \in Part
      BY DEF literal, Part
    <2>2. <<literal(2)>> \in Seq(Part) /\ <<literal(2)>> # <<>>
      BY <2>1
    <2> QED
      BY <2>2 DEF Piece, Pieces
  <1>4. /\ text(PREFIX_LEN) \in Pieces /\ text(1) \in Pieces /\ text(FileLen) \in Pieces
        /\ text(LineDigits) \in Pieces
    BY <1>1, ConsoleAssumption
  <1> QED
    BY <1>2, <1>3, <1>4 DEF log_line_format

(* The lines of kernal_main and of the failure report.                     *)
LEMMA OwnLines ==
    /\ log_line_format(expr_line) \in Seq(Pieces) /\ log_line_format(file_line) \in Seq(Pieces)
    /\ log_line_format(main_line) \in Seq(Pieces)
    /\ log_line_format(main_line) \o log_line_format(main_line) \in Seq(Pieces)
  <1>1. \A k \in Nat : literal(k) \in Part /\ str(k) \in Part /\ uint(k) \in Part
    BY DEF literal, str, uint, Part
  <1>2. expr_line \in Seq(Part)
    BY <1>1, FormatAssumption DEF expr_line
  <1>3. file_line \in Seq(Part)
    BY <1>1, FormatAssumption, ConsoleAssumption DEF file_line
  <1>4. main_line \in Seq(Part)
    BY <1>1 DEF main_line
  <1>5. log_line_format(main_line) \in Seq(Pieces)
    BY <1>4, LineOfPieces
  <1> QED
    BY <1>2, <1>3, <1>5, LineOfPieces, ConcatProperties

(* The pieces of a line have lengths.                                      *)
LEMMA PieceLength ==
    ASSUME line \in Seq(Pieces), At("text") \/ At("message")
    PROVE  piece_len \in Nat
  <1> DEFINE p == Head(line)
  <1>1. p \in Pieces
    BY DEF At
  <1>2. p.parts \in Seq(Part)
    BY <1>1 DEF Pieces
  <1>3. CASE At("message")
    BY <1>2, <1>3, MarshalCorrect DEF piece_len, Formatted
  <1>4. CASE ~At("message")
    <2>1. p.parts # <<>>
      BY <1>1, <1>4 DEF At, Pieces
    <2>2. 1 \in 0 .. Len(p.parts)
      BY <1>2, <2>1
    <2>3. Offsets(p.parts)[1] \in Nat
      BY <1>2, <2>2, OffsetsStep
    <2> QED
      BY <1>4, <2>3 DEF piece_len
  <1> QED
    BY <1>3, <1>4

(* What is cut off at the end of the row can be drawn, and the cursor ends *)
(* up in the row or behind its end.                                        *)
LEMMA DrawsInside ==
    ASSUME ConsoleOK, NEW len \in Nat
    PROVE  /\ str_ok(len)
           /\ NoScreen => write_len(len) = 0
           /\ CursorOnScreen => screen_col + write_len(len) \in Nat /\ screen_col + write_len(len) <= video_char_col_max
  <1>1. CASE NoScreen
    <2>1. video_char_col_max = 0 /\ screen_col = 0
      BY <1>1 DEF NoScreen, video_char_col_max
    <2>2. write_len(len) = 0
      BY <2>1 DEF write_len
    <2>3. 0 .. write_len(len) - 1 = {}
      BY <2>2
    <2>4. ~CursorOnScreen
      BY <1>1 DEF NoScreen, CursorOnScreen
    <2> QED
      BY <2>1, <2>2, <2>3, <2>4 DEF str_ok
  <1>2. CASE CursorOnScreen
    <2> DEFINE cols == video_char_col_max
               rows == video_char_row_max
    <2>1. /\ width \in Nat /\ height \in Nat /\ screen_row \in Nat /\ screen_row < rows
          /\ screen_col \in Nat /\ screen_col <= cols
      BY <1>2 DEF CursorOnScreen
    <2>2. /\ cols \in Nat /\ rows \in Nat /\ cols * 8 <= width /\ rows * 16 <= height
      BY <2>1 DEF video_char_col_max, video_char_row_max
    <2>3. ~NoScreen
      BY <1>2 DEF NoScreen, CursorOnScreen
    <2> HIDE DEF cols, rows
    <2>4. write_len(len) = IF cols - screen_col < len THEN cols - screen_col ELSE len
      BY DEF write_len, cols
    <2>5. write_len(len) \in Nat /\ screen_col + write_len(len) <= cols
      BY <2>1, <2>2, <2>4
    <2>6. ASSUME NEW i \in 0 .. write_len(len) - 1
          PROVE  video_draw_char_ok(screen_row, screen_col + i)
      <3>1. i \in Nat /\ screen_col + i < cols
        BY <2>1, <2>2, <2>5
      <3>2. (screen_col + i) * 8 + 7 < width /\ screen_row * 16 + 15 < height
        BY <2>1, <2>2, <3>1
      <3> QED
        BY <2>1, <3>1, <3>2 DEF video_draw_char_ok, cols, rows
    <2> QED
      BY <2>1, <2>2, <2>3, <2>5, <2>6 DEF str_ok, cols
  <1> QED
    BY <1>1, <1>2 DEF ConsoleOK

(* So none of the console's assertions can fail.                           *)
LEMMA NoLoggerFault == ASSUME ConsoleOK PROVE LogFault # "logger"
  <1>1. At("text") \/ At("message") => str_ok(piece_len)
    BY PieceLength, DrawsInside DEF ConsoleOK
  <1> QED
    BY <1>1 DEF LogFault, LoggerFails
-----------------------------------------------------------------------------
(* The sizes of the tables and of a group.                                 *)
LEMMA Sizes ==
    /\ GROUP_CAP \in Nat /\ GROUP_CAP > 0 /\ FUNCTIONS_CAP \in Nat /\ FUNCTIONS_CAP > 0
    /\ BUS_MAX \in Nat /\ BUS_MAX > 0 /\ DEVICE_MAX \in Nat /\ DEVICE_MAX > 0
    /\ FUNCTION_MAX \in Nat /\ FUNCTION_MAX > 0
  BY DiscoveryAssumption

(* What the firmware's tables are.                                         *)
LEMMA TableType ==
    ASSUME firmware \in Firmwares, NEW i \in 1 .. Len(firmware.tables)
    PROVE  /\ firmware.tables[i] \in [mcfg : BOOLEAN, len : Nat, groups : Seq(GroupType)]
           /\ firmware.tables[i].mcfg =>
                 /\ \A k \in 1 .. GROUP_CAP :
                       firmware.tables[i].len = 44 + 16 * k => Len(firmware.tables[i].groups) = k
                 /\ GroupsApart(firmware.tables[i].groups)
  <1>1. firmware.tables \in Seq([mcfg : BOOLEAN, len : Nat, groups : Seq(GroupType)])
    BY FirmwareAssumption
  <1>2. i \in DOMAIN firmware.tables
    BY <1>1
  <1>3. firmware.tables[i] \in [mcfg : BOOLEAN, len : Nat, groups : Seq(GroupType)]
    BY <1>1, ElementOfSeq
  <1> QED
    BY <1>2, <1>3, FirmwareAssumption

(* The table the loop over groups works on, and its groups.                *)
LEMMA InTableType ==
    ASSUME DiscoveryType, InTable
    PROVE  /\ tab \in 1 .. Len(firmware.tables)
           /\ Table.groups \in Seq(GroupType) /\ DOMAIN Table.groups = 1 .. group_cnt
           /\ \A g \in 1 .. group_cnt : Table.groups[g] \in GroupType
           /\ GroupsApart(Table.groups)
  <1>1. Len(firmware.tables) \in Nat
    BY FirmwareAssumption DEF DiscoveryType
  <1>2. tab \in 1 .. Len(firmware.tables)
    BY <1>1 DEF DiscoveryType, InTable
  <1>3. Table.groups \in Seq(GroupType) /\ GroupsApart(Table.groups)
    BY <1>2, TableType DEF DiscoveryType, InTable, Table
  <1>4. DOMAIN Table.groups = 1 .. group_cnt
    BY <1>3 DEF InTable
  <1>5. ASSUME NEW g \in 1 .. group_cnt PROVE Table.groups[g] \in GroupType
    BY <1>3, <1>5, ElementOfSeq DEF InTable
  <1> QED
    BY <1>2, <1>3, <1>4, <1>5

(* The indices.                                                            *)
LEMMA AtType ==
    ASSUME DiscoveryType
    PROVE  /\ at.group \in Nat /\ at.group >= 1 /\ at.group <= GROUP_CAP + 1 /\ at.bus \in Nat
           /\ at.dev \in Nat /\ at.dev < DEVICE_MAX /\ at.fun \in Nat /\ at.fun <= FUNCTION_MAX
           /\ group_cnt \in Nat /\ group_cnt <= GROUP_CAP
  BY Sizes DEF DiscoveryType

(* The list of the firmware's tables begins.                               *)
LEMMA TablesBegin == ASSUME DiscoveryOK, NEW new, acpi_tables(new) PROVE DiscoveryOK'
  <1>1. /\ firmware' = firmware /\ found' = found /\ at' = at /\ stage' = "tables" /\ tab' = 1
        /\ functions = <<>>
    BY DEF acpi_tables, DiscoveryOK
  <1>2. DiscoveryType'
    <2>1. Len(firmware.tables) \in Nat
      BY FirmwareAssumption DEF DiscoveryOK, DiscoveryType
    <2> QED
      BY <1>1, <2>1 DEF DiscoveryOK, DiscoveryType, found, Entries
  <1>3. FunctionsFound'
    <2>1. McfgSeen' = {}
      BY <1>1 DEF McfgSeen
    <2>2. functions' = <<>> /\ DOMAIN functions' = {} /\ Len(functions') = 0
      BY <1>1 DEF found
    <2>3. Cardinality({}) = 0
      BY FS_EmptySet
    <2> QED
      BY <2>1, <2>2, <2>3 DEF FunctionsFound, Listed, LastAddresses
  <1> QED
    BY <1>1, <1>2, <1>3 DEF DiscoveryOK

(* A table that is none of PCIe changes nothing.                           *)
LEMMA OtherTableKeeps == ASSUME DiscoveryOK, other_table PROVE DiscoveryOK'
  <1>1. /\ firmware' = firmware /\ stage = "tables" /\ stage' = "tables" /\ found' = found /\ at' = at
        /\ tab' = tab + 1 /\ tab <= Len(firmware.tables) /\ ~firmware.tables[tab].mcfg
    BY DEF other_table, MoreTables, Table
  <1>2. tab \in Nat /\ tab >= 1 /\ Len(firmware.tables) \in Nat
    BY FirmwareAssumption DEF DiscoveryOK, DiscoveryType
  <1>3. DiscoveryType'
    BY <1>1, <1>2 DEF DiscoveryOK, DiscoveryType, found, Entries
  <1>4. {i \in 1 .. tab' - 1 : firmware'.tables[i].mcfg} = {i \in 1 .. tab - 1 : firmware.tables[i].mcfg}
    BY <1>1, <1>2
  <1>5. FunctionsFound'
    <2>1. FunctionsFound
      BY DEF DiscoveryOK
    <2>2. functions' = functions /\ groups' = groups /\ firmware' = firmware /\ stage' = stage
      BY <1>1 DEF found
    <2>3. McfgSeen' = McfgSeen
      BY <1>4 DEF McfgSeen
    <2>4. LastAddresses' = LastAddresses
      BY <2>2, <2>3 DEF LastAddresses, Addresses, present, config
    <2>5. Listed' = Listed /\ \A i \in DOMAIN functions : addr(functions[i])' = addr(functions[i])
      BY <2>2 DEF Listed, addr
    <2> QED
      BY <2>1, <2>2, <2>4, <2>5 DEF FunctionsFound
  <1> QED
    BY <1>1, <1>3, <1>5 DEF DiscoveryOK

(* An MCFG table begins with an empty list.                                *)
LEMMA McfgBegins == ASSUME DiscoveryOK, d_pcie_bootstrap PROVE DiscoveryOK'
  <1>1. /\ firmware' = firmware /\ stage' = "groups" /\ functions' = <<>> /\ groups' = groups
        /\ tab' = tab /\ tab <= Len(firmware.tables) /\ Table.mcfg /\ ~mcfg_refused
        /\ group_cnt' = (Table.len - 44) \div 16 /\ at' = [at EXCEPT !.group = 1]
    BY DEF d_pcie_bootstrap, MoreTables, functions_reset
  <1>2. DiscoveryType
    BY DEF DiscoveryOK
  <1>3. tab \in 1 .. Len(firmware.tables) /\ Len(firmware.tables) \in Nat
    BY <1>1, <1>2, FirmwareAssumption DEF DiscoveryType
  <1>4. Table \in [mcfg : BOOLEAN, len : Nat, groups : Seq(GroupType)]
    BY <1>2, <1>3, TableType DEF DiscoveryType, Table
  <1>5. PICK k \in 1 .. GROUP_CAP : Table.len - 44 = 16 * k
    BY <1>1, Sizes DEF mcfg_refused
  <1>6. Table.len = 44 + 16 * k /\ k \in Nat
    BY <1>4, <1>5, Sizes
  <1>7. group_cnt' = k
    BY <1>1, <1>5, <1>6
  <1>8. Len(Table.groups) = k
    BY <1>1, <1>2, <1>3, <1>6, TableType DEF DiscoveryType, Table
  <1>9. at' \in [group : 1 .. GROUP_CAP + 1, bus : Nat, dev : 0 .. DEVICE_MAX - 1, fun : 0 .. FUNCTION_MAX]
        /\ at'.group = 1
    <2>1. 1 \in 1 .. GROUP_CAP + 1
      BY Sizes
    <2> QED
      BY <1>1, <1>2, <2>1 DEF DiscoveryType
  <1>10. DiscoveryType'
    <2>1. functions' \in Seq(Entries') /\ Len(functions') <= FUNCTIONS_CAP
      BY <1>1, Sizes
    <2>2. group_cnt' \in 0 .. GROUP_CAP
      BY <1>7, Sizes
    <2> QED
      BY <1>1, <1>2, <1>3, <1>9, <2>1, <2>2 DEF DiscoveryType
  <1>11. Table' = Table
    BY <1>1 DEF Table
  <1>12. ListOK(Table)'
    <2>1. DOMAIN functions' = {}
      BY <1>1
    <2>2. ASSUME NEW i \in 1 .. k, NEW bus, NEW dev, NEW fun PROVE ~Passed(i, bus, dev, fun)'
      BY <1>1, <1>9, <1>6 DEF Passed
    <2>3. DOMAIN Table'.groups = 1 .. k
      BY <1>4, <1>8, <1>11
    <2> QED
      BY <2>1, <2>2, <2>3 DEF ListOK
  <1>13. InTable'
    BY <1>1, <1>3, <1>6, <1>7, <1>8, <1>9, <1>11, <1>12 DEF InTable
  <1> QED
    BY <1>1, <1>10, <1>13 DEF DiscoveryOK, FunctionsFound

(* A step within a table that keeps the list, and with it what has been    *)
(* passed of what is wanted.                                               *)
LEMMA ListKept ==
    ASSUME DiscoveryType, InTable, firmware' = firmware, tab' = tab, functions' = functions,
           \A i \in DOMAIN Table.groups : \A bus, dev, fun :
              Wanted(Table, i, bus, dev, fun) =>
                 (Passed(i, bus, dev, fun)' <=> Passed(i, bus, dev, fun))
    PROVE  Table' = Table /\ ListOK(Table)'
  <1>1. Table' = Table
    BY DEF Table
  <1>2. \A i, bus, dev, fun : Wanted(Table, i, bus, dev, fun)' <=> Wanted(Table, i, bus, dev, fun)
    BY <1>1 DEF Wanted, present, config
  <1>3. \A i, bus, dev, fun : Wanted(Table, i, bus, dev, fun) => i \in DOMAIN Table.groups
    BY DEF Wanted
  <1>4. \A g, bus, dev, fun : config(g, bus, dev, fun)' = config(g, bus, dev, fun)
    BY DEF config
  <1>5. ListOK(Table)
    BY DEF InTable
  <1>6. ASSUME NEW k \in DOMAIN functions
        PROVE  LET f == functions[k]
               IN  /\ Wanted(Table, f.group, f.bus, f.dev, f.fun)' /\ Passed(f.group, f.bus, f.dev, f.fun)'
                   /\ f.config = config(Table.groups[f.group], f.bus, f.dev, f.fun)'
    <2> DEFINE f == functions[k]
    <2>1. /\ Wanted(Table, f.group, f.bus, f.dev, f.fun) /\ Passed(f.group, f.bus, f.dev, f.fun)
          /\ f.config = config(Table.groups[f.group], f.bus, f.dev, f.fun)
      BY <1>5 DEF ListOK
    <2>2. f.group \in DOMAIN Table.groups
      BY <1>3, <2>1
    <2>3. f' = f
      OBVIOUS
    <2> QED
      BY <1>1, <1>2, <1>4, <2>1, <2>2, <2>3
  <1>7. ASSUME NEW i \in DOMAIN Table.groups, NEW dev \in 0 .. DEVICE_MAX - 1,
               NEW fun \in 0 .. FUNCTION_MAX - 1,
               NEW bus \in Table.groups[i].bus_start .. Table.groups[i].bus_end - 1,
               Wanted(Table, i, bus, dev, fun)', Passed(i, bus, dev, fun)'
        PROVE  \E k \in DOMAIN functions : Place(functions[k], i, bus, dev, fun)
    <2>1. Wanted(Table, i, bus, dev, fun) /\ Passed(i, bus, dev, fun)
      BY <1>2, <1>7
    <2> QED
      BY <1>5, <2>1 DEF ListOK
  <1>8. \A k, l \in DOMAIN functions :
          Place(functions[k], functions[l].group, functions[l].bus, functions[l].dev, functions[l].fun) => k = l
    BY <1>5 DEF ListOK
  <1> QED
    BY <1>1, <1>6, <1>7, <1>8 DEF ListOK, Place

(* The scan of a group begins.                                             *)
LEMMA GroupBegins == ASSUME DiscoveryOK, bootstrap_group PROVE DiscoveryOK'
  <1>1. /\ stage = "groups" /\ at.group <= group_cnt /\ aligned(Group) /\ stage' = "scan"
        /\ firmware' = firmware /\ tab' = tab /\ group_cnt' = group_cnt /\ functions' = functions
        /\ groups' = [i \in DOMAIN groups \cup {at.group} |-> IF i = at.group THEN Group ELSE groups[i]]
        /\ at' = [at EXCEPT !.bus = Group.bus_start, !.dev = 0, !.fun = 0]
    BY DEF bootstrap_group
  <1>2. DiscoveryType /\ InTable
    BY <1>1 DEF DiscoveryOK
  <1>3. at.group \in 1 .. group_cnt /\ at.group \in 1 .. GROUP_CAP /\ group_cnt \in Nat
    BY <1>1, <1>2, AtType, Sizes
  <1>4. Group \in GroupType /\ Group = Table.groups[at.group]
    BY <1>2, <1>3, InTableType DEF Group
  <1>5. Group.bus_start \in Nat /\ 0 \in 0 .. DEVICE_MAX - 1 /\ 0 \in 0 .. FUNCTION_MAX
    BY <1>4, Sizes DEF GroupType
  <1>6. /\ at' \in [group : 1 .. GROUP_CAP + 1, bus : Nat, dev : 0 .. DEVICE_MAX - 1, fun : 0 .. FUNCTION_MAX]
        /\ at'.group = at.group /\ at'.bus = Group.bus_start /\ at'.dev = 0 /\ at'.fun = 0
    BY <1>1, <1>2, <1>5 DEF DiscoveryType
  <1>7. DOMAIN groups' \subseteq 1 .. GROUP_CAP
    BY <1>1, <1>2, <1>3 DEF DiscoveryType
  <1>8. DiscoveryType'
    BY <1>1, <1>2, <1>6, <1>7 DEF DiscoveryType, Entries
  <1>9. ASSUME NEW i \in DOMAIN Table.groups, NEW bus, NEW dev, NEW fun, Wanted(Table, i, bus, dev, fun)
        PROVE  Passed(i, bus, dev, fun)' <=> Passed(i, bus, dev, fun)
    <2>1. CASE i # at.group
      BY <1>1, <1>6, <2>1 DEF Passed
    <2>2. CASE i = at.group
      <3>1. Group.bus_end \in Nat
        BY <1>4 DEF GroupType
      <3>2. bus \in Group.bus_start .. Group.bus_end - 1
        BY <1>4, <1>9, <2>2 DEF Wanted
      <3>3. dev \in 0 .. DEVICE_MAX - 1 /\ fun \in 0 .. FUNCTION_MAX - 1
        BY <1>9 DEF Wanted
      <3>4. bus \in Nat /\ bus >= Group.bus_start /\ dev \in Nat /\ fun \in Nat
        BY <1>5, <3>1, <3>2, <3>3, Sizes
      <3>5. ~Passed(i, bus, dev, fun)'
        BY <1>1, <1>3, <1>5, <1>6, <2>2, <3>4 DEF Passed
      <3>6. ~Passed(i, bus, dev, fun)
        BY <1>1, <1>3, <2>2 DEF Passed
      <3> QED
        BY <3>5, <3>6
    <2> QED
      BY <2>1, <2>2
  <1>10. Table' = Table /\ ListOK(Table)'
    BY <1>1, <1>2, <1>9, ListKept
  <1>11. ASSUME NEW g \in 1 .. group_cnt, g < at.group \/ g = at.group
         PROVE  g \in DOMAIN groups' /\ groups'[g] = Table.groups[g] /\ aligned(Table.groups[g])
    <2>1. CASE g = at.group
      BY <1>1, <1>4, <2>1
    <2>2. CASE g < at.group
      <3>1. g \in DOMAIN groups /\ groups[g] = Table.groups[g] /\ aligned(Table.groups[g])
        BY <1>2, <2>2 DEF InTable
      <3>2. g # at.group
        BY <1>3, <2>2
      <3> QED
        BY <1>1, <3>1, <3>2
    <2> QED
      BY <1>11, <2>1, <2>2
  <1>12. Group.bus_start >= Group.bus_start
    BY <1>5
  <1>13. InTable'
    <2>1. tab' <= Len(firmware'.tables) /\ Table'.mcfg /\ group_cnt' = Len(Table'.groups)
      BY <1>1, <1>2, <1>10 DEF InTable
    <2>2. at'.group <= group_cnt' + 1 /\ at'.group <= group_cnt' /\ at'.bus >= Table'.groups[at'.group].bus_start
      BY <1>1, <1>3, <1>4, <1>6, <1>10, <1>12
    <2>3. \A g \in 1 .. group_cnt' : g < at'.group \/ (stage' = "scan" /\ g = at'.group) =>
             g \in DOMAIN groups' /\ groups'[g] = Table'.groups[g] /\ aligned(Table'.groups[g])
      BY <1>1, <1>6, <1>10, <1>11
    <2> QED
      BY <1>10, <2>1, <2>2, <2>3 DEF InTable, aligned
  <1> QED
    BY <1>1, <1>8, <1>13 DEF DiscoveryOK, FunctionsFound

(* The loops within the scan move the place on, and the groups stay.       *)
LEMMA ScanStep ==
    ASSUME DiscoveryType, InTable, stage = "scan", stage' = "scan", firmware' = firmware, tab' = tab,
           group_cnt' = group_cnt, groups' = groups, at'.group = at.group, at'.bus \in Nat, at'.bus >= at.bus,
           Table' = Table, ListOK(Table)'
    PROVE  InTable'
  <1>1. Table.groups[at.group].bus_start \in Nat
    <2>1. at.group \in 1 .. group_cnt
      BY AtType DEF InTable
    <2>2. Table.groups[at.group] \in GroupType
      BY <2>1, InTableType
    <2> QED
      BY <2>2 DEF GroupType
  <1>2. at'.bus >= Table.groups[at.group].bus_start
    BY <1>1, AtType DEF InTable
  <1> QED
    BY <1>2 DEF InTable, aligned

(* A function is asked, and listed if it answers.                          *)
LEMMA FunKeeps == ASSUME DiscoveryOK, bootstrap_fun PROVE DiscoveryOK'
  <1> DEFINE G == Table.groups[at.group]
  <1>1. /\ stage = "scan" /\ at.bus < groups[at.group].bus_end
        /\ at.fun < fun_cnt(groups[at.group], at.bus, at.dev)
        /\ Answers => Len(functions) < FUNCTIONS_CAP
        /\ functions' = IF Answers THEN Append(functions, Entry) ELSE functions
        /\ at' = [at EXCEPT !.fun = at.fun + 1]
        /\ stage' = stage /\ firmware' = firmware /\ tab' = tab /\ group_cnt' = group_cnt /\ groups' = groups
    BY DEF bootstrap_fun, MoreFunctions, Scanning
  <1>2. DiscoveryType /\ InTable
    BY <1>1 DEF DiscoveryOK
  <1>3. at.group \in 1 .. group_cnt /\ at.group \in 1 .. GROUP_CAP /\ group_cnt \in Nat
    BY <1>1, <1>2, AtType, Sizes, SMTT(20) DEF InTable
  <1>4. groups[at.group] = G /\ G \in GroupType
    BY <1>1, <1>2, <1>3, InTableType DEF InTable
  <1>5. G.bus_start \in Nat /\ G.bus_end \in Nat /\ at.bus >= G.bus_start /\ at.bus < G.bus_end
    BY <1>1, <1>2, <1>4 DEF GroupType, InTable
  <1>6. /\ at.fun < FUNCTION_MAX
        /\ at.fun = 0 \/ (present(G, at.bus, at.dev, 0) /\ config(G, at.bus, at.dev, 0).multi)
    BY <1>1, <1>2, <1>4, AtType, Sizes, SMTT(20) DEF fun_cnt
  <1>7. at.fun + 1 \in 0 .. FUNCTION_MAX /\ at.fun \in 0 .. FUNCTION_MAX - 1 /\ at.dev \in 0 .. DEVICE_MAX - 1
    BY <1>2, <1>6, AtType, Sizes
  <1>8. /\ at' \in [group : 1 .. GROUP_CAP + 1, bus : Nat, dev : 0 .. DEVICE_MAX - 1, fun : 0 .. FUNCTION_MAX]
        /\ at'.group = at.group /\ at'.bus = at.bus /\ at'.dev = at.dev /\ at'.fun = at.fun + 1
    BY <1>1, <1>2, <1>7 DEF DiscoveryType
  <1>9. at.bus \in G.bus_start .. G.bus_end - 1
    BY <1>2, <1>5, AtType
  <1>10. at.group \in DOMAIN Table.groups
    BY <1>2, <1>3, InTableType
  <1>11. Answers <=> Wanted(Table, at.group, at.bus, at.dev, at.fun)
    BY <1>4, <1>6, <1>7, <1>9, <1>10 DEF Answers, Wanted
  <1>12. ASSUME NEW i \in DOMAIN Table.groups, NEW bus, NEW dev, NEW fun, Wanted(Table, i, bus, dev, fun)
         PROVE  Passed(i, bus, dev, fun)' <=>
                   Passed(i, bus, dev, fun) \/ (i = at.group /\ bus = at.bus /\ dev = at.dev /\ fun = at.fun)
    <2>1. fun \in Nat
      BY <1>12, Sizes DEF Wanted
    <2>2. fun < at.fun + 1 <=> fun < at.fun \/ fun = at.fun
      BY <1>2, <2>1, AtType
    <2> QED
      BY <1>1, <1>8, <2>2 DEF Passed
  <1>13. CASE ~Answers
    <2>1. functions' = functions
      BY <1>1, <1>13
    <2>2. Table' = Table /\ ListOK(Table)'
      BY <1>1, <1>2, <1>11, <1>12, <1>13, <2>1, ListKept
    <2>3. DiscoveryType'
      BY <1>1, <1>2, <1>8, <2>1 DEF DiscoveryType, Entries
    <2>4. at'.bus \in Nat /\ at'.bus >= at.bus
      BY <1>2, <1>8, AtType
    <2>5. InTable'
      BY <1>1, <1>2, <1>8, <2>2, <2>4, ScanStep
    <2> QED
      BY <1>1, <2>3, <2>5 DEF DiscoveryOK, FunctionsFound
  <1>14. CASE Answers
    <2> DEFINE e == Entry
               m == Len(functions)
    <2>1. /\ e.group = at.group /\ e.bus = at.bus /\ e.dev = at.dev /\ e.fun = at.fun
          /\ e.config = config(G, at.bus, at.dev, at.fun)
      BY <1>4 DEF Entry, Config
    <2>2. Entry \in Entries
      <3>1. at.group \in 1 .. GROUP_CAP /\ at.bus \in Nat
        BY <1>2, <1>3, AtType
      <3>2. Config \in {firmware.space[a] : a \in DOMAIN firmware.space}
        BY <1>14 DEF Answers, present, Config, config
      <3> QED
        BY <1>7, <3>1, <3>2 DEF Entry, Entries
    <2>3. functions \in Seq(Entries) /\ m \in Nat /\ DOMAIN functions = 1 .. m
      BY <1>2 DEF DiscoveryType
    <2>4. functions' = Append(functions, e)
      BY <1>1, <1>14
    <2> HIDE DEF e
    <2>5. /\ functions' \in Seq(Entries) /\ Len(functions') = m + 1 /\ DOMAIN functions' = 1 .. m + 1
          /\ functions'[m + 1] = e /\ \A k \in 1 .. m : functions'[k] = functions[k]
      BY <2>2, <2>3, <2>4 DEF e
    <2>6. DiscoveryType'
      <3>1. Len(functions') <= FUNCTIONS_CAP
        BY <1>1, <1>14, <2>3, <2>5, Sizes
      <3>2. Entries' = Entries
        BY <1>1 DEF Entries
      <3> QED
        BY <1>1, <1>2, <1>8, <2>5, <3>1, <3>2 DEF DiscoveryType
    <2>7. Table' = Table
      BY <1>1 DEF Table
    <2>8. \A i, bus, dev, fun : Wanted(Table, i, bus, dev, fun)' <=> Wanted(Table, i, bus, dev, fun)
      BY <1>1, <2>7 DEF Wanted, present, config
    <2>9. \A g, bus, dev, fun : config(g, bus, dev, fun)' = config(g, bus, dev, fun)
      BY <1>1 DEF config
    <2>10. ListOK(Table)
      BY <1>2 DEF InTable
    <2>11. ASSUME NEW k \in DOMAIN functions'
           PROVE  /\ Wanted(Table, functions[k].group, functions[k].bus, functions[k].dev, functions[k].fun)'
                  /\ Passed(functions[k].group, functions[k].bus, functions[k].dev, functions[k].fun)'
                  /\ functions'[k].config = config(Table.groups[functions[k].group], functions[k].bus,
                                                   functions[k].dev, functions[k].fun)'
      <3>1. CASE k = m + 1
        <4>1. functions'[k] = e
          BY <2>5, <3>1
        <4>2. Wanted(Table, at.group, at.bus, at.dev, at.fun)
          BY <1>11, <1>14
        <4> QED
          BY <1>10, <1>12, <2>1, <2>7, <2>8, <2>9, <4>1, <4>2
      <3>2. CASE k \in 1 .. m
        <4> DEFINE f == functions[k]
        <4>1. functions'[k] = f
          BY <2>5, <3>2
        <4>2. /\ Wanted(Table, f.group, f.bus, f.dev, f.fun) /\ Passed(f.group, f.bus, f.dev, f.fun)
              /\ f.config = config(Table.groups[f.group], f.bus, f.dev, f.fun)
          BY <2>3, <2>10, <3>2 DEF ListOK
        <4>3. f.group \in DOMAIN Table.groups
          BY <4>2 DEF Wanted
        <4> HIDE DEF f
        <4> QED
          BY <1>12, <2>7, <2>8, <2>9, <4>1, <4>2, <4>3
      <3> QED
        BY <2>3, <2>5, <3>1, <3>2
    <2>12. ASSUME NEW i \in DOMAIN Table.groups, NEW dev \in 0 .. DEVICE_MAX - 1,
                  NEW fun \in 0 .. FUNCTION_MAX - 1,
                  NEW bus \in Table.groups[i].bus_start .. Table.groups[i].bus_end - 1,
                  Wanted(Table, i, bus, dev, fun)', Passed(i, bus, dev, fun)'
           PROVE  \E k \in DOMAIN functions' : Place(functions'[k], i, bus, dev, fun)
      <3>1. Wanted(Table, i, bus, dev, fun)
        BY <2>8, <2>12
      <3>2. CASE Passed(i, bus, dev, fun)
        <4>1. PICK k \in DOMAIN functions : Place(functions[k], i, bus, dev, fun)
          BY <2>10, <3>1, <3>2 DEF ListOK
        <4>2. k \in DOMAIN functions' /\ functions'[k] = functions[k]
          BY <2>3, <2>5
        <4> QED
          BY <4>1, <4>2
      <3>3. CASE i = at.group /\ bus = at.bus /\ dev = at.dev /\ fun = at.fun
        <4>1. m + 1 \in DOMAIN functions' /\ Place(functions'[m + 1], i, bus, dev, fun)
          BY <2>1, <2>3, <2>5, <3>3 DEF Place
        <4> QED
          BY <4>1
      <3> QED
        BY <1>12, <2>12, <3>1, <3>2, <3>3
    <2>13. ASSUME NEW k \in 1 .. m
           PROVE  ~Place(functions[k], at.group, at.bus, at.dev, at.fun)
      <3>1. Passed(functions[k].group, functions[k].bus, functions[k].dev, functions[k].fun)
        BY <2>3, <2>10, <2>13 DEF ListOK
      <3>2. ~Passed(at.group, at.bus, at.dev, at.fun)
        BY <1>2, AtType DEF Passed
      <3> QED
        BY <3>1, <3>2 DEF Place
    <2>14. ASSUME NEW k \in DOMAIN functions', NEW l \in DOMAIN functions',
                  Place(functions'[k], functions'[l].group, functions'[l].bus, functions'[l].dev, functions'[l].fun)
           PROVE  k = l
      <3>1. CASE k \in 1 .. m /\ l \in 1 .. m
        BY <2>3, <2>5, <2>10, <2>14, <3>1 DEF ListOK
      <3>2. CASE k \in 1 .. m /\ l = m + 1
        BY <2>1, <2>5, <2>13, <2>14, <3>2
      <3>3. CASE k = m + 1 /\ l \in 1 .. m
        BY <2>1, <2>5, <2>13, <2>14, <3>3 DEF Place
      <3> QED
        BY <2>3, <2>5, <3>1, <3>2, <3>3
    <2>15. ListOK(Table)'
      BY <2>7, <2>11, <2>12, <2>14 DEF ListOK, Place
    <2>16. at'.bus \in Nat /\ at'.bus >= at.bus
      BY <1>2, <1>8, AtType
    <2>17. InTable'
      BY <1>1, <1>2, <1>8, <2>7, <2>15, <2>16, ScanStep
    <2> QED
      BY <1>1, <2>6, <2>17 DEF DiscoveryOK, FunctionsFound
  <1> QED
    BY <1>13, <1>14

(* The next device has no wanted function before it that was not asked.    *)
LEMMA DevKeeps == ASSUME DiscoveryOK, next_dev PROVE DiscoveryOK'
  <1> DEFINE G == Table.groups[at.group]
  <1>1. /\ stage = "scan" /\ at.bus < groups[at.group].bus_end
        /\ ~(at.fun < fun_cnt(groups[at.group], at.bus, at.dev))
        /\ at' = IF at.dev + 1 < DEVICE_MAX THEN [at EXCEPT !.dev = at.dev + 1, !.fun = 0]
                 ELSE [at EXCEPT !.bus = at.bus + 1, !.dev = 0, !.fun = 0]
        /\ stage' = stage /\ firmware' = firmware /\ tab' = tab /\ group_cnt' = group_cnt /\ groups' = groups
        /\ functions' = functions
    BY DEF next_dev, MoreFunctions, Scanning, found
  <1>2. DiscoveryType /\ InTable
    BY <1>1 DEF DiscoveryOK
  <1>3. at.group \in 1 .. group_cnt
    BY <1>1, <1>2, AtType DEF InTable
  <1>4. groups[at.group] = G
    BY <1>1, <1>2, <1>3 DEF InTable
  <1>5. ASSUME NEW fun, Wanted(Table, at.group, at.bus, at.dev, fun) PROVE fun \in Nat /\ fun < at.fun
    <2>1. fun \in Nat /\ fun < FUNCTION_MAX
      BY <1>5, Sizes DEF Wanted
    <2>2. fun = 0 \/ (present(G, at.bus, at.dev, 0) /\ config(G, at.bus, at.dev, 0).multi)
      BY <1>5 DEF Wanted
    <2>3. present(G, at.bus, at.dev, 0)
      BY <1>5, <2>2 DEF Wanted
    <2>4. fun < fun_cnt(G, at.bus, at.dev) /\ fun_cnt(G, at.bus, at.dev) \in Nat
      BY <2>1, <2>2, <2>3, Sizes DEF fun_cnt
    <2> QED
      BY <1>1, <1>2, <1>4, <2>1, <2>4, AtType
  <1>6. /\ at' \in [group : 1 .. GROUP_CAP + 1, bus : Nat, dev : 0 .. DEVICE_MAX - 1, fun : 0 .. FUNCTION_MAX]
        /\ at'.group = at.group /\ at'.fun = 0 /\ at'.bus \in Nat /\ at'.bus >= at.bus
        /\ \/ at'.bus = at.bus /\ at'.dev = at.dev + 1
           \/ at'.bus = at.bus + 1 /\ at'.dev = 0 /\ at.dev = DEVICE_MAX - 1
    <2>1. 0 \in 0 .. DEVICE_MAX - 1 /\ 0 \in 0 .. FUNCTION_MAX /\ at.bus + 1 \in Nat
      BY <1>2, AtType, Sizes
    <2>2. CASE at.dev + 1 < DEVICE_MAX
      <3>1. at.dev + 1 \in 0 .. DEVICE_MAX - 1
        BY <1>2, <2>2, AtType, Sizes
      <3>2. at' = [at EXCEPT !.dev = at.dev + 1, !.fun = 0]
        BY <1>1, <2>2
      <3>3. /\ at' \in [group : 1 .. GROUP_CAP + 1, bus : Nat, dev : 0 .. DEVICE_MAX - 1, fun : 0 .. FUNCTION_MAX]
            /\ at'.group = at.group /\ at'.fun = 0 /\ at'.bus = at.bus /\ at'.dev = at.dev + 1
        BY <1>2, <2>1, <3>1, <3>2 DEF DiscoveryType
      <3> QED
        BY <1>2, <3>3, AtType
    <2>3. CASE ~(at.dev + 1 < DEVICE_MAX)
      <3>1. at.dev = DEVICE_MAX - 1
        BY <1>2, <2>3, AtType, Sizes
      <3>2. at' = [at EXCEPT !.bus = at.bus + 1, !.dev = 0, !.fun = 0]
        BY <1>1, <2>3
      <3>3. /\ at' \in [group : 1 .. GROUP_CAP + 1, bus : Nat, dev : 0 .. DEVICE_MAX - 1, fun : 0 .. FUNCTION_MAX]
            /\ at'.group = at.group /\ at'.fun = 0 /\ at'.bus = at.bus + 1 /\ at'.dev = 0
        BY <1>2, <2>1, <3>2 DEF DiscoveryType
      <3> QED
        BY <1>2, <3>1, <3>3, AtType
    <2> QED
      BY <2>2, <2>3
  <1>7. ASSUME NEW i \in DOMAIN Table.groups, NEW bus, NEW dev, NEW fun, Wanted(Table, i, bus, dev, fun)
        PROVE  Passed(i, bus, dev, fun)' <=> Passed(i, bus, dev, fun)
    <2>1. CASE i # at.group
      BY <1>1, <1>6, <2>1 DEF Passed
    <2>2. CASE i = at.group
      <3>1. G \in GroupType
        BY <1>2, <1>3, InTableType
      <3>2. bus \in Nat
        BY <1>7, <2>2, <3>1 DEF Wanted, GroupType
      <3>3. dev \in Nat /\ dev < DEVICE_MAX /\ fun \in Nat
        BY <1>7, Sizes DEF Wanted
      <3>4. bus = at.bus /\ dev = at.dev => fun < at.fun
        BY <1>5, <1>7, <2>2
      <3>5. Passed(i, bus, dev, fun) <=> bus < at.bus \/ (bus = at.bus /\ (dev < at.dev \/ (dev = at.dev /\ fun < at.fun)))
        BY <1>1, <1>2, <2>2, AtType DEF Passed
      <3>6. Passed(i, bus, dev, fun)' <=> bus < at'.bus \/ (bus = at'.bus /\ (dev < at'.dev \/ (dev = at'.dev /\ fun < at'.fun)))
        BY <1>1, <1>2, <1>6, <2>2, AtType DEF Passed
      <3> QED
        BY <1>2, <1>6, <3>2, <3>3, <3>4, <3>5, <3>6, AtType, Sizes
    <2> QED
      BY <2>1, <2>2
  <1>8. Table' = Table /\ ListOK(Table)'
    BY <1>1, <1>2, <1>7, ListKept
  <1>9. DiscoveryType'
    BY <1>1, <1>2, <1>6 DEF DiscoveryType, Entries
  <1>10. InTable'
    BY <1>1, <1>2, <1>6, <1>8, ScanStep
  <1> QED
    BY <1>1, <1>9, <1>10 DEF DiscoveryOK, FunctionsFound

(* The scan of a group ends behind its last bus.                           *)
LEMMA ScanEnds == ASSUME DiscoveryOK, scan_end PROVE DiscoveryOK'
  <1> DEFINE G == Table.groups[at.group]
  <1>1. /\ stage = "scan" /\ ~(at.bus < groups[at.group].bus_end) /\ stage' = "groups"
        /\ at' = [at EXCEPT !.group = at.group + 1]
        /\ firmware' = firmware /\ tab' = tab /\ group_cnt' = group_cnt /\ groups' = groups
        /\ functions' = functions
    BY DEF scan_end, Scanning, found
  <1>2. DiscoveryType /\ InTable
    BY <1>1 DEF DiscoveryOK
  <1>3. at.group \in 1 .. group_cnt /\ at.group \in Nat /\ group_cnt \in Nat /\ group_cnt <= GROUP_CAP
    BY <1>1, <1>2, AtType DEF InTable
  <1>4. groups[at.group] = G /\ G \in GroupType
    BY <1>1, <1>2, <1>3, InTableType DEF InTable
  <1>5. /\ at' \in [group : 1 .. GROUP_CAP + 1, bus : Nat, dev : 0 .. DEVICE_MAX - 1, fun : 0 .. FUNCTION_MAX]
        /\ at'.group = at.group + 1
    <2>1. at.group + 1 \in 1 .. GROUP_CAP + 1
      BY <1>3, Sizes
    <2> QED
      BY <1>1, <1>2, <2>1 DEF DiscoveryType
  <1>6. ASSUME NEW i \in DOMAIN Table.groups, NEW bus, NEW dev, NEW fun, Wanted(Table, i, bus, dev, fun)
        PROVE  Passed(i, bus, dev, fun)' <=> Passed(i, bus, dev, fun)
    <2>1. i \in Nat
      BY <1>2, InTableType
    <2>2. Passed(i, bus, dev, fun)' <=> i < at.group \/ i = at.group
      BY <1>1, <1>3, <1>5, <2>1 DEF Passed
    <2>3. CASE i # at.group
      BY <1>1, <2>2, <2>3 DEF Passed
    <2>4. CASE i = at.group
      <3>1. bus \in G.bus_start .. G.bus_end - 1 /\ G.bus_start \in Nat /\ G.bus_end \in Nat
        BY <1>4, <1>6, <2>4 DEF Wanted, GroupType
      <3>2. bus < at.bus
        BY <1>1, <1>2, <1>4, <3>1, AtType
      <3> QED
        BY <1>1, <2>2, <2>4, <3>2 DEF Passed
    <2> QED
      BY <2>3, <2>4
  <1>7. Table' = Table /\ ListOK(Table)'
    BY <1>1, <1>2, <1>6, ListKept
  <1>8. DiscoveryType'
    BY <1>1, <1>2, <1>5 DEF DiscoveryType, Entries
  <1>9. InTable'
    <2>1. ASSUME NEW g \in 1 .. group_cnt, g < at.group + 1
          PROVE  g \in DOMAIN groups /\ groups[g] = Table.groups[g] /\ aligned(Table.groups[g])
      <3>1. g < at.group \/ g = at.group
        BY <1>3, <2>1
      <3> QED
        BY <1>1, <1>2, <3>1 DEF InTable
    <2>2. at'.group <= group_cnt + 1
      BY <1>3, <1>5
    <2> QED
      BY <1>1, <1>2, <1>5, <1>7, <2>1, <2>2 DEF InTable, aligned
  <1> QED
    BY <1>1, <1>8, <1>9 DEF DiscoveryOK, FunctionsFound

(* A number written with two digits, and its digits.                       *)
LEMMA Digits ==
    ASSUME NEW w \in Nat, NEW top \in Nat, NEW hi \in Nat, hi < top, NEW lo \in Nat, lo < w
    PROVE  /\ hi * w + lo \in Nat /\ hi * w + lo < top * w /\ top * w \in Nat
           /\ \A h, l \in Nat : l < w /\ h * w + l = hi * w + lo => h = hi /\ l = lo
  <1>1. w * hi + w <= w * top /\ w * hi \in Nat /\ w * top \in Nat
    BY MulStep
  <1>2. w * hi = hi * w /\ w * top = top * w
    OBVIOUS
  <1>3. hi * w \in Nat /\ top * w \in Nat /\ hi * w + w <= top * w
    BY <1>1, <1>2
  <1> DEFINE a == hi * w
             b == top * w
  <1>4. a \in Nat /\ b \in Nat /\ a + w <= b
    BY <1>3
  <1> HIDE DEF a, b
  <1>5. a + lo \in Nat /\ a + lo < b
    BY <1>4
  <1>6. w > 0 /\ lo \in 0 .. w - 1
    OBVIOUS
  <1>7. (hi * w + lo) \div w = hi /\ (hi * w + lo) % w = lo
    BY <1>6, DivUnique
  <1>8. ASSUME NEW h \in Nat, NEW l \in Nat, l < w, h * w + l = hi * w + lo PROVE h = hi /\ l = lo
    <2>1. l \in 0 .. w - 1
      BY <1>8
    <2>2. (h * w + l) \div w = h /\ (h * w + l) % w = l
      BY <1>6, <2>1, DivUnique
    <2> QED
      BY <1>7, <1>8, <2>2
  <1> QED
    BY <1>4, <1>5, <1>8 DEF a, b

(* In aligned groups, different functions have different addresses.        *)
LEMMA AddressUnique ==
    ASSUME NEW g \in GroupType, NEW h \in GroupType, aligned(g), aligned(h),
           NEW b \in Nat, NEW c \in Nat, b < BUS_MAX, c < BUS_MAX,
           NEW d \in 0 .. DEVICE_MAX - 1, NEW e \in 0 .. DEVICE_MAX - 1,
           NEW x \in 0 .. FUNCTION_MAX - 1, NEW y \in 0 .. FUNCTION_MAX - 1,
           cfg_space_pa(g, b, d, x) = cfg_space_pa(h, c, e, y)
    PROVE  g.base = h.base /\ b = c /\ d = e /\ x = y
  <1> DEFINE D == DEVICE_MAX
             F == FUNCTION_MAX
             A == BUS_MAX * D * F
             u == b * D + d
             v == c * D + e
             p == u * F + x
             q == v * F + y
  <1>1. /\ D \in Nat /\ F \in Nat /\ BUS_MAX \in Nat /\ d \in Nat /\ d < D /\ e \in Nat /\ e < D
        /\ x \in Nat /\ x < F /\ y \in Nat /\ y < F
    BY Sizes
  <1>2. /\ u \in Nat /\ u < BUS_MAX * D /\ BUS_MAX * D \in Nat
        /\ \A hi, lo \in Nat : lo < D /\ hi * D + lo = u => hi = b /\ lo = d
    BY <1>1, Digits
  <1>3. v \in Nat /\ v < BUS_MAX * D
    BY <1>1, Digits
  <1> DEFINE T == BUS_MAX * D
  <1>4. T \in Nat /\ u < T /\ v < T
    BY <1>2, <1>3
  <1>5. A = T * F
    OBVIOUS
  <1>6. v = u => c = b /\ e = d
    BY <1>1, <1>2
  <1> HIDE DEF u, v, T
  <1>7. /\ p \in Nat /\ p < T * F /\ T * F \in Nat
        /\ \A hi, lo \in Nat : lo < F /\ hi * F + lo = p => hi = u /\ lo = x
    BY <1>1, <1>2, <1>4, Digits
  <1>8. q \in Nat /\ q < T * F
    BY <1>1, <1>3, <1>4, Digits
  <1>9. q = p => v = u /\ y = x
    BY <1>1, <1>3, <1>7
  <1>10. A \in Nat /\ p < A /\ q < A /\ A > 0
    BY <1>5, <1>7, <1>8
  <1>11. g.base \in Nat /\ h.base \in Nat /\ g.base % A = 0 /\ h.base % A = 0
    BY DEF GroupType, aligned, CONFIG_SPACE_ALIGN
  <1>12. g.base + p = h.base + q
    <2>1. cfg_space_pa(g, b, d, x) = g.base + (b * D + d) * F + x
      BY DEF cfg_space_pa
    <2>2. cfg_space_pa(h, c, e, y) = h.base + (c * D + e) * F + y
      BY DEF cfg_space_pa
    <2>3. g.base + u * F + x = h.base + v * F + y
      BY <2>1, <2>2 DEF u, v
    <2>4. u * F \in Nat /\ v * F \in Nat
      BY <1>1, <1>2, <1>3
    <2> QED
      BY <1>1, <1>11, <2>3, <2>4
  <1> HIDE DEF A, p, q
  <1> DEFINE i == g.base \div A
             j == h.base \div A
  <1>13. i \in Nat /\ g.base = A * i + (g.base % A) /\ j \in Nat /\ h.base = A * j + (h.base % A)
    BY <1>10, <1>11, DivMod
  <1>14. A * i = i * A /\ A * j = j * A /\ i * A \in Nat /\ j * A \in Nat
    BY <1>10, <1>13
  <1>15. g.base = i * A /\ h.base = j * A
    BY <1>10, <1>11, <1>13, <1>14
  <1> HIDE DEF i, j
  <1>16. p \in 0 .. A - 1 /\ q \in 0 .. A - 1
    BY <1>7, <1>8, <1>10
  <1>17. (i * A + p) \div A = i /\ (i * A + p) % A = p
    BY <1>10, <1>13, <1>16, DivUnique
  <1>18. (j * A + q) \div A = j /\ (j * A + q) % A = q
    BY <1>10, <1>13, <1>16, DivUnique
  <1>19. i = j /\ p = q
    BY <1>12, <1>15, <1>17, <1>18
  <1> QED
    BY <1>6, <1>9, <1>15, <1>19

(* The buses of a group.                                                   *)
LEMMA BusInGroup ==
    ASSUME NEW lo \in Nat, NEW hi \in Nat, NEW b \in lo .. hi - 1
    PROVE  b \in Nat /\ lo <= b /\ b < hi
  OBVIOUS

(* When the loops have passed all groups, the list is complete.            *)
LEMMA ListComplete ==
    ASSUME DiscoveryType, InTable, at.group > group_cnt
    PROVE  /\ Listed = Addresses(Table) /\ Len(functions) = Cardinality(Addresses(Table))
           /\ \A k \in DOMAIN functions : firmware.space[addr(functions[k])] = functions[k].config
  <1> DEFINE m == Len(functions)
             W(k) == Wanted(Table, functions[k].group, functions[k].bus, functions[k].dev, functions[k].fun)
             pa(k) == cfg_space_pa(Table.groups[functions[k].group], functions[k].bus, functions[k].dev, functions[k].fun)
  <1>1. m \in Nat /\ DOMAIN functions = 1 .. m
    BY DEF DiscoveryType
  <1>2. ListOK(Table) /\ group_cnt \in Nat /\ at.group \in Nat
    BY AtType DEF InTable
  <1>3. ASSUME NEW k \in 1 .. m
        PROVE  /\ W(k) /\ functions[k].group \in 1 .. group_cnt /\ addr(functions[k]) = pa(k)
               /\ aligned(Table.groups[functions[k].group])
               /\ functions[k].config = config(Table.groups[functions[k].group], functions[k].bus,
                                               functions[k].dev, functions[k].fun)
    <2>1. /\ W(k)
          /\ functions[k].config = config(Table.groups[functions[k].group], functions[k].bus,
                                          functions[k].dev, functions[k].fun)
      BY <1>1, <1>2, <1>3 DEF ListOK
    <2>2. functions[k].group \in 1 .. group_cnt
      BY <2>1, InTableType DEF Wanted
    <2>3. functions[k].group < at.group
      BY <1>2, <2>2
    <2>4. groups[functions[k].group] = Table.groups[functions[k].group] /\ aligned(Table.groups[functions[k].group])
      BY <2>2, <2>3 DEF InTable
    <2> QED
      BY <2>1, <2>2, <2>4 DEF addr
  <1>4. Listed = {pa(k) : k \in 1 .. m}
    BY <1>1, <1>3 DEF Listed
  <1>5. ASSUME NEW k \in 1 .. m PROVE pa(k) \in Addresses(Table) /\ pa(k) \in DOMAIN firmware.space
    <2> DEFINE f == functions[k]
    <2>1. /\ f.group \in DOMAIN Table.groups
          /\ f.bus \in Table.groups[f.group].bus_start .. Table.groups[f.group].bus_end - 1
          /\ f.dev \in 0 .. DEVICE_MAX - 1 /\ f.fun \in 0 .. FUNCTION_MAX - 1
          /\ pa(k) \in DOMAIN firmware.space
          /\ f.fun = 0 \/ (present(Table.groups[f.group], f.bus, f.dev, 0) /\ config(Table.groups[f.group], f.bus, f.dev, 0).multi)
      BY <1>3 DEF Wanted, present
    <2> HIDE DEF f
    <2>2. pa(k) = cfg_space_pa(Table.groups[f.group], f.bus, f.dev, f.fun)
      BY DEF f
    <2> HIDE DEF pa
    <2> QED
      BY <2>1, <2>2 DEF Addresses
  <1>6. ASSUME NEW a \in Addresses(Table) PROVE \E k \in 1 .. m : a = pa(k)
    <2>1. PICK i \in DOMAIN Table.groups, dev \in 0 .. DEVICE_MAX - 1, fun \in 0 .. FUNCTION_MAX - 1 :
             \E bus \in Table.groups[i].bus_start .. Table.groups[i].bus_end - 1 :
                /\ a = cfg_space_pa(Table.groups[i], bus, dev, fun)
                /\ fun = 0 \/ (present(Table.groups[i], bus, dev, 0) /\ config(Table.groups[i], bus, dev, 0).multi)
      BY <1>6 DEF Addresses
    <2>2. PICK bus \in Table.groups[i].bus_start .. Table.groups[i].bus_end - 1 :
                /\ a = cfg_space_pa(Table.groups[i], bus, dev, fun)
                /\ fun = 0 \/ (present(Table.groups[i], bus, dev, 0) /\ config(Table.groups[i], bus, dev, 0).multi)
      BY <2>1
    <2>3. a \in DOMAIN firmware.space
      BY <1>6 DEF Addresses
    <2>4. Wanted(Table, i, bus, dev, fun)
      BY <2>2, <2>3 DEF Wanted, present
    <2>5. Passed(i, bus, dev, fun)
      <3>1. i \in 1 .. group_cnt
        BY InTableType
      <3>2. i < at.group
        BY <1>2, <3>1
      <3> QED
        BY <3>2 DEF Passed
    <2>6. PICK k \in DOMAIN functions : Place(functions[k], i, bus, dev, fun)
      BY <1>2, <2>4, <2>5 DEF ListOK
    <2> QED
      BY <1>1, <2>2, <2>6 DEF Place
  <1>7. Listed = Addresses(Table)
    BY <1>4, <1>5, <1>6
  <1>8. ASSUME NEW k \in 1 .. m, NEW l \in 1 .. m, pa(k) = pa(l) PROVE k = l
    <2> DEFINE f == functions[k]
               g == functions[l]
               G == Table.groups[f.group]
               H == Table.groups[g.group]
    <2>1. /\ f.group \in 1 .. group_cnt /\ g.group \in 1 .. group_cnt /\ aligned(G) /\ aligned(H)
          /\ W(k) /\ W(l)
      BY <1>3
    <2>2. G \in GroupType /\ H \in GroupType /\ GroupsApart(Table.groups) /\ DOMAIN Table.groups = 1 .. group_cnt
      BY <2>1, InTableType
    <2>3. G.bus_end <= BUS_MAX /\ H.bus_end <= BUS_MAX
      BY <2>1, <2>2 DEF GroupsApart
    <2>4. /\ f.bus \in G.bus_start .. G.bus_end - 1 /\ f.dev \in 0 .. DEVICE_MAX - 1 /\ f.fun \in 0 .. FUNCTION_MAX - 1
          /\ g.bus \in H.bus_start .. H.bus_end - 1 /\ g.dev \in 0 .. DEVICE_MAX - 1 /\ g.fun \in 0 .. FUNCTION_MAX - 1
      BY <2>1 DEF Wanted
    <2>5. /\ G.bus_start \in Nat /\ G.bus_end \in Nat /\ H.bus_start \in Nat /\ H.bus_end \in Nat
      BY <2>2 DEF GroupType
    <2>6. f.bus \in Nat /\ g.bus \in Nat /\ f.bus < BUS_MAX /\ g.bus < BUS_MAX
      <3> HIDE DEF f, g, G, H
      <3>1. f.bus \in Nat /\ f.bus < G.bus_end /\ g.bus \in Nat /\ g.bus < H.bus_end
        BY <2>4, <2>5, BusInGroup
      <3> QED
        BY <2>3, <2>5, <3>1, Sizes
    <2>7. cfg_space_pa(G, f.bus, f.dev, f.fun) = cfg_space_pa(H, g.bus, g.dev, g.fun)
      BY <1>8
    <2>8. G.base = H.base /\ f.bus = g.bus /\ f.dev = g.dev /\ f.fun = g.fun
      <3> HIDE DEF f, g, G, H
      <3> QED
        BY <2>1, <2>2, <2>4, <2>6, <2>7, AddressUnique
    <2>9. f.group = g.group
      <3> SUFFICES ASSUME f.group # g.group PROVE FALSE
        OBVIOUS
      <3>1. G.bus_end <= H.bus_start \/ H.bus_end <= G.bus_start
        BY <2>1, <2>2, <2>8 DEF GroupsApart
      <3> HIDE DEF f, g, G, H
      <3>2. /\ f.bus < G.bus_end /\ G.bus_start <= f.bus /\ g.bus < H.bus_end /\ H.bus_start <= g.bus
        BY <2>4, <2>5, SMTT(20)
      <3> QED
        BY <2>5, <2>6, <2>8, <3>1, <3>2
    <2> QED
      BY <1>1, <1>2, <2>8, <2>9 DEF ListOK, Place
  <1>9. m = Cardinality(Addresses(Table))
    <2> DEFINE fn == [k \in 1 .. m |-> pa(k)]
               S == Addresses(Table)
    <2>1. fn \in [1 .. m -> S] /\ \A k \in 1 .. m : fn[k] = pa(k)
      BY <1>5
    <2>2. \A k, l \in 1 .. m : fn[k] = fn[l] => k = l
      BY <1>8
    <2>3. \A a \in S : \E k \in 1 .. m : fn[k] = a
      BY <1>6
    <2> HIDE DEF fn, S
    <2>4. fn \in Bijection(1 .. m, S)
      BY <2>1, <2>2, <2>3 DEF Bijection, Injection, Surjection, IsInjective
    <2>5. ExistsBijection(1 .. m, S)
      BY <2>4 DEF ExistsBijection
    <2> QED
      BY <1>1, <2>5, FS_CountingElements DEF S
  <1>10. \A k \in DOMAIN functions : firmware.space[addr(functions[k])] = functions[k].config
    BY <1>1, <1>3 DEF config
  <1> QED
    BY <1>7, <1>9, <1>10

(* The table is done, and is the last one seen.                            *)
LEMMA GroupsEnd == ASSUME DiscoveryOK, groups_end PROVE DiscoveryOK'
  <1>1. /\ stage = "groups" /\ at.group > group_cnt /\ stage' = "tables" /\ tab' = tab + 1
        /\ firmware' = firmware /\ group_cnt' = group_cnt /\ groups' = groups
        /\ functions' = functions /\ at' = at
    BY DEF groups_end, found
  <1>2. DiscoveryType /\ InTable
    BY <1>1 DEF DiscoveryOK
  <1>3. tab \in 1 .. Len(firmware.tables) /\ Len(firmware.tables) \in Nat /\ Table.mcfg
    BY <1>2, InTableType, FirmwareAssumption DEF InTable, DiscoveryType
  <1>4. DiscoveryType'
    BY <1>1, <1>2, <1>3 DEF DiscoveryType, Entries
  <1>5. tab \in McfgSeen' /\ \A i \in McfgSeen' : i \in Nat /\ i <= tab
    BY <1>1, <1>3 DEF McfgSeen, Table
  <1>6. Max(McfgSeen') = tab
    <2> DEFINE S == McfgSeen'
    <2>1. S \subseteq Nat /\ tab \in S /\ \A y \in S : tab >= y
      BY <1>3, <1>5
    <2> HIDE DEF S
    <2>2. \A x \in S : (\A y \in S : x >= y) => x = tab
      BY <1>3, <2>1
    <2>3. Max(S) \in S /\ \A y \in S : Max(S) >= y
      BY <2>1 DEF Max
    <2> QED
      BY <2>2, <2>3 DEF S
  <1>7. LastAddresses' = Addresses(Table)
    <2>1. McfgSeen' # {}
      BY <1>5
    <2> QED
      BY <1>1, <1>6, <2>1 DEF LastAddresses, Table, Addresses, present, config
  <1>8. Listed' = Listed /\ \A k \in DOMAIN functions : addr(functions[k])' = addr(functions[k])
    BY <1>1 DEF Listed, addr
  <1>9. FunctionsFound'
    BY <1>1, <1>2, <1>7, <1>8, ListComplete DEF FunctionsFound
  <1> QED
    BY <1>1, <1>4, <1>9 DEF DiscoveryOK

(* Every step of discovery keeps what is known of it.                      *)
LEMMA DiscoverKeeps == ASSUME DiscoveryOK, NEW new, discover(new) PROVE DiscoveryOK'
  BY TablesBegin, OtherTableKeeps, McfgBegins, GroupBegins, GroupsEnd, FunKeeps, DevKeeps, ScanEnds DEF discover

(* And so does every step that leaves it alone.                            *)
LEMMA DiscoveryUnchanged == ASSUME DiscoveryOK, UNCHANGED discovery PROVE DiscoveryOK'
  <1>1. /\ firmware' = firmware /\ stage' = stage /\ tab' = tab /\ group_cnt' = group_cnt
        /\ groups' = groups /\ functions' = functions /\ at' = at
    BY DEF discovery, found
  <1>2. DiscoveryType' <=> DiscoveryType
    BY <1>1 DEF DiscoveryType, Entries
  <1>3. ASSUME stage \in {"groups", "scan"} PROVE InTable'
    <2>1. DiscoveryType /\ InTable
      BY <1>3 DEF DiscoveryOK
    <2>2. \A i, bus, dev, fun : Passed(i, bus, dev, fun)' <=> Passed(i, bus, dev, fun)
      BY <1>1 DEF Passed
    <2>3. Table' = Table /\ ListOK(Table)'
      BY <1>1, <2>1, <2>2, ListKept
    <2> QED
      BY <1>1, <2>1, <2>3 DEF InTable, aligned
  <1>4. FunctionsFound'
    <2>1. FunctionsFound
      BY DEF DiscoveryOK
    <2>2. LastAddresses' = LastAddresses
      BY <1>1 DEF LastAddresses, McfgSeen, Addresses, present, config
    <2>3. Listed' = Listed /\ \A k \in DOMAIN functions : addr(functions[k])' = addr(functions[k])
      BY <1>1 DEF Listed, addr
    <2> QED
      BY <1>1, <2>1, <2>2, <2>3 DEF FunctionsFound
  <1> QED
    BY <1>1, <1>2, <1>3, <1>4 DEF DiscoveryOK
-----------------------------------------------------------------------------
(* Steps that log a line and leave the screen.                             *)
LEMMA ScreenKept ==
    ASSUME ConsoleOK, UNCHANGED <<write_screen, cursor, geometry>>, line' \in Seq(Pieces)
    PROVE  ConsoleOK' /\ (NoScreen => NoScreen')
  BY DEF ConsoleOK, NoScreen, CursorOnScreen, cursor, geometry, video_char_row_max, video_char_col_max

(* A piece or the end of a line.                                           *)
LEMMA LogWrites ==
    ASSUME ConsoleOK, log_str_len \/ log_line_end
    PROVE  ConsoleOK' /\ (NoScreen => NoScreen')
  <1>1. line \in Seq(Pieces) /\ line # <<>> /\ line' = Tail(line) /\ write_screen' = write_screen
        /\ width' = width /\ height' = height
    BY DEF ConsoleOK, log_str_len, log_line_end, At, geometry
  <1>2. line' \in Seq(Pieces)
    BY <1>1
  <1>3. ASSUME log_str_len
        PROVE  (NoScreen => NoScreen') /\ (CursorOnScreen => CursorOnScreen')
    <2> DEFINE k == IF write_screen THEN write_len(piece_len) ELSE 0
    <2>1. piece_len \in Nat
      BY <1>1, <1>3, PieceLength DEF log_str_len
    <2>2. screen_row' = screen_row /\ screen_col' = screen_col + k
      BY <1>3 DEF log_str_len
    <2>3. NoScreen => k = 0
      BY <2>1, DrawsInside
    <2>4. CursorOnScreen => screen_col + k \in Nat /\ screen_col + k <= video_char_col_max
      <3>1. CASE write_screen
        BY <2>1, <3>1, DrawsInside
      <3>2. CASE ~write_screen
        BY <3>2 DEF CursorOnScreen
      <3> QED
        BY <3>1, <3>2
    <2> HIDE DEF k
    <2>5. NoScreen => NoScreen'
      BY <1>1, <2>2, <2>3 DEF NoScreen
    <2>6. CursorOnScreen => CursorOnScreen'
      BY <1>1, <2>2, <2>4 DEF CursorOnScreen, video_char_row_max, video_char_col_max
    <2> QED
      BY <2>5, <2>6
  <1>4. ASSUME log_line_end
        PROVE  (NoScreen => NoScreen') /\ (CursorOnScreen => CursorOnScreen')
    <2>1. CASE ~write_screen
      <3>1. screen_row' = screen_row /\ screen_col' = screen_col
        BY <1>4, <2>1 DEF log_line_end, cursor
      <3> QED
        BY <1>1, <3>1 DEF NoScreen, CursorOnScreen, video_char_row_max, video_char_col_max
    <2>2. CASE write_screen
      <3>1. screen_row' = next_row /\ screen_col' = 0 /\ video_char_row_max # 0
        BY <1>4, <2>2 DEF log_line_end, DividesByZero
      <3>2. ~NoScreen
        BY <3>1 DEF NoScreen, video_char_row_max
      <3>3. CursorOnScreen => CursorOnScreen'
        <4> SUFFICES ASSUME CursorOnScreen PROVE CursorOnScreen'
          OBVIOUS
        <4> DEFINE r == video_char_row_max
        <4>1. /\ width \in Nat /\ height \in Nat /\ height >= 16 /\ screen_row + 1 \in Nat
              /\ r \in Nat /\ r > 0 /\ video_char_col_max \in Nat
          BY DEF CursorOnScreen, video_char_row_max, video_char_col_max
        <4>2. next_row = (screen_row + 1) % r
          BY DEF next_row
        <4>3. r' = r /\ video_char_col_max' = video_char_col_max
          BY <1>1 DEF video_char_row_max, video_char_col_max
        <4> HIDE DEF r
        <4>4. next_row \in 0 .. r - 1
          BY <4>1, <4>2, DivMod
        <4>5. next_row \in Nat /\ next_row < r
          BY <4>1, <4>4
        <4> QED
          BY <1>1, <3>1, <4>1, <4>3, <4>5 DEF CursorOnScreen, r
      <3> QED
        BY <3>2, <3>3
    <2> QED
      BY <2>1, <2>2
  <1> QED
    BY <1>1, <1>2, <1>3, <1>4 DEF ConsoleOK

(* A failure: its first line is logged, the rest stays as it is.           *)
LEMMA FailKeeps ==
    ASSUME ConsoleOK, BootOK, NEW reason \in Reasons, Fail(reason), UNCHANGED <<write_screen, cursor, geometry>>,
           UNCHANGED <<machine, n, ptr, saved, idt, lines>>
    PROVE  ConsoleOK' /\ BootOK'
  <1>1. pc' = "failed" /\ why' = reason /\ left' = 1 /\ line' \in Seq(Pieces)
    BY OwnLines DEF Fail
  <1>2. ConsoleOK'
    BY <1>1, ScreenKept
  <1> QED
    BY <1>1, <1>2 DEF BootOK

(* An ordinary step of kernal_main: it may log, and goes on.               *)
LEMMA GoKeeps ==
    ASSUME ConsoleOK, BootOK, UNCHANGED <<write_screen, cursor, geometry>>, line' \in Seq(Pieces),
           UNCHANGED <<machine, n, ptr, saved, failure>>, idt' \in BOOLEAN, lines' \in 0 .. MAX_LINES,
           pc' \in {"save", "mem_1", "acpi", "intr", "mem_2", "ended", "hlt", "wild", "failed"},
           pc' = "save" => NoScreen /\ n = 1, pc' = "mem_1" => NoScreen
    PROVE  ConsoleOK' /\ BootOK'
  <1>1. ConsoleOK' /\ (NoScreen => NoScreen')
    BY ScreenKept
  <1> QED
    BY <1>1 DEF BootOK, failure

(* A failure at a place where nothing else changes.                        *)
LEMMA FailHereKeeps ==
    ASSUME IInv, NEW reason \in Reasons, FailHere(reason)
    PROVE  IInv'
  <1>1. ConsoleOK' /\ BootOK'
    BY FailKeeps DEF IInv, FailHere, boot
  <1>2. DiscoveryOK'
    BY DiscoveryUnchanged DEF IInv, FailHere
  <1> QED
    BY <1>1, <1>2 DEF IInv

(* Logging, and what can go wrong with it.                                 *)
LEMMA LogKeeps == ASSUME IInv, log \/ divide_error PROVE IInv'
  <1>1. CASE (log_str_len \/ log_line_end) /\ UNCHANGED <<discovery, boot, pc, failure>>
    <2>1. ConsoleOK' /\ (NoScreen => NoScreen')
      BY <1>1, LogWrites DEF IInv
    <2>2. DiscoveryOK'
      BY <1>1, DiscoveryUnchanged DEF IInv
    <2>3. BootOK'
      BY <1>1, <2>1 DEF IInv, BootOK, boot, failure
    <2> QED
      BY <2>1, <2>2, <2>3 DEF IInv
  <1>2. CASE LogFault # "none" /\ FailHere(LogFault)
    <2>1. LogFault = "message"
      BY <1>2, NoLoggerFault DEF IInv, LogFault
    <2> QED
      BY <1>2, <2>1, FailHereKeeps DEF Reasons
  <1>3. CASE divide_error
    <2>1. CASE idt
      BY <1>3, <2>1, FailHereKeeps DEF divide_error, Reasons
    <2>2. CASE ~idt
      <3>1. pc' = "reset" /\ line' = <<>> /\ UNCHANGED <<discovery, boot, failure, write_screen, cursor, geometry>>
        BY <1>3, <2>2 DEF divide_error
      <3>2. ConsoleOK'
        BY <3>1, ScreenKept DEF IInv
      <3>3. DiscoveryOK'
        BY <3>1, DiscoveryUnchanged DEF IInv
      <3>4. BootOK'
        BY <3>1 DEF IInv, BootOK, boot, failure
      <3> QED
        BY <3>2, <3>3, <3>4 DEF IInv
    <2> QED
      BY <2>1, <2>2
  <1> QED
    BY <1>1, <1>2, <1>3 DEF log

(* The second line of a failure report, and its end.                       *)
LEMMA ReportKeeps == ASSUME IInv, report \/ report_end PROVE IInv'
  <1>1. DiscoveryOK'
    BY DiscoveryUnchanged DEF IInv, report, report_end
  <1>2. CASE report
    <2>1. /\ UNCHANGED <<boot, pc, why, write_screen, cursor, geometry>> /\ line' \in Seq(Pieces)
          /\ pc = "failed" /\ left > 0 /\ left' = left - 1
      BY <1>2, OwnLines DEF report
    <2>2. ConsoleOK'
      BY <2>1, ScreenKept DEF IInv
    <2>3. left' \in 0 .. 1
      BY <2>1 DEF IInv, BootOK
    <2>4. BootOK'
      BY <2>1, <2>3 DEF IInv, BootOK, boot
    <2> QED
      BY <1>1, <2>2, <2>4 DEF IInv
  <1>3. CASE report_end
    <2>1. UNCHANGED <<console, boot, failure>> /\ pc' = "hlt"
      BY <1>3 DEF report_end
    <2>2. ConsoleOK'
      BY <2>1, ScreenKept DEF IInv, console, ConsoleOK
    <2>3. BootOK'
      BY <2>1 DEF IInv, BootOK, boot, failure
    <2> QED
      BY <1>1, <2>2, <2>3 DEF IInv
  <1> QED
    BY <1>2, <1>3

(* The loader's tags.                                                      *)
LEMMA TagsKeep == ASSUME IInv, multi_boot_info_save \/ save_tag \/ save_end PROVE IInv'
  <1>1. DiscoveryOK'
    BY DiscoveryUnchanged DEF IInv, multi_boot_info_save, save_tag, save_end
  <1>2. CASE multi_boot_info_save
    <2>1. CASE machine.header_ok
      <3>1. /\ pc = "save" /\ ptr' = 8 /\ pc' = "tags"
            /\ UNCHANGED <<failure, line, n, write_screen, cursor, geometry, machine, saved, idt, lines>>
        BY <1>2, <2>1 DEF multi_boot_info_save, Main, Go, Screen
      <3>2. ConsoleOK' /\ (NoScreen => NoScreen')
        BY <3>1, ScreenKept DEF IInv, ConsoleOK
      <3>3. n = 1 /\ NoScreen
        BY <3>1 DEF IInv, BootOK
      <3>4. Ends(machine.tags)[n - 1] = 8
        BY <3>3, MachineType, EndsStep DEF IInv, BootOK
      <3>5. BootOK'
        BY <3>1, <3>2, <3>3, <3>4 DEF IInv, BootOK, failure
      <3> QED
        BY <1>1, <3>2, <3>5 DEF IInv
    <2>2. CASE ~machine.header_ok
      <3>1. ConsoleOK' /\ BootOK'
        BY <1>2, <2>2, FailKeeps DEF multi_boot_info_save, Screen, IInv, Reasons
      <3> QED
        BY <1>1, <3>1 DEF IInv
    <2> QED
      BY <2>1, <2>2
  <1>3. CASE save_tag
    <2>1. CASE ~(Tag.type \in known_types /\ Tag.type \notin DOMAIN saved)
      <3>1. ConsoleOK' /\ BootOK'
        BY <1>3, <2>1, FailKeeps DEF save_tag, Screen, IInv, Reasons
      <3> QED
        BY <1>1, <3>1 DEF IInv
    <2>2. CASE Tag.type \in known_types /\ Tag.type \notin DOMAIN saved
      <3>1. /\ pc = "tags" /\ MoreTags /\ pc' = pc /\ ptr' = next_tag(ptr, Tag.size)
            /\ n' = (IF Tag.size = 0 THEN n ELSE n + 1)
            /\ DOMAIN saved' = DOMAIN saved \cup {Tag.type}
            /\ UNCHANGED <<failure, line, write_screen, cursor, geometry, machine, idt, lines>>
        BY <1>3, <2>2 DEF save_tag, Main, Go, Screen
      <3>2. ConsoleOK' /\ (NoScreen => NoScreen')
        BY <3>1, ScreenKept DEF IInv, ConsoleOK
      <3> DEFINE tags == machine.tags
      <3>3. n \in 1 .. Len(tags) /\ Tag \in [type : Nat, size : Nat]
        BY <3>1, TagThere DEF IInv
      <3>4. tags \in Seq([type : Nat, size : Nat]) /\ Len(tags) \in Nat
        BY MachineType DEF IInv, BootOK
      <3>5. ptr = Ends(tags)[n - 1] /\ \A i \in 1 .. n - 1 : tags[i].type # 0
        BY <3>1 DEF IInv, BootOK
      <3>6. Ends(tags)[n] = align_up(Ends(tags)[n - 1] + tags[n].size) /\ Ends(tags)[n] \in Nat
        <4>1. n \in 0 .. Len(tags)
          BY <3>3, <3>4
        <4> QED
          BY <3>3, <3>4, <4>1, EndsStep
      <3>7. ptr' = Ends(tags)[n] /\ ptr' \in Nat
        BY <3>1, <3>5, <3>6 DEF next_tag, Tag
      <3>8. \A i \in 1 .. n : tags[i].type # 0
        BY <3>1, <3>3, <3>5 DEF MoreTags, Tag
      <3>9. n' \in 1 .. Len(tags) + 1 /\ ptr' = Ends(tags)[n' - 1]
        <4>1. CASE Tag.size # 0
          <5>1. n' = n + 1 /\ n' - 1 = n
            BY <3>1, <3>3, <4>1
          <5> QED
            BY <3>3, <3>4, <3>7, <5>1
        <4>2. CASE Tag.size = 0
          <5>1. n' = n /\ ptr' = align_up(ptr + 0) /\ ptr % 8 = 0 /\ ptr \in Nat
            BY <3>1, <4>2 DEF next_tag, MoreTags, IInv, BootOK
          <5>2. align_up(ptr + 0) = ptr
            BY <5>1 DEF align_up
          <5>3. n' \in 1 .. Len(tags) + 1
            BY <3>3, <3>4, <5>1
          <5>4. ptr' = Ends(tags)[n' - 1]
            BY <3>5, <5>1, <5>2, Zenon
          <5> QED
            BY <5>3, <5>4
        <4> QED
          BY <4>1, <4>2
      <3>10. BootOK'
        <4>1. machine' \in Machines /\ DOMAIN saved' \subseteq known_types /\ machine'.tags = tags
          BY <2>2, <3>1 DEF IInv, BootOK
        <4>2. NoScreen'
          BY <3>1, <3>2 DEF IInv, BootOK
        <4>3. ptr' = Ends(machine'.tags)[n' - 1] /\ \A i \in 1 .. n' - 1 : machine'.tags[i].type # 0
          <5>1. \A i \in 1 .. n' - 1 : i \in 1 .. n
            <6>1. (n' = n \/ n' = n + 1) /\ n \in Nat
              BY <3>1, <3>3, <3>4
            <6> QED
              BY <6>1
          <5> QED
            BY <3>8, <3>9, <4>1, <5>1, Zenon
        <4>4. /\ idt' \in BOOLEAN /\ why' \in Reasons /\ left' \in 0 .. 1 /\ lines' \in 0 .. MAX_LINES
              /\ pc' = "tags"
          BY <3>1 DEF IInv, BootOK, failure
        <4> HIDE DEF tags
        <4> QED
          BY <3>7, <3>9, <4>1, <4>2, <4>3, <4>4 DEF BootOK
      <3> QED
        BY <1>1, <3>2, <3>10 DEF IInv
    <2> QED
      BY <2>1, <2>2
  <1>4. CASE save_end
    <2>1. CASE Go("mem_1") /\ UNCHANGED line
      <3>1. pc = "tags" /\ pc' = "mem_1" /\ UNCHANGED <<failure, line, write_screen, cursor, geometry, boot>>
        BY <1>4, <2>1 DEF save_end, Main, Go, Screen
      <3>2. ConsoleOK /\ BootOK /\ line' \in Seq(Pieces) /\ idt' \in BOOLEAN /\ lines' \in 0 .. MAX_LINES /\ NoScreen
        BY <3>1 DEF IInv, ConsoleOK, BootOK, boot
      <3>3. ConsoleOK' /\ BootOK'
        BY <3>1, <3>2, GoKeeps DEF boot
      <3> QED
        BY <1>1, <3>3 DEF IInv
    <2>2. CASE Fail("loader")
      <3>1. ConsoleOK' /\ BootOK'
        BY <1>4, <2>2, FailKeeps DEF save_end, Screen, IInv, Reasons, boot
      <3> QED
        BY <1>1, <3>1 DEF IInv
    <2> QED
      BY <1>4, <2>1, <2>2 DEF save_end
  <1> QED
    BY <1>2, <1>3, <1>4

(* Steps of kernal_main that only log and go on.                           *)
LEMMA MainKeeps ==
    ASSUME IInv, \/ start \/ intr_init \/ mem_bootstrap_2 \/ kernel_halt \/ acpi_overrun
                 \/ InAcpi /\ discovered /\ Go("intr") /\ UNCHANGED <<console, discovery, boot>>
    PROVE  IInv'
  <1>1. UNCHANGED discovery
    BY DEF start, intr_init, mem_bootstrap_2, kernel_halt, acpi_overrun
  <1>2. DiscoveryOK'
    BY <1>1, DiscoveryUnchanged DEF IInv
  <1>3. /\ ConsoleOK /\ BootOK /\ line \in Seq(Pieces) /\ idt \in BOOLEAN /\ lines \in 0 .. MAX_LINES
        /\ pc \in {"start", "save", "tags", "mem_1", "vesa"} => NoScreen
    BY DEF IInv, ConsoleOK, BootOK
  <1>4. /\ UNCHANGED <<write_screen, cursor, geometry>> /\ UNCHANGED <<machine, n, ptr, saved, failure>>
        /\ line' \in Seq(Pieces) /\ idt' \in BOOLEAN /\ lines' \in 0 .. MAX_LINES
        /\ pc' \in {"save", "intr", "mem_2", "ended", "hlt", "wild"} /\ (pc' = "save" => NoScreen /\ n = 1)
    <2>1. CASE start
      BY <1>3, <2>1, OwnLines DEF start, Main, Go, Screen, boot, BootOK
    <2>2. CASE intr_init
      BY <1>3, <2>2, OwnLines DEF intr_init, Main, Go, Screen, Log
    <2>3. CASE mem_bootstrap_2
      BY <1>3, <2>3, OwnLines DEF mem_bootstrap_2, Main, Go, Screen, Log, boot
    <2>4. CASE kernel_halt
      BY <1>3, <2>4 DEF kernel_halt, Main, Go, console, boot
    <2>5. CASE acpi_overrun
      BY <1>3, <2>5 DEF acpi_overrun, Main, Go, console, boot
    <2>6. CASE InAcpi /\ discovered /\ Go("intr") /\ UNCHANGED <<console, discovery, boot>>
      BY <1>3, <2>6 DEF Go, console, boot
    <2> QED
      BY <2>1, <2>2, <2>3, <2>4, <2>5, <2>6
  <1>5. ConsoleOK' /\ BootOK'
    BY <1>3, <1>4, GoKeeps
  <1> QED
    BY <1>2, <1>5 DEF IInv

(* The memory manager logs or fails, and the console moves to the screen.  *)
LEMMA MemoryKeeps ==
    ASSUME IInv, mem_bootstrap_1 \/ component_fails \/ \E format \in Formats : component_log(format)
    PROVE  IInv'
  <1>1. CASE component_fails
    BY <1>1, FailHereKeeps DEF component_fails, Reasons
  <1>2. CASE mem_bootstrap_1
    <2>1. /\ pc = "mem_1" /\ pc' = "vesa" /\ write_screen' = TRUE
          /\ UNCHANGED <<failure, discovery, boot, line, cursor, geometry>>
      BY <1>2 DEF mem_bootstrap_1, Main, Go
    <2>2. NoScreen
      BY <2>1 DEF IInv, BootOK
    <2>3. NoScreen'
      BY <2>1, <2>2 DEF NoScreen, cursor, geometry
    <2>4. ConsoleOK'
      BY <2>1, <2>3 DEF IInv, ConsoleOK
    <2>5. BootOK'
      BY <2>1, <2>3 DEF IInv, BootOK, boot, failure
    <2>6. DiscoveryOK'
      BY <2>1, DiscoveryUnchanged DEF IInv
    <2> QED
      BY <2>4, <2>5, <2>6 DEF IInv
  <1>3. ASSUME NEW format \in Formats, component_log(format) PROVE IInv'
    <2>1. /\ lines < MAX_LINES /\ line' = log_line_format(format) /\ lines' = lines + 1
          /\ UNCHANGED <<write_screen, cursor, geometry, discovery, machine, n, ptr, saved, idt, pc, failure>>
      BY <1>3 DEF component_log, Log, Screen
    <2>2. line' \in Seq(Pieces)
      BY <2>1, FormatAssumption, LineOfPieces
    <2>3. lines' \in 0 .. MAX_LINES
      BY <2>1, BoundAssumption DEF IInv, BootOK
    <2>4. ConsoleOK' /\ (NoScreen => NoScreen')
      BY <2>1, <2>2, ScreenKept DEF IInv
    <2>5. BootOK'
      BY <2>1, <2>3, <2>4 DEF IInv, BootOK, failure
    <2>6. DiscoveryOK'
      BY <2>1, DiscoveryUnchanged DEF IInv
    <2> QED
      BY <2>4, <2>5, <2>6 DEF IInv
  <1> QED
    BY <1>1, <1>2, <1>3

(* The screen gets its geometry, with the cursor in its corner.            *)
LEMMA VesaKeeps == ASSUME IInv, d_vesa_bootstrap PROVE IInv'
  <1>1. DiscoveryOK'
    BY DiscoveryUnchanged DEF IInv, d_vesa_bootstrap
  <1>2. CASE vesa_refused
    <2>1. ConsoleOK' /\ BootOK'
      BY <1>2, FailKeeps DEF d_vesa_bootstrap, IInv, Reasons, boot
    <2> QED
      BY <1>1, <2>1 DEF IInv
  <1>3. CASE ~vesa_refused
    <2>1. /\ pc = "vesa" /\ pc' = "acpi" /\ line' = log_line_format(main_line)
          /\ width' = machine.screen.width /\ height' = machine.screen.height
          /\ UNCHANGED <<failure, boot, write_screen, cursor>>
      BY <1>3 DEF d_vesa_bootstrap, Main, Go, Log
    <2>2. machine \in Machines /\ screen_row = 0 /\ screen_col = 0
      BY <2>1 DEF IInv, BootOK, NoScreen
    <2>3. width' \in Nat /\ height' \in Nat /\ height' >= 16 /\ screen_row' = 0 /\ screen_col' = 0
      BY <2>1, <2>2, MachineType DEF cursor
    <2>4. CursorOnScreen'
      <3>1. 0 < height' \div 16 /\ 0 <= width' \div 8
        <4>1. \A h, w \in Nat : h >= 16 => 0 < h \div 16 /\ 0 <= w \div 8
          OBVIOUS
        <4> QED
          BY <2>3, <4>1
      <3> QED
        BY <2>3, <3>1 DEF CursorOnScreen, video_char_row_max, video_char_col_max
    <2>5. ConsoleOK'
      BY <2>1, <2>4, OwnLines DEF IInv, ConsoleOK
    <2>6. BootOK'
      BY <2>1 DEF IInv, BootOK, boot, failure
    <2> QED
      BY <1>1, <2>5, <2>6 DEF IInv
  <1> QED
    BY <1>2, <1>3

(* Discovery.                                                              *)
LEMMA AcpiKeeps == ASSUME IInv, acpi_bootstrap \/ acpi_fails PROVE IInv'
  <1>1. CASE acpi_fails
    BY <1>1, FailHereKeeps DEF acpi_fails, Reasons
  <1>2. CASE InAcpi /\ discovered /\ Go("intr") /\ UNCHANGED <<console, discovery, boot>>
    BY <1>2, MainKeeps
  <1>3. CASE discover(New) /\ UNCHANGED <<console, boot, pc, failure>>
    <2>1. DiscoveryOK'
      BY <1>3, DiscoverKeeps DEF IInv
    <2>2. ConsoleOK' /\ (NoScreen => NoScreen')
      BY <1>3, ScreenKept DEF IInv, ConsoleOK, console
    <2>3. BootOK'
      BY <1>3, <2>2 DEF IInv, BootOK, boot, failure
    <2> QED
      BY <2>1, <2>2, <2>3 DEF IInv
  <1> QED
    BY <1>1, <1>2, <1>3 DEF acpi_bootstrap

(* Nothing changes.                                                        *)
LEMMA StutterKeeps == ASSUME IInv, UNCHANGED vars PROVE IInv'
  <1>1. UNCHANGED <<console, discovery, boot, pc, failure>>
    BY DEF vars
  <1>2. DiscoveryOK'
    BY <1>1, DiscoveryUnchanged DEF IInv
  <1>3. ConsoleOK' /\ (NoScreen => NoScreen')
    BY <1>1, ScreenKept DEF IInv, ConsoleOK, console
  <1>4. BootOK'
    BY <1>1, <1>3 DEF IInv, BootOK, boot, failure
  <1> QED
    BY <1>2, <1>3, <1>4 DEF IInv

(* Every step keeps the invariant.                                         *)
LEMMA NextKeeps == IInv /\ [Next]_vars => IInv'
  <1> SUFFICES ASSUME IInv, [Next]_vars PROVE IInv'
    OBVIOUS
  <1>1. CASE log \/ divide_error
    BY <1>1, LogKeeps
  <1>2. CASE report \/ report_end
    BY <1>2, ReportKeeps
  <1>3. CASE multi_boot_info_save \/ save_tag \/ save_end
    BY <1>3, TagsKeep
  <1>4. CASE start \/ intr_init \/ mem_bootstrap_2 \/ kernel_halt \/ acpi_overrun
    BY <1>4, MainKeeps
  <1>5. CASE mem_bootstrap_1 \/ component_fails \/ \E format \in Formats : component_log(format)
    BY <1>5, MemoryKeeps
  <1>6. CASE d_vesa_bootstrap
    BY <1>6, VesaKeeps
  <1>7. CASE acpi_bootstrap \/ acpi_fails
    BY <1>7, AcpiKeeps
  <1>8. CASE UNCHANGED vars
    BY <1>8, StutterKeeps
  <1> QED
    BY <1>1, <1>2, <1>3, <1>4, <1>5, <1>6, <1>7, <1>8 DEF Next, Step, hlt, reset

(* The kernel starts with everything unset.                                *)
LEMMA InitHolds == Init => IInv
  <1> SUFFICES ASSUME Init PROVE IInv
    OBVIOUS
  <1>1. ConsoleOK
    <2>1. write_screen \in BOOLEAN /\ line = <<>> /\ NoScreen
      BY Zenon DEF Init, NoScreen
    <2> QED
      BY <2>1 DEF ConsoleOK
  <1>2. BootOK
    <2>1. machine \in Machines /\ Len(machine.tags) \in Nat
      BY MachineType DEF Init
    <2>2. DOMAIN saved = {}
      BY DEF Init
    <2>3. idt \in BOOLEAN /\ NoScreen
      BY Zenon DEF Init, NoScreen
    <2>4. n \in 1 .. Len(machine.tags) + 1 /\ lines \in 0 .. MAX_LINES /\ left \in 0 .. 1 /\ ptr \in Nat
      BY <2>1, BoundAssumption DEF Init
    <2>5. n = 1 /\ pc = "start" /\ why = "none"
      BY DEF Init
    <2> QED
      BY <2>1, <2>2, <2>3, <2>4, <2>5 DEF BootOK, Reasons
  <1>3. DiscoveryOK
    <2>1. firmware \in Firmwares /\ Len(firmware.tables) \in Nat
      BY FirmwareAssumption DEF Init
    <2>2. functions = <<>> /\ DOMAIN groups = {} /\ stage = "idle" /\ tab = 1 /\ group_cnt = 0
          /\ at = [group |-> 1, bus |-> 0, dev |-> 0, fun |-> 0]
      BY DEF Init, DiscoveryInit
    <2>3. 1 \in 1 .. GROUP_CAP + 1 /\ 0 \in 0 .. DEVICE_MAX - 1 /\ 0 \in 0 .. FUNCTION_MAX /\ 0 \in 0 .. GROUP_CAP
          /\ 0 <= FUNCTIONS_CAP
      BY Sizes
    <2>4. at \in [group : 1 .. GROUP_CAP + 1, bus : Nat, dev : 0 .. DEVICE_MAX - 1, fun : 0 .. FUNCTION_MAX]
      BY <2>2, <2>3
    <2> QED
      BY <2>1, <2>2, <2>3, <2>4 DEF DiscoveryOK, DiscoveryType, FunctionsFound
  <1> QED
    BY <1>1, <1>2, <1>3 DEF IInv

(* The invariant holds in every state of the kernel's start.               *)
THEOREM InductiveInvariant == Spec => []IInv
  BY InitHolds, NextKeeps, PTL DEF Spec

(* What the invariant says of the types.                                   *)
LEMMA TypesFollow == IInv => TypeOK
  <1> SUFFICES ASSUME IInv PROVE TypeOK
    OBVIOUS
  <1>1. {screen_row, screen_col, width, height, ptr} \subseteq Nat
    BY DEF IInv, ConsoleOK, NoScreen, CursorOnScreen, BootOK
  <1>2. ASSUME NEW i \in DOMAIN line PROVE line[i].kind \in {"text", "message", "end"}
    <2>1. line \in Seq(Pieces)
      BY DEF IInv, ConsoleOK
    <2>2. line[i] \in Pieces
      BY <2>1
    <2> QED
      BY <2>2 DEF Pieces
  <1>3. DOMAIN saved \subseteq {1, 2, 4, 5, 6, 7, 8, 9, 10, 14, 15}
    BY DEF IInv, BootOK, known_types, MMAP, FRAME_BUFFER, ELF_SYMBOLS, ACPI_OLD, ACPI_NEW
  <1>4. Len(functions) <= FUNCTIONS_CAP /\ group_cnt <= GROUP_CAP
    BY AtType DEF IInv, DiscoveryOK, DiscoveryType
  <1> QED
    BY <1>1, <1>2, <1>3, <1>4 DEF TypeOK, IInv, ConsoleOK, BootOK, DiscoveryOK, DiscoveryType, Reasons

(* Types: the parser reads no tag behind the loader's, saves only known    *)
(* ones, and no index leaves the tables of groups and functions, whatever  *)
(* the loader, the firmware and the sizes of these tables are.             *)
THEOREM BootTypesCorrect == Spec => []TypeOK
  BY InductiveInvariant, TypesFollow, PTL

(* The console's own assertions hold for every screen of at least one row, *)
(* wherever a failure report begins.                                       *)
THEOREM ConsoleNeverFails == Spec => []LoggerNeverFails
  <1>1. IInv => LoggerNeverFails
    BY DEF IInv, BootOK, Reasons, LoggerNeverFails
  <1> QED
    BY <1>1, InductiveInvariant, PTL

(* A message is used only if all of it is in its buffer, for every format, *)
(* every buffer and every width of the unsigned arithmetic; and one with   *)
(* room for a terminator is never refused.                                 *)
THEOREM MessagesStayInBuffer == Spec => []FormatInBuffer
  <1>1. IInv => FormatInBuffer
    <2> SUFFICES ASSUME IInv, At("message") PROVE FormatInBuffer
      BY DEF FormatInBuffer
    <2>1. line \in Seq(Pieces) /\ line # <<>>
      BY DEF IInv, ConsoleOK, At
    <2>2. Head(line) \in Pieces
      BY <2>1
    <2>3. Head(line).parts \in Seq(Part)
      BY <2>2 DEF Pieces
    <2> QED
      BY <2>3, MarshalCorrect DEF FormatInBuffer, Formatted
  <1> QED
    BY <1>1, InductiveInvariant, PTL

(* The table of PCIe functions is exact between two firmware tables, for   *)
(* every list of tables, every population of the configuration space and   *)
(* every size of the machine.                                              *)
THEOREM FunctionsAlwaysFound == Spec => []FunctionsFound
  <1>1. IInv => FunctionsFound
    BY DEF IInv, DiscoveryOK
  <1> QED
    BY <1>1, InductiveInvariant, PTL
=============================================================================

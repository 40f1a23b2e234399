----------------------------- MODULE Discovery ------------------------------
(***************************************************************************)
(* drivers/drivers_acpi.c and drivers/drivers_pcie.c: from the firmware's  *)
(* list of tables over its MCFG tables to the table of PCIe functions.     *)
(*                                                                         *)
(* Lines logged on the way and the names in them are left out.             *)
(***************************************************************************)
EXTENDS Integers, Sequences, FiniteSets, FiniteSetsExt

CONSTANTS
    GROUP_CAP,      \* _GROUP_CAP
    FUNCTIONS_CAP,  \* _FUNCTIONS_CAP
    BUS_MAX, DEVICE_MAX, FUNCTION_MAX

ASSUME DiscoveryAssumption ==
    {GROUP_CAP, FUNCTIONS_CAP, BUS_MAX, DEVICE_MAX, FUNCTION_MAX} \subseteq Nat \ {0}

VARIABLES
    firmware,   \* [rsdp_ok, rest, tables, space]
    stage,      \* which loop runs
    tab,        \* its index in the list of tables
    group_cnt,  \* _gropp_cnt
    groups,     \* _groups
    functions,  \* _functions up to _func_cnt
    at          \* indices of the loops over groups, buses, devices, functions

found == <<group_cnt, groups, functions>>
discovery == <<firmware, stage, tab, found, at>>

DiscoveryInit ==
    /\ stage = "idle" /\ tab = 1 /\ group_cnt = 0 /\ groups = << >> /\ functions = <<>>
    /\ at = [group |-> 1, bus |-> 0, dev |-> 0, fun |-> 0]
-----------------------------------------------------------------------------
(* The configuration space: an address per function; what does not answer  *)
(* reads as all ones.                                                      *)
CONFIG_SPACE_ALIGN == BUS_MAX * DEVICE_MAX * FUNCTION_MAX
aligned(group) == group.base % CONFIG_SPACE_ALIGN = 0
cfg_space_pa(group, bus, dev, fun) ==
    group.base + (bus * DEVICE_MAX + dev) * FUNCTION_MAX + fun
GroupType == [base : Nat, bus_start : Nat, bus_end : Nat]

(* A group has no more buses than there are, and none with another group.  *)
GroupsApart(gs) ==
    /\ \A g \in DOMAIN gs : gs[g].bus_end <= BUS_MAX
    /\ \A g, h \in DOMAIN gs : g # h =>
          \/ gs[g].base # gs[h].base
          \/ gs[g].bus_end <= gs[h].bus_start \/ gs[h].bus_end <= gs[g].bus_start

present(group, bus, dev, fun) == cfg_space_pa(group, bus, dev, fun) \in DOMAIN firmware.space
config(group, bus, dev, fun) == firmware.space[cfg_space_pa(group, bus, dev, fun)]

(* The functions bootstrap_dev asks: all if function 0 says that there may *)
(* be more than one.                                                       *)
fun_cnt(group, bus, dev) ==
    IF ~present(group, bus, dev, 0) THEN 0
    ELSE IF config(group, bus, dev, 0).multi THEN FUNCTION_MAX ELSE 1
-----------------------------------------------------------------------------
(* The list of tables: whole entries of eight bytes in the XSDT; entries   *)
(* of four in the RSDT, where a rest is ignored but the RSDP is checked.   *)
acpi_refused(new) == IF new THEN firmware.rest # 0 ELSE ~firmware.rsdp_ok

acpi_tables(new) ==
    /\ stage = "idle" /\ ~acpi_refused(new)
    /\ stage' = "tables" /\ tab' = 1
    /\ UNCHANGED <<firmware, found, at>>

MoreTables == stage = "tables" /\ tab <= Len(firmware.tables)
Table == firmware.tables[tab]

other_table ==
    /\ MoreTables /\ ~Table.mcfg
    /\ tab' = tab + 1
    /\ UNCHANGED <<firmware, stage, found, at>>

(* 16 bytes a group behind a head of 44; a table shorter than its head has *)
(* an unsigned length that is far too large.                               *)
mcfg_refused == Table.len - 44 \notin {16 * k : k \in 1 .. GROUP_CAP}

functions_kept == functions
functions_reset == <<>>

d_pcie_bootstrap ==
    /\ MoreTables /\ Table.mcfg /\ ~mcfg_refused
    /\ group_cnt' = (Table.len - 44) \div 16
    /\ functions' = functions_reset
    /\ stage' = "groups" /\ at' = [at EXCEPT !.group = 1]
    /\ UNCHANGED <<firmware, tab, groups>>

(* One turn of the loop over the groups.                                   *)
Group == Table.groups[at.group]
bootstrap_group ==
    /\ stage = "groups" /\ at.group <= group_cnt /\ aligned(Group)
    /\ groups' = [i \in DOMAIN groups \cup {at.group} |->
                     IF i = at.group THEN Group ELSE groups[i]]
    /\ stage' = "scan" /\ at' = [at EXCEPT !.bus = Group.bus_start, !.dev = 0, !.fun = 0]
    /\ UNCHANGED <<firmware, tab, group_cnt, functions>>

groups_end ==
    /\ stage = "groups" /\ at.group > group_cnt
    /\ stage' = "tables" /\ tab' = tab + 1
    /\ UNCHANGED <<firmware, found, at>>

Scanning == stage = "scan" /\ at.bus < groups[at.group].bus_end
MoreFunctions == Scanning /\ at.fun < fun_cnt(groups[at.group], at.bus, at.dev)
Answers == present(groups[at.group], at.bus, at.dev, at.fun)
Config == config(groups[at.group], at.bus, at.dev, at.fun)
Entry == [group |-> at.group, bus |-> at.bus, dev |-> at.dev, fun |-> at.fun, config |-> Config]

(* bootstrap_fun, within the table and with a class that class_name knows. *)
bootstrap_fun ==
    /\ MoreFunctions
    /\ Answers => Len(functions) < FUNCTIONS_CAP /\ Config.class # "todo"
    /\ functions' = IF Answers THEN Append(functions, Entry) ELSE functions
    /\ at' = [at EXCEPT !.fun = @ + 1]
    /\ UNCHANGED <<firmware, stage, tab, group_cnt, groups>>

(* The next device, and behind the last one the next bus.                  *)
next_dev ==
    /\ Scanning /\ ~MoreFunctions
    /\ at' = IF at.dev + 1 < DEVICE_MAX THEN [at EXCEPT !.dev = @ + 1, !.fun = 0]
             ELSE [at EXCEPT !.bus = @ + 1, !.dev = 0, !.fun = 0]
    /\ UNCHANGED <<firmware, stage, tab, found>>

scan_end ==
    /\ stage = "scan" /\ ~Scanning
    /\ stage' = "groups" /\ at' = [at EXCEPT !.group = @ + 1]
    /\ UNCHANGED <<firmware, tab, found>>

discover(new) ==
    \/ acpi_tables(new) \/ other_table \/ d_pcie_bootstrap
    \/ bootstrap_group \/ groups_end \/ bootstrap_fun \/ next_dev \/ scan_end
discovered == stage = "tables" /\ ~MoreTables

(* The assertions, and class_name's panic for a class it has no name for.  *)
discovery_fails(new) ==
    \/ stage = "idle" /\ acpi_refused(new)
    \/ MoreTables /\ Table.mcfg /\ mcfg_refused
    \/ stage = "groups" /\ at.group <= group_cnt /\ ~aligned(Group)
    \/ MoreFunctions /\ Answers /\ Len(functions) < FUNCTIONS_CAP /\ Config.class = "todo"

(* bootstrap_fun does not compare _func_cnt with the length of the table.  *)
(* The one comparison is an assertion of the reader, which comes later.    *)
table_overrun == MoreFunctions /\ Answers /\ Len(functions) >= FUNCTIONS_CAP

(* The assertion of d_pcie_get_func_cnt.                                   *)
d_pcie_get_func_cnt_ok == Len(functions) < FUNCTIONS_CAP
-----------------------------------------------------------------------------
(* What the groups of an MCFG table lead to: the functions that answer, of *)
(* devices whose function 0 answers, on the buses before bus_end.  The bus *)
(* bus_end itself, which the table means too, is left out by the code.     *)
Addresses(mcfg) ==
    {a \in DOMAIN firmware.space :
        \E i \in DOMAIN mcfg.groups, dev \in 0 .. DEVICE_MAX - 1, fun \in 0 .. FUNCTION_MAX - 1 :
           LET g == mcfg.groups[i]
           IN  \E bus \in g.bus_start .. g.bus_end - 1 :
                  /\ a = cfg_space_pa(g, bus, dev, fun)
                  /\ fun = 0 \/ (present(g, bus, dev, 0) /\ config(g, bus, dev, 0).multi)}

(* The addresses that the last MCFG table so far leads to.                 *)
McfgSeen == {i \in 1 .. tab - 1 : firmware.tables[i].mcfg}
LastAddresses == IF McfgSeen = {} THEN {} ELSE Addresses(firmware.tables[Max(McfgSeen)])
addr(f) == cfg_space_pa(groups[f.group], f.bus, f.dev, f.fun)
Listed == {addr(functions[i]) : i \in DOMAIN functions}

(* Between two tables, the functions listed are those that the last MCFG   *)
(* table leads to, each once; and the group an entry points to, which the  *)
(* scan of a later MCFG table overwrites in place, still leads to the      *)
(* configuration space the entry was read from.                            *)
FunctionsFound ==
    stage = "tables" =>
        /\ Listed = LastAddresses /\ Len(functions) = Cardinality(LastAddresses)
        /\ \A i \in DOMAIN functions : firmware.space[addr(functions[i])] = functions[i].config
=============================================================================

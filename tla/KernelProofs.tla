---------------------------- MODULE KernelProofs ----------------------------
(* What a partial disk read leads to, and which tables main goes by, for     *)
(* every number of sectors asked for and every machine.                      *)
EXTENDS Kernel, TLAPS

\* disk_error compares the sectors read with a head number that is 0.
LoadInv ==
    /\ pc = "loaded" => dh = 0 /\ al \in 0 .. Sectors /\ (~carry => al = Sectors)
    /\ pc = "main" => al > 0

LEMMA InitLoad == Init => LoadInv
  BY DEF Init, AcpiInit, LoadInv

\* The steps before main.
LEMMA LoadStep ==
  ASSUME LoadInv, read_sectors \/ disk_load
  PROVE  LoadInv'
<1>1. CASE read_sectors
  BY <1>1, KernelAssumption DEF read_sectors, LoadInv
<1>2. CASE disk_load
  BY <1>2, KernelAssumption DEF disk_load, LoadInv, TakenForSuccess, disk
<1> QED BY <1>1, <1>2

\* The steps of main never lead back to the boot sector.
LEMMA MainStep ==
  ASSUME main
  PROVE  pc' \notin {"loaded", "main"}
<1>1. CASE set_up
  BY <1>1 DEF set_up
<1>2. CASE acpi_init
  <2>1. pc \in {"locate_sdp", "fadt_init", "madt_init", "acpi_enable", "polling"}
    BY <1>2 DEF acpi_init, locate_sdp, init_rsdp, fadt_init, madt_init, acpi_enable
  <2>2. pc' = pc \/ pc' \in {"fadt_init", "madt_init", "acpi_enable", "polling", "enabled"}
    BY <1>2 DEF acpi_init, locate_sdp, init_rsdp, fadt_init, madt_init, acpi_enable
  <2> QED BY <2>1, <2>2
<1>3. CASE probe_ps2
  BY <1>3 DEF probe_ps2
<1> QED BY <1>1, <1>2, <1>3 DEF main

LEMMA StepLoad == LoadInv /\ [Next]_kernelVars => LoadInv'
<1> SUFFICES ASSUME LoadInv, [Next]_kernelVars PROVE LoadInv'
  OBVIOUS
<1>1. CASE read_sectors \/ disk_load
  BY <1>1, LoadStep
<1>2. CASE main
  BY <1>2, MainStep DEF LoadInv
<1>3. CASE (firmware /\ UNCHANGED disk) \/ hang \/ UNCHANGED kernelVars
  BY <1>3 DEF LoadInv, firmware, hang, kernelVars, vars, disk
<1> QED BY <1>1, <1>2, <1>3 DEF Next

\* The kernel is not entered if nothing was read, whatever the BIOS answers and
\* however many sectors are asked for.
THEOREM ReadBeforeRun == Spec => []NothingReadNothingRun
<1>1. LoadInv => NothingReadNothingRun
  BY DEF LoadInv, NothingReadNothingRun
<1> QED BY <1>1, InitLoad, StepLoad, PTL DEF Spec

-----------------------------------------------------------------------------
(* The search for the FADT. *)

Fadts == {"facp", "facp1"}

\* The slots and entries that were passed over hold nothing of use.
SlotsPassed   == \A j \in DOMAIN Slots : j < slot => Slots[j] \notin {"v1", "v2"}
EntriesPassed == \A j \in 1 .. i - 1 : get_table(j) \notin Fadts

SearchInv ==
    /\ machine \in Machines
    /\ slot \in Nat \ {0} /\ i \in Nat \ {0}
    /\ fadt \in Fadts \cup {Null}
    /\ pc \in {"disk_load", "loaded", "main", "locate_sdp"} =>
           SlotsPassed /\ fadt = Null /\ i = 1 /\ ~rsdt /\ ~xsdt
    /\ pc = "fadt_init" =>
           /\ Rooted /\ fadt = Null /\ EntriesPassed
           /\ \/ rsdt /\ ~xsdt /\ RootPointer("v1")
              \/ xsdt /\ ~rsdt /\ RootPointer("v2")
    /\ FadtIsListed
    /\ pc = "ps2_init" => ps2_controller_exists
    /\ pc = "no_ps2" => ~ps2_controller_exists

LEMMA Typed ==
  ASSUME machine \in Machines
  PROVE  /\ Slots \in Seq({"none", "unsound", "v1", "v2"})
         /\ machine.entries \in Seq(Tables) /\ machine.beyond \in Seq(Tables)
         /\ Len(machine.beyond) = Len(machine.entries)
<1>1. machine \in Machine /\ Len(machine.beyond) = Len(machine.entries)
  BY AcpiAssumption
<1>2. machine.ebda \in Seq({"none", "unsound", "v1", "v2"}) /\ machine.bios \in Seq({"none", "unsound", "v1", "v2"})
  BY <1>1 DEF Machine
<1>3. machine.entries \in Seq(Tables) /\ machine.beyond \in Seq(Tables)
  BY <1>1 DEF Machine
<1> QED BY <1>1, <1>2, <1>3 DEF Slots

\* The slot the search stops at decides.
LEMMA FirstRoot ==
  ASSUME machine \in Machines, slot \in DOMAIN Slots, SlotsPassed, NEW v \in {"v1", "v2"}, Slots[slot] = v
  PROVE  RootPointer(v) /\ \A w \in {"v1", "v2"} : RootPointer(w) => w = v
<1>1. DOMAIN Slots \subseteq Nat \ {0}
  BY Typed
<1>2. \A j, k \in DOMAIN Slots : j < k => j \in 1 .. k - 1
  BY <1>1
<1>3. \A k \in DOMAIN Slots : \A j \in 1 .. k - 1 : j \in DOMAIN Slots /\ j < k
  BY Typed
<1>4. RootPointer(v)
  BY <1>3 DEF RootPointer, SlotsPassed
<1>5. ASSUME NEW w \in {"v1", "v2"}, RootPointer(w)
      PROVE  w = v
  <2>1. PICK k \in DOMAIN Slots : Slots[k] = w /\ \A j \in 1 .. k - 1 : Slots[j] \notin {"v1", "v2"}
    BY <1>5 DEF RootPointer
  <2>2. ~(k < slot) /\ ~(slot < k)
    BY <1>2, <2>1 DEF SlotsPassed
  <2>3. k = slot
    BY <1>1, <2>2
  <2> QED BY <2>1, <2>3
<1> QED BY <1>4, <1>5

LEMMA NoRoot ==
  ASSUME machine \in Machines, slot \in Nat, slot > Len(Slots), SlotsPassed
  PROVE  ~Rooted
<1>1. \A j \in DOMAIN Slots : j < slot
  BY Typed
<1> QED BY <1>1 DEF SlotsPassed, RootPointer, Rooted

LEMMA InitSearch == Init => SearchInv
<1> SUFFICES ASSUME Init PROVE SearchInv
  OBVIOUS
<1>1. machine \in Machines /\ slot = 1 /\ i = 1 /\ pc = "disk_load" /\ fadt = Null /\ ~rsdt /\ ~xsdt
  BY DEF Init, AcpiInit
<1>2. SlotsPassed
  BY <1>1, Typed DEF SlotsPassed
<1> QED BY <1>1, <1>2 DEF SearchInv, FadtIsListed

\* What the search depends on when neither of its indices moves.
LEMMA SearchFrame ==
  ASSUME UNCHANGED <<machine, slot, rsdt, xsdt, i>>
  PROVE  /\ UNCHANGED <<Slots, SlotsPassed, EntriesPassed, Rooted, FadtListed>>
         /\ UNCHANGED <<RootPointer("v1"), RootPointer("v2"), Listed("facp"), Listed("facp1")>>
BY DEF Slots, SlotsPassed, EntriesPassed, Rooted, FadtListed, RootPointer, Listed, get_table

LEMMA BootSearch ==
  ASSUME SearchInv, read_sectors \/ disk_load \/ set_up
  PROVE  SearchInv'
<1>1. /\ UNCHANGED <<machine, slot, rsdt, xsdt, fadt, i>>
      /\ pc \in {"disk_load", "loaded", "main"} /\ pc' \in {"loaded", "main", "disk_error", "locate_sdp"}
  BY DEF read_sectors, disk_load, set_up, statics
<1> QED BY <1>1, SearchFrame DEF SearchInv, FadtIsListed

LEMMA LocateSearch ==
  ASSUME SearchInv, locate_sdp
  PROVE  SearchInv'
<1>1. /\ pc = "locate_sdp" /\ UNCHANGED <<machine, rsdt, xsdt, fadt, madt, i>>
      /\ machine \in Machines /\ SlotsPassed /\ fadt = Null /\ slot \in Nat \ {0}
  BY DEF locate_sdp, statics, SearchInv
<1>2. UNCHANGED Slots
  BY <1>1 DEF Slots
<1>3. CASE slot <= Len(Slots) /\ ~validate_rsdp(Slots[slot]) /\ slot' = slot + 1 /\ UNCHANGED pc
  <2>1. DOMAIN Slots \subseteq Nat
    BY <1>1, Typed
  <2>2. SlotsPassed'
    BY <1>1, <1>2, <1>3, <2>1 DEF SlotsPassed, validate_rsdp
  <2> QED BY <1>1, <1>3, <2>2 DEF SearchInv, FadtIsListed
<1>4. CASE slot > Len(Slots) /\ pc' = "acpi_enable" /\ UNCHANGED slot
  <2>1. ~Rooted
    BY <1>1, <1>4, NoRoot
  <2> QED BY <1>1, <1>4, <2>1, SearchFrame DEF SearchInv, FadtIsListed
<1> QED BY <1>3, <1>4 DEF locate_sdp

LEMMA RootSearch ==
  ASSUME SearchInv, init_rsdp
  PROVE  SearchInv'
<1>1. /\ pc = "locate_sdp" /\ slot <= Len(Slots) /\ Slots[slot] \in {"v1", "v2"}
      /\ xsdt' = (Slots[slot] = "v2") /\ rsdt' = ~xsdt'
      /\ pc' = IF machine.sound THEN "fadt_init" ELSE "acpi_enable"
      /\ i' = 1 /\ UNCHANGED <<machine, slot, fadt>>
      /\ machine \in Machines /\ SlotsPassed /\ fadt = Null /\ slot \in Nat \ {0}
  BY DEF init_rsdp, SearchInv, validate_rsdp
<1>2. slot \in DOMAIN Slots
  BY <1>1, Typed
<1>3. /\ UNCHANGED <<RootPointer("v1"), RootPointer("v2"), Rooted>>
  BY <1>1 DEF RootPointer, Rooted, Slots
<1>4. RootPointer(Slots[slot]) /\ \A w \in {"v1", "v2"} : RootPointer(w) => w = Slots[slot]
  BY <1>1, <1>2, FirstRoot
<1>5. CASE machine.sound
  <2>1. Rooted
    BY <1>1, <1>4, <1>5 DEF Rooted
  <2>2. EntriesPassed'
    BY <1>1 DEF EntriesPassed
  <2>3. \/ rsdt' /\ ~xsdt' /\ RootPointer("v1")
        \/ xsdt' /\ ~rsdt' /\ RootPointer("v2")
    BY <1>1, <1>4
  <2> QED BY <1>1, <1>3, <1>5, <2>1, <2>2, <2>3 DEF SearchInv, FadtIsListed
<1>6. CASE ~machine.sound
  <2>1. ~Rooted
    BY <1>6 DEF Rooted
  <2> QED BY <1>1, <1>3, <1>6, <2>1 DEF SearchInv, FadtIsListed
<1> QED BY <1>5, <1>6

\* The words of the root table itself come first.
LEMMA Entries ==
  ASSUME machine \in Machines
  PROVE  /\ \A k \in 1 .. Len(machine.entries) : get_table(k) = machine.entries[k]
         /\ DOMAIN machine.entries = 1 .. Len(machine.entries)
         /\ Len(machine.entries) \in Nat
<1> DEFINE e == machine.entries
           b == machine.beyond
<1>1. e \in Seq(Tables) /\ b \in Seq(Tables)
  BY Typed
<1>2. \A k : get_table(k) = (e \o b)[k]
  BY DEF get_table
<1> HIDE DEF e, b
<1>3. DOMAIN e = 1 .. Len(e) /\ Len(e) \in Nat /\ \A k \in 1 .. Len(e) : (e \o b)[k] = e[k]
  BY <1>1
<1> QED BY <1>2, <1>3 DEF e

LEMMA FirstListed ==
  ASSUME machine \in Machines, i \in 1 .. Len(machine.entries), EntriesPassed,
         get_table(i) \in Fadts
  PROVE  \A t \in Fadts : Listed(t) <=> t = get_table(i)
<1>1. machine.entries[i] = get_table(i) /\ DOMAIN machine.entries \subseteq Nat
  BY Entries
<1>2. \A j \in 1 .. i - 1 : machine.entries[j] \notin Fadts
  BY Entries DEF EntriesPassed
<1>3. Listed(get_table(i))
  BY <1>1, <1>2, Entries DEF Listed, Fadts
<1>4. ASSUME NEW t \in Fadts, Listed(t)
      PROVE  t = get_table(i)
  <2>1. PICK k \in DOMAIN machine.entries :
            machine.entries[k] = t /\ \A j \in 1 .. k - 1 : machine.entries[j] \notin Fadts
    BY <1>4 DEF Listed, Fadts
  <2>2. ~(k < i) /\ ~(i < k)
    BY <1>1, <1>2, <2>1, Entries
  <2> QED BY <1>1, <2>1, <2>2, Entries
<1> QED BY <1>3, <1>4

LEMMA NoneListed ==
  ASSUME machine \in Machines, i \in Nat, i > Len(machine.entries), EntriesPassed
  PROVE  ~Listed("facp") /\ ~Listed("facp1") /\ ~FadtListed
<1>1. \A k \in DOMAIN machine.entries : machine.entries[k] \notin Fadts
  BY Entries DEF EntriesPassed
<1> QED BY <1>1 DEF Listed, FadtListed, Fadts

\* As SearchFrame, whatever becomes of the indices.
LEMMA RootFrame ==
  ASSUME UNCHANGED machine
  PROVE  /\ UNCHANGED <<Rooted, FadtListed>>
         /\ UNCHANGED <<RootPointer("v1"), RootPointer("v2"), Listed("facp"), Listed("facp1")>>
BY DEF Slots, Rooted, FadtListed, RootPointer, Listed

LEMMA FadtSearch ==
  ASSUME SearchInv, fadt_init
  PROVE  SearchInv'
<1>1. /\ pc = "fadt_init" /\ UNCHANGED <<machine, slot, rsdt, xsdt>>
      /\ machine \in Machines /\ i \in Nat \ {0} /\ slot \in Nat \ {0}
      /\ Rooted /\ fadt = Null /\ EntriesPassed
      /\ \/ rsdt /\ ~xsdt /\ RootPointer("v1")
         \/ xsdt /\ ~rsdt /\ RootPointer("v2")
  BY DEF fadt_init, SearchInv
<1>2. CASE pass_over("FACP") /\ UNCHANGED <<pc, fadt>>
  <2>1. EntriesPassed'
    <3>1. i' = i + 1 /\ get_table(i) \notin Fadts
      BY <1>2 DEF pass_over, Matches, Fadts
    <3>2. \A j : get_table(j)' = get_table(j)
      BY <1>1 DEF get_table
    <3> QED BY <1>1, <3>1, <3>2 DEF EntriesPassed
  <2>2. i' \in Nat \ {0}
    BY <1>1, <1>2 DEF pass_over
  <2> QED BY <1>1, <1>2, <2>1, <2>2, RootFrame DEF SearchInv, FadtIsListed
<1>3. CASE (\E t \in Tables \cup {Null} : get_sdt("FACP", t) /\ fadt' = t) /\ pc' = "madt_init"
  <2>1. i' = 1 /\ \/ i <= get_num_tables /\ get_table(i) \in Fadts /\ fadt' = get_table(i)
                  \/ i > get_num_tables /\ fadt' = Null
    BY <1>3 DEF get_sdt, Matches, Fadts
  <2>2. get_num_tables = IF rsdt THEN Len(machine.entries) ELSE 2 * Len(machine.entries)
    BY <1>1 DEF get_num_tables
  <2>3. FadtIsListed'
    <3>1. CASE i <= Len(machine.entries)
      <4>1. fadt' = get_table(i) /\ get_table(i) \in Fadts
        BY <1>1, <2>1, <2>2, <3>1, Entries
      <4>2. \A t \in Fadts : Listed(t) <=> t = get_table(i)
        BY <1>1, <3>1, <4>1, Entries, FirstListed
      <4> QED BY <1>1, <4>1, <4>2, RootFrame DEF FadtIsListed, FadtListed, Fadts
    <3>2. CASE i > Len(machine.entries)
      <4>1. ~Listed("facp") /\ ~Listed("facp1")
        BY <1>1, <3>2, NoneListed
      <4>2. fadt' # Null => RootPointer("v2")
        BY <1>1, <2>1, <2>2, <3>2, Entries
      <4> QED BY <1>1, <4>1, <4>2, RootFrame DEF FadtIsListed
    <3> QED BY <1>1, <3>1, <3>2, Entries
  <2>4. fadt' \in Fadts \cup {Null}
    BY <2>1
  <2> QED BY <1>1, <1>3, <2>1, <2>3, <2>4 DEF SearchInv
<1> QED BY <1>2, <1>3 DEF fadt_init

\* After the FADT was searched for, nothing changes it.
LEMMA LaterSearch ==
  ASSUME SearchInv, madt_init \/ acpi_enable \/ probe_ps2
  PROVE  SearchInv'
<1>1. /\ UNCHANGED <<machine, slot, fadt>>
      /\ pc \in {"madt_init", "acpi_enable", "polling", "enabled"}
      /\ pc' \in {"madt_init", "acpi_enable", "polling", "enabled", "ps2_init", "no_ps2"}
  BY DEF madt_init, acpi_enable, probe_ps2, statics
<1>2. i' \in Nat \ {0}
  BY DEF SearchInv, madt_init, acpi_enable, probe_ps2, pass_over, get_sdt
<1>3. FadtIsListed'
  BY <1>1, RootFrame DEF SearchInv, FadtIsListed
<1>4. pc' = "ps2_init" => ps2_controller_exists'
  BY <1>1 DEF madt_init, acpi_enable, probe_ps2, ps2_controller_exists, HasFlags, Flag
<1>5. pc' = "no_ps2" => ~ps2_controller_exists'
  BY <1>1 DEF madt_init, acpi_enable, probe_ps2, ps2_controller_exists, HasFlags, Flag
<1> QED BY <1>1, <1>2, <1>3, <1>4, <1>5 DEF SearchInv

LEMMA StepSearch == SearchInv /\ [Next]_kernelVars => SearchInv'
<1> SUFFICES ASSUME SearchInv, [Next]_kernelVars PROVE SearchInv'
  OBVIOUS
<1>1. CASE read_sectors \/ disk_load \/ set_up
  BY <1>1, BootSearch
<1>2. CASE locate_sdp \/ init_rsdp \/ fadt_init
  BY <1>2, LocateSearch, RootSearch, FadtSearch
<1>3. CASE madt_init \/ acpi_enable \/ probe_ps2
  BY <1>3, LaterSearch
<1>4. CASE firmware \/ hang \/ UNCHANGED kernelVars
  <2>1. UNCHANGED <<machine, pc, slot, rsdt, xsdt, i, fadt>>
    BY <1>4 DEF firmware, hang, kernelVars, vars, statics
  <2> QED BY <2>1, SearchFrame DEF SearchInv, FadtIsListed, ps2_controller_exists, HasFlags, Flag
<1> QED BY <1>1, <1>2, <1>3, <1>4 DEF Next, main, acpi_init

\* On every machine, the FADT in use is the first good one that the root table
\* of the first good root pointer lists, or there is none; what the words after
\* an XSDT may add is the only exception.
THEOREM FadtAlwaysListed == Spec => []FadtIsListed
<1>1. SearchInv => FadtIsListed
  BY DEF SearchInv
<1> QED BY <1>1, InitSearch, StepSearch, PTL DEF Spec

\* On every machine, main passes over no PS/2 controller that is there and looks
\* for none that the FADT listed first denies.
THEOREM ControllerAlwaysFollows == Spec => []ControllerFollowsTables
<1>1. SearchInv => ControllerFollowsTables
  <2> SUFFICES ASSUME SearchInv PROVE ControllerFollowsTables
    OBVIOUS
  <2>1. ASSUME machine.ps2, pc = "no_ps2"
        PROVE  FALSE
    BY <2>1 DEF SearchInv, ps2_controller_exists, HasFlags, Flag
  <2>2. ASSUME ~machine.ps2, Rooted, Listed("facp"), pc = "ps2_init"
        PROVE  FALSE
    <3>1. fadt = "facp"
      BY <2>2 DEF SearchInv, FadtIsListed
    <3> QED BY <2>2, <3>1 DEF SearchInv, ps2_controller_exists, HasFlags, Flag
  <2> QED BY <2>1, <2>2 DEF ControllerFollowsTables
<1> QED BY <1>1, InitSearch, StepSearch, PTL DEF Spec
=============================================================================

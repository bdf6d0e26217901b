-------------------------------- MODULE Acpi --------------------------------
(***************************************************************************)
(* acpi_init of src/acpi/acpi.c: the search for the root pointer (rsdp.c), *)
(* for the FADT and the MADT in the table it points to (rsdt.c, fadt.c,    *)
(* madt.c), and the switch to ACPI mode (fadt.c), one action per 16-byte   *)
(* slot, per table entry and per poll of the control register.             *)
(*                                                                         *)
(* Memory is what validation tells apart: a slot holds nothing, a root     *)
(* pointer with a wrong checksum, or one of version 1 or 2; an entry       *)
(* points to one of the tables below.  RSDT and XSDT list the same tables. *)
(***************************************************************************)
EXTENDS Naturals, Sequences

CONSTANTS Null,
          Machines   \* the machines to boot on, see Machine

\* What an entry, or a stray word read as one, may point to: a FADT of revision 2
\* or 1, one with a wrong checksum, a MADT, memory that is all zero (which has
\* the right checksum, as its length is 0).
Tables == {"facp", "facp1", "bad", "apic", "zero"}

Machine ==
    [ebda    : Seq({"none", "unsound", "v1", "v2"}),  \* aligned slots of the EBDA
     bios    : Seq({"none", "unsound", "v1", "v2"}),  \* and of the main BIOS area
     sound   : BOOLEAN,      \* the checksum of the RSDT or XSDT
     entries : Seq(Tables),  \* the tables it lists
     beyond  : Seq(Tables),  \* the 8-byte words after an XSDT, read as entries
     stray   : BOOLEAN,      \* bit 0 of the port that low memory happens to name
     ps2     : BOOLEAN]      \* there is a PS/2 controller, and a FADT says so

ASSUME AcpiAssumption ==
    /\ Null \notin Tables
    /\ \A m \in Machines : m \in Machine /\ Len(m.beyond) = Len(m.entries)

VARIABLES machine,
          pc,
          slot,         \* the slot sdp_search is at
          rsdt, xsdt,   \* which of the two root tables is in use
          i,            \* the entry get_sdt is at
          fadt, madt,   \* tables, or Null
          commanded,    \* the firmware was told to switch to ACPI mode
          sci_en        \* bit 0 of the PM1a control register

statics == <<rsdt, xsdt, fadt, madt>>
power   == <<commanded, sci_en>>
vars    == <<machine, pc, slot, statics, i, power>>

-----------------------------------------------------------------------------
(* The root pointer. *)

\* The checksum left out.
validate_rsdp_signature_only(s) == s # "none"

validate_rsdp(s) == s \in {"v1", "v2"}

\* EBDA first, then the BIOS area.
Slots == machine.ebda \o machine.bios

\* A slot that does not validate, or no slot left: then rsdt_init is not called.
locate_sdp ==
    /\ pc = "locate_sdp"
    /\ \/ /\ slot <= Len(Slots) /\ ~validate_rsdp(Slots[slot])
          /\ slot' = slot + 1 /\ UNCHANGED pc
       \/ /\ slot > Len(Slots)
          /\ pc' = "acpi_enable" /\ UNCHANGED slot
    /\ UNCHANGED <<machine, statics, i, power>>

\* init_rsdp and rsdt_init: the globals are set before the checksum is tested.
init_rsdp ==
    /\ pc = "locate_sdp" /\ slot <= Len(Slots) /\ validate_rsdp(Slots[slot])
    /\ xsdt' = (Slots[slot] = "v2") /\ rsdt' = ~xsdt'
    /\ pc' = IF machine.sound THEN "fadt_init" ELSE "acpi_enable"
    /\ i' = 1
    /\ UNCHANGED <<machine, slot, fadt, madt, power>>

-----------------------------------------------------------------------------
(* Tables. *)

\* Both kinds of entries are counted as 4 bytes long.
get_num_tables == IF rsdt THEN Len(machine.entries)
                  ELSE IF xsdt THEN 2 * Len(machine.entries) ELSE 0

get_table(k) == (machine.entries \o machine.beyond)[k]

\* The checksum left out.
Matches_signature_only(t, signature) ==
    IF signature = "FACP" THEN t \in {"facp", "facp1", "bad"} ELSE t = "apic"

\* Checksum and signature.
Matches(t, signature) ==
    IF signature = "FACP" THEN t \in {"facp", "facp1"} ELSE t = "apic"

\* get_sdt passes over an entry, or ends with the one at i or with none.
pass_over(signature) ==
    i <= get_num_tables /\ ~Matches(get_table(i), signature) /\ i' = i + 1

get_sdt(signature, table) ==
    /\ i' = 1
    /\ \/ i <= get_num_tables /\ Matches(get_table(i), signature) /\ table = get_table(i)
       \/ i > get_num_tables /\ table = Null

fadt_init ==
    /\ pc = "fadt_init"
    /\ \/ pass_over("FACP") /\ UNCHANGED <<pc, fadt>>
       \/ /\ \E t \in Tables \cup {Null} : get_sdt("FACP", t) /\ fadt' = t
          /\ pc' = "madt_init"
    /\ UNCHANGED <<machine, slot, rsdt, xsdt, madt, power>>

madt_init ==
    /\ pc = "madt_init"
    /\ \/ pass_over("APIC") /\ UNCHANGED <<pc, madt>>
       \/ /\ \E t \in Tables \cup {Null} : get_sdt("APIC", t) /\ madt' = t
          /\ pc' = "acpi_enable"
    /\ UNCHANGED <<machine, slot, rsdt, xsdt, fadt, power>>

-----------------------------------------------------------------------------
(* ACPI mode. *)

\* The register polled without the command having been written.
write_command_forgotten == FALSE

\* Without a FADT the byte goes to a port low memory happens to name.
write_command == fadt # Null

\* What the loop polls.
ControlBit == IF fadt # Null THEN sci_en ELSE machine.stray

\* The command, then the loop, which nothing bounds.
acpi_enable ==
    \/ /\ pc = "acpi_enable" /\ pc' = "polling"
       /\ commanded' = write_command
       /\ UNCHANGED <<machine, slot, statics, i, sci_en>>
    \/ /\ pc = "polling" /\ ControlBit /\ pc' = "enabled"
       /\ UNCHANGED <<machine, slot, statics, i, power>>

keep_polling == pc = "polling" /\ ~ControlBit /\ UNCHANGED vars

\* The firmware hands over; some have done so before the kernel starts.
firmware ==
    /\ commanded /\ ~sci_en /\ sci_en' = TRUE
    /\ UNCHANGED <<machine, pc, slot, statics, i, commanded>>

AcpiInit ==
    /\ machine \in Machines
    /\ slot = 1 /\ i = 1
    /\ rsdt = FALSE /\ xsdt = FALSE /\ fadt = Null /\ madt = Null
    /\ commanded = FALSE /\ sci_en \in BOOLEAN

acpi_init == locate_sdp \/ init_rsdp \/ fadt_init \/ madt_init \/ acpi_enable

-----------------------------------------------------------------------------

\* The flag read from a FADT too old to have it: the byte is reserved and zero.
HasFlags_unversioned(t) == t \in {"facp", "facp1"}

\* The revision that has the boot architecture flags.
HasFlags(t) == t = "facp"

Flag(t) == t = "facp" /\ machine.ps2

ps2_controller_exists == HasFlags(fadt) => Flag(fadt)
=============================================================================

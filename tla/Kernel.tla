------------------------------- MODULE Kernel -------------------------------
(***************************************************************************)
(* From the boot sector to the end of main: disk_load of src/boot/util.asm,*)
(* then main of src/kernel/kernel.c with acpi_init step by step.  The set  *)
(* up of interrupts and ps2_init are single steps here; Interrupts and     *)
(* Ps2Init take them apart.                                                *)
(***************************************************************************)
EXTENDS Acpi

CONSTANT Sectors   \* number of sectors asked for (32)

ASSUME KernelAssumption == Sectors \in Nat \ {0}

VARIABLES carry, al,   \* what the BIOS answers: an error, and the sectors read
          dh           \* a parameter of the call, and of the comparison after it

disk == <<carry, al, dh>>
kernelVars == <<vars, disk>>

-----------------------------------------------------------------------------

Init ==
    /\ AcpiInit
    /\ pc = "disk_load" /\ carry = FALSE /\ al = Sectors /\ dh = Sectors

\* The head number goes to the register that held the number of sectors.
read_sectors ==
    /\ pc = "disk_load" /\ pc' = "loaded"
    /\ dh' = 0
    /\ \/ carry' = FALSE /\ al' = Sectors
       \/ carry' = TRUE /\ al' \in 0 .. Sectors
    /\ UNCHANGED <<machine, slot, statics, i, power>>

\* The comparison with the number of sectors asked for, as its comment has it.
TakenForSuccess_requested == al # Sectors

\* The comparison of disk_error.
TakenForSuccess == al # dh

\* The kernel is entered, or an error is printed and the boot sector hangs.
disk_load ==
    /\ pc = "loaded"
    /\ pc' = IF carry /\ ~TakenForSuccess THEN "disk_error" ELSE "main"
    /\ UNCHANGED <<machine, slot, statics, i, power, disk>>

\* Screen, PIC and interrupt descriptors; the registers of the boot sector are
\* used for other things.
set_up ==
    /\ pc = "main" /\ pc' = "locate_sdp"
    /\ carry' = FALSE /\ al' = 0 /\ dh' = 0
    /\ UNCHANGED <<machine, slot, statics, i, power>>

probe_ps2 ==
    /\ pc = "enabled"
    /\ pc' = IF ps2_controller_exists THEN "ps2_init" ELSE "no_ps2"
    /\ UNCHANGED <<machine, slot, statics, i, power, disk>>

main == set_up \/ (acpi_init /\ UNCHANGED disk) \/ probe_ps2

\* main has returned, or the boot sector gave up: jmp $.  Or the loop of
\* acpi_enable goes round once more.
hang ==
    /\ pc \in {"disk_error", "ps2_init", "no_ps2"} \/ keep_polling
    /\ UNCHANGED kernelVars

Next == read_sectors \/ disk_load \/ main \/ (firmware /\ UNCHANGED disk) \/ hang

\* The only processor goes on executing, and the firmware obeys its command.
Spec ==
    /\ Init /\ [][Next]_kernelVars
    /\ WF_kernelVars(read_sectors \/ disk_load \/ main)
    /\ WF_kernelVars(firmware /\ UNCHANGED disk)

-----------------------------------------------------------------------------
(* Properties *)

\* The first sound root pointer decides, EBDA before BIOS area: one of version v.
RootPointer(v) ==
    \E k \in DOMAIN Slots : Slots[k] = v /\ \A j \in 1 .. k - 1 : Slots[j] \notin {"v1", "v2"}

\* ... and it leads to a sound root table.
Rooted == (RootPointer("v1") \/ RootPointer("v2")) /\ machine.sound

\* The first FADT with a good checksum that the root table lists is t.
Listed(t) ==
    \E k \in DOMAIN machine.entries :
        /\ machine.entries[k] = t
        /\ \A j \in 1 .. k - 1 : machine.entries[j] \notin {"facp", "facp1"}

FadtListed == Listed("facp") \/ Listed("facp1")

\* The FADT in use is the first one with a good checksum that the root table
\* lists, provided the first good root pointer leads to a good root table, and
\* there is none otherwise.  Only an XSDT that lists no good FADT may yield one
\* all the same, from the words after it.
FadtIsListed ==
    pc \in {"madt_init", "acpi_enable", "polling", "enabled", "ps2_init", "no_ps2"} =>
        /\ ~Rooted => fadt = Null
        /\ Rooted => \A t \in {"facp", "facp1"} : Listed(t) => fadt = t
        /\ Rooted /\ ~FadtListed /\ fadt # Null => RootPointer("v2")

\* main does not pass over a PS/2 controller that is there, and does not look
\* for one that the FADT listed first denies, whichever tables are missing or
\* broken; a stray FADT after an XSDT excepted.
ControllerFollowsTables ==
    /\ machine.ps2 /\ (~Rooted \/ FadtListed \/ RootPointer("v1")) => pc # "no_ps2"
    /\ ~machine.ps2 /\ Rooted /\ Listed("facp") => pc # "ps2_init"

\* Once a FADT was found, the wait for ACPI mode ends.
EnableReturns == pc = "acpi_enable" /\ fadt # Null ~> pc = "enabled"

\* The kernel is not entered if nothing was read.  That is owed to the head
\* number, which has replaced the number of sectors the comment speaks of.
NothingReadNothingRun == pc = "main" => al > 0

\* ps2_controller_exists has a case for a system that does not support ACPI:
\* main gets that far on it.
NoAcpiBoots == pc = "main" /\ ~RootPointer("v1") /\ ~RootPointer("v2") ~> pc = "ps2_init"
=============================================================================

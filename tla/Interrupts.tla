----------------------------- MODULE Interrupts -----------------------------
(***************************************************************************)
(* The interrupt path: pic_init and irq_clear_mask of src/kernel/pic.c,    *)
(* idt_init, idt_install_irq_handler and generic_handler of                *)
(* src/kernel/idt.c, generic_isr_stub of src/kernel/interrupts.asm, in the *)
(* order main and ps2_kbd_init call them, while devices raise lines.       *)
(*                                                                         *)
(* The two 8259 controllers and the CPU's interrupt acceptance are         *)
(* hardware.  Masks are bytes, as in the code; requests and in-service     *)
(* bits are sets of inputs.  Registers other than the vector argument are  *)
(* left out.                                                               *)
(***************************************************************************)
EXTENDS Integers, FiniteSets, FiniteSetsExt, Sequences

CONSTANTS Lines,          \* interrupt lines that devices raise, within 0..15
          FirmwareMasks,  \* the masks the firmware may leave
          ReturnAddress,  \* an address of kernel code (0x1000 and above)
          MaxRaise        \* bound on the number of interrupts raised

Chips  == {"master", "slave"}
Inputs == 0..7
Bytes  == 0..255

ASSUME InterruptsAssumption ==
    /\ Lines \subseteq 0..15
    /\ FirmwareMasks \subseteq [Chips -> Bytes]
    /\ ReturnAddress \in Nat \ Bytes
    /\ MaxRaise \in Nat

VARIABLES pic,        \* the two 8259s
          pc,         \* the next operation of the kernel
          n,          \* the next write of pic_remap
          saved,      \* mask_master and mask_slave of pic_remap
          value,      \* the byte irq_clear_mask has read
          iflag,      \* the CPU's interrupt flag
          idt,        \* what each descriptor leads to
          handlers,   \* the vectors with an attached handler
          frame,      \* the interrupt being handled, or <<>>
          fault,      \* the vector taken without a descriptor, or -1
          lost,       \* control went to an address read from outside handlers
          raised,     \* number of interrupts raised
          firmware    \* the masks the firmware left (history)

vars == <<pic, pc, n, saved, value, iflag, idt, handlers, frame, fault, lost, raised, firmware>>
kernel == <<pc, n, saved, value, idt, handlers>>
cpu    == <<iflag, frame, fault, lost>>

-----------------------------------------------------------------------------
(* The 8259. *)

ICW1    == \h11
\* Without the bit that ends an interrupt.
PIC_EOI_unset == 0

PIC_EOI == \h20

\* Which register the next read of the command port returns.
PIC_READ_IRR == \h0a
PIC_READ_ISR == \h0b


Masked(chip, i) == (chip.mask \div 2^i) % 2 = 1

\* The input an 8259 signals, if any: the first request that is not masked
\* and comes before every input in service.
Signalled(chip, requests) ==
    {i \in requests : /\ chip.step = "ready"
                      /\ ~Masked(chip, i)
                      /\ \A j \in chip.isr : i < j
                      /\ \A j \in requests : ~Masked(chip, j) => i <= j}

SlaveSignals  == Signalled(pic["slave"], pic["slave"].irr)
MasterSignals ==
    Signalled(pic["master"], pic["master"].irr \cup (IF SlaveSignals = {} THEN {} ELSE {2}))

\* A non-specific end of interrupt clears the first input in service.
Ended(chip) ==
    [chip EXCEPT !.isr = IF @ = {} THEN {} ELSE @ \ {Min(@)}]

Command(chip, byte) ==
    CASE byte = ICW1 -> [chip EXCEPT !.step = "icw2", !.mask = 0, !.irr = {}, !.isr = {},
                                     !.reading = PIC_READ_IRR]
      [] byte = \h20 -> Ended(chip)
      [] byte \in {PIC_READ_IRR, PIC_READ_ISR} -> [chip EXCEPT !.reading = byte]
      [] OTHER -> chip

Data(chip, byte) ==
    CASE chip.step = "icw2"  -> [chip EXCEPT !.step = "icw3", !.offset = byte]
      [] chip.step = "icw3"  -> [chip EXCEPT !.step = "icw4", !.wiring = byte]
      [] chip.step = "icw4"  -> [chip EXCEPT !.step = "ready", !.mode = byte]
      [] chip.step = "ready" -> [chip EXCEPT !.mask = byte]

Write(c, reg, byte) ==
    pic' = [pic EXCEPT ![c] = IF reg = "command" THEN Command(@, byte) ELSE Data(@, byte)]

\* A device raises a line.
Raise ==
    /\ raised < MaxRaise
    /\ raised' = raised + 1
    /\ \E irq \in Lines :
           IF irq < 8 THEN pic' = [pic EXCEPT !["master"].irr = @ \cup {irq}]
                      ELSE pic' = [pic EXCEPT !["slave"].irr = @ \cup {irq - 8}]
    /\ UNCHANGED <<kernel, cpu, firmware>>

-----------------------------------------------------------------------------
(* The kernel. *)

Offset == [master |-> \h20, slave |-> \h28]

\* The two offsets exchanged.
RemapWrites_swapped ==
    << <<"master", "command", ICW1>>,         <<"slave", "command", ICW1>>,
       <<"master", "data", Offset.slave>>,    <<"slave", "data", Offset.master>>,
       <<"master", "data", 4>>,               <<"slave", "data", 2>>,
       <<"master", "data", 1>>,               <<"slave", "data", 1>>,
       <<"master", "data", saved["master"]>>, <<"slave", "data", saved["slave"]>> >>

\* The slave gets no ICW4.
RemapWrites_short ==
    << <<"master", "command", ICW1>>,         <<"slave", "command", ICW1>>,
       <<"master", "data", Offset.master>>,   <<"slave", "data", Offset.slave>>,
       <<"master", "data", 4>>,               <<"slave", "data", 2>>,
       <<"master", "data", 1>>,
       <<"master", "data", saved["master"]>>, <<"slave", "data", saved["slave"]>> >>

\* Initialisation words and masks in the order pic_remap writes them.
RemapWrites ==
    << <<"master", "command", ICW1>>,         <<"slave", "command", ICW1>>,
       <<"master", "data", Offset.master>>,   <<"slave", "data", Offset.slave>>,
       <<"master", "data", 4>>,               <<"slave", "data", 2>>,
       <<"master", "data", 1>>,               <<"slave", "data", 1>>,
       <<"master", "data", saved["master"]>>, <<"slave", "data", saved["slave"]>> >>

pic_get_vector(irq) == IF irq < 8 THEN Offset.master + irq ELSE Offset.slave + (irq - 8)

KBD_IRQ == 1

Init ==
    /\ firmware \in FirmwareMasks
    /\ pic = [c \in Chips |->
                [step |-> "ready", offset |-> IF c = "master" THEN \h08 ELSE \h70,
                 wiring |-> 0, mode |-> 0, reading |-> PIC_READ_IRR,
                 mask |-> firmware[c], irr |-> {}, isr |-> {}]]
    /\ pc = "remap" /\ n = 0 /\ saved = firmware /\ value = 0
    /\ iflag = FALSE
    /\ idt = [v \in Bytes |-> "absent"]
    /\ handlers = {}
    /\ frame = <<>> /\ fault = -1 /\ lost = FALSE
    /\ raised = 0

\* The CPU executes kernel code, outside handlers.
Running == frame = <<>> /\ fault = -1 /\ ~lost

\* An interrupt or int instruction: through the descriptor, if there is one.
\* A missing one is a fault whose own stub returns through the error code.
Enter(v) ==
    /\ IF idt[v] = "generic_isr_stub"
       THEN /\ frame' = << [vector |-> v, at |-> "dispatch", iflag |-> iflag] >>
            /\ UNCHANGED fault
       ELSE fault' = v /\ UNCHANGED frame
    /\ iflag' = FALSE
    /\ UNCHANGED lost

\* pic_remap, called by pic_init; n = 0 reads both masks.
pic_remap ==
    /\ pc = "remap" /\ Running
    /\ IF n = 0
       THEN saved' = [c \in Chips |-> pic[c].mask] /\ UNCHANGED pic
       ELSE LET w == RemapWrites[n] IN Write(w[1], w[2], w[3]) /\ UNCHANGED saved
    /\ n' = n + 1
    /\ pc' = IF n = Len(RemapWrites) THEN "idt_init" ELSE "remap"
    /\ UNCHANGED <<value, iflag, idt, handlers, frame, fault, lost, raised, firmware>>

\* Without "sti".
idt_init_no_sti ==
    /\ pc = "idt_init" /\ Running
    /\ idt' = [v \in Bytes |-> IF v < 32 THEN "exception" ELSE idt[v]]
    /\ pc' = "unmask"
    /\ UNCHANGED <<pic, iflag, n, saved, value, handlers, frame, fault, lost, raised, firmware>>

\* Descriptors for the exceptions, then interrupts are on.
idt_init ==
    /\ pc = "idt_init" /\ Running
    /\ idt' = [v \in Bytes |-> IF v < 32 THEN "exception" ELSE idt[v]]
    /\ iflag' = TRUE
    /\ pc' = "unmask"
    /\ UNCHANGED <<pic, n, saved, value, handlers, frame, fault, lost, raised, firmware>>

\* value & ~(1 << line)
Cleared_subtracts(byte, line) == byte - 2^line
Cleared(byte, line) == byte - ((byte \div 2^line) % 2) * 2^line

\* irq_clear_mask reads the mask of the master and writes it back.
irq_clear_mask ==
    /\ Running
    /\ \/ /\ pc = "unmask"
          /\ value' = pic["master"].mask
          /\ pc' = "unmask_write"
          /\ UNCHANGED pic
       \/ /\ pc = "unmask_write"
          /\ Write("master", "data", Cleared(value, KBD_IRQ))
          /\ pc' = "install"
          /\ UNCHANGED value
    /\ UNCHANGED <<n, saved, iflag, idt, handlers, frame, fault, lost, raised, firmware>>

\* Attaching the handler and leaving the descriptor.
install_handler_only ==
    /\ pc = "install" /\ Running
    /\ handlers' = handlers \cup {pic_get_vector(KBD_IRQ)}
    /\ pc' = "int"
    /\ UNCHANGED <<pic, n, saved, value, iflag, idt, frame, fault, lost, raised, firmware>>

idt_install_irq_handler ==
    /\ pc = "install" /\ Running
    /\ handlers' = handlers \cup {pic_get_vector(KBD_IRQ)}
    /\ idt' = [idt EXCEPT ![pic_get_vector(KBD_IRQ)] = "generic_isr_stub"]
    /\ pc' = "int"
    /\ UNCHANGED <<pic, n, saved, value, iflag, frame, fault, lost, raised, firmware>>

\* The int $0x21 at the end of ps2_kbd_init.
trigger_interrupt ==
    /\ pc = "int" /\ Running
    /\ Enter(\h21)
    /\ pc' = "done"
    /\ UNCHANGED <<pic, n, saved, value, idt, handlers, raised, firmware>>

\* main finds no controller, or ps2_init no keyboard.
no_keyboard ==
    /\ pc = "unmask" /\ Running
    /\ pc' = "idle"
    /\ UNCHANGED <<pic, n, saved, value, iflag, idt, handlers, frame, fault, lost, raised, firmware>>

\* main has returned: jmp $.
hang == pc \in {"done", "idle"} /\ Running /\ UNCHANGED vars

-----------------------------------------------------------------------------
(* Handling. *)

\* The CPU accepts what the controllers signal and they put it in service.
Accept ==
    /\ Running /\ iflag
    /\ \E m \in MasterSignals :
           IF m = 2 /\ SlaveSignals # {}
           THEN \E i \in SlaveSignals :
                    /\ pic' = [pic EXCEPT !["master"].isr = @ \cup {2},
                                          !["slave"].isr = @ \cup {i}, !["slave"].irr = @ \ {i}]
                    /\ Enter(pic["slave"].offset + i)
           ELSE /\ pic' = [pic EXCEPT !["master"].isr = @ \cup {m}, !["master"].irr = @ \ {m}]
                /\ Enter(pic["master"].offset + m)
    /\ UNCHANGED <<kernel, raised, firmware>>

\* What the stub passes: the word above the eight registers it has pushed,
\* where the CPU has stored the address to return to.
Argument(f) == ReturnAddress

\* What handlers[v] may hold.  Past the end of the array it is some word of
\* memory, zero or not.
Attached(v) ==
    IF v \in Bytes THEN {IF v \in handlers THEN "handler" ELSE "null"}
                   ELSE {"null", "stray"}

\* Both controllers are asked for one of their registers.
pic_get_irq_reg(chips, ocw3) == [c \in Chips |-> Command(chips[c], ocw3)]

\* generic_handler asks for the in-service bits, then for the requests, prints
\* them, and calls whatever is not zero.  A handler prints and returns.
generic_handler ==
    /\ frame # <<>> /\ frame[1].at = "dispatch" /\ ~lost
    /\ \E word \in Attached(Argument(frame[1])) :
           /\ lost' = (word = "stray")
           /\ frame' = IF word = "stray" THEN frame ELSE [frame EXCEPT ![1].at = "eoi"]
    /\ pic' = pic_get_irq_reg(pic_get_irq_reg(pic, PIC_READ_ISR), PIC_READ_IRR)
    /\ UNCHANGED <<kernel, iflag, fault, raised, firmware>>

\* The rest of the stub: the end of interrupt, always to the master ...
stub_eoi ==
    /\ frame # <<>> /\ frame[1].at = "eoi"
    /\ Write("master", "command", PIC_EOI)
    /\ frame' = [frame EXCEPT ![1].at = "iret"]
    /\ UNCHANGED <<kernel, iflag, fault, lost, raised, firmware>>

\* ... and the return.
stub_iret ==
    /\ frame # <<>> /\ frame[1].at = "iret"
    /\ iflag' = frame[1].iflag
    /\ frame' = <<>>
    /\ UNCHANGED <<kernel, pic, fault, lost, raised, firmware>>

\* Control has left the kernel's code.
Gone == (fault # -1 \/ lost) /\ UNCHANGED vars

generic_isr_stub == generic_handler \/ stub_eoi \/ stub_iret

Main == pic_remap \/ idt_init \/ irq_clear_mask \/ idt_install_irq_handler \/ trigger_interrupt
        \/ no_keyboard

Next == Raise \/ Main \/ Accept \/ generic_isr_stub \/ hang \/ Gone

\* The CPU keeps executing, and accepts an interrupt it is signalled.
Spec == Init /\ [][Next]_vars /\ WF_vars(Main) /\ WF_vars(Accept) /\ WF_vars(generic_isr_stub)

-----------------------------------------------------------------------------
(* Properties. *)

Chip8259 == [step : {"icw2", "icw3", "icw4", "ready"}, offset : Bytes, wiring : Bytes, mode : Bytes,
             reading : {PIC_READ_IRR, PIC_READ_ISR}, mask : Bytes,
             irr : SUBSET Inputs, isr : SUBSET Inputs]

Frame == [vector : Bytes, at : {"dispatch", "eoi", "iret"}, iflag : BOOLEAN]

\* Every register of the controllers is a byte throughout, and the kernel and
\* the CPU are in one of the stages of the code.
TypeOK ==
    /\ pic \in [Chips -> Chip8259]
    /\ pc \in {"remap", "idt_init", "unmask", "unmask_write", "install", "int", "done", "idle"}
    /\ n \in 0..11
    /\ saved \in [Chips -> Bytes] /\ firmware \in [Chips -> Bytes]
    /\ value \in Bytes
    /\ iflag \in BOOLEAN /\ lost \in BOOLEAN
    /\ idt \in [Bytes -> {"absent", "exception", "generic_isr_stub"}]
    /\ handlers \subseteq Bytes
    /\ frame = <<>> \/ (\E f \in Frame : frame = <<f>>)
    /\ fault \in Bytes \cup {-1}
    /\ raised \in 0..MaxRaise

\* The vector a controller delivers for a line.
Delivered(irq) == IF irq < 8 THEN pic["master"].offset + irq ELSE pic["slave"].offset + (irq - 8)

\* pic_remap programs both controllers: once it is done each line arrives at
\* the vector pic_get_vector reports, clear of the CPU's exceptions.
VectorsMatch ==
    pc # "remap" =>
        /\ \A irq \in 0..15 : Delivered(irq) = pic_get_vector(irq) /\ Delivered(irq) >= 32
        /\ \A c \in Chips : pic[c].step = "ready" /\ pic[c].mode = 1
        /\ pic["master"].wiring = 2^pic["slave"].wiring

\* The firmware lets a line through to the CPU.
Unmasked(irq) ==
    IF irq < 8 THEN (firmware["master"] \div 2^irq) % 2 = 0
    ELSE /\ (firmware["slave"] \div 2^(irq - 8)) % 2 = 0
         /\ (firmware["master"] \div 4) % 2 = 0

\* ICW1 clears the masks, yet after pic_remap they are the firmware's, and
\* irq_clear_mask changes nothing but the keyboard's.
MasksRestored ==
    pc # "remap" =>
        /\ pic["slave"].mask = firmware["slave"]
        /\ \A i \in Inputs \ {KBD_IRQ} : Masked(pic["master"], i) = ~Unmasked(i)
        /\ Masked(pic["master"], KBD_IRQ) =
               (pc \in {"idt_init", "unmask", "unmask_write", "idle"} /\ ~Unmasked(KBD_IRQ))

\* While the kernel runs its own code no interrupt is left in service: the
\* stub's end of interrupt is for the interrupt it was entered for.
InServiceEnded == Running => \A c \in Chips : pic[c].isr = {}

\* An interrupt that finds no descriptor is one the firmware had left
\* unmasked, or the keyboard's between irq_clear_mask and
\* idt_install_irq_handler; with the handler installed the keyboard's
\* interrupt, from the device or by int $0x21, never does.
FaultOnlyUnprepared ==
    fault # -1 =>
        \E irq \in Lines \cup {KBD_IRQ} :
            /\ fault = pic_get_vector(irq)
            /\ Unmasked(irq) \/ (irq = KBD_IRQ /\ pc = "install")
            /\ pc \notin {"remap", "idt_init"}
            /\ irq = KBD_IRQ => pc \in {"unmask", "unmask_write", "install", "idle"}

\* A key press after the set-up is answered, unless control has left the
\* kernel: the software interrupt and earlier handlers leave neither the
\* CPU's flag nor the controller closed.
RequestServed ==
    (pc = "done" /\ KBD_IRQ \in pic["master"].irr)
        ~> (KBD_IRQ \notin pic["master"].irr \/ fault # -1 \/ lost)

\* What interrupts.asm says of the word it reads: it is the vector.
VectorPassed ==
    \A i \in DOMAIN frame : frame[i].at = "dispatch" => Argument(frame[i]) = frame[i].vector

=============================================================================

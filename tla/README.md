# A verification project for drewOS

drewOS is a small 32-bit kernel: a boot loader, a VGA text console, interrupt
set-up, a search of the ACPI tables and a driver for the 8042 PS/2 controller
and its keyboard. This directory holds TLA+ models of it, the TLC runs that
check them and proofs that TLAPS checks. Paths below are relative to the source
tree (`src/driver/ps2.c` and so on).

## The system

| Component | State | Operations | Hard behaviour |
|---|---|---|---|
| Text console, `driver/vga.c` | coordinates `x`, `y` (`uint8_t`), video memory at 0xb8000 | `clrscr`, `write_char` (under every `print` function), `handle_scrolling`, hardware cursor | rows past the end before the scroll, 8-bit counters, not re-entrant |
| PS/2 controller driver, `driver/ps2.c` | `port_N_operational`, `dual_channel`, `portN_id` | `ps2_init`, `reset_port`, `ps2_send_device_command`, the two waits | polling with a timeout, stale data register, retries, bytes nobody asked for |
| PS/2 keyboard, `driver/ps2_keyboard.c` | `_vector`, `_port` | `ps2_kbd_init`, setting and querying the scan code set, IRQ handler | answers taken for those of another command, retry until the set is right |
| Interrupt controller, `kernel/pic.c` | vector offsets, masks in the 8259s | `pic_init`, masks, end of interrupt, IRR and ISR | initialisation sequence, lines left unmasked |
| Descriptors and stubs, `kernel/idt.c`, `interrupts.asm`, `isr.c` | `idt`, `handlers`, interrupt flag | `idt_init`, install and uninstall, `generic_handler`, the stubs | interrupts enabled early, stack layout of the stub, nesting |
| Formatting and arithmetic, `kernel/util.c`, `dmath.c` | none | `_itoa`, `ipow`, `ilog`, `copy_memory`, `strlen`, `log` | `INT_MIN`, mixed signedness, buffer sizes |
| ACPI, `acpi/*.c` | `rsdt`, `xsdt`, `fadt` | root pointer search, checksums, table search, `acpi_enable`, `ps2_controller_exists` | absent or damaged tables, entry width, unbounded wait |
| Kernel main, `kernel/kernel.c` | none | calls the above in order | what runs with interrupts on |
| Boot loader, `boot/*.asm` | registers, disk buffer | BIOS disk read, GDT, switch to protected mode | the error path of the disk read |

The parts call each other directly; there is one CPU and no scheduler. What runs
concurrently is the hardware (the 8042 and its devices, asynchronous to the
polling driver) and the interrupt handlers (asynchronous to everything after
`idt_init`). The shared state is the 8042's two buffers, the console's `x` and
`y`, and the `handlers` table.

## Modules

| Module | Models |
|---|---|
| `Terminal` | abstract: a page of rows with a cursor that scrolls |
| `VgaText` | the console, one action per character written and `clrscr` |
| `VgaTextProofs` | proofs about `VgaText` |
| `VgaSteps` | `write_char` and `handle_scrolling` access by access, with interrupt handlers that print in between; refines `VgaText` while none does |
| `VgaStepsProofs` | proofs about `VgaSteps` |
| `Ps2Wait` | abstract: what a caller may expect of a wait |
| `Ps2Poll` | the loop of `ps2_buffer_wait` and `response_wait`, poll by poll |
| `Ps2PollProofs` | proofs about `Ps2Poll` |
| `Ps2Controller` | the 8042, its devices, and the driver's access to the buffers |
| `Ps2Init` | `ps2_init`, `reset_port`, `ps2_init_device`, `ps2_kbd_init` against `Ps2Controller` |
| `Ps2InitProofs` | proofs about `Ps2Init`: types, bits of the configuration byte, the exchange between driver and controller |
| `Ps2DevicesProofs` | proofs about `Ps2Init`: what becomes of the devices |
| `Interrupts` | the 8259s, the masks, the descriptors and `generic_isr_stub` in the order `main` sets them up |
| `InterruptsProofs` | proofs about `Interrupts` |
| `Itoa` | `_itoa` with `ilog`, `abs` and `ipow`, one step per division and per digit |
| `Cprint` | `_cprint` and `_cprintln` on top of `Itoa` |
| `CprintProofs` | proofs about `Itoa` and `Cprint` |
| `Acpi` | `acpi_init`: the root pointer, the tables, the switch to ACPI mode |
| `Kernel` | `disk_load` and `main`, composed with `Acpi` |
| `KernelProofs` | proofs about `Kernel` and the table search of `Acpi` |
| `MCVgaText`, `MCVgaSteps`, `MCPs2Poll`, `MCPs2Init`, `MCInterrupts`, `MCCprint`, `MCKernel` | instances for TLC |

### The console

`con` is a record of the globals `x` and `y` and of video memory. A cell (the
character byte and the attribute after it) is one element, so a cell number is
half a byte offset. Memory reaches as far as two `uint8_t` coordinates can
address, so that a write off the screen would be visible. `put_cell` keeps the
code's division and remainder of the linear offset and the 8-bit row.
`handle_scrolling` is the whole function, with its early return and the reset of
both coordinates; `write_glyph` calls it before and after the store as
`write_char` does.

One assumption limits the callers: `MaxRow` (below 256) bounds the row reached
by newlines alone. In the code 256 consecutive newlines would wrap the row to 0;
the kernel never prints more than a few.

`Terminal` says what a user sees: rows, a cursor, and a scroll by one row when a
character is written below the last one. `ImplementsTerminal` is the refinement
under the mapping of cell `x + y * NCOL` to row and column.

`VgaSteps` takes `write_char` apart, because nothing keeps an interrupt out of
it and `generic_handler` always prints. A step is one load or one store of `x`,
`y`, a local copy or a cell. The handler runs with interrupts off, so it prints
with the atomic operators of `VgaText`: one line, or two when no handler is
installed. The build passes no `-O`, hence every byte goes through AL between a
load and its store, and there the stub's `mov al, 0x20` replaces it
(`interrupt`). Three things are coarser than the machine code: `get_address` is
one access and what AL does to the address it holds in EAX is not followed;
`copy_memory` of a row is one access; so are the two bytes of a cell. The sizes
may be any that keep the order of the code's constants (`StepsAssumption`): twice
the columns and the rows fit a byte, and the stub's 0x20 lies between the number
of rows and the number of columns and is even.
`AtomicUnlessInterrupted` is the refinement of `VgaText` by every call that no
interrupt disturbs: a caller sees the console as it was until the call returns.
`StrayRows` says how far the damage of a disturbed call reaches.

### Numbers and formats

`Itoa` keeps the four phases of `_itoa`: counting digits by division, the check
against the buffer's size, sign and prefix, the digits. Registers are numbers
below `U`, with the sign taken from the upper half, because the digit loop mixes
`int32_t` and `uint32_t` and computes unsigned. `Cprint` reads a format one
specifier at a time and shares one buffer among all numbers of a message, as
`_cprint` does; its `write_char` only records the character. Formats are well
formed (`WellFormed`): no message of the kernel ends in a lone `%` or has a
specifier the code does not know. `Formats` holds the messages to consider and
the null pointer, for which `_cprint` returns at once; it is treated as the empty
message. The buffer is assumed to have room for every
number (`BufferAssumption`); with 32-bit integers it has (`BufferSuffices`). A
byte of the buffer that no call has written is `Unset`. Bases go up to 36, the
last one with a character for every digit; the kernel uses 10 and 16. `Power`,
the loop of `ipow`, takes its three values as one triple, because the proof
system knows functions of one argument only.

### ACPI and main

`Acpi` reads memory in the units validation distinguishes. A 16-byte slot holds
nothing, a root pointer with a wrong checksum, or a sound one of either version;
a table is a FADT of revision 1 or 2, a FADT with a wrong checksum, a MADT, or
zeroed memory. `get_num_tables` divides by 4 also for an XSDT, so that
`get_table` reaches as many words past the table as it has entries: `beyond`.
Without a FADT `acpi_enable` reads its port numbers from low memory: the command
reaches nothing, and the loop polls some port whose bit 0 is `stray`. The
firmware is external: once commanded it sets SCI_EN at some later moment.

`Kernel` puts the boot sector's `disk_load` before it and the choice of
`ps2_init` after it. The comparison `cmp al, dh` comes when `dh` already holds
the head number 0, so any partial read counts as success. Setting up the screen
and interrupts, and `ps2_init`, are one step here: `VgaText`, `Interrupts` and
`Ps2Init` are their detail, and they share no state with `Acpi`.

### The PS/2 driver

The driver's correctness hangs on its waits, so they come first. The loop

    uint32_t wait = DEFAULT_WAIT;
    while (!ready() && wait--);
    return wait;

is module `Ps2Poll`. It returns FALSE only if the controller becomes ready on
poll number `DEFAULT_WAIT + 1`, and TRUE when it never does, since the counter
has wrapped to 2^32 - 1. `Ps2Wait` states this as a contract, `ImplementsWait`
checks the loop against it, and `Ps2Controller!Wait` uses the contract's
`WaitResults` for every access.

`Ps2Controller` is hardware, modelled from what the code sends and expects. The
controller takes a byte from the input buffer (`Take`), queues answers and moves
them into the data register one by one (`Deliver`), at any moment relative to the
driver. Reading the register does not erase it. `hw` holds what differs between
machines: one or two channels, the self test, whether that test resets the
configuration byte, the port tests and the device on each port: none, a keyboard
with and without an identity in its reset answer, a mouse, or a device that
fails its reset. Three bounds allow disturbances: `MaxKeys` scan codes sent
unasked, `MaxResend` bytes answered by RESEND, `MaxLate` waits that end before an
answer that is on its way, or find it on the very last poll.

A step of `Ps2Init` is one access with the wait before it and the computation
after it up to the next access; `pc` names the next access. A write whose wait
returned FALSE is skipped, as in the code. The recursion of
`ps2_send_device_command` and of `ps2_kbd_set_scan_codes` is a tail call and
appears as a jump. Bytes are numbers, because the driver decodes stale bytes as
configuration, acknowledgement and identity alike. The initial byte in the data
register is a released key, the initial configuration the usual one of a PC's
firmware.

Every byte the driver polls is also an interrupt request, because the first
configuration it writes turns the interrupt of the first port on (ps2.c:488).
`origin` keeps for each unread byte the port it came from, and `IRQ1` holds while
the data register has one of the first port; the controller's own answers count
as such. `ps2_init` runs with interrupts on (idt.c:61) and the line masked,
until `ps2_kbd_init` unmasks it before it sends its commands and installs the
handler after them. In between (`Unprepared`) such a byte ends the kernel, since
its vector has no descriptor: `Interrupted` sets `fault` and the driver makes no
further access. The consequence, which `KeyboardDriven` states, is that a machine
with a keyboard on its first port never gets past the acknowledgement of
ENABLE_SCAN; undisturbed, `ps2_init` returns only without a keyboard on a healthy
port, or with one on the second port and nothing on the first that answers the
number of the scan code set. Four assumptions are in this:

* The firmware left the line of the keyboard masked. Where it did not, the kernel
  ends earlier, and `Interrupts` says so.
* The request is withdrawn when its byte is read. On a chip that keeps requests
  latched, `fault` would come at the unmask at once.
* An interrupt with a handler takes no byte: the keyboard's handler prints and
  does not touch port 0x60. It is therefore no step of this module.
* What the 8259s do besides the one line is left to `Interrupts`.

What is printed is not in `Ps2Init`.

### The interrupt path

`Interrupts` has a device that raises lines at any moment, the two 8259s, the
CPU's acceptance of what they signal, and the kernel: `pic_remap` write by write,
`idt_init`, then `irq_clear_mask` (a read and a write), `idt_install_irq_handler`
and the `int $0x21` of `ps2_kbd_init`, or none of these three without a keyboard.
Masks are bytes, as in the code; requests and in-service bits are sets. What the
kernel does between these steps (ACPI, the rest of `ps2_init`) does not touch
their state, so it has no steps of its own. The order of initialisation words is
part of the hardware's state (`step`), as is the clearing of the masks by ICW1.

`frame` is the interrupt being handled. Interrupt gates clear the CPU's flag and
nothing sets it before `iret`, so there is at most one. A vector without a
descriptor raises a protection fault; its stub (`isr_err_stub`) prints and
returns with the error code still on the stack, so control is lost: `fault`
records the vector and the model stops. The descriptor and handler tables are
taken to be zero at the start, which holds for memory after power-on although no
code clears them.

`generic_isr_stub` reads the word above the registers it has pushed. No vector
is there: it is the address the CPU returns to. `ReturnAddress` stands for it;
kernel code is loaded at 0x1000, so it is never an index of `handlers`, and what
`generic_handler` finds at that index is some word, zero or not. A word that is
not zero is called and `lost` is set. The attached keyboard handler is therefore
called only if the stray word happens to be its address.

## Runs

| Run | What it shows |
|---|---|
| `vga_text` | every text on a screen of 2 columns and 3 rows: type, nothing stored off screen, column 0 past the last row, blank rows below the cursor, refinement of `Terminal` |
| `ps2_poll` | the exact meaning of a wait's result and the refinement of `Ps2Wait` |
| `ps2_init` | all machines, answers in time: ports and configuration detected, devices identified, nothing announced for empty ports, the keyboard driver only on a keyboard; on which machines `ps2_init` returns with the keyboard driven and on which an interrupt without a descriptor ends it; all answers consumed; it does end |
| `ps2_noise` | healthy machines with two garbled bytes, a key press and a wait that misjudges the controller, in any mixture and at any moment: identification survives garbling, and the retries end but for the mixtures `Misaligned` names |
| `ps2_empty_retry` | violation: a command without an answer is meant to end as a timeout; one garbled byte and one late wait leave a RESEND in the data register, and on an empty port the command recurses for ever |
| `ps2_scan_set` | violation: the scan code set is checked; the check reads an acknowledgement and passes for a keyboard in set 2 |
| `interrupts` | lines 0, 1 and 8 at any moment and four kinds of firmware masks: vectors and masks after `pic_remap`, no interrupt left in service, which interrupts find no descriptor, and a key press after the set-up is taken |
| `interrupt_vector` | violation: the stub's comment says it retrieves the vector; it retrieves the return address |
| `vga_steps` | two characters printed near the end of the screen, two interrupts anywhere: an undisturbed call is one step of `VgaText`, a disturbed one stores outside the screen only on the row below it or on row 0x20, and every call returns |
| `numbers` | every 8-bit argument, four bases, every buffer size; every well-formed format of up to four characters: results are numerals, no byte past the buffer, output is the format with its arguments put in |
| `kernel` | every machine of two slots, up to two tables and two words after them: which FADT is used, whether a PS/2 controller is driven, that nothing read means nothing run, that the wait for ACPI mode ends once a FADT was found |
| `acpi_absent` | violation: `ps2_controller_exists` has a case for a system without ACPI; `main` may never get there, since `acpi_enable` waits for ever if the port it polls reads with bit 0 clear |

Why the bounds are enough. The console's screen needs two columns to wrap, three
rows for text to move twice, and rows past the end: `MaxRow` is two past the
last; two glyphs tell cells apart. The counter of the loop is only decremented
and compared with 0, so 64 polls show what 1024 do; the proof is for all. In
`Ps2Init` nothing is scaled: bytes, commands and retries are those of the code,
and only the disturbances are bounded. One key and one late wait already
misplace all later answers; a second garbled byte can hit the command that the
first one had sent again. In `Interrupts` three raised lines allow one before,
one during and one after any step; one line on each controller and the
keyboard's are enough, because lines differ only in priority and in having a
descriptor. The masks are those of a PC's BIOS (0xb8, 0x8e), everything open,
everything closed, and the keyboard alone open.

`VgaSteps` keeps the order of the code's constants (25 rows < 0x20 < 80
columns, an even 0x20, two rows of bytes within a `uint8_t`) on a screen of 5
columns and 3 rows with a byte of 11 values; text starts near an end of one of
the last rows, where calls scroll. One interrupt moves the cursor under a call,
a second one does so again while the first one's damage is being carried on.
In `numbers` integers have 8 bits: three decimal and eight binary digits give
every combination of sign, prefix and length, and 128 is its own negation as
2^31 is. The buffer of `_cprint` is as small as its longest number in base 10
or 16 requires (6 bytes; the code has 32 where 12 suffice), so that a missing
check would show. In `kernel` one slot in each area shows precedence, two tables show order
and a table behind a bad one, and two words are all that can follow two entries.
The disk read has two sectors: none, some or all of them arrive.

Observations that the runs rest on, and a reader of the driver should know:
`EmptyPortSilent` holds because the stale byte read from an empty port is never
an identity; a wait that reported its timeouts truthfully would make `reset_port`
leave the id 0, which is the id of a mouse (this is the mutant of that
property). `AnswersConsumed` speaks of the
machines on which `ps2_init` returns, and there nobody has answered the number of
the scan code set: where somebody does, the keyboard driver leaves that answer
unread, and it interrupts.
`FaultOnlyUnprepared` says precisely when an interrupt ends the kernel: for every
line the firmware leaves open, from `sti` on, and for the keyboard's between
`irq_clear_mask` and `idt_install_irq_handler`. `FaultFromFirstPort` says that the
keyboard driver's own commands raise that line.

Where code and comments disagree beyond the violation runs:

* `ps2.h` says a wait returns false when its iterations elapse; `ResultMeaning`
  is what it returns.
* A device whose reset failed is announced as a mouse, since its id stays 0;
  `DevicesIdentified` says so.
* The ports are disabled while the driver looks for devices, but the first
  configuration it writes enables one again.
* `ps2_keyboard.c` says "Install IRQ handler." and unmasks IRQ 1; the handler
  follows three commands later. `KeyboardDriven` and `FaultFromFirstPort` say
  what comes of it.
* The retries of the driver have no bound. Disturbances of different kinds shift
  the answers against the commands and can keep `ps2_send_device_command` or
  `ps2_kbd_set_scan_codes` retrying for ever: `Misaligned` names the mixtures
  for which `Terminates` promises nothing, three kinds anywhere and two beside a
  healthy port on which nobody answers. What `ps2_init` concludes after a late
  answer or a key press is not stated; mostly it is wrong.
* `NothingReadNothingRun` rests on the wrong comparison in `disk_load`: it
  accepts every partial read, and the comparison with the number of sectors that
  the comment describes would accept an error after reading nothing (this is the
  mutant of that property).
* An XSDT's entries are counted as 4 bytes wide. `FadtIsListed` and
  `ControllerFollowsTables` therefore except a FADT that a word after the XSDT
  happens to point to.

## Fairness

`Ps2Poll` assumes that the loop keeps running: there is one CPU, and nothing
blocks it. `Ps2Init` assumes the same of the driver, and that the controller
keeps taking and delivering bytes. An interrupt that finds no descriptor is a step
of the driver: the CPU accepts it before the next instruction. No fairness is put on devices pressing keys,
garbling bytes or answering late. `Interrupts` assumes that the CPU executes
and accepts an interrupt it is signalled while its flag is set; nothing raises a
line by fairness. `VgaText` has no liveness property. `VgaSteps` assumes that
the CPU keeps executing `write_char` between interrupts; it does not assume that
characters are printed. `Kernel` assumes that the CPU keeps executing and that
the firmware obeys the command to switch to ACPI mode; no fairness makes a bad
machine answer.

## Proofs

For every value of the constants that meets the named assumptions:

* `VgaTextProofs!ConsoleInvariant` (with `ConsoleKeepsType` and
  `RowsBelowAreBlank` as its parts), `ConsoleStaysOnScreen`,
  `ConsoleImplementsTerminal`. The inductive invariant is `TypeOK /\
  ParkedAtColumnZero /\ BelowIsBlank`. `ParkedAtColumnZero` is needed because
  `handle_scrolling` discards the column, `BelowIsBlank` because a newline moves
  to a row it does not clear. The arithmetic lemmas (`DivMod`, `RowOrder`) relate
  linear cells to rows and columns; the only assumption about sizes is that twice
  the columns and the rows fit a `uint8_t`, as the code's loop counters require.
* `Ps2PollProofs!PollResult`, `PollKeepsType` and `PollRefinesWait`. The
  invariant ties the counter to the number of polls (`wait = DEFAULT_WAIT - polls`) in the loop and
  says where it stands after it. `PollRefinesWait` is the safety part of
  `ImplementsWait`; its fairness is left to TLC.
* `CprintProofs!BufferSafe`: no byte past the caller's buffer, for every integer
  width, base and buffer size. The invariant `BoundsInv` carries the length that
  `ilog` announced to the check against the buffer's size, and from there bounds
  every later index: `offset` and, for the terminator, `out_size`. The minus sign
  and the prefix are part of that length (`SignFits`).
* `CprintProofs!ItoaIsNumeral` (and `ItoaTypes`): `_itoa` is correct, for every
  integer width, every argument, the smallest negative one included, every base
  and every buffer size. The invariant `NumeralInv` says how the three loops
  meet: what `ilog` has left is the argument divided by a power of the base, so
  the count ends with `base^(n-1) <= |x| < base^n` (`Fits`); hence the square and
  multiply of `ipow` does not wrap and yields the power (`PowerIsPow`); after `j`
  digits `x` is the remainder by `base^(n-j)` (`Spelling`). `DigitsPlaces`
  shows that the reference definition, which takes the digits from the other
  end, names the same ones. Three lemmas are about recursive definitions and
  need induction. The library's induction theorems take a predicate as an
  operator and cannot be used here; the module therefore states induction for
  sets of numbers (`Least`, `Induct`, `StrongInduct`, from the library's `WFMin`)
  and proves once that a definition by descending recursion has a solution
  (`Recursion`). These two results use `ItoaAssumption` only.
* `CprintProofs!CprintIsExpansion` (with `CprintNumerals`, `CprintInBounds` and
  `CprintTypes`): `_cprint` writes its message with the arguments put in, for
  every integer width, every well-formed message, all arguments, and every buffer
  that a number fits in. Two ideas carry the invariant `PrintInv`. `Tells` says
  what the output means half way: whatever arguments are still to come, the
  expansion of the message is what is out, what is owed (the rest of a string or
  of a number) and the expansion from the position reached. `Held` says that the
  buffer holds the numeral and a terminator behind it; no character of a numeral
  is a terminator (`NumeralPrintable`), so the loop that writes the buffer ends
  exactly there and never reaches what an earlier, longer number left.
  `BufferAssumption` excludes a failed conversion, whose result `_cprint` ignores
  (`RunningPrint`). `BufferSuffices` shows that the assumption holds of the code:
  with 2^32 values a number takes at most 11 characters, and the buffer has 32.
* `KernelProofs!ReadBeforeRun`: the kernel is not entered if nothing was read,
  for every number of sectors and every machine. The invariant `LoadInv` says
  that the head number has replaced the number of sectors when `disk_error`
  compares.

* `KernelProofs!FadtAlwaysListed` and `ControllerAlwaysFollows`: which FADT is
  used and whether the PS/2 controller is driven, for every memory, every list
  of tables and everything behind it. `SearchInv` says of each phase of the
  search what it has already excluded: the slots passed hold no sound root
  pointer that comes first, the entries passed are no FADTs (`EntriesPassed`),
  and what was taken comes from the chosen table.
* `InterruptsProofs`: all five invariants of the run `interrupts`, for every set
  of lines and all firmware masks. `IInv` adds what each step relies on.
  `Programmed` follows the twenty writes of `pic_remap`: for each of the 8259s,
  how many of its words it has received, and that vectors and wiring are right
  from the word that sets them on. `MasksKept` says where the firmware's masks
  are while ICW1 has cleared them in the chips: in the two locals, `saved`.
  `InService` says that no interrupt but the keyboard's is ever in service, and
  that one only while its stub runs and has not sent the end of interrupt; every
  other line that is accepted finds no descriptor. `Requested` says that requests
  come from the lines of the machine only.
* `VgaStepsProofs!StepsKeepType` and `StraysAreKnown`, with an interrupt possible
  between any two accesses. `StoreInv` bounds the row each local copy can hold:
  the byte in AL is either a row the code computed or the 0x20 of the stub, and
  the store takes its address from those two only. The arithmetic of a row's
  cells comes from `VgaTextProofs`, instantiated on the same page.
* `VgaStepsProofs!CharsAreAtomic`: the steps of an undisturbed call implement one
  step of `VgaText`. `Undisturbed` gives for each access the part of the call's
  effect that has reached memory, for a character (`CharProgress`) and for each
  row and cell of a scroll (`ScrollProgress`).
* `Ps2InitProofs!DriverTypes`: the types of driver and controller, for every set
  of machines and any number of keys, garbled bytes and late waits. It is not
  inductive by itself: `Ready` adds that a device step has a port to talk to and
  a place to return to, and that `reset_port` has room for one more byte.
* `Ps2InitProofs!PortsAlwaysDetected` and `ConfigAlwaysSettled`, for all
  machines, all firmware configurations and any number of garbled bytes. The
  invariant `Settled` says, while no key was pressed and no wait was late, for
  each of the forty accesses what is in the input buffer, which answer is the
  only one that can arrive, which configuration is stored or about to be, and
  what has been found out so far (`Conversation`). Most of the work is in the
  controller's steps (`TakeConversation`, `DeliverConversation`): a read is
  possible before, while and after its answer arrives, and the write before it
  may not have been taken yet. Bits of the configuration byte are handled by a
  decomposition into digits (`HasBits`).
* `Ps2DevicesProofs`: `DevicesAlwaysIdentified`, `EmptyPortsAlwaysSilent`,
  `DriverAlwaysHasKeyboard` and `AnswersAlwaysConsumed`, for all machines and any
  number of garbled bytes, while no key was pressed and no wait was late (what
  the properties require; of other disturbances `ps2_noise` checks the
  termination only). Where an interrupt has ended the driver they speak of the
  ports it had come to (`Interruption`).
  The difficulty is that the controller works at its own pace: when the driver
  reads, the byte before may still be in the input buffer, on its way to a device
  or answered, in good order or garbled. `Outcome` is the idea that removes this:
  the bytes the controller may hold for the driver, and the states of the devices,
  once it has worked off its input buffer. Steps of the hardware choose among the
  outcomes and add none (`TakeOutcome`, `DeliverOutcome`), so an invariant about
  every outcome is theirs for nothing, and only the driver has to be followed: a
  read takes the first byte of each outcome, a write appends an answer to it.
  The invariant `Dialogue` says, per access, what every outcome is (`View`):
  `Resetting` for `reset_port`, `Identifying` for the devices' initialisation,
  `SettingCodes` for the keyboard driver. `Prepared` says that the devices are
  untouched before, `Aiming` on which port the next data byte arrives, and
  `Dealt` what is known of a port that has been dealt with. Bytes that stay in the
  data register are part of an outcome, because the driver reads them again on
  an empty port; that they never look like an identity rests on the
  configuration byte read last (`Plain`: its bit 0 is set, so it is neither 0 nor
  the code of a failed reset). TLC checked the invariant on small
  instances before it was proved.
* `Ps2DevicesProofs!KeyboardAlwaysDriven` and `FaultAlwaysFromFirstPort`, on the
  same terms. Two invariants without a condition come first: `Origins` ties the
  ports in `origin` to the unread bytes, and `Risk` says that an interrupt can be
  fatal only in the steps of `ps2_kbd_init` (`Exposed`). `FirstOnly` says that all
  unread bytes are the first port's until the second one is addressed, and
  `Aimed` that the configuration is stored for good by then, so that such a byte
  does raise the line. `Heard` is then the course of `ps2_kbd_init`: on the first
  port it never reads an acknowledgement; on the second it gets past the number
  of the set only while that number, or the answer to it, is still on its way
  (`Astray`), and to the install only if no device on the first port answers.

Only model-checked: liveness (`Terminates`, `RequestServed`, `CharReturns`,
`EnableReturns`), including the fairness of the refinement of `Ps2Wait`.
Liveness and `ENABLED` are out of reach of the provers.

## Not modelled, and the plan

Every safety property of the passing runs is proved. Left for proofs: what
`Ps2Init` keeps to when it is disturbed, for which no invariant is known yet, and
that the steps of `VgaSteps` and the calls of `_cprint` fit together.

Parts of modelled components that are left out, and why:

* `vga.c`: the hardware cursor (two port writes that nothing reads back) and
  `print_coords` and `print_offset`, which nothing calls.
* `rsdt.c`, `fadt.c`: a header length smaller than the header, and entries that
  are null. The first makes the number of tables wrap around and the search run
  through memory whose contents no model would determine; the second makes the
  checksum run over low memory.
* `pic_disable`, `irq_set_mask`, `pic_send_eoi` and `idt_uninstall_irq_handler`
  have no actions because nothing calls them. Exceptions other than the fault of
  a missing descriptor do not occur.
* `util.c`: `strlen` is what `Len` is in TLA+; `log` of `dmath.c` computes in
  floating point and nothing calls it.

Left out as a whole: single `in` and `out` instructions (steps of the
controllers' models), the boot loader besides `disk_load` (straight-line code
and BIOS calls), the Makefile, and the wording of messages.

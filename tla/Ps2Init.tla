------------------------------- MODULE Ps2Init ------------------------------
(***************************************************************************)
(* ps2_init of src/driver/ps2.c and ps2_kbd_init of                        *)
(* src/driver/ps2_keyboard.c, running against Ps2Controller.               *)
(*                                                                         *)
(* A step is one access to a buffer of the controller, with the wait       *)
(* before it and the computation up to the next access.  pc names the next *)
(* access.  ps2_send_device_command is a subroutine: call holds the        *)
(* command and where to go on, and its recursion is a jump back, since     *)
(* nothing is left to do after the recursive call.                         *)
(*                                                                         *)
(* Interrupts are on and their lines masked, as Interrupts leaves them,    *)
(* until ps2_kbd_init unmasks IRQ 1.  An interrupt without a descriptor    *)
(* ends the kernel; one with a handler takes no byte and changes nothing   *)
(* here.                                                                   *)
(***************************************************************************)
EXTENDS Ps2Controller

VARIABLES pc,
          config,        \* the local config of ps2_init
          dual_channel,
          operational,   \* port_0_operational and port_1_operational
          id,            \* port0_id and port1_id
          announced,     \* the type ps2_init_device printed for each port
          port,          \* the port reset_port and the drivers work on
          call,          \* the argument and the return of ps2_send_device_command
          resp,          \* the bytes read since the reset command
          kbd,           \* the keyboard driver: its port, IRQ 1 unmasked, handler installed
          fault          \* an interrupt has found no descriptor: the driver is gone

local == <<config, dual_channel, operational, id, announced, port, call, resp, kbd>>
vars  == <<hwVars, pc, local, fault>>

NoPort == 2

\* A uint16_t: its values, and what is left of n in one.
Words   == 0 .. 256 * 256 - 1
Word(n) == n % (256 * 256)

Init ==
    /\ InitHw
    /\ pc = "disable_0"
    /\ config = 0
    /\ dual_channel = FALSE
    /\ operational = [p \in Ports |-> FALSE]
    /\ id = [p \in Ports |-> 0]
    /\ announced = [p \in Ports |-> "none"]
    /\ port = NoPort
    /\ call = [cmd |-> 0, to |-> "none"]
    /\ resp = <<>>
    /\ kbd = [port |-> NoPort, unmasked |-> FALSE, installed |-> FALSE]
    /\ fault = FALSE

-----------------------------------------------------------------------------
(* The ways to reach the controller. *)

ps2_send_command(from, cmd, to) ==
    pc = from /\ WriteBuffer("command", cmd) /\ pc' = to

ps2_send_data(from, byte, to) ==
    pc = from /\ WriteBuffer("data", byte) /\ pc' = to

\* The byte read, when got, is obuf.
try_read_data(from, got) == pc = from /\ ReadBuffer(got)

\* The value returned; a wait that returned FALSE makes it 0.
ps2_read_data(from, value) ==
    \E got \in BOOLEAN : try_read_data(from, got) /\ value = IF got THEN obuf ELSE 0

Readable == {obuf, 0}

\* Forgetting to address the second port.
DeviceCommandEntry_first_port(p) == "device_command"

DeviceCommandEntry(p) == IF p = 1 THEN "select_port" ELSE "device_command"

\* Call ps2_send_device_command(cmd, p) and go on at to.
Call(cmd, p, to) ==
    pc' = DeviceCommandEntry(p) /\ call' = [cmd |-> cmd, to |-> to]

\* A RESEND taken for any other failure.
MustResend_never(got, byte) == FALSE

MustResend(got, byte) == got /\ byte = RESP_RESEND

ps2_send_device_command ==
    /\ \/ ps2_send_command("select_port", CMD_WRITE_INPUT_PORT_1, "device_command")
       \/ ps2_send_data("device_command", call.cmd, "device_ack")
       \/ \E got \in BOOLEAN :
           /\ try_read_data("device_ack", got)
           /\ pc' = IF MustResend(got, obuf) THEN DeviceCommandEntry(port) ELSE call.to
    /\ UNCHANGED local

-----------------------------------------------------------------------------
(* ps2_init up to the reset of the devices. *)

DisableAndFlush ==
    /\ \/ ps2_send_command("disable_0", CMD_DISABLE_PORT_0, "disable_1")
       \/ ps2_send_command("disable_1", CMD_DISABLE_PORT_1, "flush")
       \/ pc = "flush" /\ FlushBuffer /\ pc' = "get_1"
    /\ UNCHANGED local

FirstConfig(byte) ==
    WithBit(WithBit(WithBit(byte, Interrupt(0), 1), Translation, 0), Clock(0), 0)

Configure ==
    \/ /\ \/ ps2_send_command("get_1", CMD_READ_RAM, "edit_1")
          \/ ps2_send_command("set_1", CMD_WRITE_RAM, "data_1")
          \/ ps2_send_data("data_1", config, "test")
       /\ UNCHANGED local
    \/ /\ \E b \in Readable :
              /\ ps2_read_data("edit_1", b)
              /\ config' = FirstConfig(b)
              /\ pc' = "set_1"
       /\ UNCHANGED <<dual_channel, operational, id, announced, port, call, resp, kbd>>

\* Assuming that the self test leaves the configuration alone.
NeedsRestore_never(b) == FALSE

NeedsRestore(b) == b # config

\* The self test may have reset the configuration, which is then restored.
SelfTest ==
    /\ \/ ps2_send_command("test", CMD_TEST, "test_result")
       \/ \E b \in Readable :
              /\ ps2_read_data("test_result", b)
              /\ pc' = IF b = \h55 THEN "get_2" ELSE "done"
       \/ ps2_send_command("get_2", CMD_READ_RAM, "compare")
       \/ \E b \in Readable :
              /\ ps2_read_data("compare", b)
              /\ pc' = IF NeedsRestore(b) THEN "set_2" ELSE "probe"
       \/ ps2_send_command("set_2", CMD_WRITE_RAM, "data_2")
       \/ ps2_send_data("data_2", config, "probe")
    /\ UNCHANGED local

CloseSecondPort(byte) == WithBit(WithBit(byte, Interrupt(1), 0), Clock(1), 0)

\* Looking at the interrupt bit of the second port instead of its clock.
HasSecondPort_wrong_bit(b) == Bit(b, Interrupt(1)) = 0

HasSecondPort(b) == Bit(b, Clock(1)) = 0

Probe ==
    \/ /\ \/ ps2_send_command("probe", CMD_ENABLE_PORT_1, "get_3")
          \/ ps2_send_command("get_3", CMD_READ_RAM, "probed")
          \/ ps2_send_command("set_3", CMD_WRITE_RAM, "data_3")
          \/ ps2_send_data("data_3", config, "test_0")
       /\ UNCHANGED local
    \/ /\ \E b \in Readable :
              /\ ps2_read_data("probed", b)
              /\ config' = b
              /\ dual_channel' = HasSecondPort(b)
              /\ pc' = IF dual_channel' THEN "close_1" ELSE "test_0"
       /\ UNCHANGED <<operational, id, announced, port, call, resp, kbd>>
    \/ /\ ps2_send_command("close_1", CMD_DISABLE_PORT_1, "set_3")
       /\ config' = CloseSecondPort(config)
       /\ UNCHANGED <<dual_channel, operational, id, announced, port, call, resp, kbd>>

\* The next access once the ports are tested: the first operational port is
\* enabled, or the function returns.
AfterTests(op) ==
    IF op[0] THEN "enable_0" ELSE IF op[1] THEN "enable_1" ELSE "done"

TestPorts ==
    \/ /\ \/ ps2_send_command("test_0", CMD_TEST_PORT_0, "tested_0")
          \/ ps2_send_command("test_1", CMD_TEST_PORT_1, "tested_1")
       /\ UNCHANGED local
    \/ /\ \/ \E b \in Readable :
                 /\ ps2_read_data("tested_0", b)
                 /\ operational' = [operational EXCEPT ![0] = (b = 0)]
                 /\ pc' = IF dual_channel THEN "test_1" ELSE AfterTests(operational')
          \/ \E b \in Readable :
                 /\ ps2_read_data("tested_1", b)
                 /\ operational' = [operational EXCEPT ![1] = (b = 0)]
                 /\ pc' = AfterTests(operational')
       /\ UNCHANGED <<config, dual_channel, id, announced, port, call, resp, kbd>>

\* Interrupts are enabled on the operational ports and left alone on others.
FinalConfig(byte) ==
    LET On(b, p) == IF operational[p] THEN WithBit(b, Interrupt(p), 1) ELSE b
    IN  On(On(byte, 0), 1)

EnablePorts ==
    \/ /\ \/ ps2_send_command("enable_0", CMD_ENABLE_PORT_0,
                              IF operational[1] THEN "enable_1" ELSE "get_4")
          \/ ps2_send_command("enable_1", CMD_ENABLE_PORT_1, "get_4")
          \/ ps2_send_command("get_4", CMD_READ_RAM, "edit_4")
          \/ ps2_send_command("set_4", CMD_WRITE_RAM, "data_4")
          \/ ps2_send_data("data_4", config, "port_0")
       /\ UNCHANGED local
    \/ /\ \E b \in Readable :
              /\ ps2_read_data("edit_4", b)
              /\ config' = FinalConfig(b)
              /\ pc' = "set_4"
       /\ UNCHANGED <<dual_channel, operational, id, announced, port, call, resp, kbd>>

-----------------------------------------------------------------------------
(* reset_port, for each operational port. *)

After(p) == IF p = 0 THEN "port_1" ELSE "done"

\* The bodies of the two last conditionals of ps2_init.
EachPort ==
    \E p \in Ports :
        /\ pc = IF p = 0 THEN "port_0" ELSE "port_1"
        /\ IF operational[p]
           THEN /\ pc' = IF p = 1 THEN "reset_select" ELSE "reset"
                /\ port' = p /\ resp' = <<>> /\ UNCHANGED id
           ELSE /\ pc' = After(p)
                /\ id' = [id EXCEPT ![p] = 0] /\ UNCHANGED <<port, resp>>
        /\ UNCHANGED <<hwVars, config, dual_channel, operational, announced, call, kbd>>

SendReset ==
    /\ \/ ps2_send_command("reset_select", CMD_WRITE_INPUT_PORT_1, "reset")
       \/ ps2_send_data("reset", CMD_RESET_DEVICE, "reset_response")
    /\ UNCHANGED local

\* Without the identity byte.
NRESP_two == 2

NRESP == 3

\* The loop that reads NRESP bytes and the checks after it.  The check for
\* ACK and success only prints; both outcomes go on.
ResetResponse ==
    /\ \E got \in BOOLEAN :
        /\ try_read_data("reset_response", got)
        /\ LET all == Append(resp, obuf)
               complete == got /\ Len(all) = NRESP
           IN  /\ resp' = IF got THEN all ELSE resp
               /\ \/ /\ ~got
                     /\ id' = [id EXCEPT ![port] = 0]
                     /\ pc' = "init_device" /\ UNCHANGED call
                  \/ /\ got /\ ~complete
                     /\ pc' = "reset_response" /\ UNCHANGED <<id, call>>
                  \/ /\ complete /\ all[1] = RESP_RESET_FAIL
                     /\ pc' = "init_device" /\ UNCHANGED <<id, call>>
                  \/ /\ complete /\ all[1] # RESP_RESET_FAIL
                     /\ id' = [id EXCEPT ![port] = obuf]
                     /\ IF obuf \in {\hab, \hac}
                        THEN pc' = "special_code" /\ UNCHANGED call
                        ELSE Call(CMD_DISABLE_SCAN, port, "identify")
    /\ UNCHANGED <<config, dual_channel, operational, announced, port, kbd>>

SpecialCode ==
    /\ \E got \in BOOLEAN :
        /\ try_read_data("special_code", got)
        /\ id' = IF got THEN [id EXCEPT ![port] = Word(id[port] + obuf * 256)] ELSE id
    /\ Call(CMD_DISABLE_SCAN, port, "identify")
    /\ UNCHANGED <<config, dual_channel, operational, announced, port, resp, kbd>>

Identify ==
    \/ /\ pc = "identify"
       /\ Call(CMD_IDENTIFY, port, "id_1")
       /\ UNCHANGED <<hwVars, config, dual_channel, operational, id, announced, port, resp, kbd>>
    \/ /\ try_read_data("id_1", TRUE)
       /\ id' = [id EXCEPT ![port] = obuf]
       /\ pc' = "id_2" /\ UNCHANGED call
       /\ UNCHANGED <<config, dual_channel, operational, announced, port, resp, kbd>>
    \/ /\ try_read_data("id_1", FALSE)
       /\ Call(CMD_ENABLE_SCAN, port, "init_device") /\ UNCHANGED id
       /\ UNCHANGED <<config, dual_channel, operational, announced, port, resp, kbd>>
    \/ /\ \E got \in BOOLEAN :
           /\ try_read_data("id_2", got)
           /\ id' = IF got THEN [id EXCEPT ![port] = Word(id[port] * 256 + obuf)] ELSE id
       /\ Call(CMD_ENABLE_SCAN, port, "init_device")
       /\ UNCHANGED <<config, dual_channel, operational, announced, port, resp, kbd>>

-----------------------------------------------------------------------------
(* ps2_init_device and the keyboard driver. *)

get_device_type(i) ==
    CASE i = 0 -> "MOUSE_PS2"
      [] i = 3 -> "MOUSE_SCROLL_WHEEL"
      [] i = 4 -> "MOUSE_5BUTTON"
      [] i \in {\hab83, \habc1} -> "KBD_MF2"
      [] i = \hab84 -> "KBD_SHORT"
      [] i = \hab85 -> "KBD_N97"
      [] i = \hab86 -> "KBD_122KEY"
      [] i = \hab90 -> "KBD_JPN_G"
      [] i = \hab91 -> "KBD_JPN_P"
      [] i = \hab92 -> "KBD_JPN_A"
      [] i = \haca1 -> "KBD_NCD_SUN"
      [] OTHER -> "DEV_UNKNOWN"

MouseTypes == {"MOUSE_PS2", "MOUSE_SCROLL_WHEEL", "MOUSE_5BUTTON"}

\* A case that falls through to the keyboards.
KeyboardTypes_fallthrough == {"MOUSE_PS2", "KBD_MF2"}

KeyboardTypes == {"KBD_MF2", "KBD_SHORT", "KBD_N97", "KBD_122KEY",
                  "KBD_JPN_G", "KBD_JPN_P", "KBD_JPN_A", "KBD_NCD_SUN"}

\* The test of _vector the wrong way round.
DriverFree_inverted == kbd.port # NoPort

DriverFree == kbd.port = NoPort

\* The driver is chosen by kind; a second keyboard finds it in use, and mice
\* have none.
ps2_init_device ==
    /\ pc = "init_device"
    /\ LET type == get_device_type(id[port])
       IN  /\ announced' = [announced EXCEPT ![port] = IF type = "DEV_UNKNOWN" THEN "none" ELSE type]
           /\ pc' = IF type \in KeyboardTypes /\ DriverFree THEN "kbd_init" ELSE After(port)
    /\ UNCHANGED <<hwVars, config, dual_channel, operational, id, port, call, resp, kbd>>

\* Another default.
get_scan_code_set_strict(b) == IF b \in {1, 2} THEN b ELSE 3

get_scan_code_set(b) == IF b \in {2, 3} THEN b ELSE 1

\* ps2_kbd_init: IRQ 1 is unmasked first, the handler installed last.  The scan
\* code set is 1; its number goes out as plain data.
KbdInit ==
    \/ /\ pc = "kbd_init"
       /\ kbd' = [kbd EXCEPT !.port = port, !.unmasked = TRUE]
       /\ Call(CMD_ENABLE_SCAN, port, "set_codes")
       /\ UNCHANGED <<hwVars, config, dual_channel, operational, id, announced, port, resp>>
    \/ /\ \/ pc = "set_codes" /\ Call(CMD_SET_SCAN_CODE, kbd.port, "set_id")
          \/ pc = "get_codes" /\ Call(CMD_SET_SCAN_CODE, kbd.port, "check_set")
       /\ UNCHANGED <<hwVars, config, dual_channel, operational, id, announced, port, resp, kbd>>
    \/ /\ \/ ps2_send_data("set_id", 1, "get_codes")
          \/ \E b \in Readable :
                 /\ ps2_read_data("check_set", b)
                 /\ pc' = IF get_scan_code_set(b) = 1 THEN "install" ELSE "set_codes"
       /\ UNCHANGED local
    \/ /\ pc = "install"
       /\ kbd' = [kbd EXCEPT !.installed = TRUE]
       /\ pc' = After(port)
       /\ UNCHANGED <<hwVars, config, dual_channel, operational, id, announced, port, call, resp>>

\* ps2_init has returned and the kernel goes on, or it never will.
Stopped  == pc = "done" \/ fault
Returned == Stopped /\ UNCHANGED vars

-----------------------------------------------------------------------------

Access ==
    \/ DisableAndFlush \/ Configure \/ SelfTest \/ Probe \/ TestPorts \/ EnablePorts
    \/ EachPort \/ SendReset \/ ResetResponse \/ SpecialCode \/ Identify
    \/ ps2_send_device_command \/ ps2_init_device \/ KbdInit

\* Before the handler is there: the interrupt comes ahead of the next instruction
\* and its vector, 0x21, has no descriptor.
Unprepared == kbd.unmasked /\ ~kbd.installed /\ IRQ1

Interrupted == ~fault /\ Unprepared /\ fault' = TRUE /\ UNCHANGED <<hwVars, pc, local>>

Driver == (~fault /\ ~Unprepared /\ Access /\ UNCHANGED fault) \/ Interrupted

Hardware == (Controller \/ \E p \in Ports : Key(p)) /\ UNCHANGED <<pc, local, fault>>

Next == Driver \/ Hardware \/ Returned

\* The driver has the CPU to itself and the controller keeps working; nobody
\* has to press a key.
Spec == Init /\ [][Next]_vars /\ WF_vars(Driver) /\ WF_vars(Controller /\ UNCHANGED <<pc, local, fault>>)

-----------------------------------------------------------------------------
(* Properties *)

TypeOK ==
    /\ TypeOKHw
    /\ config \in Bytes
    /\ dual_channel \in BOOLEAN
    /\ operational \in [Ports -> BOOLEAN]
    /\ id \in [Ports -> Words]
    /\ announced \in [Ports -> {"none"} \cup MouseTypes \cup KeyboardTypes]
    /\ port \in Ports \cup {NoPort}
    /\ call.cmd \in Bytes
    /\ Len(resp) <= 3 /\ \A i \in DOMAIN resp : resp[i] \in Bytes
    /\ kbd \in [port : Ports \cup {NoPort}, unmasked : BOOLEAN, installed : BOOLEAN]
    /\ fault \in BOOLEAN

\* A port that exists on a controller that passes its self test and whose own
\* test passes.
HealthyPort(p) == hw.self_test = \h55 /\ hw.test[p] = 0 /\ (p = 1 => hw.dual)

\* ps2_init has returned and the controller has taken its last byte.
Finished == pc = "done" /\ ib = <<>>

\* ... and so far every byte it sent was an answer, in time.
Undisturbed == Finished /\ keys + late = 0

\* ... or an interrupt has ended it before, at whatever port it was.
Over == Stopped /\ ib = <<>> /\ keys + late = 0

\* The conversation never slips: after some forty exchanges, each read having
\* taken the answer it was meant for, exactly the healthy ports are used.
PortsDetected == Over => \A p \in Ports : operational[p] <=> HealthyPort(p)

\* Whatever the self test did to the configuration, every healthy port ends
\* with its clock running, its interrupt on and translation off.
ConfigSettled ==
    Over => \A p \in Ports : HealthyPort(p) =>
        /\ Bit(ccb, Clock(p)) = 0
        /\ Bit(ccb, Interrupt(p)) = 1
        /\ Bit(ccb, Translation) = 0

\* Every device on a healthy port that was looked at is recognised and left
\* scanning, although a keyboard sends fewer bytes after a reset, and a mouse a
\* shorter identity, than reset_port reads, and garbled bytes are asked for
\* again.  A device that fails its reset keeps the id 0 and is taken for a mouse,
\* although ps2.c says it "should be ignored".
DevicesIdentified ==
    Over => \A p \in Ports : HealthyPort(p) /\ (fault => p <= port) =>
        /\ hw.attached[p] \in Keyboards => announced[p] = "KBD_MF2" /\ dev[p].scan
        /\ hw.attached[p] = "mouse" => announced[p] = "MOUSE_PS2" /\ dev[p].scan
        /\ hw.attached[p] = "broken" => announced[p] = "MOUSE_PS2"

\* No device is announced for an empty port.  The reads of reset_port all run
\* out there and return whatever byte came last; it is never an identity,
\* unless a failed reset on the other port left it.
EmptyPortSilent ==
    Over /\ (\A p \in Ports : hw.attached[p] # "broken") =>
        \A p \in Ports : hw.attached[p] = "none" => announced[p] = "none"

\* The keyboard driver only ever talks to a keyboard.
KeyboardDriverHasKeyboard ==
    kbd.port # NoPort /\ keys + late = 0 => HealthyPort(kbd.port) /\ hw.attached[kbd.port] \in Keyboards

\* With a keyboard on a healthy port ps2_init returns only if that is the second
\* one and no device on the first answers; only there the handler ends up
\* installed.  Anywhere else a byte from the first port, the acknowledgement of
\* ENABLE_SCAN or the answer to the set number that went astray, interrupts
\* before there is a descriptor.
KeyboardDriven ==
    Undisturbed => \A p \in Ports : HealthyPort(p) /\ hw.attached[p] \in Keyboards =>
        /\ p = 1 /\ hw.attached[0] \in {"none", "broken"}
        /\ kbd.port = 1 /\ kbd.installed

\* The kernel is lost to a missing descriptor only on a machine with a keyboard
\* to drive and a device on the first port that answers: the bytes of the second
\* port raise another line, and none of the controller's own is left unread.
FaultFromFirstPort ==
    fault /\ keys + late = 0 =>
        /\ hw.attached[0] \in {"kbd", "kbd_id", "mouse"}
        /\ \E p \in Ports : HealthyPort(p) /\ hw.attached[p] \in Keyboards

\* No answer is left unread, where it would be taken for the next one.  Where
\* ps2_init returns, nobody has answered the set number, which the keyboard
\* driver would have left unread, and its read too many after the query has
\* found nothing to take.
AnswersConsumed == Undisturbed => ~obf /\ outq = <<>>

\* Disturbances of different kinds shift the answers against the commands: two
\* of them where a retry may address a port on which nobody answers, all three
\* anywhere.
SilentPort == \E p \in Ports : HealthyPort(p) /\ hw.attached[p] \in {"none", "broken"}
Misaligned ==
    \/ keys > 0 /\ resends > 0 /\ late > 0
    \/ SilentPort /\ ((keys > 0 /\ late > 0) \/ (resends > 0 /\ keys + late > 0))

\* The retries of ps2_send_device_command and of ps2_kbd_set_scan_codes come to
\* an end although bytes are garbled, keys pressed or answers late: ps2_init
\* returns, or an interrupt has ended the kernel.  Beyond Misaligned there is no
\* such promise, see TimeoutEndsCommand.
Terminates == <>(Stopped \/ Misaligned)

-----------------------------------------------------------------------------
(* Statements of the code's comments that the code does not meet. *)

\* ps2.c, where a command gets no answer: "Timeout while waiting for a
\* response."  The error is printed and the driver goes on.
TimeoutEndsCommand == <>Stopped

\* ps2_keyboard.c: "Check the scan code set."
ScanSetChecked == Finished /\ kbd.installed => dev[kbd.port].set = 1
=============================================================================

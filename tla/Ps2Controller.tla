---------------------------- MODULE Ps2Controller ---------------------------
(***************************************************************************)
(* The 8042 controller and the devices on its two ports, as                *)
(* src/driver/ps2.c and src/driver/ps2_keyboard.c use them.  This is the   *)
(* hardware side: the driver sees it through the two waits and the two     *)
(* data buffers only.                                                      *)
(*                                                                         *)
(* The controller runs on its own.  It takes a byte from the input buffer, *)
(* queues the answers, and moves one answer at a time into the data        *)
(* register.  Reading the register does not clear it, so a read when       *)
(* nothing has arrived returns the previous byte once more.  While the     *)
(* register is full it asks for the interrupt of the port its byte is      *)
(* from, if the configuration byte allows that.                            *)
(***************************************************************************)
EXTENDS Integers, Sequences

CONSTANTS Machines,   \* the machines to consider, see Machine
          MaxKeys,    \* bound on the scan codes sent unasked
          MaxResend,  \* bound on the RESEND answers to a garbled byte
          MaxLate     \* bound on the waits that outlast an answer on its way

Ports == {0, 1}
Ram   == 2
Bytes == 0 .. 255

CMD_READ_RAM           == \h20
CMD_WRITE_RAM          == \h60
CMD_DISABLE_PORT_1     == \ha7
CMD_ENABLE_PORT_1      == \ha8
CMD_TEST_PORT_1        == \ha9
CMD_TEST               == \haa
CMD_TEST_PORT_0        == \hab
CMD_DISABLE_PORT_0     == \had
CMD_ENABLE_PORT_0      == \hae
CMD_WRITE_INPUT_PORT_1 == \hd4
CMD_SET_SCAN_CODE      == \hf0
CMD_IDENTIFY           == \hf2
CMD_ENABLE_SCAN        == \hf4
CMD_DISABLE_SCAN       == \hf5
CMD_RESET_DEVICE       == \hff
RESP_ACK               == \hfa
RESP_RESEND            == \hfe
RESP_RESET_SUCCESS     == \haa
RESP_RESET_FAIL        == \hfc

\* "kbd_id" is a keyboard that sends its identity after a reset without being
\* asked, "broken" a device that fails its self test.
Devices == {"none", "kbd", "kbd_id", "mouse", "broken"}

\* What differs from machine to machine: a second channel, the controller's
\* self test and whether that resets the configuration, the configuration
\* byte the firmware left, the port tests and the devices.
Machine == [dual : BOOLEAN, self_test : Bytes, resets : BOOLEAN, ccb : Bytes,
            test : [Ports -> Bytes], attached : [Ports -> Devices]]

ASSUME MachineAssumption ==
    /\ Machines \subseteq Machine
    /\ MaxKeys \in Nat /\ MaxResend \in Nat /\ MaxLate \in Nat

VARIABLES hw,       \* the machine, fixed
          ccb,      \* the controller configuration byte
          ib,       \* the input buffer: <<>> or << <<register, byte>> >>
          target,   \* where the next data byte goes: a port or Ram
          obf,      \* output buffer full
          obuf,     \* the data register
          outq,     \* answers not yet in the data register
          origin,   \* the ports the unread bytes came from, the register's first;
                    \* the controller's own count as the first port's
          dev,      \* the devices: scan code set, scanning, command pending
          keys,     \* scan codes sent so far
          resends,  \* bytes garbled so far
          late      \* waits cut short so far

hwVars == <<hw, ccb, ib, target, obf, obuf, outq, origin, dev, keys, resends, late>>

Bit(b, i) == (b \div 2^i) % 2

\* Adding a bit that may be set already.
WithBit_adds(b, i, v) == b + v * 2^i

WithBit(b, i, v) == b + (v - Bit(b, i)) * 2^i

\* Bits of the configuration byte (config_t).
Interrupt(p) == p
Clock(p)     == 4 + p      \* 1 = the port is disabled
Translation  == 6

\* A controller with one channel has the second port disabled for good.
Stored(b) == IF hw.dual THEN b ELSE WithBit(b, Clock(1), 1)

PowerOnDevice == [set |-> 2, scan |-> TRUE, pending |-> FALSE]

\* The firmware's last byte, a released key, is still in the data register.
InitHw ==
    /\ hw \in Machines
    /\ ccb = Stored(hw.ccb)
    /\ ib = <<>> /\ target = 0
    /\ obf \in BOOLEAN /\ obuf = \h9c /\ outq = <<>>
    /\ origin = IF obf THEN <<0>> ELSE <<>>
    /\ dev = [p \in Ports |-> PowerOnDevice]
    /\ keys = 0 /\ resends = 0 /\ late = 0

-----------------------------------------------------------------------------
(* What the driver can do: wait and access a buffer. *)

WaitContract == INSTANCE Ps2Wait WITH ready <- obf, state <- "waiting", result <- FALSE

Idle == ib = <<>> /\ outq = <<>>

\* A loop that reports a timeout.
Wait_honest(isReady, r) == r = isReady /\ (isReady \/ Idle) /\ UNCHANGED late

\* A wait returns r.  It ends at once when the condition holds and runs out
\* when nothing is on its way; MaxLate times it may also run out just before
\* the condition becomes true, or meet it on the very last poll.
Wait(isReady, r) ==
    \/ r /\ (isReady \/ Idle) /\ UNCHANGED late
    \/ /\ late < MaxLate /\ late' = late + 1
       /\ ~isReady \/ ~r
       /\ r \in WaitContract!WaitResults(isReady)

\* Wait for the input buffer, then write; a full buffer is overwritten.
WriteBuffer(reg, byte) ==
    /\ \E r \in BOOLEAN : /\ Wait(ib = <<>>, r)
                          /\ ib' = IF r THEN << <<reg, byte>> >> ELSE ib
    /\ UNCHANGED <<hw, ccb, target, obf, obuf, outq, origin, dev, keys, resends>>

\* Wait for the output buffer, then read obuf when r.
ReadBuffer(r) ==
    /\ Wait(obf, r)
    /\ obf' = (obf /\ ~r)
    /\ origin' = IF obf /\ r THEN Tail(origin) ELSE origin
    /\ UNCHANGED <<hw, ccb, ib, target, obuf, outq, dev, keys, resends>>

\* A read of the data register without waiting.
FlushBuffer ==
    /\ obf' = FALSE
    /\ origin' = IF obf THEN Tail(origin) ELSE origin
    /\ UNCHANGED <<hw, ccb, ib, target, obuf, outq, dev, keys, resends, late>>

-----------------------------------------------------------------------------
(* The devices. *)

Keyboards == {"kbd", "kbd_id"}

ResetAnswer(kind) ==
    CASE kind = "kbd"    -> <<RESP_ACK, RESP_RESET_SUCCESS>>
      [] kind = "kbd_id" -> <<RESP_ACK, RESP_RESET_SUCCESS, \hab, \h83>>
      [] kind = "mouse"  -> <<RESP_ACK, RESP_RESET_SUCCESS, 0>>
      [] kind = "broken" -> <<RESP_RESET_FAIL>>

\* A device that received byte in state d: its answer and its new state.
Reaction(kind, d, byte) ==
    LET Do(answer, new) == [answer |-> answer, new |-> new]
        Done == [d EXCEPT !.pending = FALSE]
    IN  CASE kind = "none" -> Do(<<>>, d)
          [] kind # "none" /\ byte = CMD_RESET_DEVICE -> Do(ResetAnswer(kind), PowerOnDevice)
          [] kind = "broken" /\ byte # CMD_RESET_DEVICE -> Do(<<>>, d)
          [] kind \in Keyboards /\ d.pending /\ byte \in 1..3 ->
                Do(<<RESP_ACK>>, [Done EXCEPT !.set = byte])
          [] kind \in Keyboards /\ ~d.pending /\ byte = CMD_SET_SCAN_CODE ->
                Do(<<RESP_ACK>>, [d EXCEPT !.pending = TRUE])
          [] kind \in {"kbd", "kbd_id", "mouse"} /\ ~d.pending /\ byte = CMD_IDENTIFY ->
                Do(<<RESP_ACK>> \o IF kind = "mouse" THEN <<0>> ELSE <<\hab, \h83>>, d)
          [] kind \in {"kbd", "kbd_id", "mouse"} /\ ~d.pending /\ byte \in {CMD_ENABLE_SCAN, CMD_DISABLE_SCAN} ->
                Do(<<RESP_ACK>>, [d EXCEPT !.scan = (byte = CMD_ENABLE_SCAN)])
          [] OTHER -> Do(<<RESP_RESEND>>, Done)

-----------------------------------------------------------------------------
(* The controller at work. *)

\* A command byte: the configuration it leaves, its answer, the next target.
Execute(cmd) ==
    /\ ccb' = CASE cmd = CMD_DISABLE_PORT_0 -> WithBit(ccb, Clock(0), 1)
                [] cmd = CMD_ENABLE_PORT_0  -> WithBit(ccb, Clock(0), 0)
                [] cmd = CMD_DISABLE_PORT_1 -> WithBit(ccb, Clock(1), 1)
                [] cmd = CMD_ENABLE_PORT_1  -> Stored(WithBit(ccb, Clock(1), 0))
                [] cmd = CMD_TEST /\ hw.resets -> Stored(hw.ccb)
                [] OTHER -> ccb
    /\ outq' = outq \o CASE cmd = CMD_READ_RAM    -> <<ccb>>
                         [] cmd = CMD_TEST        -> <<hw.self_test>>
                         [] cmd = CMD_TEST_PORT_0 -> <<hw.test[0]>>
                         [] cmd = CMD_TEST_PORT_1 /\ hw.dual -> <<hw.test[1]>>
                         [] OTHER -> <<>>
    /\ target' = CASE cmd = CMD_WRITE_RAM -> Ram
                   [] cmd = CMD_WRITE_INPUT_PORT_1 /\ hw.dual -> 1
                   [] OTHER -> 0
    /\ UNCHANGED <<dev, resends>>

StoreConfig(byte) ==
    /\ target = Ram
    /\ ccb' = Stored(byte)
    /\ target' = 0
    /\ UNCHANGED <<outq, dev, resends>>

Forward(byte) ==
    /\ target \in Ports
    /\ LET do == Reaction(hw.attached[target], dev[target], byte)
       IN  /\ outq' = outq \o do.answer
           /\ dev' = [dev EXCEPT ![target] = do.new]
    /\ target' = 0
    /\ UNCHANGED <<ccb, resends>>

\* The byte arrives garbled and the device asks for it again.
Garble ==
    /\ target \in Ports
    /\ hw.attached[target] \in {"kbd", "kbd_id", "mouse"}
    /\ resends < MaxResend
    /\ resends' = resends + 1
    /\ outq' = Append(outq, RESP_RESEND)
    /\ target' = 0
    /\ UNCHANGED <<ccb, dev>>

\* Who answers the byte in the input buffer.
Sender == IF ib[1][1] = "data" /\ target = 1 THEN 1 ELSE 0

Take ==
    /\ ib # <<>>
    /\ ib' = <<>>
    /\ LET reg == ib[1][1]  byte == ib[1][2]
       IN  \/ reg = "command" /\ Execute(byte)
           \/ reg = "data" /\ (StoreConfig(byte) \/ Forward(byte) \/ Garble)
    /\ origin' = origin \o [i \in 1 .. Len(outq') - Len(outq) |-> Sender]
    /\ UNCHANGED <<hw, obf, obuf, keys, late>>

Deliver ==
    /\ ~obf /\ outq # <<>>
    /\ obf' = TRUE
    /\ obuf' = Head(outq)
    /\ outq' = Tail(outq)
    /\ UNCHANGED <<hw, ccb, ib, target, origin, dev, keys, resends, late>>

\* A key is pressed on a scanning keyboard of an enabled port.
Key(p) ==
    /\ keys < MaxKeys
    /\ hw.attached[p] \in Keyboards
    /\ dev[p].scan /\ ~dev[p].pending
    /\ p = 1 => hw.dual
    /\ Bit(ccb, Clock(p)) = 0
    /\ keys' = keys + 1
    /\ outq' = Append(outq, \h1c)
    /\ origin' = Append(origin, p)
    /\ UNCHANGED <<hw, ccb, ib, target, obf, obuf, dev, resends, late>>

Controller == Take \/ Deliver

\* IRQ 1 follows the data register: it is raised while a byte of the first port
\* has not been read.
IRQ1 == obf /\ origin[1] = 0 /\ Bit(ccb, Interrupt(0)) = 1

-----------------------------------------------------------------------------

TypeOKHw ==
    /\ hw \in Machines
    /\ ccb \in Bytes
    /\ ib = <<>> \/ (Len(ib) = 1 /\ ib[1] \in {"command", "data"} \X Bytes)
    /\ target \in Ports \cup {Ram}
    /\ obf \in BOOLEAN /\ obuf \in Bytes
    /\ \A i \in DOMAIN outq : outq[i] \in Bytes
    /\ Len(origin) = Len(outq) + (IF obf THEN 1 ELSE 0)
    /\ \A i \in DOMAIN origin : origin[i] \in Ports
    /\ dev \in [Ports -> [set : 1..3, scan : BOOLEAN, pending : BOOLEAN]]
    /\ keys \in 0..MaxKeys /\ resends \in 0..MaxResend /\ late \in 0..MaxLate
=============================================================================

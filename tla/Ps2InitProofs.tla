---------------------------- MODULE Ps2InitProofs ---------------------------
(***************************************************************************)
(* Proofs about Ps2Init running against Ps2Controller, for every set of    *)
(* machines and every bound on key presses, garbled bytes and late waits:  *)
(* the types, and what ps2_init finds and leaves behind while no key is    *)
(* pressed and every wait ends in time.  It uses exactly the healthy       *)
(* ports, and leaves their clocks and interrupts on.                       *)
(***************************************************************************)
EXTENDS Ps2Init, TLAPS

-----------------------------------------------------------------------------
(* Bits of a byte. *)

Binary     == {0, 1}
BitNumbers == {0, 1, 4, 5, 6}

LEMMA BitNumbering ==
    /\ \A p \in Ports : Interrupt(p) \in BitNumbers /\ Clock(p) \in BitNumbers
    /\ Interrupt(0) = 0 /\ Interrupt(1) = 1 /\ Clock(0) = 4 /\ Clock(1) = 5
    /\ Translation = 6
BY DEF Ports, BitNumbers, Interrupt, Clock, Translation

\* s is the digit of b that has the weight k: the digits above make a, those
\* below make r.
Digit(b, k, a, s, r) ==
    /\ k \in {1, 2, 16, 32, 64} /\ a \in Nat /\ s \in Binary /\ r \in 0 .. k - 1
    /\ b = (2 * a + s) * k + r

LEMMA Quotient ==
    ASSUME NEW b, NEW k, NEW a, NEW s, NEW r, Digit(b, k, a, s, r)
    PROVE  (b \div k) % 2 = s
<1> DEFINE q == b \div k
           t == b % k
<1>1. b \in Nat /\ k \in Nat \ {0}
  BY DEF Digit, Binary
<1>2. q \in Int /\ t \in 0 .. k - 1 /\ b = k * q + t
  BY <1>1
<1> HIDE DEF q, t
<1>3. q = 2 * a + s
  <2>1. CASE k = 1  BY <2>1, <1>2 DEF Digit, Binary
  <2>2. CASE k = 2  BY <2>2, <1>2 DEF Digit, Binary
  <2>3. CASE k = 16 BY <2>3, <1>2 DEF Digit, Binary
  <2>4. CASE k = 32 BY <2>4, <1>2 DEF Digit, Binary
  <2>5. CASE k = 64 BY <2>5, <1>2 DEF Digit, Binary
  <2> QED BY <2>1, <2>2, <2>3, <2>4, <2>5 DEF Digit
<1>4. a \in Nat /\ s \in Binary
  BY DEF Digit
<1>5. (2 * a + s) % 2 = s
  BY <1>4 DEF Binary
<1> QED BY <1>3, <1>5 DEF q

\* A byte with the bits 7 to 4, the number its bits 3 and 2 make, and bits 1, 0.
ByteOf(h, g, f, e, m, d, c) == 128 * h + 64 * g + 32 * f + 16 * e + 4 * m + 2 * d + c

HasBits(b, h, g, f, e, m, d, c) ==
    {h, g, f, e, d, c} \subseteq Binary /\ m \in 0 .. 3 /\ b = ByteOf(h, g, f, e, m, d, c)

LEMMA Halves ==
    ASSUME NEW n \in Nat
    PROVE  \E q \in Nat, s \in Binary : n = 2 * q + s
<1>1. n = 2 * (n \div 2) + (n % 2) /\ n \div 2 \in Nat /\ n % 2 \in Binary
  BY DEF Binary
<1> QED BY <1>1

LEMMA Decomposed ==
    ASSUME NEW b \in Bytes
    PROVE  \E h, g, f, e, m, d, c : HasBits(b, h, g, f, e, m, d, c)
<1>1. b \in Nat /\ b <= 255
  BY DEF Bytes
<1>2. PICK q1 \in Nat, c \in Binary : b = 2 * q1 + c
  BY <1>1, Halves
<1>3. PICK q2 \in Nat, d \in Binary : q1 = 2 * q2 + d
  BY Halves
<1>4. PICK q3 \in Nat, m0 \in Binary : q2 = 2 * q3 + m0
  BY Halves
<1>5. PICK q4 \in Nat, m1 \in Binary : q3 = 2 * q4 + m1
  BY Halves
<1>6. PICK q5 \in Nat, e \in Binary : q4 = 2 * q5 + e
  BY Halves
<1>7. PICK q6 \in Nat, f \in Binary : q5 = 2 * q6 + f
  BY Halves
<1>8. PICK q7 \in Nat, g \in Binary : q6 = 2 * q7 + g
  BY Halves
<1>9. q7 \in Binary /\ 2 * m1 + m0 \in 0 .. 3
  BY <1>1, <1>2, <1>3, <1>4, <1>5, <1>6, <1>7, <1>8 DEF Binary
<1>10. b = ByteOf(q7, g, f, e, 2 * m1 + m0, d, c)
  BY <1>1, <1>2, <1>3, <1>4, <1>5, <1>6, <1>7, <1>8 DEF ByteOf, Binary
<1>11. HasBits(b, q7, g, f, e, 2 * m1 + m0, d, c)
  BY <1>9, <1>10 DEF HasBits
<1> QED BY <1>11

LEMMA Composed ==
    ASSUME NEW b, NEW h, NEW g, NEW f, NEW e, NEW m, NEW d, NEW c,
           HasBits(b, h, g, f, e, m, d, c)
    PROVE  /\ b \in Bytes
           /\ Bit(b, 0) = c /\ Bit(b, 1) = d /\ Bit(b, 4) = e /\ Bit(b, 5) = f /\ Bit(b, 6) = g
           /\ {h, g, f, e, d, c} \subseteq Binary
<1>0. 2^0 = 1 /\ 2^1 = 2 /\ 2^4 = 16 /\ 2^5 = 32 /\ 2^6 = 64
  OBVIOUS
<1>1. /\ h \in Binary /\ g \in Binary /\ f \in Binary /\ e \in Binary /\ d \in Binary /\ c \in Binary
      /\ m \in 0 .. 3 /\ b = ByteOf(h, g, f, e, m, d, c)
  BY DEF HasBits
<1>2. Digit(b, 1, 64 * h + 32 * g + 16 * f + 8 * e + 2 * m + d, c, 0)
  BY <1>1 DEF ByteOf, Digit, Binary
<1>3. Digit(b, 2, 32 * h + 16 * g + 8 * f + 4 * e + m, d, c)
  BY <1>1 DEF ByteOf, Digit, Binary
<1>4. Digit(b, 16, 4 * h + 2 * g + f, e, 4 * m + 2 * d + c)
  BY <1>1 DEF ByteOf, Digit, Binary
<1>5. Digit(b, 32, 2 * h + g, f, 16 * e + 4 * m + 2 * d + c)
  BY <1>1 DEF ByteOf, Digit, Binary
<1>6. Digit(b, 64, h, g, 32 * f + 16 * e + 4 * m + 2 * d + c)
  BY <1>1 DEF ByteOf, Digit, Binary
<1>7. Bit(b, 0) = c /\ Bit(b, 1) = d /\ Bit(b, 4) = e /\ Bit(b, 5) = f /\ Bit(b, 6) = g
  BY <1>0, <1>2, <1>3, <1>4, <1>5, <1>6, Quotient DEF Bit
<1>8. b \in Bytes
  BY <1>1 DEF ByteOf, Bytes, Binary
<1> QED BY <1>7, <1>8 DEF HasBits

LEMMA BitIsBinary ==
    ASSUME NEW b \in Bytes, NEW i \in BitNumbers
    PROVE  Bit(b, i) \in Binary
BY Decomposed, Composed DEF BitNumbers

\* Setting a bit gives a byte with that bit, and every other bit as it was.
LEMMA SetBit ==
    ASSUME NEW b \in Bytes, NEW i \in BitNumbers, NEW v \in Binary
    PROVE  /\ WithBit(b, i, v) \in Bytes
           /\ Bit(WithBit(b, i, v), i) = v
           /\ \A j \in BitNumbers : j # i => Bit(WithBit(b, i, v), j) = Bit(b, j)
<1>0. 2^0 = 1 /\ 2^1 = 2 /\ 2^4 = 16 /\ 2^5 = 32 /\ 2^6 = 64
  OBVIOUS
<1>1. PICK h, g, f, e, m, d, c : HasBits(b, h, g, f, e, m, d, c)
  BY Decomposed
<1>2. /\ Bit(b, 0) = c /\ Bit(b, 1) = d /\ Bit(b, 4) = e /\ Bit(b, 5) = f /\ Bit(b, 6) = g
  BY <1>1, Composed
<1>3. CASE i = 0
  <2>1. HasBits(WithBit(b, i, v), h, g, f, e, m, d, v)
    BY <1>0, <1>1, <1>2, <1>3 DEF WithBit, HasBits, ByteOf, Binary
  <2> QED BY <1>2, <1>3, <2>1, Composed DEF BitNumbers
<1>4. CASE i = 1
  <2>1. HasBits(WithBit(b, i, v), h, g, f, e, m, v, c)
    BY <1>0, <1>1, <1>2, <1>4 DEF WithBit, HasBits, ByteOf, Binary
  <2> QED BY <1>2, <1>4, <2>1, Composed DEF BitNumbers
<1>5. CASE i = 4
  <2>1. HasBits(WithBit(b, i, v), h, g, f, v, m, d, c)
    BY <1>0, <1>1, <1>2, <1>5 DEF WithBit, HasBits, ByteOf, Binary
  <2> QED BY <1>2, <1>5, <2>1, Composed DEF BitNumbers
<1>6. CASE i = 5
  <2>1. HasBits(WithBit(b, i, v), h, g, v, e, m, d, c)
    BY <1>0, <1>1, <1>2, <1>6 DEF WithBit, HasBits, ByteOf, Binary
  <2> QED BY <1>2, <1>6, <2>1, Composed DEF BitNumbers
<1>7. CASE i = 6
  <2>1. HasBits(WithBit(b, i, v), h, v, f, e, m, d, c)
    BY <1>0, <1>1, <1>2, <1>7 DEF WithBit, HasBits, ByteOf, Binary
  <2> QED BY <1>2, <1>7, <2>1, Composed DEF BitNumbers
<1> QED BY <1>3, <1>4, <1>5, <1>6, <1>7 DEF BitNumbers

LEMMA StoredBits ==
    ASSUME NEW b \in Bytes
    PROVE  /\ Stored(b) \in Bytes
           /\ hw.dual => Stored(b) = b
           /\ ~hw.dual => Bit(Stored(b), 5) = 1
           /\ \A j \in BitNumbers : j # 5 => Bit(Stored(b), j) = Bit(b, j)
BY SetBit, BitNumbering DEF Stored, BitNumbers, Binary

-----------------------------------------------------------------------------
(* Types *)

Registers   == {"command", "data"}
DeviceState == [set : 1..3, scan : BOOLEAN, pending : BOOLEAN]

HwTypes ==
    /\ hw \in Machines
    /\ ccb \in Bytes
    /\ ib = <<>> \/ \E r \in Registers, b \in Bytes : ib = << <<r, b>> >>
    /\ target \in Ports \cup {Ram}
    /\ obf \in BOOLEAN /\ obuf \in Bytes /\ outq \in Seq(Bytes)
    /\ dev \in [Ports -> DeviceState]
    /\ keys \in 0..MaxKeys /\ resends \in 0..MaxResend /\ late \in 0..MaxLate

\* The accesses of ps2_send_device_command, where it returns to, and the others
\* that talk to a device.
Calling  == {"select_port", "device_command", "device_ack"}
Returns  == {"identify", "id_1", "init_device", "set_codes", "set_id", "check_set"}
AtDevice == Calling \cup Returns \cup
            {"reset_select", "reset", "reset_response", "special_code", "id_2",
             "kbd_init", "get_codes", "install"}

LocalTypes ==
    /\ config \in Bytes
    /\ dual_channel \in BOOLEAN
    /\ operational \in [Ports -> BOOLEAN]
    /\ id \in [Ports -> Words]
    /\ announced \in [Ports -> {"none"} \cup MouseTypes \cup KeyboardTypes]
    /\ port \in Ports \cup {NoPort}
    /\ call \in [cmd : Bytes, to : Returns \cup {"none"}]
    /\ resp \in Seq(Bytes) /\ Len(resp) <= NRESP
    /\ kbd \in [port : Ports \cup {NoPort}, unmasked : BOOLEAN, installed : BOOLEAN]

\* What an access relies on: there is a port to talk to, a place to return to, and
\* room for one more byte of the answer to a reset.
Ready ==
    /\ pc \in AtDevice => port \in Ports
    /\ pc \in Calling => call.to \in Returns
    /\ pc \in {"reset_select", "reset"} => resp = <<>>
    /\ pc = "reset_response" => Len(resp) < NRESP

Types == HwTypes /\ LocalTypes /\ Ready

LEMMA MachineTypes ==
    ASSUME hw \in Machines
    PROVE  /\ hw.dual \in BOOLEAN /\ hw.resets \in BOOLEAN /\ hw.self_test \in Bytes /\ hw.ccb \in Bytes
           /\ \A p \in Ports : hw.test[p] \in Bytes /\ hw.attached[p] \in Devices
<1>1. hw \in Machine
  BY MachineAssumption
<1> QED BY <1>1 DEF Machine

LEMMA Commands ==
    {CMD_READ_RAM, CMD_WRITE_RAM, CMD_DISABLE_PORT_1, CMD_ENABLE_PORT_1, CMD_TEST_PORT_1, CMD_TEST,
     CMD_TEST_PORT_0, CMD_DISABLE_PORT_0, CMD_ENABLE_PORT_0, CMD_WRITE_INPUT_PORT_1,
     CMD_SET_SCAN_CODE, CMD_IDENTIFY, CMD_ENABLE_SCAN, CMD_DISABLE_SCAN, CMD_RESET_DEVICE,
     RESP_ACK, RESP_RESEND, RESP_RESET_SUCCESS, RESP_RESET_FAIL} \subseteq Bytes
BY DEF CMD_READ_RAM, CMD_WRITE_RAM, CMD_DISABLE_PORT_1, CMD_ENABLE_PORT_1, CMD_TEST_PORT_1, CMD_TEST,
       CMD_TEST_PORT_0, CMD_DISABLE_PORT_0, CMD_ENABLE_PORT_0, CMD_WRITE_INPUT_PORT_1,
       CMD_SET_SCAN_CODE, CMD_IDENTIFY, CMD_ENABLE_SCAN, CMD_DISABLE_SCAN, CMD_RESET_DEVICE,
       RESP_ACK, RESP_RESEND, RESP_RESET_SUCCESS, RESP_RESET_FAIL, Bytes

LEMMA WriteTypes ==
    ASSUME HwTypes, NEW r \in Registers, NEW b \in Bytes, WriteBuffer(r, b)
    PROVE  HwTypes'
BY MachineAssumption DEF HwTypes, WriteBuffer, Wait

LEMMA ReadTypes ==
    ASSUME HwTypes, NEW got \in BOOLEAN, ReadBuffer(got)
    PROVE  HwTypes'
BY MachineAssumption DEF HwTypes, ReadBuffer, Wait

LEMMA FlushTypes ==
    ASSUME HwTypes, FlushBuffer
    PROVE  HwTypes'
BY DEF HwTypes, FlushBuffer

LEMMA ReadableTypes ==
    ASSUME HwTypes
    PROVE  Readable \subseteq Bytes
BY DEF HwTypes, Readable, Bytes

LEMMA ExecuteTypes ==
    ASSUME HwTypes, UNCHANGED hw, NEW cmd \in Bytes, Execute(cmd)
    PROVE  ccb' \in Bytes /\ outq' \in Seq(Bytes) /\ target' \in Ports \cup {Ram}
<1>1. ccb' \in Bytes
  <2>1. \A i \in BitNumbers, v \in Binary : WithBit(ccb, i, v) \in Bytes
    BY SetBit DEF HwTypes
  <2>2. \A p \in Ports : WithBit(ccb, Clock(p), 1) \in Bytes /\ WithBit(ccb, Clock(p), 0) \in Bytes
    BY <2>1, BitNumbering DEF Binary
  <2>3. Stored(WithBit(ccb, Clock(1), 0)) \in Bytes /\ Stored(hw.ccb) \in Bytes
    BY <2>2, StoredBits, MachineTypes DEF HwTypes, Ports
  <2> QED BY <2>2, <2>3 DEF Execute, HwTypes, Ports
<1>2. outq' \in Seq(Bytes)
  <2> DEFINE s == CASE cmd = CMD_READ_RAM    -> <<ccb>>
                    [] cmd = CMD_TEST        -> <<hw.self_test>>
                    [] cmd = CMD_TEST_PORT_0 -> <<hw.test[0]>>
                    [] cmd = CMD_TEST_PORT_1 /\ hw.dual -> <<hw.test[1]>>
                    [] OTHER -> <<>>
  <2>1. outq' = outq \o s
    BY DEF Execute
  <2>2. ccb \in Bytes /\ hw.self_test \in Bytes /\ hw.test[0] \in Bytes /\ hw.test[1] \in Bytes
    BY MachineTypes DEF HwTypes, Ports
  <2>3. <<ccb>> \in Seq(Bytes) /\ <<hw.self_test>> \in Seq(Bytes) /\ <<hw.test[0]>> \in Seq(Bytes)
        /\ <<hw.test[1]>> \in Seq(Bytes) /\ <<>> \in Seq(Bytes)
    BY <2>2
  <2>4. s \in Seq(Bytes)
    BY <2>3
  <2> HIDE DEF s
  <2> QED BY <2>1, <2>4 DEF HwTypes
<1>3. target' \in Ports \cup {Ram}
  BY DEF Execute, Ports
<1> QED BY <1>1, <1>2, <1>3

\* What becomes of a device, and what it says.
Answered(d)    == [d EXCEPT !.pending = FALSE]
Expecting(d)   == [d EXCEPT !.pending = TRUE]
Using(d, n)    == [[d EXCEPT !.pending = FALSE] EXCEPT !.set = n]
Scanning(d, v) == [d EXCEPT !.scan = v]
Identity(kind) == <<RESP_ACK>> \o IF kind = "mouse" THEN <<0>> ELSE <<\hab, \h83>>

Reacts(kind, d, byte, answer, new) == Reaction(kind, d, byte) = [answer |-> answer, new |-> new]

Talking == {"kbd", "kbd_id", "mouse"}

\* Bytes that make a talking device ask for another one.
NotUnderstood(kind, d, byte) ==
    /\ byte # CMD_RESET_DEVICE
    /\ d.pending => kind = "mouse" \/ byte \notin 1..3
    /\ ~d.pending => /\ byte \notin {CMD_IDENTIFY, CMD_ENABLE_SCAN, CMD_DISABLE_SCAN}
                     /\ kind = "mouse" \/ byte # CMD_SET_SCAN_CODE

\* The cases of Reaction, by the kind of device and the command it gets.
LEMMA ReactionCases ==
    ASSUME NEW kind \in Devices, NEW d \in DeviceState, NEW byte \in Bytes
    PROVE  /\ kind = "none" => Reacts(kind, d, byte, <<>>, d)
           /\ kind # "none" /\ byte = CMD_RESET_DEVICE =>
                  Reacts(kind, d, byte, ResetAnswer(kind), PowerOnDevice)
           /\ kind = "broken" /\ byte # CMD_RESET_DEVICE => Reacts(kind, d, byte, <<>>, d)
           /\ kind \in Keyboards /\ d.pending /\ byte \in 1..3 =>
                  Reacts(kind, d, byte, <<RESP_ACK>>, Using(d, byte))
           /\ kind \in Keyboards /\ ~d.pending /\ byte = CMD_SET_SCAN_CODE =>
                  Reacts(kind, d, byte, <<RESP_ACK>>, Expecting(d))
           /\ kind \in Talking /\ ~d.pending /\ byte = CMD_IDENTIFY =>
                  Reacts(kind, d, byte, Identity(kind), d)
           /\ kind \in Talking /\ ~d.pending /\ byte = CMD_ENABLE_SCAN =>
                  Reacts(kind, d, byte, <<RESP_ACK>>, Scanning(d, TRUE))
           /\ kind \in Talking /\ ~d.pending /\ byte = CMD_DISABLE_SCAN =>
                  Reacts(kind, d, byte, <<RESP_ACK>>, Scanning(d, FALSE))
           /\ kind \in Talking /\ NotUnderstood(kind, d, byte) =>
                  Reacts(kind, d, byte, <<RESP_RESEND>>, Answered(d))
<1> DEFINE Do(answer, new) == [answer |-> answer, new |-> new]
           r1 == Do(<<>>, d)
           r2 == Do(ResetAnswer(kind), PowerOnDevice)
           r4 == Do(<<RESP_ACK>>, Using(d, byte))
           r5 == Do(<<RESP_ACK>>, Expecting(d))
           r6 == Do(Identity(kind), d)
           r7 == Do(<<RESP_ACK>>, Scanning(d, (byte = CMD_ENABLE_SCAN)))
           r8 == Do(<<RESP_RESEND>>, Answered(d))
<1>1. Reaction(kind, d, byte) =
        CASE kind = "none" -> r1
          [] kind # "none" /\ byte = CMD_RESET_DEVICE -> r2
          [] kind = "broken" /\ byte # CMD_RESET_DEVICE -> r1
          [] kind \in Keyboards /\ d.pending /\ byte \in 1..3 -> r4
          [] kind \in Keyboards /\ ~d.pending /\ byte = CMD_SET_SCAN_CODE -> r5
          [] kind \in {"kbd", "kbd_id", "mouse"} /\ ~d.pending /\ byte = CMD_IDENTIFY -> r6
          [] kind \in {"kbd", "kbd_id", "mouse"} /\ ~d.pending
               /\ byte \in {CMD_ENABLE_SCAN, CMD_DISABLE_SCAN} -> r7
          [] OTHER -> r8
  BY DEF Reaction, Answered, Expecting, Using, Scanning, Identity
<1>2. d.pending \in BOOLEAN
  BY DEF DeviceState
<1>3. /\ CMD_RESET_DEVICE \notin {CMD_SET_SCAN_CODE, CMD_IDENTIFY, CMD_ENABLE_SCAN, CMD_DISABLE_SCAN}
      /\ CMD_SET_SCAN_CODE \notin {CMD_IDENTIFY, CMD_ENABLE_SCAN, CMD_DISABLE_SCAN}
      /\ CMD_IDENTIFY \notin {CMD_ENABLE_SCAN, CMD_DISABLE_SCAN} /\ CMD_ENABLE_SCAN # CMD_DISABLE_SCAN
      /\ CMD_RESET_DEVICE \notin 1..3
  BY DEF CMD_RESET_DEVICE, CMD_SET_SCAN_CODE, CMD_IDENTIFY, CMD_ENABLE_SCAN, CMD_DISABLE_SCAN
<1> DEFINE R == Reaction(kind, d, byte)
<1> HIDE DEF r1, r2, r4, r5, r6, r7, r8, R
<1>4. kind = "none" \/ (kind = "broken" /\ byte # CMD_RESET_DEVICE) => R = r1
  BY <1>1, <1>2, <1>3 DEF Keyboards, R
<1>5. kind # "none" /\ byte = CMD_RESET_DEVICE => R = r2
  BY <1>1, <1>2, <1>3 DEF Keyboards, R
<1>6. kind \in Keyboards /\ d.pending /\ byte \in 1..3 => R = r4
  BY <1>1, <1>2, <1>3 DEF Keyboards, R
<1>7. kind \in Keyboards /\ ~d.pending /\ byte = CMD_SET_SCAN_CODE => R = r5
  BY <1>1, <1>2, <1>3 DEF Keyboards, R
<1>8. kind \in Talking /\ ~d.pending /\ byte = CMD_IDENTIFY => R = r6
  BY <1>1, <1>2, <1>3 DEF Keyboards, Talking, R
<1>9. kind \in Talking /\ ~d.pending /\ byte \in {CMD_ENABLE_SCAN, CMD_DISABLE_SCAN} => R = r7
  BY <1>1, <1>2, <1>3 DEF Keyboards, Talking, R
<1>10. kind \in Talking /\ NotUnderstood(kind, d, byte) => R = r8
  BY <1>1, <1>2, <1>3 DEF Keyboards, Talking, NotUnderstood, R
<1>11. /\ byte = CMD_ENABLE_SCAN => r7 = Do(<<RESP_ACK>>, Scanning(d, TRUE))
       /\ byte = CMD_DISABLE_SCAN => r7 = Do(<<RESP_ACK>>, Scanning(d, FALSE))
  <2>1. byte = CMD_ENABLE_SCAN => (byte = CMD_ENABLE_SCAN) = TRUE
    OBVIOUS
  <2>2. byte = CMD_DISABLE_SCAN => (byte = CMD_ENABLE_SCAN) = FALSE
    BY <1>3
  <2> QED BY <2>1, <2>2 DEF r7
<1>12. r1 = Do(<<>>, d) /\ r2 = Do(ResetAnswer(kind), PowerOnDevice)
  BY Zenon DEF r1, r2
<1>13. r4 = Do(<<RESP_ACK>>, Using(d, byte)) /\ r5 = Do(<<RESP_ACK>>, Expecting(d))
  BY Zenon DEF r4, r5
<1>14. r6 = Do(Identity(kind), d) /\ r8 = Do(<<RESP_RESEND>>, Answered(d))
  BY Zenon DEF r6, r8
<1>15. \A answer, new : R = Do(answer, new) => Reacts(kind, d, byte, answer, new)
  BY Zenon DEF R, Reacts
<1> HIDE DEF Do
<1>16. kind = "none" \/ (kind = "broken" /\ byte # CMD_RESET_DEVICE) => Reacts(kind, d, byte, <<>>, d)
  BY <1>4, <1>12, <1>15
<1>17. kind # "none" /\ byte = CMD_RESET_DEVICE => Reacts(kind, d, byte, ResetAnswer(kind), PowerOnDevice)
  BY <1>5, <1>12, <1>15
<1>18. kind \in Keyboards /\ d.pending /\ byte \in 1..3 => Reacts(kind, d, byte, <<RESP_ACK>>, Using(d, byte))
  BY <1>6, <1>13, <1>15
<1>19. kind \in Keyboards /\ ~d.pending /\ byte = CMD_SET_SCAN_CODE =>
         Reacts(kind, d, byte, <<RESP_ACK>>, Expecting(d))
  BY <1>7, <1>13, <1>15
<1>20. kind \in Talking /\ ~d.pending /\ byte = CMD_IDENTIFY => Reacts(kind, d, byte, Identity(kind), d)
  BY <1>8, <1>14, <1>15
<1>21. kind \in Talking /\ ~d.pending /\ byte = CMD_ENABLE_SCAN =>
         Reacts(kind, d, byte, <<RESP_ACK>>, Scanning(d, TRUE))
  BY <1>9, <1>11, <1>15
<1>22. kind \in Talking /\ ~d.pending /\ byte = CMD_DISABLE_SCAN =>
         Reacts(kind, d, byte, <<RESP_ACK>>, Scanning(d, FALSE))
  BY <1>9, <1>11, <1>15
<1>23. kind \in Talking /\ NotUnderstood(kind, d, byte) => Reacts(kind, d, byte, <<RESP_RESEND>>, Answered(d))
  BY <1>10, <1>14, <1>15
<1>24. /\ kind = "none" => Reacts(kind, d, byte, <<>>, d)
       /\ kind = "broken" /\ byte # CMD_RESET_DEVICE => Reacts(kind, d, byte, <<>>, d)
  BY <1>16
<1> QED BY Zenon, <1>17, <1>18, <1>19, <1>20, <1>21, <1>22, <1>23, <1>24

LEMMA ReactionTypes ==
    ASSUME NEW kind \in Devices, NEW d \in DeviceState, NEW byte \in Bytes
    PROVE  Reaction(kind, d, byte).answer \in Seq(Bytes) /\ Reaction(kind, d, byte).new \in DeviceState
<1>1. RESP_ACK \in Bytes /\ RESP_RESEND \in Bytes /\ RESP_RESET_SUCCESS \in Bytes
      /\ RESP_RESET_FAIL \in Bytes /\ 0 \in Bytes /\ \hab \in Bytes /\ \h83 \in Bytes
  BY Commands DEF Bytes
<1>2. kind # "none" => ResetAnswer(kind) \in Seq(Bytes)
  BY <1>1 DEF ResetAnswer, Devices
<1>3. /\ <<>> \in Seq(Bytes) /\ <<RESP_ACK>> \in Seq(Bytes) /\ <<RESP_RESEND>> \in Seq(Bytes)
      /\ Identity(kind) \in Seq(Bytes)
  BY <1>1 DEF Identity
<1>4. PowerOnDevice \in DeviceState
  BY DEF PowerOnDevice, DeviceState
<1>5. Answered(d) \in DeviceState /\ Expecting(d) \in DeviceState
      /\ Scanning(d, TRUE) \in DeviceState /\ Scanning(d, FALSE) \in DeviceState
  BY Zenon DEF DeviceState, Answered, Expecting, Scanning
<1>6. byte \in 1..3 => Using(d, byte) \in DeviceState
  BY <1>5, Zenon DEF DeviceState, Answered, Using
<1> DEFINE Typed(answer, new) == answer \in Seq(Bytes) /\ new \in DeviceState
<1>7. PICK answer, new : Typed(answer, new) /\ Reacts(kind, d, byte, answer, new)
  <2>1. CASE kind = "none" \/ (kind = "broken" /\ byte # CMD_RESET_DEVICE)
    BY <1>3, <2>1, ReactionCases
  <2>2. CASE kind # "none" /\ byte = CMD_RESET_DEVICE
    BY <1>2, <1>4, <2>2, ReactionCases
  <2>3. CASE kind \in Keyboards /\ d.pending /\ byte \in 1..3
    BY <1>3, <1>6, <2>3, ReactionCases
  <2>4. CASE kind \in Keyboards /\ ~d.pending /\ byte = CMD_SET_SCAN_CODE
    BY <1>3, <1>5, <2>4, ReactionCases
  <2>5. CASE kind \in Talking /\ ~d.pending /\ byte = CMD_IDENTIFY
    BY <1>3, <2>5, ReactionCases
  <2>6. CASE kind \in Talking /\ ~d.pending /\ byte \in {CMD_ENABLE_SCAN, CMD_DISABLE_SCAN}
    BY <1>3, <1>5, <2>6, ReactionCases
  <2>7. CASE kind \in Talking /\ NotUnderstood(kind, d, byte)
    BY <1>3, <1>5, <2>7, ReactionCases
  <2> QED BY <2>1, <2>2, <2>3, <2>4, <2>5, <2>6, <2>7 DEF Devices, Keyboards, Talking, NotUnderstood
<1> QED BY <1>7 DEF Reacts

LEMMA TakeTypes ==
    ASSUME HwTypes, Take
    PROVE  HwTypes'
<1>1. PICK r \in Registers, b \in Bytes : ib = << <<r, b>> >>
  BY DEF HwTypes, Take
<1>2. ib[1][1] = r /\ ib[1][2] = b
  BY <1>1
<1>3. (r = "command" /\ Execute(b)) \/ (r = "data" /\ (StoreConfig(b) \/ Forward(b) \/ Garble))
  BY <1>2 DEF Take
<1>4. ib' = <<>> /\ UNCHANGED <<hw, obf, obuf, keys, late>>
  BY DEF Take
<1> DEFINE Result == /\ ccb' \in Bytes /\ target' \in Ports \cup {Ram} /\ outq' \in Seq(Bytes)
                     /\ dev' \in [Ports -> DeviceState] /\ resends' \in 0..MaxResend
<1>5. ASSUME Execute(b) PROVE Result
  <2>1. ccb' \in Bytes /\ outq' \in Seq(Bytes) /\ target' \in Ports \cup {Ram}
    BY <1>4, <1>5, ExecuteTypes
  <2>2. dev' \in [Ports -> DeviceState] /\ resends' \in 0..MaxResend
    BY <1>5 DEF Execute, HwTypes
  <2> QED BY <2>1, <2>2
<1>6. ASSUME StoreConfig(b) PROVE Result
  <2>1. ccb' \in Bytes
    BY <1>6, StoredBits DEF StoreConfig
  <2> QED BY <1>6, <2>1 DEF StoreConfig, HwTypes, Ports
<1>7. ASSUME Forward(b) PROVE Result
  <2> DEFINE do == Reaction(hw.attached[target], dev[target], b)
  <2>1. target \in Ports /\ hw.attached[target] \in Devices /\ dev[target] \in DeviceState
    BY <1>7, MachineTypes DEF Forward, HwTypes
  <2>2. do.answer \in Seq(Bytes) /\ do.new \in DeviceState
    BY <2>1, ReactionTypes
  <2>3. /\ outq' = outq \o do.answer /\ dev' = [dev EXCEPT ![target] = do.new]
        /\ target' = 0 /\ UNCHANGED <<ccb, resends>>
    BY <1>7 DEF Forward
  <2> HIDE DEF do
  <2> DEFINE answer == do.answer
             new == do.new
  <2>4. answer \in Seq(Bytes) /\ new \in DeviceState
    BY <2>2
  <2>5. outq' = outq \o answer /\ dev' = [dev EXCEPT ![target] = new]
    BY <2>3
  <2> HIDE DEF answer, new
  <2>6. outq' \in Seq(Bytes)
    BY <2>4, <2>5 DEF HwTypes
  <2>7. dev' \in [Ports -> DeviceState]
    BY <2>1, <2>4, <2>5 DEF HwTypes
  <2>8. ccb' \in Bytes /\ target' \in Ports \cup {Ram} /\ resends' \in 0..MaxResend
    BY <2>3 DEF HwTypes, Ports
  <2> QED BY <2>6, <2>7, <2>8
<1>8. ASSUME Garble PROVE Result
  <2>1. RESP_RESEND \in Bytes
    BY Commands
  <2>2. outq' \in Seq(Bytes)
    BY <1>8, <2>1 DEF Garble, HwTypes
  <2>3. resends' \in 0..MaxResend
    BY <1>8, MachineAssumption DEF Garble, HwTypes
  <2> QED BY <1>8, <2>2, <2>3 DEF Garble, HwTypes, Ports
<1>9. Result
  BY <1>3, <1>5, <1>6, <1>7, <1>8
<1>10. hw' \in Machines /\ ib' = <<>> /\ obf' \in BOOLEAN /\ obuf' \in Bytes
       /\ keys' \in 0..MaxKeys /\ late' \in 0..MaxLate
  BY <1>4 DEF HwTypes
<1> QED BY <1>9, <1>10 DEF HwTypes

LEMMA DeliverTypes ==
    ASSUME HwTypes, Deliver
    PROVE  HwTypes'
<1>1. outq \in Seq(Bytes) /\ outq # <<>>
  BY DEF HwTypes, Deliver
<1>2. Head(outq) \in Bytes /\ Tail(outq) \in Seq(Bytes)
  BY <1>1
<1> QED BY <1>2 DEF HwTypes, Deliver

LEMMA KeyTypes ==
    ASSUME HwTypes, NEW p \in Ports, Key(p)
    PROVE  HwTypes'
<1>1. \h1c \in Bytes
  BY DEF Bytes
<1>2. outq' \in Seq(Bytes)
  BY <1>1 DEF HwTypes, Key
<1>3. keys' \in 0..MaxKeys
  BY MachineAssumption DEF HwTypes, Key
<1> QED BY <1>2, <1>3 DEF HwTypes, Key

-----------------------------------------------------------------------------
(* Types of the driver's own state. *)

LEMMA InitTypes ==
    ASSUME Init
    PROVE  Types
<1>1. hw \in Machines
  BY DEF Init, InitHw
<1>2. ccb \in Bytes
  BY <1>1, MachineTypes, StoredBits DEF Init, InitHw
<1>3. dev \in [Ports -> DeviceState]
  BY DEF Init, InitHw, PowerOnDevice, DeviceState
<1>4. obf \in BOOLEAN /\ obuf \in Bytes /\ outq \in Seq(Bytes) /\ target \in Ports \cup {Ram} /\ ib = <<>>
  BY DEF Init, InitHw, Bytes, Ports
<1>5. keys \in 0..MaxKeys /\ resends \in 0..MaxResend /\ late \in 0..MaxLate
  BY MachineAssumption DEF Init, InitHw
<1>6. HwTypes
  BY <1>1, <1>2, <1>3, <1>4, <1>5 DEF HwTypes
<1>7. config \in Bytes /\ id \in [Ports -> Words] /\ port \in Ports \cup {NoPort}
  BY SMT DEF Init, Bytes, NoPort, Words
<1>8. dual_channel \in BOOLEAN /\ operational \in [Ports -> BOOLEAN]
      /\ announced \in [Ports -> {"none"} \cup MouseTypes \cup KeyboardTypes]
  BY DEF Init
<1>9. call \in [cmd : Bytes, to : Returns \cup {"none"}]
  BY DEF Init, Bytes
<1>10. resp \in Seq(Bytes) /\ Len(resp) <= NRESP
  BY DEF Init, NRESP
<1>11. kbd \in [port : Ports \cup {NoPort}, unmasked : BOOLEAN, installed : BOOLEAN]
  BY DEF Init
<1>12. Ready
  BY DEF Init, Ready, AtDevice, Calling, Returns
<1> QED BY <1>6, <1>7, <1>8, <1>9, <1>10, <1>11, <1>12, Zenon DEF Types, LocalTypes

LEMMA LocalKept ==
    ASSUME LocalTypes, UNCHANGED local
    PROVE  LocalTypes'
<1>1. /\ UNCHANGED config /\ UNCHANGED dual_channel /\ UNCHANGED operational /\ UNCHANGED id
      /\ UNCHANGED announced /\ UNCHANGED port /\ UNCHANGED call /\ UNCHANGED resp /\ UNCHANGED kbd
  BY DEF local
<1> QED BY <1>1 DEF LocalTypes

LEMMA AwayFromDevices ==
    ASSUME pc' \notin AtDevice
    PROVE  Ready'
BY DEF Ready, AtDevice, Calling, Returns

LEMMA SendCommandTypes ==
    ASSUME HwTypes, NEW from, NEW cmd \in Bytes, NEW to, ps2_send_command(from, cmd, to)
    PROVE  HwTypes' /\ pc = from /\ pc' = to
BY WriteTypes DEF ps2_send_command, Registers

LEMMA SendDataTypes ==
    ASSUME HwTypes, NEW from, NEW byte \in Bytes, NEW to, ps2_send_data(from, byte, to)
    PROVE  HwTypes' /\ pc = from /\ pc' = to
BY WriteTypes DEF ps2_send_data, Registers

LEMMA ReadDataTypes ==
    ASSUME HwTypes, NEW from, NEW value, ps2_read_data(from, value)
    PROVE  HwTypes' /\ pc = from /\ value \in Bytes
<1>1. ReadBuffer(TRUE) \/ ReadBuffer(FALSE)
  BY DEF ps2_read_data, try_read_data
<1>2. HwTypes' /\ pc = from /\ value \in {obuf, 0}
  BY <1>1, ReadTypes DEF ps2_read_data, try_read_data
<1>3. obuf \in Bytes /\ 0 \in Bytes
  BY DEF HwTypes, Bytes
<1> QED BY <1>2, <1>3

LEMMA TryReadTypes ==
    ASSUME HwTypes, NEW from, NEW got \in BOOLEAN, try_read_data(from, got)
    PROVE  HwTypes' /\ pc = from /\ obuf \in Bytes
BY ReadTypes DEF try_read_data, HwTypes

LEMMA DisableAndFlushTypes ==
    ASSUME Types, DisableAndFlush
    PROVE  Types'
<1>1. HwTypes' /\ pc' \in {"disable_1", "flush", "get_1"}
  BY SendCommandTypes, FlushTypes, Commands DEF DisableAndFlush, Types
<1>2. Ready'
  BY <1>1, AwayFromDevices DEF AtDevice, Calling, Returns
<1> QED BY <1>1, <1>2, LocalKept DEF Types, DisableAndFlush

LEMMA FirstConfigIsByte ==
    ASSUME NEW b \in Bytes
    PROVE  FirstConfig(b) \in Bytes
BY SetBit, BitNumbering DEF FirstConfig, Ports, BitNumbers, Binary

LEMMA ConfigureTypes ==
    ASSUME Types, Configure
    PROVE  Types'
<1>1. CASE UNCHANGED local
  <2>1. HwTypes' /\ pc' \in {"edit_1", "data_1", "test", "set_1"}
    BY SendCommandTypes, SendDataTypes, ReadDataTypes, Commands DEF Configure, Types, LocalTypes
  <2>2. Ready'
    BY <2>1, AwayFromDevices DEF AtDevice, Calling, Returns
  <2> QED BY <1>1, <2>1, <2>2, LocalKept DEF Types
<1>2. ASSUME NEW b \in Readable, ps2_read_data("edit_1", b), config' = FirstConfig(b), pc' = "set_1",
             UNCHANGED <<dual_channel, operational, id, announced, port, call, resp, kbd>>
      PROVE  Types'
  <2>1. HwTypes' /\ b \in Bytes
    BY <1>2, ReadDataTypes DEF Types
  <2>2. LocalTypes'
    BY <1>2, <2>1, FirstConfigIsByte DEF Types, LocalTypes
  <2>3. Ready'
    BY <1>2, AwayFromDevices DEF AtDevice, Calling, Returns
  <2> QED BY <2>1, <2>2, <2>3 DEF Types
<1> QED BY <1>1, <1>2 DEF Configure

LEMMA SelfTestTypes ==
    ASSUME Types, SelfTest
    PROVE  Types'
<1>1. HwTypes' /\ pc' \in {"test_result", "get_2", "done", "compare", "set_2", "probe", "data_2"}
  BY SendCommandTypes, SendDataTypes, ReadDataTypes, Commands DEF SelfTest, Types, LocalTypes
<1>2. Ready'
  BY <1>1, AwayFromDevices DEF AtDevice, Calling, Returns
<1> QED BY <1>1, <1>2, LocalKept DEF Types, SelfTest

LEMMA ProbeTypes ==
    ASSUME Types, Probe
    PROVE  Types'
<1>1. CASE UNCHANGED local
  <2>1. HwTypes' /\ pc' \in {"get_3", "probed", "data_3", "test_0", "close_1", "set_3"}
    BY SendCommandTypes, SendDataTypes, ReadDataTypes, Commands DEF Probe, Types, LocalTypes
  <2>2. Ready'
    BY <2>1, AwayFromDevices DEF AtDevice, Calling, Returns
  <2> QED BY <1>1, <2>1, <2>2, LocalKept DEF Types
<1>2. ASSUME NEW b \in Readable, ps2_read_data("probed", b), config' = b,
             dual_channel' = HasSecondPort(b),
             pc' = IF dual_channel' THEN "close_1" ELSE "test_0",
             UNCHANGED <<operational, id, announced, port, call, resp, kbd>>
      PROVE  Types'
  <2>1. HwTypes' /\ b \in Bytes
    BY <1>2, ReadDataTypes DEF Types
  <2>2. dual_channel' \in BOOLEAN
    BY <1>2 DEF HasSecondPort
  <2>3. LocalTypes'
    BY <1>2, <2>1, <2>2 DEF Types, LocalTypes
  <2>4. Ready'
    BY <1>2, AwayFromDevices DEF AtDevice, Calling, Returns
  <2> QED BY <2>1, <2>3, <2>4 DEF Types
<1>3. ASSUME ps2_send_command("close_1", CMD_DISABLE_PORT_1, "set_3"),
             config' = CloseSecondPort(config),
             UNCHANGED <<dual_channel, operational, id, announced, port, call, resp, kbd>>
      PROVE  Types'
  <2>1. HwTypes' /\ pc' = "set_3"
    BY <1>3, SendCommandTypes, Commands DEF Types
  <2>2. config' \in Bytes
    BY <1>3, SetBit, BitNumbering DEF Types, LocalTypes, CloseSecondPort, Ports, BitNumbers, Binary
  <2>3. LocalTypes'
    BY <1>3, <2>2 DEF Types, LocalTypes
  <2>4. Ready'
    BY <2>1, AwayFromDevices DEF AtDevice, Calling, Returns
  <2> QED BY <2>1, <2>3, <2>4 DEF Types
<1> QED BY <1>1, <1>2, <1>3 DEF Probe

LEMMA TestPortsTypes ==
    ASSUME Types, TestPorts
    PROVE  Types'
<1>1. /\ HwTypes' /\ pc' \in {"tested_0", "tested_1", "test_1", "enable_0", "enable_1", "done"}
      /\ operational' \in [Ports -> BOOLEAN]
      /\ UNCHANGED <<config, dual_channel, id, announced, port, call, resp, kbd>>
  <2>1. CASE UNCHANGED local
    <3>1. HwTypes' /\ pc' \in {"tested_0", "tested_1", "test_1", "enable_0", "enable_1", "done"}
      BY SendCommandTypes, ReadDataTypes, Commands DEF TestPorts, Types, AfterTests
    <3> QED BY <2>1, <3>1 DEF local, Types, LocalTypes
  <2>2. ASSUME NEW b \in Readable, ps2_read_data("tested_0", b),
               operational' = [operational EXCEPT ![0] = (b = 0)],
               pc' = IF dual_channel THEN "test_1" ELSE AfterTests(operational')
        PROVE  /\ HwTypes' /\ pc' \in {"tested_0", "tested_1", "test_1", "enable_0", "enable_1", "done"}
               /\ operational' \in [Ports -> BOOLEAN]
    <3>1. HwTypes'
      BY <2>2, ReadDataTypes DEF Types
    <3>2. operational' \in [Ports -> BOOLEAN]
      BY <2>2 DEF Types, LocalTypes
    <3> QED BY <2>2, <3>1, <3>2 DEF AfterTests
  <2>3. ASSUME NEW b \in Readable, ps2_read_data("tested_1", b),
               operational' = [operational EXCEPT ![1] = (b = 0)],
               pc' = AfterTests(operational')
        PROVE  /\ HwTypes' /\ pc' \in {"tested_0", "tested_1", "test_1", "enable_0", "enable_1", "done"}
               /\ operational' \in [Ports -> BOOLEAN]
    <3>1. HwTypes'
      BY <2>3, ReadDataTypes DEF Types
    <3>2. operational' \in [Ports -> BOOLEAN]
      BY <2>3 DEF Types, LocalTypes
    <3> QED BY <2>3, <3>1, <3>2 DEF AfterTests
  <2> QED BY <2>1, <2>2, <2>3 DEF TestPorts
<1>2. LocalTypes'
  BY <1>1 DEF Types, LocalTypes
<1>3. Ready'
  BY <1>1, AwayFromDevices DEF AtDevice, Calling, Returns
<1> QED BY <1>1, <1>2, <1>3 DEF Types

LEMMA FinalConfigIsByte ==
    ASSUME NEW b \in Bytes
    PROVE  FinalConfig(b) \in Bytes
BY SetBit, BitNumbering DEF FinalConfig, Ports, BitNumbers, Binary

LEMMA EnablePortsTypes ==
    ASSUME Types, EnablePorts
    PROVE  Types'
<1>1. CASE UNCHANGED local /\ pc' # "port_0"
  <2>1. HwTypes' /\ pc' \in {"enable_1", "get_4", "edit_4", "data_4", "set_4"}
    BY <1>1, SendCommandTypes, SendDataTypes, ReadDataTypes, Commands DEF EnablePorts, Types, LocalTypes
  <2>2. Ready'
    BY <2>1, AwayFromDevices DEF AtDevice, Calling, Returns
  <2> QED BY <1>1, <2>1, <2>2, LocalKept DEF Types
<1>2. ASSUME ps2_send_data("data_4", config, "port_0"), UNCHANGED local
      PROVE  Types'
  <2>1. HwTypes' /\ pc' = "port_0"
    BY <1>2, SendDataTypes DEF Types, LocalTypes
  <2>2. Ready'
    BY <2>1, AwayFromDevices DEF AtDevice, Calling, Returns
  <2> QED BY <1>2, <2>1, <2>2, LocalKept DEF Types
<1>3. ASSUME NEW b \in Readable, ps2_read_data("edit_4", b), config' = FinalConfig(b), pc' = "set_4",
             UNCHANGED <<dual_channel, operational, id, announced, port, call, resp, kbd>>
      PROVE  Types'
  <2>1. HwTypes' /\ b \in Bytes
    BY <1>3, ReadDataTypes DEF Types
  <2>2. LocalTypes'
    BY <1>3, <2>1, FinalConfigIsByte DEF Types, LocalTypes
  <2>3. Ready'
    BY <1>3, AwayFromDevices DEF AtDevice, Calling, Returns
  <2> QED BY <2>1, <2>2, <2>3 DEF Types
<1> QED BY <1>1, <1>2, <1>3 DEF EnablePorts, ps2_send_command, ps2_send_data
\* After(p) is where the driver goes on once a port is done.
LEMMA AfterIsAway ==
    ASSUME NEW p \in Ports
    PROVE  After(p) \notin AtDevice
BY DEF After, AtDevice, Calling, Returns

\* A call of ps2_send_device_command keeps the types.
LEMMA CallTypes ==
    ASSUME NEW cmd \in Bytes, NEW p \in Ports, NEW to \in Returns, Call(cmd, p, to),
           LocalTypes, port' \in Ports
    PROVE  call' \in [cmd : Bytes, to : Returns \cup {"none"}] /\ Ready'
<1>1. call' \in [cmd : Bytes, to : Returns \cup {"none"}] /\ call'.to \in Returns
  BY DEF Call
<1>2. pc' \in {"select_port", "device_command"}
  BY DEF Call, DeviceCommandEntry
<1> QED BY <1>1, <1>2 DEF Ready, AtDevice, Calling, Returns

LEMMA EachPortTypes ==
    ASSUME Types, EachPort
    PROVE  Types'
<1>1. PICK p \in Ports :
        /\ pc = IF p = 0 THEN "port_0" ELSE "port_1"
        /\ IF operational[p]
           THEN /\ pc' = IF p = 1 THEN "reset_select" ELSE "reset"
                /\ port' = p /\ resp' = <<>> /\ UNCHANGED id
           ELSE /\ pc' = After(p)
                /\ id' = [id EXCEPT ![p] = 0] /\ UNCHANGED <<port, resp>>
        /\ UNCHANGED <<hwVars, config, dual_channel, operational, announced, call, kbd>>
  BY DEF EachPort
<1>2. HwTypes'
  BY <1>1 DEF Types, HwTypes, hwVars
<1>3. id' \in [Ports -> Words]
  <2>1. 0 \in Words
    BY SMT DEF Words
  <2> QED BY <1>1, <2>1 DEF Types, LocalTypes
<1>4. /\ resp' = <<>> \/ resp' = resp
      /\ port' = p \/ port' = port
  BY <1>1
<1>5. <<>> \in Seq(Bytes) /\ Len(<<>>) <= NRESP
  BY DEF NRESP
<1>6. LocalTypes'
  BY <1>1, <1>3, <1>4, <1>5 DEF Types, LocalTypes
<1>7. Ready'
  <2>1. CASE operational[p]
    BY <1>1, <2>1 DEF Ready, Calling, Returns, AtDevice
  <2>2. CASE ~operational[p]
    BY <1>1, <2>2, AfterIsAway, AwayFromDevices
  <2> QED BY <2>1, <2>2
<1> QED BY <1>2, <1>6, <1>7 DEF Types

LEMMA SendResetTypes ==
    ASSUME Types, SendReset
    PROVE  Types'
<1>1. HwTypes' /\ pc \in {"reset_select", "reset"} /\ pc' \in {"reset", "reset_response"}
  BY SendCommandTypes, SendDataTypes, Commands DEF SendReset, Types
<1>2. UNCHANGED <<port, call, resp>>
  BY DEF SendReset, local
<1>3. Ready'
  BY <1>1, <1>2 DEF Types, Ready, Calling, Returns, AtDevice, NRESP
<1> QED BY <1>1, <1>3, LocalKept DEF Types, SendReset

LEMMA Remainder ==
    ASSUME NEW n \in Int, NEW m \in Nat, m > 0
    PROVE  n % m \in 0 .. m - 1
BY SMT

\* A byte is a word; the literals are kept out of the lemmas that follow.
LEMMA WordRange ==
    \E m \in Nat : /\ m > 0 /\ Words = 0 .. m - 1
                   /\ \A b \in Bytes : b < m
                   /\ \A n \in Int : Word(n) = n % m
<1> DEFINE m == 256 * 256
<1>1. m \in Nat /\ m > 0 /\ \A b \in 0 .. 255 : b < m
  BY SMT
<1>2. Words = 0 .. m - 1 /\ \A n \in Int : Word(n) = n % m
  BY DEF Words, Word
<1>3. \A b \in Bytes : b < m
  BY <1>1 DEF Bytes
<1> HIDE DEF m
<1> QED BY <1>1, <1>2, <1>3

LEMMA WordOfByte ==
    ASSUME NEW b \in Bytes
    PROVE  b \in Words
<1>1. PICK m \in Nat : Words = 0 .. m - 1 /\ b < m
  BY WordRange
<1>2. b \in Nat
  BY DEF Bytes
<1> QED BY <1>1, <1>2

LEMMA WordRemainder ==
    ASSUME NEW n \in Int
    PROVE  Word(n) \in Words
BY WordRange, Remainder

LEMMA WordsAreNumbers ==
    ASSUME NEW n \in Words
    PROVE  n \in Int
BY WordRange

LEMMA ResetResponseTypes ==
    ASSUME Types, ResetResponse
    PROVE  Types'
<1> DEFINE all == Append(resp, obuf)
<1>1. PICK got \in BOOLEAN :
        /\ try_read_data("reset_response", got)
        /\ resp' = IF got THEN all ELSE resp
        /\ \/ /\ ~got
              /\ id' = [id EXCEPT ![port] = 0]
              /\ pc' = "init_device" /\ UNCHANGED call
           \/ /\ got /\ ~(got /\ Len(all) = NRESP)
              /\ pc' = "reset_response" /\ UNCHANGED <<id, call>>
           \/ /\ got /\ Len(all) = NRESP /\ all[1] = RESP_RESET_FAIL
              /\ pc' = "init_device" /\ UNCHANGED <<id, call>>
           \/ /\ got /\ Len(all) = NRESP /\ all[1] # RESP_RESET_FAIL
              /\ id' = [id EXCEPT ![port] = obuf]
              /\ IF obuf \in {\hab, \hac}
                 THEN pc' = "special_code" /\ UNCHANGED call
                 ELSE Call(CMD_DISABLE_SCAN, port, "identify")
  BY DEF ResetResponse
<1>2. UNCHANGED <<config, dual_channel, operational, announced, port, kbd>>
  BY DEF ResetResponse
<1>3. HwTypes' /\ pc = "reset_response" /\ obuf \in Bytes
  BY <1>1, TryReadTypes DEF Types
<1>4. port \in Ports /\ port' \in Ports /\ Len(resp) < NRESP
  BY <1>2, <1>3 DEF Types, Ready, AtDevice
<1>5. all \in Seq(Bytes) /\ Len(all) = Len(resp) + 1 /\ Len(resp) \in Nat
  BY <1>3 DEF Types, LocalTypes
<1> HIDE DEF all
<1>6. resp' \in Seq(Bytes) /\ Len(resp') <= NRESP
  BY <1>1, <1>4, <1>5 DEF Types, LocalTypes, NRESP
<1>7. 0 \in Words /\ obuf \in Words
  BY <1>3, WordOfByte DEF Bytes
<1>8. id' \in [Ports -> Words]
  BY <1>1, <1>4, <1>7 DEF Types, LocalTypes
<1>9. CMD_DISABLE_SCAN \in Bytes /\ "identify" \in Returns
  BY Commands DEF Returns
<1>10. call' \in [cmd : Bytes, to : Returns \cup {"none"}] /\ Ready'
  <2>1. CASE Call(CMD_DISABLE_SCAN, port, "identify")
    BY <2>1, <1>4, <1>9, CallTypes DEF Types
  <2>2. CASE UNCHANGED call /\ pc' \in {"init_device", "special_code"}
    <3>1. Ready'
      BY <2>2, <1>4 DEF Ready, AtDevice, Calling, Returns
    <3> QED BY <2>2, <3>1 DEF Types, LocalTypes
  <2>3. CASE UNCHANGED call /\ pc' = "reset_response" /\ got /\ ~(got /\ Len(all) = NRESP)
    <3>1. Len(resp') < NRESP
      BY <1>1, <1>4, <1>5, <2>3 DEF NRESP
    <3>2. Ready'
      BY <2>3, <1>4, <3>1 DEF Ready, AtDevice, Calling, Returns
    <3> QED BY <2>3, <3>2 DEF Types, LocalTypes
  <2> QED BY <1>1, <2>1, <2>2, <2>3
<1>11. LocalTypes'
  BY <1>2, <1>6, <1>8, <1>10 DEF Types, LocalTypes
<1> QED BY <1>3, <1>10, <1>11 DEF Types

LEMMA SpecialCodeTypes ==
    ASSUME Types, SpecialCode
    PROVE  Types'
<1>1. PICK got \in BOOLEAN :
        /\ try_read_data("special_code", got)
        /\ id' = IF got THEN [id EXCEPT ![port] = Word(id[port] + obuf * 256)] ELSE id
  BY DEF SpecialCode
<1>2. /\ UNCHANGED <<config, dual_channel, operational, announced, port, resp, kbd>>
      /\ Call(CMD_DISABLE_SCAN, port, "identify")
  BY DEF SpecialCode
<1>3. HwTypes' /\ pc = "special_code" /\ obuf \in Bytes
  BY <1>1, TryReadTypes DEF Types
<1>4. port \in Ports /\ port' \in Ports
  BY <1>2, <1>3 DEF Types, Ready, AtDevice
<1> DEFINE n == Word(id[port] + obuf * 256)
<1>5. n \in Words
  <2>1. id[port] \in Int /\ obuf \in Int
    <3>1. id[port] \in Words
      BY <1>4 DEF Types, LocalTypes
    <3> QED BY <1>3, <3>1, WordsAreNumbers DEF Bytes
  <2>2. id[port] + obuf * 256 \in Int
    BY <2>1
  <2> QED BY <2>2, WordRemainder
<1>6. id' = IF got THEN [id EXCEPT ![port] = n] ELSE id
  BY <1>1
<1> HIDE DEF n
<1>7. id' \in [Ports -> Words]
  BY <1>4, <1>5, <1>6 DEF Types, LocalTypes
<1>8. call' \in [cmd : Bytes, to : Returns \cup {"none"}] /\ Ready'
  BY <1>2, <1>4, CallTypes, Commands DEF Types, Returns
<1>9. LocalTypes'
  BY <1>2, <1>7, <1>8 DEF Types, LocalTypes
<1> QED BY <1>3, <1>8, <1>9 DEF Types

LEMMA IdentifyTypes ==
    ASSUME Types, Identify
    PROVE  Types'
<1>1. UNCHANGED <<config, dual_channel, operational, announced, port, resp, kbd>>
  BY DEF Identify
<1>2. HwTypes' /\ obuf \in Bytes /\ pc \in {"identify", "id_1", "id_2"}
  <2>1. CASE UNCHANGED hwVars /\ pc = "identify"
    BY <2>1 DEF Types, HwTypes, hwVars
  <2> QED BY <2>1, TryReadTypes DEF Types, Identify
<1>3. port \in Ports /\ port' \in Ports
  BY <1>1, <1>2 DEF Types, Ready, AtDevice, Returns
<1> DEFINE n == Word(id[port] * 256 + obuf)
<1>4. n \in Words /\ obuf \in Words
  <2>1. id[port] \in Int /\ obuf \in Int
    <3>1. id[port] \in Words
      BY <1>3 DEF Types, LocalTypes
    <3> QED BY <1>2, <3>1, WordsAreNumbers DEF Bytes
  <2>2. id[port] * 256 + obuf \in Int
    BY <2>1
  <2> QED BY <1>2, <2>2, WordRemainder, WordOfByte
<1>5. id' \in {id, [id EXCEPT ![port] = n], [id EXCEPT ![port] = obuf]}
  BY DEF Identify
<1> HIDE DEF n
<1>6. id' \in [Ports -> Words]
  BY <1>3, <1>4, <1>5 DEF Types, LocalTypes
<1>7. \/ Call(CMD_IDENTIFY, port, "id_1")
      \/ Call(CMD_ENABLE_SCAN, port, "init_device")
      \/ pc' = "id_2" /\ UNCHANGED call
  BY DEF Identify
<1>8. call' \in [cmd : Bytes, to : Returns \cup {"none"}] /\ Ready'
  <2>1. CASE Call(CMD_IDENTIFY, port, "id_1")
    BY <2>1, <1>3, CallTypes, Commands DEF Types, Returns
  <2>2. CASE Call(CMD_ENABLE_SCAN, port, "init_device")
    BY <2>2, <1>3, CallTypes, Commands DEF Types, Returns
  <2>3. CASE pc' = "id_2" /\ UNCHANGED call
    BY <2>3, <1>3 DEF Types, LocalTypes, Ready, AtDevice, Calling, Returns
  <2> QED BY <1>7, <2>1, <2>2, <2>3
<1>9. LocalTypes'
  BY <1>1, <1>6, <1>8 DEF Types, LocalTypes
<1> QED BY <1>2, <1>8, <1>9 DEF Types

LEMMA DeviceCommandTypes ==
    ASSUME Types, ps2_send_device_command
    PROVE  Types'
<1>1. UNCHANGED local
  BY DEF ps2_send_device_command
<1>2. call.cmd \in Bytes
  BY DEF Types, LocalTypes
<1>3. /\ HwTypes' /\ pc \in Calling
      /\ pc' \in {"device_command", "device_ack", DeviceCommandEntry(port), call.to}
  BY <1>2, SendCommandTypes, SendDataTypes, TryReadTypes, Commands
  DEF ps2_send_device_command, Calling, Types
<1>4. port \in Ports /\ call.to \in Returns
  BY <1>3 DEF Types, Ready, AtDevice
<1>5. pc' \in Calling \cup Returns
  BY <1>3, <1>4 DEF DeviceCommandEntry, Calling
<1>6. UNCHANGED <<port, call, resp>>
  BY <1>1 DEF local
<1>7. Ready'
  BY <1>4, <1>5, <1>6 DEF Ready, Calling, Returns
<1> QED BY <1>1, <1>3, <1>7, LocalKept DEF Types

LEMMA DeviceTypes ==
    ASSUME NEW i
    PROVE  get_device_type(i) \in {"DEV_UNKNOWN"} \cup MouseTypes \cup KeyboardTypes
BY SMT DEF get_device_type, MouseTypes, KeyboardTypes

LEMMA InitDeviceTypes ==
    ASSUME Types, ps2_init_device
    PROVE  Types'
<1> DEFINE type == get_device_type(id[port])
<1>1. UNCHANGED <<hwVars, config, dual_channel, operational, id, port, call, resp, kbd>> /\ pc = "init_device"
  BY DEF ps2_init_device
<1>2. /\ announced' = [announced EXCEPT ![port] = IF type = "DEV_UNKNOWN" THEN "none" ELSE type]
      /\ pc' \in {"kbd_init", After(port)}
  BY DEF ps2_init_device
<1>3. port \in Ports
  BY <1>1 DEF Types, Ready, AtDevice, Returns
<1>4. type \in {"DEV_UNKNOWN"} \cup MouseTypes \cup KeyboardTypes
  BY DeviceTypes
<1> HIDE DEF type
<1>5. announced' \in [Ports -> {"none"} \cup MouseTypes \cup KeyboardTypes]
  BY <1>2, <1>3, <1>4 DEF Types, LocalTypes
<1>6. HwTypes'
  BY <1>1 DEF Types, HwTypes, hwVars
<1>7. LocalTypes'
  BY <1>1, <1>5 DEF Types, LocalTypes
<1>8. Ready'
  <2>1. CASE pc' = "kbd_init"
    BY <2>1, <1>1, <1>3 DEF Ready, AtDevice, Calling, Returns
  <2>2. CASE pc' = After(port)
    BY <2>2, <1>3, AfterIsAway, AwayFromDevices
  <2> QED BY <1>2, <2>1, <2>2
<1> QED BY <1>6, <1>7, <1>8 DEF Types

LEMMA KbdInitTypes ==
    ASSUME Types, KbdInit
    PROVE  Types'
<1> DEFINE CallState == call' \in [cmd : Bytes, to : Returns \cup {"none"}]
           KbdState  == kbd' \in [port : Ports \cup {NoPort}, unmasked : BOOLEAN, installed : BOOLEAN]
<1>1. UNCHANGED <<config, dual_channel, operational, id, announced, port, resp>>
  BY DEF KbdInit, local
<1>2. CASE pc = "kbd_init" /\ kbd' = [kbd EXCEPT !.port = port, !.unmasked = TRUE]
           /\ Call(CMD_ENABLE_SCAN, port, "set_codes") /\ UNCHANGED hwVars
  <2>1. port \in Ports
    BY <1>2 DEF Types, Ready, AtDevice
  <2>2. CallState /\ Ready'
    BY <1>1, <1>2, <2>1, CallTypes, Commands DEF Types, Returns
  <2>3. KbdState
    <3> DEFINE k == [kbd EXCEPT !.port = port, !.unmasked = TRUE]
    <3>1. k \in [port : Ports \cup {NoPort}, unmasked : BOOLEAN, installed : BOOLEAN]
      BY <2>1, Zenon DEF Types, LocalTypes
    <3> HIDE DEF k
    <3> QED BY <1>2, <3>1 DEF k
  <2>4. HwTypes'
    BY <1>2 DEF Types, HwTypes, hwVars
  <2>5. LocalTypes'
    BY <1>1, <2>2, <2>3 DEF Types, LocalTypes
  <2> QED BY <2>2, <2>4, <2>5 DEF Types
<1>3. CASE /\ \/ pc = "set_codes" /\ Call(CMD_SET_SCAN_CODE, kbd.port, "set_id")
              \/ pc = "get_codes" /\ Call(CMD_SET_SCAN_CODE, kbd.port, "check_set")
           /\ UNCHANGED <<hwVars, kbd>>
  <2>1. port \in Ports
    BY <1>3 DEF Types, Ready, AtDevice, Returns
  <2>2. pc' = DeviceCommandEntry(kbd.port) /\ call' \in {[cmd |-> CMD_SET_SCAN_CODE, to |-> "set_id"],
                                                         [cmd |-> CMD_SET_SCAN_CODE, to |-> "check_set"]}
    BY <1>3 DEF Call
  <2>3. CallState /\ call'.to \in Returns
    BY <2>2, Commands DEF Returns
  <2>4. pc' \in Calling
    BY <2>2 DEF DeviceCommandEntry, Calling
  <2>5. Ready'
    BY <1>1, <2>1, <2>3, <2>4 DEF Ready, Calling
  <2>6. HwTypes'
    BY <1>3 DEF Types, HwTypes, hwVars
  <2>7. LocalTypes'
    BY <1>1, <1>3, <2>3 DEF Types, LocalTypes
  <2> QED BY <2>5, <2>6, <2>7 DEF Types
<1>4. CASE /\ \/ ps2_send_data("set_id", 1, "get_codes")
              \/ \E b \in Readable :
                     /\ ps2_read_data("check_set", b)
                     /\ pc' = IF get_scan_code_set(b) = 1 THEN "install" ELSE "set_codes"
           /\ UNCHANGED local
  <2>1. 1 \in Bytes
    BY DEF Bytes
  <2>2. HwTypes' /\ pc \in {"set_id", "check_set"} /\ pc' \in {"get_codes", "install", "set_codes"}
    BY <1>4, <2>1, SendDataTypes, ReadDataTypes DEF Types
  <2>3. port \in Ports /\ UNCHANGED port
    BY <1>1, <2>2 DEF Types, Ready, AtDevice, Returns
  <2>4. Ready'
    BY <2>2, <2>3 DEF Ready, AtDevice, Calling, Returns
  <2> QED BY <1>4, <2>2, <2>4, LocalKept DEF Types
<1>5. CASE pc = "install" /\ kbd' = [kbd EXCEPT !.installed = TRUE] /\ pc' = After(port)
           /\ UNCHANGED <<hwVars, call>>
  <2>1. port \in Ports
    BY <1>5 DEF Types, Ready, AtDevice
  <2>2. Ready'
    BY <1>5, <2>1, AfterIsAway, AwayFromDevices
  <2>3. KbdState
    BY <1>5 DEF Types, LocalTypes
  <2>4. HwTypes'
    BY <1>5 DEF Types, HwTypes, hwVars
  <2>5. LocalTypes'
    BY <1>1, <1>5, <2>3 DEF Types, LocalTypes
  <2> QED BY <2>2, <2>4, <2>5 DEF Types
<1> QED BY <1>2, <1>3, <1>4, <1>5 DEF KbdInit

LEMMA HardwareTypes ==
    ASSUME Types, Hardware
    PROVE  Types'
<1>1. HwTypes'
  BY TakeTypes, DeliverTypes, KeyTypes DEF Hardware, Controller, Types
<1>2. UNCHANGED pc /\ UNCHANGED local
  BY DEF Hardware
<1>3. Ready'
  BY <1>2 DEF Types, Ready, local
<1> QED BY <1>1, <1>2, <1>3, LocalKept DEF Types

\* Neither the driver nor the hardware moves; an interrupt may strike.
AtRest == UNCHANGED <<hwVars, pc, local>>

LEMMA StepCases ==
    ASSUME [Next]_vars
    PROVE  \/ Access /\ ~fault /\ ~Unprepared /\ UNCHANGED fault
           \/ Hardware
           \/ AtRest /\ (UNCHANGED fault \/ Interrupted)
BY DEF Next, Driver, Interrupted, Returned, vars, AtRest

LEMMA NextTypes ==
    ASSUME Types, [Next]_vars
    PROVE  Types'
<1>1. CASE Access
  BY <1>1, DisableAndFlushTypes, ConfigureTypes, SelfTestTypes, ProbeTypes, TestPortsTypes, EnablePortsTypes,
     EachPortTypes, SendResetTypes, ResetResponseTypes, SpecialCodeTypes, IdentifyTypes,
     DeviceCommandTypes, InitDeviceTypes, KbdInitTypes DEF Access
<1>2. CASE Hardware
  BY <1>2, HardwareTypes
<1>3. CASE AtRest
  <2>1. HwTypes'
    BY <1>3 DEF AtRest, hwVars, Types, HwTypes
  <2>2. UNCHANGED local /\ UNCHANGED <<pc, port, call, resp>>
    BY <1>3 DEF AtRest, local
  <2>3. Ready'
    BY <2>2 DEF Types, Ready
  <2> QED BY <2>1, <2>2, <2>3, LocalKept DEF Types
<1> QED BY <1>1, <1>2, <1>3, StepCases

LEMMA TypesInvariant == Spec => []Types
<1>1. Init => Types
  BY InitTypes
<1>2. Types /\ [Next]_vars => Types'
  BY NextTypes
<1> QED BY <1>1, <1>2, PTL DEF Spec

-----------------------------------------------------------------------------
(* Who sent the bytes, and when the kernel can be lost. *)

Origins == origin \in Seq(Ports) /\ Len(origin) = Len(outq) + (IF obf THEN 1 ELSE 0)

\* The accesses of ps2_kbd_init between the unmask and the install.
KbdSteps == {"set_codes", "set_id", "get_codes", "check_set", "install"}

Exposed == pc \in KbdSteps \/ (pc \in Calling /\ call.to \in KbdSteps)

\* Only there can an interrupt be fatal.
Risk ==
    /\ fault \in BOOLEAN
    /\ kbd.unmasked /\ ~kbd.installed => Exposed
    /\ fault => kbd.unmasked /\ ~kbd.installed
    /\ kbd.unmasked => kbd.port \in Ports

LEMMA TakeExtends ==
    ASSUME HwTypes, HwTypes', Take
    PROVE  \E a \in Seq(Bytes) : outq' = outq \o a
<1>1. PICK r \in Registers, b \in Bytes : ib = << <<r, b>> >>
  BY DEF HwTypes, Take
<1>2. Execute(b) \/ StoreConfig(b) \/ Forward(b) \/ Garble
  BY <1>1 DEF Take
<1>3. CASE Execute(b)
  <2> DEFINE c == CASE b = CMD_READ_RAM    -> <<ccb>>
                    [] b = CMD_TEST        -> <<hw.self_test>>
                    [] b = CMD_TEST_PORT_0 -> <<hw.test[0]>>
                    [] b = CMD_TEST_PORT_1 /\ hw.dual -> <<hw.test[1]>>
                    [] OTHER -> <<>>
  <2>1. outq' = outq \o c
    BY <1>3 DEF Execute
  <2>2. ccb \in Bytes /\ hw.self_test \in Bytes /\ hw.test[0] \in Bytes /\ hw.test[1] \in Bytes
    BY MachineTypes DEF HwTypes, Ports
  <2>3. <<ccb>> \in Seq(Bytes) /\ <<hw.self_test>> \in Seq(Bytes) /\ <<hw.test[0]>> \in Seq(Bytes)
        /\ <<hw.test[1]>> \in Seq(Bytes) /\ <<>> \in Seq(Bytes)
    BY <2>2
  <2>4. c \in Seq(Bytes)
    BY <2>3
  <2> HIDE DEF c
  <2> QED BY <2>1, <2>4
<1>4. CASE StoreConfig(b)
  <2>1. outq' = outq /\ outq \in Seq(Bytes)
    BY <1>4 DEF StoreConfig, HwTypes
  <2>2. outq = outq \o <<>> /\ <<>> \in Seq(Bytes)
    BY <2>1
  <2> QED BY <2>1, <2>2
<1>5. CASE Forward(b)
  <2>1. target \in Ports /\ hw.attached[target] \in Devices /\ dev[target] \in DeviceState
    BY <1>5, MachineTypes DEF Forward, HwTypes
  <2> DEFINE a == Reaction(hw.attached[target], dev[target], b).answer
  <2>2. a \in Seq(Bytes)
    BY <2>1, ReactionTypes
  <2>3. outq' = outq \o a
    BY <1>5 DEF Forward
  <2> QED BY <2>2, <2>3
<1>6. CASE Garble
  <2>1. outq' = outq \o <<RESP_RESEND>> /\ <<RESP_RESEND>> \in Seq(Bytes)
    BY <1>6, Commands DEF Garble, HwTypes
  <2> QED BY <2>1
<1> QED BY <1>2, <1>3, <1>4, <1>5, <1>6

LEMMA TakeOrigins ==
    ASSUME HwTypes, HwTypes', Origins, Take
    PROVE  Origins'
<1>1. PICK a \in Seq(Bytes) : outq' = outq \o a
  BY TakeExtends
<1>2. outq \in Seq(Bytes) /\ Len(outq) \in Nat /\ Len(a) \in Nat /\ Len(outq') = Len(outq) + Len(a)
  BY <1>1 DEF HwTypes
<1> DEFINE who == [i \in 1 .. Len(a) |-> Sender]
<1>3. Len(outq') - Len(outq) = Len(a)
  BY <1>2
<1>4. origin' = origin \o who /\ obf' = obf
  BY <1>3 DEF Take
<1>5. who \in Seq(Ports) /\ Len(who) = Len(a)
  BY <1>2 DEF Sender, Ports
<1> HIDE DEF who
<1>6. origin' \in Seq(Ports) /\ Len(origin') = Len(origin) + Len(who) /\ Len(origin) \in Nat
  <2>1. origin \in Seq(Ports)
    BY DEF Origins
  <2>2. ASSUME NEW u \in Seq(Ports), NEW v \in Seq(Ports)
        PROVE  u \o v \in Seq(Ports) /\ Len(u \o v) = Len(u) + Len(v) /\ Len(u) \in Nat
    OBVIOUS
  <2> QED BY <1>4, <1>5, <2>1, <2>2, Zenon
<1> QED BY <1>2, <1>4, <1>5, <1>6 DEF Origins, HwTypes

LEMMA DeliverOrigins ==
    ASSUME HwTypes, Origins, Deliver
    PROVE  Origins'
<1>1. ~obf /\ obf' /\ outq \in Seq(Bytes) /\ outq # <<>> /\ outq' = Tail(outq) /\ origin' = origin
  BY DEF Deliver, HwTypes
<1>2. Len(outq') = Len(outq) - 1 /\ Len(outq) \in Nat
  BY <1>1
<1> QED BY <1>1, <1>2 DEF Origins

LEMMA KeyOrigins ==
    ASSUME HwTypes, Origins, NEW p \in Ports, Key(p)
    PROVE  Origins'
<1>1. origin' = Append(origin, p) /\ outq' = Append(outq, \h1c) /\ obf' = obf /\ \h1c \in Bytes
  BY DEF Key, Bytes
<1>2. Len(outq') = Len(outq) + 1 /\ Len(outq) \in Nat
  BY <1>1 DEF HwTypes
<1>3. origin' \in Seq(Ports) /\ Len(origin') = Len(origin) + 1
  BY <1>1 DEF Origins
<1> QED BY <1>1, <1>2, <1>3 DEF Origins, HwTypes

LEMMA RemoveOrigins ==
    ASSUME HwTypes, Origins, ReadBuffer(TRUE) \/ ReadBuffer(FALSE) \/ FlushBuffer
    PROVE  Origins'
<1>1. UNCHANGED outq /\ outq \in Seq(Bytes) /\ obf \in BOOLEAN
  BY DEF ReadBuffer, FlushBuffer, HwTypes
<1>2. CASE obf /\ (ReadBuffer(TRUE) \/ FlushBuffer)
  <2>1. origin' = Tail(origin) /\ obf' = FALSE
    BY <1>2 DEF ReadBuffer, FlushBuffer
  <2>2. origin # <<>>
    BY <1>1, <1>2 DEF Origins
  <2>3. origin' \in Seq(Ports) /\ Len(origin') = Len(origin) - 1
    BY <2>1, <2>2 DEF Origins
  <2> QED BY <1>1, <1>2, <2>1, <2>3 DEF Origins
<1>3. CASE ~obf \/ ReadBuffer(FALSE)
  <2>1. origin' = origin /\ obf' = obf
    BY <1>1, <1>3 DEF ReadBuffer, FlushBuffer
  <2> QED BY <1>1, <2>1 DEF Origins
<1> QED BY <1>1, <1>2, <1>3

\* What an access does to the controller.
LEMMA Accesses ==
    ASSUME Access
    PROVE  \/ \E reg, b : WriteBuffer(reg, b)
           \/ \E got \in BOOLEAN : ReadBuffer(got)
           \/ FlushBuffer
           \/ UNCHANGED hwVars
<1> USE DEF ps2_send_command, ps2_send_data, ps2_read_data, try_read_data
<1>1. CASE DisableAndFlush \/ Configure \/ SelfTest
  BY <1>1 DEF DisableAndFlush, Configure, SelfTest
<1>2. CASE Probe
  BY <1>2 DEF Probe
<1>3. CASE TestPorts \/ EnablePorts
  BY <1>3 DEF TestPorts, EnablePorts
<1>4. CASE EachPort \/ SendReset \/ ps2_init_device
  BY <1>4 DEF EachPort, SendReset, ps2_init_device, hwVars
<1>5. CASE ResetResponse \/ SpecialCode
  BY <1>5 DEF ResetResponse, SpecialCode
<1>6. CASE Identify
  BY <1>6 DEF Identify, hwVars
<1>7. CASE ps2_send_device_command
  BY <1>7 DEF ps2_send_device_command
<1>8. CASE KbdInit
  BY <1>8 DEF KbdInit, hwVars
<1> QED BY <1>1, <1>2, <1>3, <1>4, <1>5, <1>6, <1>7, <1>8 DEF Access

LEMMA NextOrigins ==
    ASSUME Types, Types', Origins, [Next]_vars
    PROVE  Origins'
<1>1. HwTypes /\ HwTypes'
  BY DEF Types
<1>2. CASE Access
  <2>1. CASE (\E reg, b : WriteBuffer(reg, b)) \/ UNCHANGED hwVars
    <3>1. UNCHANGED <<origin, outq, obf>>
      BY <2>1 DEF WriteBuffer, hwVars
    <3> QED BY <3>1 DEF Origins
  <2>2. CASE (\E got \in BOOLEAN : ReadBuffer(got)) \/ FlushBuffer
    BY <1>1, <2>2, RemoveOrigins
  <2> QED BY <1>2, <2>1, <2>2, Accesses
<1>3. CASE Hardware
  BY <1>1, <1>3, TakeOrigins, DeliverOrigins, KeyOrigins DEF Hardware, Controller
<1>4. CASE AtRest
  BY <1>4 DEF AtRest, hwVars, Origins
<1> QED BY <1>2, <1>3, <1>4, StepCases

LEMMA InitOrigins ==
    ASSUME Init
    PROVE  Origins
<1>1. outq = <<>> /\ obf \in BOOLEAN /\ origin = IF obf THEN <<0>> ELSE <<>>
  BY DEF Init, InitHw
<1>2. origin \in Seq(Ports) /\ Len(origin) = IF obf THEN 1 ELSE 0
  <2>1. 0 \in Ports
    BY DEF Ports
  <2>2. <<0>> \in Seq(Ports) /\ Len(<<0>>) = 1 /\ <<>> \in Seq(Ports) /\ Len(<<>>) = 0
    BY <2>1
  <2>3. CASE obf
    <3>1. origin = <<0>>
      BY <1>1, <2>3
    <3> QED BY <2>2, <2>3, <3>1
  <2>4. CASE ~obf
    <3>1. origin = <<>>
      BY <1>1, <2>4
    <3> QED BY <2>2, <2>4, <3>1
  <2> QED BY <2>3, <2>4
<1>3. Len(outq) = 0
  BY <1>1
<1> QED BY <1>1, <1>2, <1>3 DEF Origins

LEMMA AccessRisk ==
    ASSUME Types, Risk, Access, ~fault, UNCHANGED fault
    PROVE  Risk'
<1> USE DEF ps2_send_command, ps2_send_data, ps2_read_data, try_read_data, Risk, Exposed, KbdSteps, Calling
<1>1. CASE DisableAndFlush \/ Configure \/ SelfTest
  BY <1>1 DEF DisableAndFlush, Configure, SelfTest, local
<1>2. CASE Probe
  BY <1>2 DEF Probe, local
<1>3. CASE TestPorts \/ EnablePorts
  BY <1>3 DEF TestPorts, EnablePorts, local
<1>4. CASE EachPort \/ SendReset \/ ps2_init_device
  BY <1>4 DEF EachPort, SendReset, ps2_init_device, local
<1>5. CASE ResetResponse \/ SpecialCode
  BY <1>5 DEF ResetResponse, SpecialCode
<1>6. CASE Identify
  BY <1>6 DEF Identify
<1>7. CASE ps2_send_device_command
  BY <1>7 DEF ps2_send_device_command, local, DeviceCommandEntry
<1>8. CASE KbdInit
  <2>1. CASE pc = "kbd_init"
    <3>1. kbd' = [kbd EXCEPT !.port = port, !.unmasked = TRUE] /\ Call(CMD_ENABLE_SCAN, port, "set_codes")
      BY <1>8, <2>1 DEF KbdInit
    <3>2. kbd'.unmasked = TRUE /\ kbd'.port = port /\ port \in Ports
      BY <2>1, <3>1 DEF Types, LocalTypes, Ready, AtDevice
    <3>3. pc' \in Calling /\ call'.to = "set_codes"
      BY <3>1 DEF Call, DeviceCommandEntry
    <3> QED BY <3>2, <3>3
  <2>2. CASE pc \in {"set_codes", "get_codes"}
    <3>1. UNCHANGED kbd /\ pc' \in Calling /\ call'.to \in {"set_id", "check_set"}
      BY <1>8, <2>2 DEF KbdInit, Call, DeviceCommandEntry
    <3> QED BY <3>1
  <2>3. CASE pc \in {"set_id", "check_set"}
    <3>1. UNCHANGED kbd /\ pc' \in {"get_codes", "install", "set_codes"}
      BY <1>8, <2>3 DEF KbdInit, local
    <3> QED BY <3>1
  <2>4. CASE pc = "install"
    <3>1. kbd' = [kbd EXCEPT !.installed = TRUE]
      BY <1>8, <2>4 DEF KbdInit
    <3>2. kbd'.installed = TRUE /\ kbd'.port = kbd.port /\ kbd'.unmasked = kbd.unmasked
      BY <3>1 DEF Types, LocalTypes
    <3> QED BY <3>2
  <2> QED BY <1>8, <2>1, <2>2, <2>3, <2>4 DEF KbdInit
<1> QED BY <1>1, <1>2, <1>3, <1>4, <1>5, <1>6, <1>7, <1>8 DEF Access

LEMMA NextRisk ==
    ASSUME Types, Risk, [Next]_vars
    PROVE  Risk'
<1>1. CASE UNCHANGED <<pc, local, fault>>
  BY <1>1 DEF local, Risk, Exposed
<1>2. CASE Interrupted
  BY <1>2 DEF Interrupted, Unprepared, local, Risk, Exposed
<1>3. CASE Access /\ ~fault /\ UNCHANGED fault
  BY <1>3, AccessRisk
<1> QED BY <1>1, <1>2, <1>3, StepCases DEF AtRest, Hardware

LEMMA OriginsInvariant == Spec => []Origins
<1>1. Init => Origins
  BY InitOrigins
<1>2. Types /\ Types' /\ Origins /\ [Next]_vars => Origins'
  BY NextOrigins
<1> QED BY <1>1, <1>2, TypesInvariant, PTL DEF Spec

LEMMA RiskInvariant == Spec => []Risk
<1>1. Init => Risk
  <2>1. Init => fault = FALSE /\ kbd = [port |-> NoPort, unmasked |-> FALSE, installed |-> FALSE]
    BY DEF Init
  <2>2. Init => fault = FALSE /\ kbd.unmasked = FALSE
    BY <2>1
  <2> QED BY <2>2 DEF Risk
<1>2. Types /\ Risk /\ [Next]_vars => Risk'
  BY NextRisk
<1> QED BY <1>1, <1>2, TypesInvariant, PTL DEF Spec

LEMMA TypesSuffice ==
    ASSUME Types, Origins, Risk
    PROVE  TypeOK
<1>1. TypeOKHw
  <2>1. ib = <<>> \/ (Len(ib) = 1 /\ ib[1] \in {"command", "data"} \X Bytes)
    BY DEF Types, HwTypes, Registers
  <2>2. \A i \in DOMAIN outq : outq[i] \in Bytes
    BY DEF Types, HwTypes
  <2>3. Len(origin) = Len(outq) + (IF obf THEN 1 ELSE 0) /\ \A i \in DOMAIN origin : origin[i] \in Ports
    BY DEF Origins
  <2> QED BY <2>1, <2>2, <2>3 DEF Types, HwTypes, TypeOKHw, DeviceState
<1>2. id \in [Ports -> Words]
  BY DEF Types, LocalTypes
<1>3. call.cmd \in Bytes
  BY DEF Types, LocalTypes
<1>4. Len(resp) <= 3 /\ \A i \in DOMAIN resp : resp[i] \in Bytes
  BY DEF Types, LocalTypes, NRESP
<1>5. /\ config \in Bytes /\ dual_channel \in BOOLEAN /\ operational \in [Ports -> BOOLEAN]
      /\ announced \in [Ports -> {"none"} \cup MouseTypes \cup KeyboardTypes]
      /\ port \in Ports \cup {NoPort}
      /\ kbd \in [port : Ports \cup {NoPort}, unmasked : BOOLEAN, installed : BOOLEAN]
      /\ fault \in BOOLEAN
  BY DEF Types, LocalTypes, Risk
<1> QED BY <1>1, <1>2, <1>3, <1>4, <1>5, Zenon DEF TypeOK

\* The driver's variables and the controller's keep their types, for every machine
\* and every number of keys, garbled bytes and late waits: in particular the answer
\* to a reset never outgrows the buffer of NRESP bytes reset_port reads it into.
THEOREM DriverTypes == Spec => []TypeOK
<1>1. Types /\ Origins /\ Risk => TypeOK
  BY TypesSuffice
<1> QED BY <1>1, TypesInvariant, OriginsInvariant, RiskInvariant, PTL


-----------------------------------------------------------------------------
(* The conversation up to the reset of the devices, undisturbed. *)

\* So far every byte sent was an answer, and every wait ended in time.
Quiet == keys + late = 0

\* There is nothing to read and nothing on its way.
Silent == ~obf /\ outq = <<>>

Sent(cmd)  == ib = << <<"command", cmd>> >>
Data(byte) == ib = << <<"data", byte>> >>

\* The command cmd is answered by v and by nothing else.
Answering(cmd, v) ==
    \/ Sent(cmd) /\ Silent
    \/ ib = <<>> /\ ~obf /\ outq = <<v>>
    \/ ib = <<>> /\ obf /\ obuf = v /\ outq = <<>>

\* The next data byte is stored; config is stored or about to be.
Opening == Silent /\ (Sent(CMD_WRITE_RAM) \/ (ib = <<>> /\ target = Ram))
Storing == Data(config) /\ target = Ram

\* No translation, and the interrupt of the first port on.
Plain(b)  == Bit(b, Translation) = 0 /\ Bit(b, Interrupt(0)) = 1
Open(b, p) == operational[p] => Bit(b, Clock(p)) = 0
Final(b)  == Plain(b) /\ \A p \in Ports : Open(b, p) /\ (operational[p] => Bit(b, Interrupt(p)) = 1)

Untested == operational[0] = FALSE /\ operational[1] = FALSE
Tested   == \A p \in Ports : operational[p] <=> HealthyPort(p)
Passed   == hw.self_test = \h55

Disabling ==
    /\ pc = "disable_0" => ib = <<>> /\ outq = <<>>
    /\ pc = "disable_1" => (ib = <<>> \/ Sent(CMD_DISABLE_PORT_0)) /\ outq = <<>>
    /\ pc = "flush" => (ib = <<>> \/ Sent(CMD_DISABLE_PORT_1)) /\ outq = <<>>
    /\ pc = "get_1" => (ib = <<>> \/ Sent(CMD_DISABLE_PORT_1)) /\ Silent

Configuring ==
    /\ pc = "edit_1" => \E v \in Bytes : Answering(CMD_READ_RAM, v)
    /\ pc = "set_1" => ib = <<>> /\ Silent /\ Plain(config)
    /\ pc = "data_1" => Opening /\ Plain(config)
    /\ pc = "test" => (ib = <<>> \/ Storing) /\ Silent /\ Plain(config)

SelfTesting ==
    /\ pc = "test_result" => Answering(CMD_TEST, hw.self_test) /\ Plain(config)
    /\ pc = "get_2" => Passed /\ ib = <<>> /\ Silent /\ Plain(config)
    /\ pc = "compare" => Passed /\ Answering(CMD_READ_RAM, ccb) /\ Plain(config)
    /\ pc = "set_2" => Passed /\ ib = <<>> /\ Silent /\ Plain(config)
    /\ pc = "data_2" => Passed /\ Opening /\ Plain(config)

Probing ==
    /\ pc = "probe" => Passed /\ Silent /\ Plain(config) /\ (Storing \/ (ib = <<>> /\ Plain(ccb)))
    /\ pc = "get_3" => /\ Passed /\ Silent /\ Plain(ccb)
                       /\ \/ Sent(CMD_ENABLE_PORT_1)
                          \/ ib = <<>> /\ (Bit(ccb, Clock(1)) = 0 <=> hw.dual)
    /\ pc = "probed" => /\ Passed /\ Answering(CMD_READ_RAM, ccb) /\ Plain(ccb)
                        /\ Bit(ccb, Clock(1)) = 0 <=> hw.dual
    /\ pc = "close_1" => Passed /\ Silent /\ ib = <<>> /\ Plain(config)
    /\ pc = "set_3" => Passed /\ Silent /\ (ib = <<>> \/ Sent(CMD_DISABLE_PORT_1)) /\ Plain(config)
    /\ pc = "data_3" => Passed /\ Opening /\ Plain(config)

Testing ==
    /\ pc \in {"close_1", "set_3", "data_3", "test_0", "tested_0", "test_1", "tested_1"} => dual_channel = hw.dual
    /\ pc \in {"test_1", "tested_1"} => hw.dual /\ operational[0] = (hw.test[0] = 0) /\ operational[1] = FALSE
    /\ pc = "test_0" => Passed /\ Silent /\ ((Storing /\ Plain(config)) \/ (ib = <<>> /\ Plain(ccb)))
    /\ pc = "tested_0" => Passed /\ Answering(CMD_TEST_PORT_0, hw.test[0]) /\ Plain(ccb)
    /\ pc = "test_1" => Passed /\ Silent /\ ib = <<>> /\ Plain(ccb)
    /\ pc = "tested_1" => Passed /\ Answering(CMD_TEST_PORT_1, hw.test[1]) /\ Plain(ccb)

Enabling ==
    /\ pc = "enable_0" => operational[0] /\ Silent /\ ib = <<>> /\ Plain(ccb)
    /\ pc = "enable_1" => /\ operational[1] /\ Silent /\ Plain(ccb)
                          /\ Sent(CMD_ENABLE_PORT_0) \/ (ib = <<>> /\ Open(ccb, 0))
    /\ pc = "get_4" => /\ Silent /\ Plain(ccb)
                       /\ \/ Sent(CMD_ENABLE_PORT_0) /\ ~operational[1]
                          \/ Sent(CMD_ENABLE_PORT_1) /\ operational[1] /\ Open(ccb, 0)
                          \/ ib = <<>> /\ Open(ccb, 0) /\ Open(ccb, 1)
    /\ pc = "edit_4" => Answering(CMD_READ_RAM, ccb) /\ Plain(ccb) /\ Open(ccb, 0) /\ Open(ccb, 1)
    /\ pc = "set_4" => Silent /\ ib = <<>> /\ Final(config)
    /\ pc = "data_4" => Opening /\ Final(config)

\* From the reset of the first device on, the configuration is left alone.
Driving ==
    \/ Storing /\ Final(config)
    \/ /\ Final(ccb) /\ target \in Ports
       /\ \/ ib = <<>> \/ Sent(CMD_WRITE_INPUT_PORT_1)
          \/ \E b \in Bytes : Data(b)

BeforeTests == {"disable_0", "disable_1", "flush", "get_1", "edit_1", "set_1", "data_1", "test",
                "test_result", "get_2", "compare", "set_2", "data_2", "probe", "get_3", "probed",
                "close_1", "set_3", "data_3", "test_0", "tested_0"}
AfterPortTests == {"enable_0", "enable_1", "get_4", "edit_4", "set_4", "data_4", "port_0", "port_1", "done"}
               \cup AtDevice

Conversation ==
    /\ pc \in BeforeTests => Untested
    /\ pc \in AfterPortTests => Tested
    /\ Disabling /\ Configuring /\ SelfTesting /\ Probing /\ Testing /\ Enabling
    /\ pc \in AtDevice \cup {"port_0", "port_1"} => Driving
    /\ pc = "done" => (Untested /\ ib = <<>>) \/ Driving

Settled == Quiet => Conversation

-----------------------------------------------------------------------------
(* Undisturbed accesses. *)

\* A write finds the input buffer empty.
LEMMA QuietWrite ==
    ASSUME Types, NEW reg, NEW byte, WriteBuffer(reg, byte), Quiet'
    PROVE  /\ Quiet /\ ib = <<>> /\ ib' = << <<reg, byte>> >>
           /\ UNCHANGED <<hw, ccb, target, obf, obuf, outq, dev, resends>>
<1>1. keys \in Nat /\ late \in Nat /\ keys' = keys
  BY MachineAssumption DEF Types, HwTypes, WriteBuffer
<1>2. PICK r \in BOOLEAN : Wait(ib = <<>>, r) /\ ib' = IF r THEN << <<reg, byte>> >> ELSE ib
  BY DEF WriteBuffer
<1>3. late' = late \/ late' = late + 1
  BY <1>2 DEF Wait
<1>4. Quiet /\ late' = late
  BY <1>1, <1>3 DEF Quiet
<1>5. r /\ (ib = <<>> \/ Idle)
  BY <1>1, <1>2, <1>4 DEF Wait
<1> QED BY <1>2, <1>4, <1>5 DEF WriteBuffer, Idle

\* A read succeeds, with something to read or nothing on its way.
LEMMA QuietRead ==
    ASSUME Types, NEW got \in BOOLEAN, ReadBuffer(got), Quiet'
    PROVE  /\ Quiet /\ got /\ (obf \/ Idle) /\ obf' = FALSE
           /\ UNCHANGED <<hw, ccb, ib, target, obuf, outq, dev, resends>>
<1>1. keys \in Nat /\ late \in Nat /\ keys' = keys
  BY MachineAssumption DEF Types, HwTypes, ReadBuffer
<1>2. Wait(obf, got)
  BY DEF ReadBuffer
<1>3. late' = late \/ late' = late + 1
  BY <1>2 DEF Wait
<1>4. Quiet /\ late' = late
  BY <1>1, <1>3 DEF Quiet
<1>5. got /\ (obf \/ Idle)
  BY <1>1, <1>2, <1>4 DEF Wait
<1>6. obf' = FALSE
  BY <1>5 DEF ReadBuffer
<1> QED BY <1>4, <1>5, <1>6 DEF ReadBuffer

LEMMA QuietCommand ==
    ASSUME Types, NEW from, NEW cmd, NEW to, ps2_send_command(from, cmd, to), Quiet'
    PROVE  /\ Quiet /\ pc = from /\ pc' = to /\ ib = <<>> /\ Sent(cmd)'
           /\ UNCHANGED <<hw, ccb, target, obf, obuf, outq, dev, resends>>
BY QuietWrite DEF ps2_send_command, Sent

LEMMA QuietData ==
    ASSUME Types, NEW from, NEW byte, NEW to, ps2_send_data(from, byte, to), Quiet'
    PROVE  /\ Quiet /\ pc = from /\ pc' = to /\ ib = <<>> /\ ib' = << <<"data", byte>> >>
           /\ UNCHANGED <<hw, ccb, target, obf, obuf, outq, dev, resends>>
BY QuietWrite DEF ps2_send_data

\* Where an answer is due the read returns it, and leaves nothing behind.
LEMMA QuietAnswer ==
    ASSUME Types, NEW from, NEW value, ps2_read_data(from, value), Quiet',
           NEW cmd, NEW v, pc = from => Answering(cmd, v)
    PROVE  /\ Quiet /\ pc = from /\ value = v /\ ib' = <<>> /\ Silent'
           /\ UNCHANGED <<hw, ccb, target>>
<1>1. PICK got \in BOOLEAN : try_read_data(from, got) /\ value = IF got THEN obuf ELSE 0
  BY DEF ps2_read_data
<1>2. pc = from /\ ReadBuffer(got)
  BY <1>1 DEF try_read_data
<1>3. /\ Quiet /\ got /\ (obf \/ Idle) /\ obf' = FALSE
      /\ UNCHANGED <<hw, ccb, ib, target, obuf, outq, dev, resends>>
  BY <1>2, QuietRead
<1>4. Answering(cmd, v)
  BY <1>2
<1>5. ib = <<>> /\ obf /\ obuf = v /\ outq = <<>>
  BY <1>3, <1>4 DEF Answering, Sent, Silent, Idle
<1> QED BY <1>1, <1>2, <1>3, <1>5 DEF Silent

-----------------------------------------------------------------------------
(* The steps of the driver. *)

LEMMA DisableAndFlushConversation ==
    ASSUME Types, Settled, DisableAndFlush, Quiet'
    PROVE  Conversation'
<1> USE DEF Conversation, BeforeTests, AfterPortTests, AtDevice, Calling, Returns
<1>1. UNCHANGED operational
  BY DEF DisableAndFlush, local
<1>2. CASE ps2_send_command("disable_0", CMD_DISABLE_PORT_0, "disable_1")
  <2>1. /\ Conversation /\ pc = "disable_0" /\ pc' = "disable_1" /\ Sent(CMD_DISABLE_PORT_0)' /\ UNCHANGED outq
    BY <1>2, QuietCommand DEF Settled
  <2>2. outq' = <<>> /\ Untested'
    BY <1>1, <2>1 DEF Disabling, Untested
  <2> QED BY <2>1, <2>2 DEF Disabling, Configuring, SelfTesting, Probing, Testing, Enabling
<1>3. CASE ps2_send_command("disable_1", CMD_DISABLE_PORT_1, "flush")
  <2>1. /\ Conversation /\ pc = "disable_1" /\ pc' = "flush" /\ Sent(CMD_DISABLE_PORT_1)' /\ UNCHANGED outq
    BY <1>3, QuietCommand DEF Settled
  <2>2. outq' = <<>> /\ Untested'
    BY <1>1, <2>1 DEF Disabling, Untested
  <2> QED BY <2>1, <2>2 DEF Disabling, Configuring, SelfTesting, Probing, Testing, Enabling
<1>4. CASE pc = "flush" /\ FlushBuffer /\ pc' = "get_1"
  <2>1. UNCHANGED <<ib, outq, keys, late>> /\ obf' = FALSE
    BY <1>4 DEF FlushBuffer
  <2>2. Conversation
    BY <2>1 DEF Settled, Quiet
  <2>3. (ib = <<>> \/ Sent(CMD_DISABLE_PORT_1))' /\ Silent' /\ Untested'
    BY <1>1, <1>4, <2>1, <2>2 DEF Disabling, Untested, Sent, Silent
  <2> QED BY <1>4, <2>3 DEF Disabling, Configuring, SelfTesting, Probing, Testing, Enabling
<1> QED BY <1>2, <1>3, <1>4 DEF DisableAndFlush
LEMMA FirstConfigIsPlain ==
    ASSUME NEW b \in Bytes
    PROVE  Plain(FirstConfig(b))
<1> DEFINE b1 == WithBit(b, Interrupt(0), 1)
           b2 == WithBit(b1, Translation, 0)
           b3 == WithBit(b2, Clock(0), 0)
<1>1. Interrupt(0) = 0 /\ Clock(0) = 4 /\ Translation = 6
  BY BitNumbering
<1>2. b1 \in Bytes /\ Bit(b1, 0) = 1
  BY <1>1, SetBit DEF BitNumbers, Binary
<1>3. b2 \in Bytes /\ Bit(b2, 6) = 0 /\ Bit(b2, 0) = 1
  BY <1>1, <1>2, SetBit DEF BitNumbers, Binary
<1>4. Bit(b3, 6) = 0 /\ Bit(b3, 0) = 1
  BY <1>1, <1>3, SetBit DEF BitNumbers, Binary
<1> QED BY <1>1, <1>4 DEF FirstConfig, Plain

LEMMA CloseSecondPortIsPlain ==
    ASSUME NEW b \in Bytes, Plain(b)
    PROVE  Plain(CloseSecondPort(b))
<1> DEFINE b1 == WithBit(b, Interrupt(1), 0)
           b2 == WithBit(b1, Clock(1), 0)
<1>1. Interrupt(0) = 0 /\ Interrupt(1) = 1 /\ Clock(1) = 5 /\ Translation = 6
  BY BitNumbering
<1>2. b1 \in Bytes /\ Bit(b1, 6) = 0 /\ Bit(b1, 0) = 1
  BY <1>1, SetBit DEF BitNumbers, Binary, Plain
<1>3. Bit(b2, 6) = 0 /\ Bit(b2, 0) = 1
  BY <1>1, <1>2, SetBit DEF BitNumbers, Binary
<1> QED BY <1>1, <1>3 DEF CloseSecondPort, Plain

LEMMA ConfigureConversation ==
    ASSUME Types, Settled, Configure, Quiet'
    PROVE  Conversation'
<1> USE DEF Conversation, BeforeTests, AfterPortTests, AtDevice, Calling, Returns
<1>1. CASE ps2_send_command("get_1", CMD_READ_RAM, "edit_1") /\ UNCHANGED local
  <2>1. /\ Conversation /\ pc = "get_1" /\ pc' = "edit_1" /\ Sent(CMD_READ_RAM)' /\ UNCHANGED <<obf, outq>>
    BY <1>1, QuietCommand DEF Settled
  <2>2. Silent' /\ Untested'
    BY <1>1, <2>1 DEF Disabling, Untested, Silent, local
  <2>3. Answering(CMD_READ_RAM, 0)' /\ 0 \in Bytes
    BY <2>1, <2>2 DEF Answering, Bytes
  <2> QED BY <2>1, <2>2, <2>3 DEF Disabling, Configuring, SelfTesting, Probing, Testing, Enabling
<1>2. CASE ps2_send_command("set_1", CMD_WRITE_RAM, "data_1") /\ UNCHANGED local
  <2>1. /\ Conversation /\ pc = "set_1" /\ pc' = "data_1" /\ Sent(CMD_WRITE_RAM)' /\ UNCHANGED <<obf, outq>>
    BY <1>2, QuietCommand DEF Settled
  <2>2. Opening' /\ Plain(config)' /\ Untested'
    BY <1>2, <2>1 DEF Configuring, Untested, Silent, local, Opening, Plain
  <2> QED BY <2>1, <2>2 DEF Disabling, Configuring, SelfTesting, Probing, Testing, Enabling
<1>3. CASE ps2_send_data("data_1", config, "test") /\ UNCHANGED local
  <2>1. /\ Conversation /\ pc = "data_1" /\ pc' = "test" /\ ib = <<>>
        /\ ib' = << <<"data", config>> >> /\ UNCHANGED <<obf, outq, target>>
    BY <1>3, QuietData DEF Settled
  <2>2. Storing' /\ Silent' /\ Plain(config)' /\ Untested'
    BY <1>3, <2>1 DEF Configuring, Untested, Silent, local, Opening, Storing, Data, Sent, Plain
  <2> QED BY <2>1, <2>2 DEF Disabling, Configuring, SelfTesting, Probing, Testing, Enabling
<1>4. ASSUME NEW b \in Readable, ps2_read_data("edit_1", b), config' = FirstConfig(b), pc' = "set_1",
             UNCHANGED <<dual_channel, operational, id, announced, port, call, resp, kbd>>
      PROVE  Conversation'
  <2>1. Quiet /\ pc = "edit_1"
    BY <1>4, QuietRead DEF ps2_read_data, try_read_data
  <2>2. Conversation
    BY <2>1 DEF Settled
  <2>3. PICK v \in Bytes : Answering(CMD_READ_RAM, v)
    BY <2>1, <2>2 DEF Configuring
  <2>4. b = v /\ ib' = <<>> /\ Silent'
    BY <1>4, <2>3, QuietAnswer
  <2>5. Plain(config)' /\ Untested'
    BY <1>4, <2>1, <2>2, <2>4, FirstConfigIsPlain DEF Untested, Plain
  <2> QED BY <1>4, <2>4, <2>5 DEF Disabling, Configuring, SelfTesting, Probing, Testing, Enabling
<1> QED BY <1>1, <1>2, <1>3, <1>4 DEF Configure

LEMMA SelfTestConversation ==
    ASSUME Types, Settled, SelfTest, Quiet'
    PROVE  Conversation'
<1> USE DEF Conversation, BeforeTests, AfterPortTests, AtDevice, Calling, Returns
<1>1. /\ UNCHANGED <<config, operational>>
  BY DEF SelfTest, local
<1>2. CASE ps2_send_command("test", CMD_TEST, "test_result")
  <2>1. /\ Conversation /\ pc = "test" /\ pc' = "test_result" /\ Sent(CMD_TEST)' /\ UNCHANGED <<hw, obf, outq>>
    BY <1>2, QuietCommand DEF Settled
  <2>2. Silent' /\ Untested' /\ Plain(config)'
    BY <1>1, <2>1 DEF Configuring, Untested, Silent, Plain
  <2>3. Answering(CMD_TEST, hw.self_test)'
    BY <2>1, <2>2 DEF Answering
  <2> QED BY <2>1, <2>2, <2>3 DEF Disabling, Configuring, SelfTesting, Probing, Testing, Enabling
<1>3. ASSUME NEW b \in Readable, ps2_read_data("test_result", b), pc' = IF b = \h55 THEN "get_2" ELSE "done"
      PROVE  Conversation'
  <2>1. Quiet /\ pc = "test_result"
    BY <1>3, QuietRead DEF ps2_read_data, try_read_data
  <2>2. Conversation /\ Answering(CMD_TEST, hw.self_test)
    BY <2>1 DEF Settled, SelfTesting
  <2>3. b = hw.self_test /\ ib' = <<>> /\ Silent' /\ UNCHANGED hw
    BY <1>3, <2>2, QuietAnswer
  <2>4. Plain(config)' /\ Untested'
    BY <1>1, <2>1, <2>2 DEF Untested, Plain, SelfTesting
  <2>5. CASE b = \h55
    <3>1. pc' = "get_2" /\ Passed'
      BY <1>3, <2>3, <2>5 DEF Passed
    <3> QED BY <3>1, <2>3, <2>4 DEF Disabling, Configuring, SelfTesting, Probing, Testing, Enabling
  <2>6. CASE b # \h55
    <3>1. pc' = "done" /\ Tested'
      BY <1>3, <2>3, <2>4, <2>6 DEF Tested, Untested, HealthyPort, Ports
    <3> QED BY <3>1, <2>3, <2>4 DEF Disabling, Configuring, SelfTesting, Probing, Testing, Enabling
  <2> QED BY <2>5, <2>6
<1>4. CASE ps2_send_command("get_2", CMD_READ_RAM, "compare")
  <2>1. /\ Conversation /\ pc = "get_2" /\ pc' = "compare" /\ Sent(CMD_READ_RAM)' /\ UNCHANGED <<hw, obf, outq>>
    BY <1>4, QuietCommand DEF Settled
  <2>2. Silent' /\ Untested' /\ Plain(config)' /\ Passed'
    BY <1>1, <2>1 DEF SelfTesting, Untested, Silent, Plain, Passed
  <2>3. Answering(CMD_READ_RAM, ccb)'
    BY <2>1, <2>2 DEF Answering
  <2> QED BY <2>1, <2>2, <2>3 DEF Disabling, Configuring, SelfTesting, Probing, Testing, Enabling
<1>5. ASSUME NEW b \in Readable, ps2_read_data("compare", b), pc' = IF NeedsRestore(b) THEN "set_2" ELSE "probe"
      PROVE  Conversation'
  <2>1. Quiet /\ pc = "compare"
    BY <1>5, QuietRead DEF ps2_read_data, try_read_data
  <2>2. Conversation /\ Answering(CMD_READ_RAM, ccb)
    BY <2>1 DEF Settled, SelfTesting
  <2>3. b = ccb /\ ib' = <<>> /\ Silent' /\ UNCHANGED <<hw, ccb>>
    BY <1>5, <2>2, QuietAnswer
  <2>4. Plain(config)' /\ Untested' /\ Passed'
    BY <1>1, <2>1, <2>2, <2>3 DEF Untested, Plain, Passed, SelfTesting
  <2>5. CASE NeedsRestore(b)
    <3>1. pc' = "set_2"
      BY <1>5, <2>5
    <3> QED BY <3>1, <2>3, <2>4 DEF Disabling, Configuring, SelfTesting, Probing, Testing, Enabling
  <2>6. CASE ~NeedsRestore(b)
    <3>1. pc' = "probe" /\ ccb' = config'
      BY <1>1, <1>5, <2>3, <2>6 DEF NeedsRestore
    <3>2. Plain(ccb)'
      BY <2>4, <3>1 DEF Plain
    <3> QED BY <3>1, <3>2, <2>3, <2>4 DEF Disabling, Configuring, SelfTesting, Probing, Testing, Enabling
  <2> QED BY <2>5, <2>6
<1>6. CASE ps2_send_command("set_2", CMD_WRITE_RAM, "data_2")
  <2>1. /\ Conversation /\ pc = "set_2" /\ pc' = "data_2" /\ Sent(CMD_WRITE_RAM)' /\ UNCHANGED <<hw, obf, outq>>
    BY <1>6, QuietCommand DEF Settled
  <2>2. Opening' /\ Plain(config)' /\ Untested' /\ Passed'
    BY <1>1, <2>1 DEF SelfTesting, Untested, Silent, Opening, Plain, Passed
  <2> QED BY <2>1, <2>2 DEF Disabling, Configuring, SelfTesting, Probing, Testing, Enabling
<1>7. CASE ps2_send_data("data_2", config, "probe")
  <2>1. /\ Conversation /\ pc = "data_2" /\ pc' = "probe" /\ ib = <<>>
        /\ ib' = << <<"data", config>> >> /\ UNCHANGED <<hw, obf, outq, target>>
    BY <1>7, QuietData DEF Settled
  <2>2. Storing' /\ Silent' /\ Plain(config)' /\ Untested' /\ Passed'
    BY <1>1, <2>1 DEF SelfTesting, Untested, Silent, Opening, Storing, Data, Sent, Plain, Passed
  <2> QED BY <2>1, <2>2 DEF Disabling, Configuring, SelfTesting, Probing, Testing, Enabling
<1> QED BY <1>2, <1>3, <1>4, <1>5, <1>6, <1>7 DEF SelfTest

LEMMA ProbeConversation ==
    ASSUME Types, Settled, Probe, Quiet'
    PROVE  Conversation'
<1> USE DEF Conversation, BeforeTests, AfterPortTests, AtDevice, Calling, Returns
<1>1. UNCHANGED operational
  BY DEF Probe, local
<1>2. CASE ps2_send_command("probe", CMD_ENABLE_PORT_1, "get_3") /\ UNCHANGED local
  <2>1. /\ Conversation /\ pc = "probe" /\ pc' = "get_3" /\ Sent(CMD_ENABLE_PORT_1)' /\ ib = <<>>
        /\ UNCHANGED <<hw, ccb, obf, outq>>
    BY <1>2, QuietCommand DEF Settled
  <2>2. Silent' /\ Untested' /\ Plain(ccb)' /\ Passed'
    BY <1>1, <2>1 DEF Probing, Untested, Silent, Plain, Passed, Storing, Data
  <2> QED BY <2>1, <2>2 DEF Disabling, Configuring, SelfTesting, Probing, Testing, Enabling
<1>3. CASE ps2_send_command("get_3", CMD_READ_RAM, "probed") /\ UNCHANGED local
  <2>1. /\ Conversation /\ pc = "get_3" /\ pc' = "probed" /\ Sent(CMD_READ_RAM)' /\ ib = <<>>
        /\ UNCHANGED <<hw, ccb, obf, outq>>
    BY <1>3, QuietCommand DEF Settled
  <2>2. Silent' /\ Untested' /\ Plain(ccb)' /\ Passed' /\ (Bit(ccb, Clock(1)) = 0 <=> hw.dual)'
    BY <1>1, <2>1 DEF Probing, Untested, Silent, Plain, Passed, Sent
  <2>3. Answering(CMD_READ_RAM, ccb)'
    BY <2>1, <2>2 DEF Answering
  <2> QED BY <2>1, <2>2, <2>3 DEF Disabling, Configuring, SelfTesting, Probing, Testing, Enabling
<1>4. CASE ps2_send_command("set_3", CMD_WRITE_RAM, "data_3") /\ UNCHANGED local
  <2>1. /\ Conversation /\ pc = "set_3" /\ pc' = "data_3" /\ Sent(CMD_WRITE_RAM)' /\ UNCHANGED <<hw, obf, outq>>
    BY <1>4, QuietCommand DEF Settled
  <2>2. Opening' /\ Plain(config)' /\ Untested' /\ Passed' /\ (dual_channel = hw.dual)'
    BY <1>1, <1>4, <2>1 DEF Probing, Testing, Untested, Silent, Opening, Plain, Passed, local
  <2> QED BY <2>1, <2>2 DEF Disabling, Configuring, SelfTesting, Probing, Testing, Enabling
<1>5. CASE ps2_send_data("data_3", config, "test_0") /\ UNCHANGED local
  <2>1. /\ Conversation /\ pc = "data_3" /\ pc' = "test_0" /\ ib = <<>>
        /\ ib' = << <<"data", config>> >> /\ UNCHANGED <<hw, obf, outq, target>>
    BY <1>5, QuietData DEF Settled
  <2>2. Storing' /\ Silent' /\ Plain(config)' /\ Untested' /\ Passed' /\ (dual_channel = hw.dual)'
    BY <1>1, <1>5, <2>1
    DEF Probing, Testing, Untested, Silent, Opening, Storing, Data, Sent, Plain, Passed, local
  <2> QED BY <2>1, <2>2 DEF Disabling, Configuring, SelfTesting, Probing, Testing, Enabling
<1>6. ASSUME NEW b \in Readable, ps2_read_data("probed", b), config' = b,
             dual_channel' = HasSecondPort(b),
             pc' = IF dual_channel' THEN "close_1" ELSE "test_0"
      PROVE  Conversation'
  <2>1. Quiet /\ pc = "probed"
    BY <1>6, QuietRead DEF ps2_read_data, try_read_data
  <2>2. Conversation /\ Answering(CMD_READ_RAM, ccb)
    BY <2>1 DEF Settled, Probing
  <2>3. b = ccb /\ ib' = <<>> /\ Silent' /\ UNCHANGED <<hw, ccb>>
    BY <1>6, <2>2, QuietAnswer
  <2>4. Plain(config)' /\ Plain(ccb)' /\ Untested' /\ Passed'
    BY <1>1, <1>6, <2>1, <2>2, <2>3 DEF Untested, Plain, Passed, Probing
  <2>5. (dual_channel = hw.dual)'
    <3>1. hw.dual \in BOOLEAN
      BY MachineTypes DEF Types, HwTypes
    <3>2. Bit(ccb, Clock(1)) = 0 <=> hw.dual
      BY <2>1, <2>2 DEF Probing
    <3> QED BY <1>6, <2>3, <3>1, <3>2 DEF HasSecondPort
  <2>6. pc' = "close_1" \/ pc' = "test_0"
    BY <1>6
  <2> QED BY <2>3, <2>4, <2>5, <2>6 DEF Disabling, Configuring, SelfTesting, Probing, Testing, Enabling
<1>7. ASSUME ps2_send_command("close_1", CMD_DISABLE_PORT_1, "set_3"),
             config' = CloseSecondPort(config), UNCHANGED dual_channel
      PROVE  Conversation'
  <2>1. /\ Conversation /\ pc = "close_1" /\ pc' = "set_3" /\ Sent(CMD_DISABLE_PORT_1)'
        /\ UNCHANGED <<hw, obf, outq>>
    BY <1>7, QuietCommand DEF Settled
  <2>2. Plain(config)'
    BY <1>7, <2>1, CloseSecondPortIsPlain DEF Probing, Plain, Types, LocalTypes
  <2>3. Silent' /\ Untested' /\ Passed' /\ (dual_channel = hw.dual)'
    BY <1>1, <1>7, <2>1 DEF Probing, Testing, Untested, Silent, Passed
  <2> QED BY <2>1, <2>2, <2>3 DEF Disabling, Configuring, SelfTesting, Probing, Testing, Enabling
<1> QED BY <1>2, <1>3, <1>4, <1>5, <1>6, <1>7 DEF Probe
\* Once the ports are tested: the first operational one is enabled, or ps2_init returns.
LEMMA AfterTestsConversation ==
    ASSUME pc' = AfterTests(operational'), Tested', operational' \in [Ports -> BOOLEAN],
           Silent', ib' = <<>>, Plain(ccb)'
    PROVE  Conversation'
<1> USE DEF Conversation, BeforeTests, AfterPortTests, AtDevice, Calling, Returns
<1>1. CASE operational'[0]
  <2>1. pc' = "enable_0"
    BY <1>1 DEF AfterTests
  <2> QED BY <1>1, <2>1 DEF Disabling, Configuring, SelfTesting, Probing, Testing, Enabling
<1>2. CASE ~operational'[0] /\ operational'[1]
  <2>1. pc' = "enable_1" /\ Open(ccb, 0)'
    BY <1>2 DEF AfterTests, Open
  <2> QED BY <1>2, <2>1 DEF Disabling, Configuring, SelfTesting, Probing, Testing, Enabling
<1>3. CASE ~operational'[0] /\ ~operational'[1]
  <2>1. pc' = "done" /\ Untested'
    BY <1>3 DEF AfterTests, Untested, Ports
  <2> QED BY <2>1 DEF Disabling, Configuring, SelfTesting, Probing, Testing, Enabling
<1> QED BY <1>1, <1>2, <1>3

LEMMA TestPortsConversation ==
    ASSUME Types, Settled, TestPorts, Quiet'
    PROVE  Conversation'
<1> USE DEF Conversation, BeforeTests, AfterPortTests, AtDevice, Calling, Returns
<1>1. operational \in [Ports -> BOOLEAN] /\ hw.dual \in BOOLEAN
  BY MachineTypes DEF Types, LocalTypes, HwTypes
<1>2. CASE ps2_send_command("test_0", CMD_TEST_PORT_0, "tested_0") /\ UNCHANGED local
  <2>1. /\ Conversation /\ pc = "test_0" /\ pc' = "tested_0" /\ Sent(CMD_TEST_PORT_0)' /\ ib = <<>>
        /\ UNCHANGED <<hw, ccb, obf, outq>>
    BY <1>2, QuietCommand DEF Settled
  <2>2. Silent' /\ Untested' /\ Plain(ccb)' /\ Passed' /\ (dual_channel = hw.dual)'
    BY <1>2, <2>1 DEF Testing, Untested, Silent, Plain, Passed, Storing, Data, local
  <2>3. Answering(CMD_TEST_PORT_0, hw.test[0])'
    BY <2>1, <2>2 DEF Answering
  <2> QED BY <2>1, <2>2, <2>3 DEF Disabling, Configuring, SelfTesting, Probing, Testing, Enabling
<1>3. CASE ps2_send_command("test_1", CMD_TEST_PORT_1, "tested_1") /\ UNCHANGED local
  <2>1. /\ Conversation /\ pc = "test_1" /\ pc' = "tested_1" /\ Sent(CMD_TEST_PORT_1)' /\ ib = <<>>
        /\ UNCHANGED <<hw, ccb, obf, outq>>
    BY <1>3, QuietCommand DEF Settled
  <2>2. /\ Silent' /\ Plain(ccb)' /\ Passed' /\ (dual_channel = hw.dual)'
        /\ (hw.dual /\ operational[0] = (hw.test[0] = 0) /\ operational[1] = FALSE)'
    BY <1>3, <2>1 DEF Testing, Silent, Plain, Passed, local
  <2>3. Answering(CMD_TEST_PORT_1, hw.test[1])'
    BY <2>1, <2>2 DEF Answering
  <2> QED BY <2>1, <2>2, <2>3 DEF Disabling, Configuring, SelfTesting, Probing, Testing, Enabling
<1>4. ASSUME NEW b \in Readable, ps2_read_data("tested_0", b),
             operational' = [operational EXCEPT ![0] = (b = 0)],
             pc' = IF dual_channel THEN "test_1" ELSE AfterTests(operational'),
             UNCHANGED dual_channel
      PROVE  Conversation'
  <2>1. Quiet /\ pc = "tested_0"
    BY <1>4, QuietRead DEF ps2_read_data, try_read_data
  <2>2. Conversation /\ Answering(CMD_TEST_PORT_0, hw.test[0])
    BY <2>1 DEF Settled, Testing
  <2>3. b = hw.test[0] /\ ib' = <<>> /\ Silent' /\ UNCHANGED <<hw, ccb>>
    BY <1>4, <2>2, QuietAnswer
  <2>4. Plain(ccb)' /\ Passed' /\ (dual_channel = hw.dual)'
    BY <1>4, <2>1, <2>2, <2>3 DEF Plain, Passed, Testing
  <2>5. operational' \in [Ports -> BOOLEAN]
    BY <1>1, <1>4
  <2>6. operational'[0] = (hw.test[0] = 0) /\ operational'[1] = FALSE
    BY <1>1, <1>4, <2>1, <2>2, <2>3 DEF Untested, Ports
  <2>7. CASE dual_channel
    <3>1. pc' = "test_1" /\ hw'.dual /\ operational'[0] = (hw'.test[0] = 0)
      BY <1>4, <2>3, <2>4, <2>6, <2>7
    <3> QED BY <3>1, <2>3, <2>4, <2>6 DEF Disabling, Configuring, SelfTesting, Probing, Testing, Enabling
  <2>8. CASE ~dual_channel
    <3>1. pc' = AfterTests(operational') /\ ~hw'.dual
      BY <1>4, <2>4, <2>8
    <3>2. Tested'
      BY <2>3, <2>4, <2>6, <3>1 DEF Tested, HealthyPort, Passed, Ports
    <3> QED BY <2>3, <2>4, <2>5, <3>1, <3>2, AfterTestsConversation
  <2> QED BY <2>7, <2>8
<1>5. ASSUME NEW b \in Readable, ps2_read_data("tested_1", b),
             operational' = [operational EXCEPT ![1] = (b = 0)],
             pc' = AfterTests(operational')
      PROVE  Conversation'
  <2>1. Quiet /\ pc = "tested_1"
    BY <1>5, QuietRead DEF ps2_read_data, try_read_data
  <2>2. Conversation /\ Answering(CMD_TEST_PORT_1, hw.test[1])
    BY <2>1 DEF Settled, Testing
  <2>3. b = hw.test[1] /\ ib' = <<>> /\ Silent' /\ UNCHANGED <<hw, ccb>>
    BY <1>5, <2>2, QuietAnswer
  <2>4. Plain(ccb)' /\ Passed' /\ hw'.dual
    BY <2>1, <2>2, <2>3 DEF Plain, Passed, Testing
  <2>5. operational' \in [Ports -> BOOLEAN]
    BY <1>1, <1>5
  <2>6. operational'[0] = (hw.test[0] = 0) /\ operational'[1] = (hw.test[1] = 0)
    BY <1>1, <1>5, <2>1, <2>2, <2>3 DEF Testing, Ports
  <2>7. Tested'
    BY <2>3, <2>4, <2>6 DEF Tested, HealthyPort, Passed, Ports
  <2> QED BY <1>5, <2>3, <2>4, <2>5, <2>7, AfterTestsConversation
<1> QED BY <1>2, <1>3, <1>4, <1>5 DEF TestPorts

LEMMA FinalConfigIsFinal ==
    ASSUME NEW b \in Bytes, Plain(b), Open(b, 0), Open(b, 1)
    PROVE  Final(FinalConfig(b))
<1> DEFINE On(c, p) == IF operational[p] THEN WithBit(c, Interrupt(p), 1) ELSE c
           b1 == On(b, 0)
           b2 == On(b1, 1)
<1>1. /\ Interrupt(0) = 0 /\ Clock(0) = 4 /\ Interrupt(1) = 1 /\ Clock(1) = 5 /\ Translation = 6
  BY BitNumbering
<1>2. /\ b1 \in Bytes
      /\ Bit(b1, 0) = 1
      /\ Bit(b1, 4) = Bit(b, 4) /\ Bit(b1, 5) = Bit(b, 5) /\ Bit(b1, 6) = Bit(b, 6)
  BY <1>1, SetBit DEF BitNumbers, Binary, Plain
<1>3. b2 = FinalConfig(b)
  BY DEF FinalConfig
<1> HIDE DEF b1
<1>4. /\ b2 \in Bytes
      /\ operational[1] => Bit(b2, 1) = 1
      /\ Bit(b2, 0) = Bit(b1, 0) /\ Bit(b2, 4) = Bit(b1, 4) /\ Bit(b2, 5) = Bit(b1, 5) /\ Bit(b2, 6) = Bit(b1, 6)
  BY <1>1, <1>2, SetBit DEF BitNumbers, Binary
<1> HIDE DEF b2
<1> QED BY <1>1, <1>2, <1>3, <1>4 DEF Final, Plain, Open, Ports

LEMMA EnablePortsConversation ==
    ASSUME Types, Settled, EnablePorts, Quiet'
    PROVE  Conversation'
<1> USE DEF Conversation, BeforeTests, AfterPortTests, AtDevice, Calling, Returns
<1>1. UNCHANGED operational
  BY DEF EnablePorts, local
<1>2. CASE ps2_send_command("enable_0", CMD_ENABLE_PORT_0, IF operational[1] THEN "enable_1" ELSE "get_4")
  <2>1. /\ Conversation /\ pc = "enable_0" /\ pc' = (IF operational[1] THEN "enable_1" ELSE "get_4")
        /\ Sent(CMD_ENABLE_PORT_0)' /\ UNCHANGED <<hw, ccb, obf, outq>>
    BY <1>2, QuietCommand DEF Settled
  <2>2. Tested' /\ Silent' /\ Plain(ccb)'
    BY <1>1, <2>1 DEF Enabling, Silent, Plain, Tested, HealthyPort
  <2>3. CASE operational[1]
    <3>1. pc' = "enable_1" /\ operational'[1]
      BY <1>1, <2>1, <2>3
    <3> QED BY <2>1, <2>2, <3>1 DEF Disabling, Configuring, SelfTesting, Probing, Testing, Enabling
  <2>4. CASE ~operational[1]
    <3>1. pc' = "get_4" /\ ~operational'[1]
      BY <1>1, <2>1, <2>4
    <3> QED BY <2>1, <2>2, <3>1 DEF Disabling, Configuring, SelfTesting, Probing, Testing, Enabling
  <2> QED BY <2>3, <2>4
<1>3. CASE ps2_send_command("enable_1", CMD_ENABLE_PORT_1, "get_4")
  <2>1. /\ Conversation /\ pc = "enable_1" /\ pc' = "get_4" /\ ib = <<>>
        /\ Sent(CMD_ENABLE_PORT_1)' /\ UNCHANGED <<hw, ccb, obf, outq>>
    BY <1>3, QuietCommand DEF Settled
  <2>2. Tested' /\ Silent' /\ Plain(ccb)' /\ Open(ccb, 0)' /\ operational'[1]
    BY <1>1, <2>1 DEF Enabling, Silent, Plain, Tested, HealthyPort, Sent, Open
  <2> QED BY <2>1, <2>2 DEF Disabling, Configuring, SelfTesting, Probing, Testing, Enabling
<1>4. CASE ps2_send_command("get_4", CMD_READ_RAM, "edit_4")
  <2>1. /\ Conversation /\ pc = "get_4" /\ pc' = "edit_4" /\ ib = <<>>
        /\ Sent(CMD_READ_RAM)' /\ UNCHANGED <<hw, ccb, obf, outq>>
    BY <1>4, QuietCommand DEF Settled
  <2>2. Tested' /\ Silent' /\ Plain(ccb)' /\ Open(ccb, 0)' /\ Open(ccb, 1)'
    BY <1>1, <2>1 DEF Enabling, Silent, Plain, Tested, HealthyPort, Sent, Open
  <2>3. Answering(CMD_READ_RAM, ccb)'
    BY <2>1, <2>2 DEF Answering
  <2> QED BY <2>1, <2>2, <2>3 DEF Disabling, Configuring, SelfTesting, Probing, Testing, Enabling
<1>5. ASSUME NEW b \in Readable, ps2_read_data("edit_4", b), config' = FinalConfig(b), pc' = "set_4"
      PROVE  Conversation'
  <2>1. Quiet /\ pc = "edit_4"
    BY <1>5, QuietRead DEF ps2_read_data, try_read_data
  <2>2. Conversation /\ Answering(CMD_READ_RAM, ccb) /\ Plain(ccb) /\ Open(ccb, 0) /\ Open(ccb, 1)
    BY <2>1 DEF Settled, Enabling
  <2>3. b = ccb /\ ib' = <<>> /\ Silent' /\ UNCHANGED hw
    BY <1>5, <2>2, QuietAnswer
  <2>4. Final(FinalConfig(ccb))
    BY <2>2, FinalConfigIsFinal DEF Types, HwTypes
  <2>5. Final(config)'
    BY <1>1, <1>5, <2>3, <2>4 DEF Final, Plain, Open
  <2>6. Tested'
    BY <1>1, <2>1, <2>2, <2>3 DEF Tested, HealthyPort
  <2> QED BY <1>5, <2>3, <2>5, <2>6 DEF Disabling, Configuring, SelfTesting, Probing, Testing, Enabling
<1>6. CASE ps2_send_command("set_4", CMD_WRITE_RAM, "data_4") /\ UNCHANGED local
  <2>1. /\ Conversation /\ pc = "set_4" /\ pc' = "data_4"
        /\ Sent(CMD_WRITE_RAM)' /\ UNCHANGED <<hw, ccb, obf, outq>>
    BY <1>6, QuietCommand DEF Settled
  <2>2. Tested' /\ Opening'
    BY <1>1, <2>1 DEF Enabling, Silent, Tested, HealthyPort, Opening
  <2>3. Final(config)'
    BY <1>1, <1>6, <2>1 DEF Enabling, Final, Plain, Open, local
  <2> QED BY <2>1, <2>2, <2>3 DEF Disabling, Configuring, SelfTesting, Probing, Testing, Enabling
<1>7. CASE ps2_send_data("data_4", config, "port_0") /\ UNCHANGED local
  <2>1. /\ Conversation /\ pc = "data_4" /\ pc' = "port_0" /\ ib = <<>>
        /\ ib' = << <<"data", config>> >> /\ UNCHANGED <<hw, obf, outq, target>>
    BY <1>7, QuietData DEF Settled
  <2>2. Tested' /\ Storing'
    BY <1>1, <1>7, <2>1 DEF Enabling, Tested, HealthyPort, Opening, Storing, Data, Sent, local
  <2>3. Final(config)'
    BY <1>1, <1>7, <2>1 DEF Enabling, Final, Plain, Open, local
  <2>4. Driving'
    BY <2>2, <2>3 DEF Driving
  <2> QED BY <2>1, <2>2, <2>4 DEF Disabling, Configuring, SelfTesting, Probing, Testing, Enabling
<1> QED BY <1>2, <1>3, <1>4, <1>5, <1>6, <1>7 DEF EnablePorts

-----------------------------------------------------------------------------
(* From the reset of the devices on. *)

Devoted == {"port_0", "port_1"} \cup AtDevice

\* Steps that leave the tests and the configuration alone and write at most a data
\* byte or the command that addresses the second port.
LEMMA DrivingKept ==
    ASSUME Quiet => Conversation, Quiet, pc \in Devoted, pc' \in Devoted \cup {"done"},
           UNCHANGED <<hw, ccb, target, config, operational>>,
           \/ UNCHANGED ib
           \/ ib = <<>> /\ (Sent(CMD_WRITE_INPUT_PORT_1)' \/ \E b \in Bytes : ib' = << <<"data", b>> >>)
    PROVE  Conversation'
<1>1. Tested /\ Driving
  BY DEF Conversation, Devoted, AfterPortTests
<1>2. Tested'
  BY <1>1 DEF Tested, HealthyPort
<1>3. Driving'
  <2>1. CASE UNCHANGED ib
    BY <1>1, <2>1 DEF Driving, Storing, Data, Sent, Final, Plain, Open
  <2>2. CASE ib = <<>> /\ (Sent(CMD_WRITE_INPUT_PORT_1)' \/ \E b \in Bytes : ib' = << <<"data", b>> >>)
    <3>1. Final(ccb) /\ target \in Ports
      BY <1>1, <2>2 DEF Driving, Storing, Data
    <3>2. Final(ccb)'
      BY <3>1 DEF Final, Plain, Open
    <3> QED BY <2>2, <3>1, <3>2 DEF Driving, Data
  <2> QED BY <2>1, <2>2
<1> QED BY <1>2, <1>3
    DEF Devoted, Conversation, BeforeTests, AfterPortTests, AtDevice, Calling, Returns,
        Disabling, Configuring, SelfTesting, Probing, Testing, Enabling
\* What such a step looks like, when nothing disturbs it.
Devotion ==
    /\ Quiet /\ pc \in Devoted /\ pc' \in Devoted \cup {"done"}
    /\ UNCHANGED <<hw, ccb, target, config, operational>>
    /\ \/ UNCHANGED ib
       \/ ib = <<>> /\ (Sent(CMD_WRITE_INPUT_PORT_1)' \/ \E b \in Bytes : ib' = << <<"data", b>> >>)

LEMMA QuietTry ==
    ASSUME Types, NEW from, NEW got \in BOOLEAN, try_read_data(from, got), Quiet'
    PROVE  Quiet /\ pc = from /\ UNCHANGED <<hw, ccb, target, ib>>
BY QuietRead DEF try_read_data

LEMMA QuietHw ==
    ASSUME UNCHANGED hwVars, Quiet'
    PROVE  Quiet /\ UNCHANGED <<hw, ccb, target, ib>>
BY DEF hwVars, Quiet

LEMMA AfterIsDevoted ==
    ASSUME NEW p
    PROVE  After(p) \in Devoted \cup {"done"}
BY DEF After, Devoted

LEMMA EntryIsDevoted ==
    ASSUME NEW cmd, NEW p, NEW to, Call(cmd, p, to)
    PROVE  pc' \in Devoted
BY DEF Call, DeviceCommandEntry, Devoted, AtDevice, Calling

LEMMA EachPortDevotion ==
    ASSUME Types, EachPort, Quiet'
    PROVE  Devotion
<1>1. PICK p \in Ports :
        /\ pc = IF p = 0 THEN "port_0" ELSE "port_1"
        /\ pc' \in {"reset_select", "reset", After(p)}
        /\ UNCHANGED <<hwVars, config, operational>>
  BY DEF EachPort
<1>2. Quiet /\ UNCHANGED <<hw, ccb, target, ib>>
  BY <1>1, QuietHw
<1>3. pc \in Devoted /\ pc' \in Devoted \cup {"done"}
  BY <1>1, AfterIsDevoted DEF Devoted, AtDevice
<1> QED BY <1>1, <1>2, <1>3 DEF Devotion

LEMMA SendResetDevotion ==
    ASSUME Types, SendReset, Quiet'
    PROVE  Devotion
<1>1. UNCHANGED <<config, operational>>
  BY DEF SendReset, local
<1>2. CASE ps2_send_command("reset_select", CMD_WRITE_INPUT_PORT_1, "reset")
  BY <1>1, <1>2, QuietCommand DEF Devotion, Devoted, AtDevice
<1>3. CASE ps2_send_data("reset", CMD_RESET_DEVICE, "reset_response")
  BY <1>1, <1>3, QuietData, Commands DEF Devotion, Devoted, AtDevice
<1> QED BY <1>2, <1>3 DEF SendReset

LEMMA ResetResponseDevotion ==
    ASSUME Types, ResetResponse, Quiet'
    PROVE  Devotion
<1>1. PICK got \in BOOLEAN : try_read_data("reset_response", got)
  BY DEF ResetResponse
<1>2. \/ pc' \in {"init_device", "reset_response", "special_code"}
      \/ Call(CMD_DISABLE_SCAN, port, "identify")
  BY DEF ResetResponse
<1>3. UNCHANGED <<config, operational>>
  BY DEF ResetResponse
<1>4. Quiet /\ pc = "reset_response" /\ UNCHANGED <<hw, ccb, target, ib>>
  BY <1>1, QuietTry
<1>5. pc \in Devoted /\ pc' \in Devoted
  BY <1>2, <1>4, EntryIsDevoted DEF Devoted, AtDevice, Returns
<1> QED BY <1>3, <1>4, <1>5 DEF Devotion

LEMMA SpecialCodeDevotion ==
    ASSUME Types, SpecialCode, Quiet'
    PROVE  Devotion
<1>1. PICK got \in BOOLEAN : try_read_data("special_code", got)
  BY DEF SpecialCode
<1>2. Call(CMD_DISABLE_SCAN, port, "identify") /\ UNCHANGED <<config, operational>>
  BY DEF SpecialCode
<1>3. Quiet /\ pc = "special_code" /\ UNCHANGED <<hw, ccb, target, ib>>
  BY <1>1, QuietTry
<1>4. pc \in Devoted /\ pc' \in Devoted
  BY <1>2, <1>3, EntryIsDevoted DEF Devoted, AtDevice
<1> QED BY <1>2, <1>3, <1>4 DEF Devotion

LEMMA IdentifyDevotion ==
    ASSUME Types, Identify, Quiet'
    PROVE  Devotion
<1>1. \/ pc = "identify" /\ UNCHANGED hwVars
      \/ \E got \in BOOLEAN, from \in {"id_1", "id_2"} : try_read_data(from, got)
  BY DEF Identify
<1>2. \/ Call(CMD_IDENTIFY, port, "id_1")
      \/ Call(CMD_ENABLE_SCAN, port, "init_device")
      \/ pc' = "id_2"
  BY DEF Identify
<1>3. UNCHANGED <<config, operational>>
  BY DEF Identify
<1>4. Quiet /\ pc \in {"identify", "id_1", "id_2"} /\ UNCHANGED <<hw, ccb, target, ib>>
  BY <1>1, QuietTry, QuietHw
<1>5. pc \in Devoted /\ pc' \in Devoted
  BY <1>2, <1>4, EntryIsDevoted DEF Devoted, AtDevice, Returns
<1> QED BY <1>3, <1>4, <1>5 DEF Devotion

LEMMA DeviceCommandDevotion ==
    ASSUME Types, ps2_send_device_command, Quiet'
    PROVE  Devotion
<1>1. UNCHANGED <<config, operational>>
  BY DEF ps2_send_device_command, local
<1>2. CASE ps2_send_command("select_port", CMD_WRITE_INPUT_PORT_1, "device_command")
  BY <1>1, <1>2, QuietCommand DEF Devotion, Devoted, AtDevice, Calling
<1>3. CASE ps2_send_data("device_command", call.cmd, "device_ack")
  <2>1. call.cmd \in Bytes
    BY DEF Types, LocalTypes
  <2> QED BY <1>1, <1>3, <2>1, QuietData DEF Devotion, Devoted, AtDevice, Calling
<1>4. ASSUME NEW got \in BOOLEAN, try_read_data("device_ack", got),
             pc' = IF MustResend(got, obuf) THEN DeviceCommandEntry(port) ELSE call.to
      PROVE  Devotion
  <2>1. Quiet /\ pc = "device_ack" /\ UNCHANGED <<hw, ccb, target, ib>>
    BY <1>4, QuietTry
  <2>2. call.to \in Returns
    BY <2>1 DEF Types, Ready, Calling
  <2>3. pc \in Devoted /\ pc' \in Devoted
    BY <1>4, <2>1, <2>2 DEF DeviceCommandEntry, Devoted, AtDevice, Calling
  <2> QED BY <1>1, <2>1, <2>3 DEF Devotion
<1> QED BY <1>2, <1>3, <1>4 DEF ps2_send_device_command

LEMMA InitDeviceDevotion ==
    ASSUME Types, ps2_init_device, Quiet'
    PROVE  Devotion
<1>1. pc = "init_device" /\ pc' \in {"kbd_init", After(port)} /\ UNCHANGED <<hwVars, config, operational>>
  BY DEF ps2_init_device
<1>2. Quiet /\ UNCHANGED <<hw, ccb, target, ib>>
  BY <1>1, QuietHw
<1>3. pc \in Devoted /\ pc' \in Devoted \cup {"done"}
  BY <1>1, AfterIsDevoted DEF Devoted, AtDevice, Returns
<1> QED BY <1>1, <1>2, <1>3 DEF Devotion

LEMMA KbdInitDevotion ==
    ASSUME Types, KbdInit, Quiet'
    PROVE  Devotion
<1> USE DEF Devoted, AtDevice, Returns
<1>1. UNCHANGED <<config, operational>>
  BY DEF KbdInit, local
<1>2. CASE pc = "kbd_init" /\ Call(CMD_ENABLE_SCAN, port, "set_codes") /\ UNCHANGED hwVars
  BY <1>1, <1>2, QuietHw, EntryIsDevoted DEF Devotion
<1>3. CASE /\ \/ pc = "set_codes" /\ Call(CMD_SET_SCAN_CODE, kbd.port, "set_id")
              \/ pc = "get_codes" /\ Call(CMD_SET_SCAN_CODE, kbd.port, "check_set")
           /\ UNCHANGED hwVars
  BY <1>1, <1>3, QuietHw, EntryIsDevoted DEF Devotion
<1>4. CASE ps2_send_data("set_id", 1, "get_codes")
  <2>1. 1 \in Bytes
    BY DEF Bytes
  <2> QED BY <1>1, <1>4, <2>1, QuietData DEF Devotion
<1>5. ASSUME NEW b \in Readable, ps2_read_data("check_set", b),
             pc' = IF get_scan_code_set(b) = 1 THEN "install" ELSE "set_codes"
      PROVE  Devotion
  <2>1. Quiet /\ pc = "check_set" /\ UNCHANGED <<hw, ccb, target, ib>>
    BY <1>5, QuietTry DEF ps2_read_data
  <2> QED BY <1>1, <1>5, <2>1 DEF Devotion
<1>6. CASE pc = "install" /\ pc' = After(port) /\ UNCHANGED hwVars
  BY <1>1, <1>6, QuietHw, AfterIsDevoted DEF Devotion
<1> QED BY <1>2, <1>3, <1>4, <1>5, <1>6 DEF KbdInit

-----------------------------------------------------------------------------
(* The steps of the controller. *)

\* The commands that are not answered.
Mute == {CMD_DISABLE_PORT_0, CMD_ENABLE_PORT_0, CMD_DISABLE_PORT_1, CMD_ENABLE_PORT_1,
         CMD_WRITE_RAM, CMD_WRITE_INPUT_PORT_1}

LEMMA Executed ==
    ASSUME NEW cmd, Execute(cmd), outq \in Seq(Bytes)
    PROVE  /\ cmd \in Mute => outq' = outq
           /\ cmd = CMD_READ_RAM => outq' = outq \o <<ccb>> /\ ccb' = ccb
           /\ cmd = CMD_TEST => outq' = outq \o <<hw.self_test>>
           /\ cmd = CMD_TEST_PORT_0 => outq' = outq \o <<hw.test[0]>> /\ ccb' = ccb
           /\ cmd = CMD_TEST_PORT_1 /\ hw.dual => outq' = outq \o <<hw.test[1]>> /\ ccb' = ccb
           /\ cmd = CMD_ENABLE_PORT_0 => ccb' = WithBit(ccb, Clock(0), 0)
           /\ cmd = CMD_ENABLE_PORT_1 => ccb' = Stored(WithBit(ccb, Clock(1), 0))
           /\ cmd \in {CMD_WRITE_RAM, CMD_WRITE_INPUT_PORT_1} => ccb' = ccb
           /\ cmd = CMD_WRITE_RAM => target' = Ram
           /\ cmd # CMD_WRITE_RAM => target' \in Ports
<1> USE DEF CMD_DISABLE_PORT_0, CMD_ENABLE_PORT_0, CMD_DISABLE_PORT_1, CMD_ENABLE_PORT_1,
            CMD_WRITE_RAM, CMD_WRITE_INPUT_PORT_1, CMD_READ_RAM, CMD_TEST, CMD_TEST_PORT_0, CMD_TEST_PORT_1
<1> DEFINE s == CASE cmd = CMD_READ_RAM    -> <<ccb>>
                  [] cmd = CMD_TEST        -> <<hw.self_test>>
                  [] cmd = CMD_TEST_PORT_0 -> <<hw.test[0]>>
                  [] cmd = CMD_TEST_PORT_1 /\ hw.dual -> <<hw.test[1]>>
                  [] OTHER -> <<>>
<1>1. outq' = outq \o s
  BY DEF Execute
<1>2. /\ cmd \in Mute => s = <<>>
      /\ cmd = CMD_READ_RAM => s = <<ccb>>
      /\ cmd = CMD_TEST => s = <<hw.self_test>>
      /\ cmd = CMD_TEST_PORT_0 => s = <<hw.test[0]>>
      /\ cmd = CMD_TEST_PORT_1 /\ hw.dual => s = <<hw.test[1]>>
  BY DEF Mute
<1> HIDE DEF s
<1>3. outq \o <<>> = outq
  OBVIOUS
<1>4. /\ cmd \in {CMD_READ_RAM, CMD_TEST_PORT_0, CMD_TEST_PORT_1, CMD_WRITE_RAM, CMD_WRITE_INPUT_PORT_1} => ccb' = ccb
      /\ cmd = CMD_ENABLE_PORT_0 => ccb' = WithBit(ccb, Clock(0), 0)
      /\ cmd = CMD_ENABLE_PORT_1 => ccb' = Stored(WithBit(ccb, Clock(1), 0))
  BY DEF Execute
<1>5. /\ cmd = CMD_WRITE_RAM => target' = Ram
      /\ cmd # CMD_WRITE_RAM => target' \in Ports
  BY DEF Execute, Ports
<1> QED BY ZenonT(40), <1>1, <1>2, <1>3, <1>4, <1>5

LEMMA TakeCommand ==
    ASSUME NEW cmd, Sent(cmd), Take
    PROVE  Execute(cmd) /\ ib' = <<>> /\ UNCHANGED <<hw, obf, obuf>>
BY DEF Sent, Take

LEMMA TakeData ==
    ASSUME NEW b, Data(b), Take
    PROVE  (StoreConfig(b) \/ Forward(b) \/ Garble) /\ ib' = <<>> /\ UNCHANGED <<hw, obf, obuf>>
BY DEF Data, Take

\* A command that is not answered leaves nothing to read.
LEMMA TakeMute ==
    ASSUME Types, NEW cmd \in Mute, Sent(cmd), Take, Silent
    PROVE  ib' = <<>> /\ Silent'
BY TakeCommand, Executed DEF Silent, Types, HwTypes

\* An answer that is due stays due until it is read.
LEMMA TakeAnswering ==
    ASSUME Types, NEW cmd, NEW v, Answering(cmd, v), Take,
           \/ cmd = CMD_READ_RAM /\ v = ccb
           \/ cmd = CMD_TEST /\ v = hw.self_test
           \/ cmd = CMD_TEST_PORT_0 /\ v = hw.test[0]
           \/ cmd = CMD_TEST_PORT_1 /\ v = hw.test[1] /\ hw.dual
    PROVE  ib' = <<>> /\ ~obf' /\ outq' = <<v>>
<1>1. Sent(cmd) /\ Silent
  BY DEF Answering, Take
<1>2. Execute(cmd) /\ ib' = <<>> /\ UNCHANGED obf
  BY <1>1, TakeCommand
<1>3. outq' = outq \o <<v>>
  BY <1>2, Executed DEF Types, HwTypes
<1>4. <<>> \o <<v>> = <<v>>
  OBVIOUS
<1> QED BY <1>1, <1>2, <1>3, <1>4 DEF Silent

LEMMA TakeOpening ==
    ASSUME Types, Opening, Take
    PROVE  Opening'
<1>1. Sent(CMD_WRITE_RAM) /\ Silent
  BY DEF Opening, Take
<1>2. ib' = <<>> /\ Silent'
  BY <1>1, TakeMute DEF Mute
<1>3. target' = Ram
  BY <1>1, TakeCommand, Executed DEF Types, HwTypes
<1> QED BY <1>2, <1>3 DEF Opening

LEMMA TakeStoring ==
    ASSUME Storing, Take
    PROVE  ib' = <<>> /\ ccb' = Stored(config) /\ target' \in Ports /\ UNCHANGED <<obf, outq>>
<1>1. ~Forward(config) /\ ~Garble
  BY DEF Storing, Forward, Garble, Ports, Ram
<1> QED BY <1>1, TakeData DEF Storing, StoreConfig, Ports

LEMMA StoredIsPlain ==
    ASSUME NEW b \in Bytes, Plain(b)
    PROVE  Plain(Stored(b))
BY StoredBits, BitNumbering DEF Plain, BitNumbers

LEMMA StoredIsFinal ==
    ASSUME NEW b \in Bytes, Final(b), Tested
    PROVE  Final(Stored(b))
<1>1. /\ Interrupt(0) = 0 /\ Clock(0) = 4 /\ Interrupt(1) = 1 /\ Clock(1) = 5 /\ Translation = 6
  BY BitNumbering
<1>2. /\ Bit(Stored(b), 0) = Bit(b, 0) /\ Bit(Stored(b), 1) = Bit(b, 1)
      /\ Bit(Stored(b), 4) = Bit(b, 4) /\ Bit(Stored(b), 6) = Bit(b, 6)
  BY StoredBits DEF BitNumbers
<1>3. operational[1] => Stored(b) = b
  BY StoredBits DEF Tested, HealthyPort, Ports
<1> QED BY <1>1, <1>2, <1>3 DEF Final, Plain, Open, Ports

LEMMA TakeDriving ==
    ASSUME Types, Driving, Tested, Take, UNCHANGED <<config, operational>>
    PROVE  Driving'
<1>1. config \in Bytes
  BY DEF Types, LocalTypes
<1>2. CASE Storing /\ Final(config)
  <2>1. ib' = <<>> /\ ccb' = Stored(config) /\ target' \in Ports
    BY <1>2, TakeStoring
  <2>2. Final(Stored(config))
    BY <1>1, <1>2, StoredIsFinal
  <2>3. Final(ccb)'
    BY <2>1, <2>2 DEF Final, Plain, Open
  <2> QED BY <2>1, <2>3 DEF Driving
<1>3. CASE Final(ccb) /\ Sent(CMD_WRITE_INPUT_PORT_1)
  <2>1. ib' = <<>> /\ ccb' = ccb /\ target' \in Ports
    BY <1>3, TakeCommand, Executed DEF Types, HwTypes, CMD_WRITE_INPUT_PORT_1, CMD_WRITE_RAM
  <2>2. Final(ccb)'
    BY <1>3, <2>1 DEF Final, Plain, Open
  <2> QED BY <2>1, <2>2 DEF Driving
<1>4. ASSUME Final(ccb), target \in Ports, NEW b \in Bytes, Data(b)
      PROVE  Driving'
  <2>1. ~StoreConfig(b)
    BY <1>4 DEF StoreConfig, Ports, Ram
  <2>2. ib' = <<>> /\ ccb' = ccb /\ target' \in Ports
    BY <1>4, <2>1, TakeData DEF Forward, Garble, Ports
  <2>3. Final(ccb)'
    BY <1>4, <2>2 DEF Final, Plain, Open
  <2> QED BY <2>2, <2>3 DEF Driving
<1>5. ib # <<>>
  BY DEF Take
<1> QED BY <1>2, <1>3, <1>4, <1>5 DEF Driving

LEMMA EnabledFirst ==
    ASSUME Types, Take, Sent(CMD_ENABLE_PORT_0), Silent, Plain(ccb)
    PROVE  /\ ib' = <<>> /\ Silent' /\ Plain(ccb') /\ Bit(ccb', Clock(0)) = 0
<1>1. ccb' = WithBit(ccb, Clock(0), 0) /\ ccb \in Bytes
  BY TakeCommand, Executed DEF Types, HwTypes
<1>2. ib' = <<>> /\ Silent'
  BY TakeMute DEF Mute
<1> QED BY <1>1, <1>2, BitNumbering, SetBit DEF Plain, BitNumbers, Binary

LEMMA EnabledSecond ==
    ASSUME Types, Take, Sent(CMD_ENABLE_PORT_1), Silent, Plain(ccb)
    PROVE  /\ ib' = <<>> /\ Silent' /\ Plain(ccb') /\ Bit(ccb', Clock(0)) = Bit(ccb, Clock(0))
           /\ Bit(ccb', Clock(1)) = 0 <=> hw.dual
<1> DEFINE b == WithBit(ccb, Clock(1), 0)
<1>1. ccb' = Stored(b) /\ ccb \in Bytes
  BY TakeCommand, Executed DEF Types, HwTypes
<1>2. ib' = <<>> /\ Silent'
  BY TakeMute DEF Mute
<1>3. Interrupt(0) = 0 /\ Clock(0) = 4 /\ Clock(1) = 5 /\ Translation = 6
  BY BitNumbering
<1>4. /\ b \in Bytes /\ Bit(b, 5) = 0 /\ Bit(b, 6) = Bit(ccb, 6) /\ Bit(b, 4) = Bit(ccb, 4)
      /\ Bit(b, 0) = Bit(ccb, 0)
  BY <1>1, <1>3, SetBit DEF BitNumbers, Binary
<1> HIDE DEF b
<1>5. Bit(Stored(b), 6) = Bit(b, 6) /\ Bit(Stored(b), 4) = Bit(b, 4) /\ Bit(Stored(b), 0) = Bit(b, 0)
  BY <1>4, StoredBits DEF BitNumbers
<1>6. Bit(Stored(b), 5) = 0 <=> hw.dual
  BY <1>4, StoredBits
<1> QED BY <1>1, <1>2, <1>3, <1>4, <1>5, <1>6 DEF Plain

LEMMA TakeConversation ==
    ASSUME Types, Conversation, Take, UNCHANGED <<pc, local>>
    PROVE  Conversation'
<1>1. UNCHANGED <<pc, config, operational, dual_channel>>
  BY DEF local
<1>2. UNCHANGED hw /\ ib # <<>> /\ outq \in Seq(Bytes) /\ ccb \in Bytes /\ config \in Bytes
  BY DEF Take, Types, HwTypes, LocalTypes
<1>3. /\ pc \in BeforeTests => Untested'
      /\ pc \in AfterPortTests => Tested'
      /\ Passed => Passed'
      /\ Plain(config) => Plain(config)'
      /\ Final(config) => Final(config)'
  BY <1>1, <1>2 DEF Conversation, Untested, Tested, HealthyPort, Passed, Plain, Final, Open
<1>4. Disabling'
  <2>1. \A cmd \in {CMD_DISABLE_PORT_0, CMD_DISABLE_PORT_1} : Sent(cmd) => ib' = <<>> /\ outq' = outq /\ obf' = obf
    BY <1>2, TakeCommand, Executed DEF Mute
  <2> QED BY <1>1, <1>2, <2>1 DEF Conversation, Disabling, Silent
<1>5. Configuring'
  <2>1. CASE pc = "edit_1"
    <3>1. Answering(CMD_READ_RAM, ccb)
      BY <1>2, <2>1 DEF Conversation, Configuring, Answering
    <3>2. ib' = <<>> /\ ~obf' /\ outq' = <<ccb>>
      BY <3>1, TakeAnswering
    <3>3. \E v \in Bytes : Answering(CMD_READ_RAM, v)'
      BY <1>2, <3>2 DEF Answering
    <3> QED BY <1>1, <2>1, <3>3 DEF Configuring
  <2>2. CASE pc = "set_1"
    BY <1>2, <2>2 DEF Conversation, Configuring
  <2>3. CASE pc = "data_1"
    BY <1>1, <1>3, <2>3, TakeOpening DEF Conversation, Configuring
  <2>4. CASE pc = "test"
    <3>1. Silent' /\ ib' = <<>>
      BY <1>2, <2>4, TakeStoring DEF Conversation, Configuring, Silent
    <3> QED BY <1>1, <1>3, <2>4, <3>1 DEF Conversation, Configuring
  <2> QED BY <1>1, <2>1, <2>2, <2>3, <2>4 DEF Configuring
<1>6. SelfTesting'
  <2>1. CASE pc = "test_result"
    <3>1. ib' = <<>> /\ ~obf' /\ outq' = <<hw.self_test>>
      BY <2>1, TakeAnswering DEF Conversation, SelfTesting
    <3>2. Answering(CMD_TEST, hw.self_test)'
      BY <1>2, <3>1 DEF Answering
    <3> QED BY <1>1, <1>3, <2>1, <3>2 DEF Conversation, SelfTesting
  <2>2. CASE pc = "compare"
    <3>1. ib' = <<>> /\ ~obf' /\ outq' = <<ccb>>
      BY <2>2, TakeAnswering DEF Conversation, SelfTesting
    <3>2. ccb' = ccb
      BY <1>2, <2>2, TakeCommand, Executed DEF Conversation, SelfTesting, Answering
    <3>3. Answering(CMD_READ_RAM, ccb)'
      BY <3>1, <3>2 DEF Answering
    <3> QED BY <1>1, <1>3, <2>2, <3>3 DEF Conversation, SelfTesting
  <2>3. CASE pc = "data_2"
    BY <1>1, <1>3, <2>3, TakeOpening DEF Conversation, SelfTesting
  <2>4. pc \notin {"get_2", "set_2"}
    BY <1>2 DEF Conversation, SelfTesting
  <2> QED BY <1>1, <2>1, <2>2, <2>3, <2>4 DEF SelfTesting
<1>7. Probing'
  <2>1. CASE pc = "probe"
    <3>1. Silent' /\ ib' = <<>> /\ ccb' = Stored(config)
      BY <1>2, <2>1, TakeStoring DEF Conversation, Probing, Silent
    <3>2. Plain(ccb)'
      BY <1>2, <2>1, <3>1, StoredIsPlain DEF Conversation, Probing, Plain
    <3> QED BY <1>1, <1>3, <2>1, <3>1, <3>2 DEF Conversation, Probing
  <2>2. CASE pc = "get_3"
    <3>1. Sent(CMD_ENABLE_PORT_1) /\ Silent /\ Plain(ccb) /\ Passed
      BY <1>2, <2>2 DEF Conversation, Probing
    <3>2. ib' = <<>> /\ Silent' /\ Plain(ccb)' /\ (Bit(ccb, Clock(1)) = 0 <=> hw.dual)'
      BY <1>2, <3>1, EnabledSecond DEF Plain
    <3> QED BY <1>1, <1>3, <2>2, <3>1, <3>2 DEF Probing
  <2>3. CASE pc = "probed"
    <3>1. ib' = <<>> /\ ~obf' /\ outq' = <<ccb>>
      BY <2>3, TakeAnswering DEF Conversation, Probing
    <3>2. ccb' = ccb
      BY <1>2, <2>3, TakeCommand, Executed DEF Conversation, Probing, Answering
    <3>3. Answering(CMD_READ_RAM, ccb)' /\ Plain(ccb)' /\ (Bit(ccb, Clock(1)) = 0 <=> hw.dual)'
      BY <1>2, <2>3, <3>1, <3>2 DEF Answering, Conversation, Probing, Plain
    <3> QED BY <1>1, <1>3, <2>3, <3>3 DEF Conversation, Probing
  <2>4. CASE pc = "set_3"
    <3>1. ib' = <<>> /\ Silent'
      BY <1>2, <2>4, TakeMute DEF Conversation, Probing, Mute
    <3> QED BY <1>1, <1>3, <2>4, <3>1 DEF Conversation, Probing
  <2>5. CASE pc = "data_3"
    BY <1>1, <1>3, <2>5, TakeOpening DEF Conversation, Probing
  <2>6. pc # "close_1"
    BY <1>2 DEF Conversation, Probing
  <2> QED BY <1>1, <2>1, <2>2, <2>3, <2>4, <2>5, <2>6 DEF Probing
<1>8. Testing'
  <2>1. /\ pc \in {"close_1", "set_3", "data_3", "test_0", "tested_0", "test_1", "tested_1"} => (dual_channel = hw.dual)'
        /\ pc \in {"test_1", "tested_1"} => (hw.dual /\ operational[0] = (hw.test[0] = 0) /\ operational[1] = FALSE)'
    BY <1>1, <1>2 DEF Conversation, Testing
  <2>2. CASE pc = "test_0"
    <3>1. Storing /\ Silent /\ Plain(config) /\ Passed
      BY <1>2, <2>2 DEF Conversation, Testing
    <3>2. Silent' /\ ib' = <<>> /\ ccb' = Stored(config)
      BY <3>1, TakeStoring DEF Silent
    <3>3. Plain(ccb)'
      BY <1>2, <3>1, <3>2, StoredIsPlain DEF Plain
    <3> QED BY <1>1, <1>3, <2>1, <2>2, <3>1, <3>2, <3>3 DEF Testing
  <2>3. CASE pc = "tested_0"
    <3>1. ib' = <<>> /\ ~obf' /\ outq' = <<hw.test[0]>>
      BY <2>3, TakeAnswering DEF Conversation, Testing
    <3>2. ccb' = ccb
      BY <1>2, <2>3, TakeCommand, Executed DEF Conversation, Testing, Answering
    <3>3. Answering(CMD_TEST_PORT_0, hw.test[0])' /\ Plain(ccb)'
      BY <1>2, <2>3, <3>1, <3>2 DEF Answering, Conversation, Testing, Plain
    <3> QED BY <1>1, <1>3, <2>1, <2>3, <3>3 DEF Conversation, Testing
  <2>4. CASE pc = "tested_1"
    <3>0. hw.dual /\ Answering(CMD_TEST_PORT_1, hw.test[1]) /\ Plain(ccb) /\ Passed
      BY <2>4 DEF Conversation, Testing
    <3>1. ib' = <<>> /\ ~obf' /\ outq' = <<hw.test[1]>>
      BY <3>0, TakeAnswering
    <3>2. ccb' = ccb
      BY <1>2, <3>0, TakeCommand, Executed DEF Answering
    <3>3. Answering(CMD_TEST_PORT_1, hw.test[1])' /\ Plain(ccb)'
      BY <1>2, <3>0, <3>1, <3>2 DEF Answering, Plain
    <3> QED BY <1>1, <1>3, <2>1, <2>4, <3>0, <3>3 DEF Testing
  <2>5. pc # "test_1"
    BY <1>2 DEF Conversation, Testing
  <2> QED BY <1>1, <2>1, <2>2, <2>3, <2>4, <2>5 DEF Testing
<1>9. Enabling'
  <2>1. CASE pc = "enable_1"
    <3>1. operational[1] /\ Sent(CMD_ENABLE_PORT_0) /\ Silent /\ Plain(ccb)
      BY <1>2, <2>1 DEF Conversation, Enabling
    <3>2. Silent' /\ ib' = <<>> /\ Plain(ccb)' /\ Open(ccb, 0)'
      BY <3>1, EnabledFirst DEF Plain, Open
    <3> QED BY <1>1, <2>1, <3>1, <3>2 DEF Enabling
  <2>2. CASE pc = "get_4" /\ Sent(CMD_ENABLE_PORT_0) /\ ~operational[1]
    <3>1. Silent /\ Plain(ccb)
      BY <2>2 DEF Conversation, Enabling
    <3>2. Silent' /\ ib' = <<>> /\ Plain(ccb)' /\ Open(ccb, 0)' /\ Open(ccb, 1)'
      BY <1>1, <2>2, <3>1, EnabledFirst DEF Plain, Open
    <3> QED BY <1>1, <2>2, <3>2 DEF Enabling
  <2>3. CASE pc = "get_4" /\ Sent(CMD_ENABLE_PORT_1) /\ operational[1] /\ Open(ccb, 0)
    <3>1. Silent /\ Plain(ccb) /\ Tested
      BY <2>3 DEF Conversation, Enabling, AfterPortTests
    <3>2. hw.dual
      BY <2>3, <3>1 DEF Tested, HealthyPort, Ports
    <3>3. Silent' /\ ib' = <<>> /\ Plain(ccb)' /\ Open(ccb, 0)' /\ Open(ccb, 1)'
      BY <1>1, <2>3, <3>1, <3>2, EnabledSecond DEF Plain, Open
    <3> QED BY <1>1, <2>3, <3>3 DEF Enabling
  <2>4. CASE pc = "edit_4"
    <3>0. Answering(CMD_READ_RAM, ccb) /\ Plain(ccb) /\ Open(ccb, 0) /\ Open(ccb, 1)
      BY <2>4 DEF Conversation, Enabling
    <3>1. ib' = <<>> /\ ~obf' /\ outq' = <<ccb>>
      BY <3>0, TakeAnswering
    <3>2. ccb' = ccb
      BY <1>2, <3>0, TakeCommand, Executed DEF Answering
    <3>3. Answering(CMD_READ_RAM, ccb)' /\ Plain(ccb)' /\ Open(ccb, 0)' /\ Open(ccb, 1)'
      BY <1>1, <3>0, <3>1, <3>2 DEF Answering, Plain, Open
    <3> QED BY <1>1, <2>4, <3>3 DEF Enabling
  <2>5. CASE pc = "data_4"
    BY <1>1, <1>3, <2>5, TakeOpening DEF Conversation, Enabling
  <2>6. pc \notin {"enable_0", "set_4"}
    BY <1>2 DEF Conversation, Enabling
  <2>7. pc = "get_4" => \/ Sent(CMD_ENABLE_PORT_0) /\ ~operational[1]
                        \/ Sent(CMD_ENABLE_PORT_1) /\ operational[1] /\ Open(ccb, 0)
    BY <1>2 DEF Conversation, Enabling
  <2> QED BY <1>1, <2>1, <2>2, <2>3, <2>4, <2>5, <2>6, <2>7 DEF Enabling
<1>10. pc \in AtDevice \cup {"port_0", "port_1", "done"} => Driving'
  <2>1. pc \in AtDevice \cup {"port_0", "port_1", "done"} => Tested
    BY DEF Conversation, AfterPortTests
  <2>2. Driving /\ Tested => Driving'
    BY <1>1, TakeDriving
  <2>3. ib # <<>>
    BY DEF Take
  <2> QED BY <2>1, <2>2, <2>3 DEF Conversation
<1> QED BY <1>1, <1>3, <1>4, <1>5, <1>6, <1>7, <1>8, <1>9, <1>10 DEF Conversation

LEMMA DeliverAnswering ==
    ASSUME Types, NEW cmd, NEW v, Answering(cmd, v), Deliver
    PROVE  ib' = <<>> /\ obf' = TRUE /\ obuf' = v /\ outq' = <<>>
<1>1. ib = <<>> /\ ~obf /\ outq = <<v>>
  BY DEF Answering, Silent, Deliver
<1>2. Head(<<v>>) = v /\ Tail(<<v>>) = <<>>
  OBVIOUS
<1> QED BY <1>1, <1>2 DEF Deliver

LEMMA DeliverConversation ==
    ASSUME Types, Conversation, Deliver, UNCHANGED <<pc, local>>
    PROVE  Conversation'
<1>1. UNCHANGED <<pc, config, operational, dual_channel, hw, ccb, ib, target>> /\ ~Silent /\ outq # <<>>
  BY DEF local, Deliver, Silent
<1>2. /\ pc \in BeforeTests => Untested'
      /\ pc \in AfterPortTests => Tested'
      /\ Passed => Passed'
      /\ Plain(config) => Plain(config)'
      /\ Plain(ccb) => Plain(ccb)'
      /\ \A p \in Ports : Open(ccb, p) => Open(ccb, p)'
  BY <1>1 DEF Conversation, Untested, Tested, HealthyPort, Passed, Plain, Open
<1>3. Disabling'
  BY <1>1 DEF Conversation, Disabling, Silent
<1>4. Configuring'
  <2>1. CASE pc = "edit_1"
    <3>1. PICK v \in Bytes : Answering(CMD_READ_RAM, v)
      BY <2>1 DEF Conversation, Configuring
    <3>2. Answering(CMD_READ_RAM, v)'
      BY <3>1, DeliverAnswering DEF Answering
    <3> QED BY <1>1, <2>1, <3>2 DEF Configuring
  <2>2. pc \notin {"set_1", "data_1", "test"}
    BY <1>1 DEF Conversation, Configuring, Opening
  <2> QED BY <1>1, <2>1, <2>2 DEF Configuring
<1>5. SelfTesting'
  <2>1. pc = "test_result" => Answering(CMD_TEST, hw.self_test)' /\ Plain(config)'
    BY <1>1, <1>2, DeliverAnswering DEF Answering, Conversation, SelfTesting
  <2>2. pc = "compare" => Passed' /\ Answering(CMD_READ_RAM, ccb)' /\ Plain(config)'
    BY <1>1, <1>2, DeliverAnswering DEF Answering, Conversation, SelfTesting
  <2>3. pc \notin {"get_2", "set_2", "data_2"}
    BY <1>1 DEF Conversation, SelfTesting, Opening
  <2> QED BY <1>1, <2>1, <2>2, <2>3 DEF SelfTesting
<1>6. Probing'
  <2>1. pc = "probed" => /\ Passed' /\ Answering(CMD_READ_RAM, ccb)' /\ Plain(ccb)'
                         /\ (Bit(ccb, Clock(1)) = 0 <=> hw.dual)'
    BY <1>1, <1>2, DeliverAnswering DEF Answering, Conversation, Probing
  <2>2. pc \notin {"probe", "get_3", "close_1", "set_3", "data_3"}
    BY <1>1 DEF Conversation, Probing, Opening
  <2> QED BY <1>1, <2>1, <2>2 DEF Probing
<1>7. Testing'
  <2>1. /\ pc \in {"close_1", "set_3", "data_3", "test_0", "tested_0", "test_1", "tested_1"} => (dual_channel = hw.dual)'
        /\ pc \in {"test_1", "tested_1"} => (hw.dual /\ operational[0] = (hw.test[0] = 0) /\ operational[1] = FALSE)'
    BY <1>1 DEF Conversation, Testing
  <2>2. pc = "tested_0" => Passed' /\ Answering(CMD_TEST_PORT_0, hw.test[0])' /\ Plain(ccb)'
    BY <1>1, <1>2, DeliverAnswering DEF Answering, Conversation, Testing
  <2>3. pc = "tested_1" => Passed' /\ Answering(CMD_TEST_PORT_1, hw.test[1])' /\ Plain(ccb)'
    BY <1>1, <1>2, DeliverAnswering DEF Answering, Conversation, Testing
  <2>4. pc \notin {"test_0", "test_1"}
    BY <1>1 DEF Conversation, Testing
  <2> QED BY <1>1, <2>1, <2>2, <2>3, <2>4 DEF Testing
<1>8. Enabling'
  <2>1. pc = "edit_4" => Answering(CMD_READ_RAM, ccb)' /\ Plain(ccb)' /\ Open(ccb, 0)' /\ Open(ccb, 1)'
    <3> SUFFICES ASSUME pc = "edit_4"
                 PROVE  Answering(CMD_READ_RAM, ccb)' /\ Plain(ccb)' /\ Open(ccb, 0)' /\ Open(ccb, 1)'
      OBVIOUS
    <3>1. Answering(CMD_READ_RAM, ccb) /\ Plain(ccb) /\ Open(ccb, 0) /\ Open(ccb, 1)
      BY DEF Conversation, Enabling
    <3> QED BY <1>1, <1>2, <3>1, DeliverAnswering DEF Answering, Ports
  <2>2. pc \notin {"enable_0", "enable_1", "get_4", "set_4", "data_4"}
    BY <1>1 DEF Conversation, Enabling, Opening
  <2> QED BY <1>1, <2>1, <2>2 DEF Enabling
<1>9. /\ pc \in AtDevice \cup {"port_0", "port_1"} => Driving'
      /\ pc = "done" => (Untested /\ ib = <<>>)' \/ Driving'
  <2>1. Driving => Driving'
    BY <1>1 DEF Driving, Storing, Data, Sent, Final, Plain, Open
  <2>2. Untested /\ ib = <<>> => Untested' /\ ib' = <<>>
    BY <1>1 DEF Untested
  <2> QED BY <2>1, <2>2 DEF Conversation
<1> QED BY <1>1, <1>2, <1>3, <1>4, <1>5, <1>6, <1>7, <1>8, <1>9 DEF Conversation

-----------------------------------------------------------------------------

LEMMA HardwareConversation ==
    ASSUME Types, Settled, Hardware, Quiet'
    PROVE  Conversation'
<1>1. UNCHANGED <<pc, local>>
  BY DEF Hardware
<1>2. CASE Take
  <2>1. Conversation
    BY <1>2 DEF Take, Settled, Quiet
  <2> QED BY <1>1, <1>2, <2>1, TakeConversation
<1>3. CASE Deliver
  <2>1. Conversation
    BY <1>3 DEF Deliver, Settled, Quiet
  <2> QED BY <1>1, <1>3, <2>1, DeliverConversation
<1>4. ASSUME NEW p \in Ports, Key(p) PROVE FALSE
  <2>1. keys \in Nat /\ late \in Nat
    BY MachineAssumption DEF Types, HwTypes
  <2> QED BY <1>4, <2>1 DEF Key, Quiet
<1> QED BY <1>2, <1>3, <1>4 DEF Hardware, Controller

LEMMA AccessConversation ==
    ASSUME Types, Settled, Access, Quiet'
    PROVE  Conversation'
<1>1. CASE Devotion
  BY <1>1, DrivingKept DEF Devotion, Settled
<1>2. CASE EachPort \/ SendReset \/ ResetResponse \/ SpecialCode
  BY <1>1, <1>2, EachPortDevotion, SendResetDevotion, ResetResponseDevotion, SpecialCodeDevotion
<1>3. CASE Identify \/ ps2_send_device_command \/ ps2_init_device \/ KbdInit
  BY <1>1, <1>3, IdentifyDevotion, DeviceCommandDevotion, InitDeviceDevotion, KbdInitDevotion
<1>4. CASE DisableAndFlush \/ Configure \/ SelfTest \/ Probe \/ TestPorts \/ EnablePorts
  BY <1>4, DisableAndFlushConversation, ConfigureConversation, SelfTestConversation,
     ProbeConversation, TestPortsConversation, EnablePortsConversation
<1> QED BY <1>2, <1>3, <1>4 DEF Access

LEMMA NextSettled ==
    ASSUME Types, Settled, [Next]_vars
    PROVE  Settled'
<1> SUFFICES ASSUME Quiet' PROVE Conversation'
  BY DEF Settled
<1>1. CASE Access
  BY <1>1, AccessConversation
<1>2. CASE Hardware
  BY <1>2, HardwareConversation
<1>3. CASE AtRest
  <2>1. Conversation /\ UNCHANGED <<hw, ccb, ib, target, obf, obuf, outq, pc, config, operational, dual_channel>>
    BY <1>3 DEF AtRest, hwVars, local, Settled, Quiet
  <2> QED BY <2>1
      DEF Conversation, Disabling, Configuring, SelfTesting, Probing, Testing, Enabling, Driving, Opening, Storing,
          Answering, Data, Sent, Silent, Final, Plain, Open, Untested, Tested, Passed, HealthyPort
<1> QED BY <1>1, <1>2, <1>3, StepCases

LEMMA InitSettled ==
    ASSUME Init
    PROVE  Settled
<1>1. pc = "disable_0" /\ ib = <<>> /\ outq = <<>> /\ Untested
  BY DEF Init, InitHw, Untested, Ports
<1> QED BY <1>1
    DEF Settled, Conversation, BeforeTests, AfterPortTests, AtDevice, Calling, Returns,
        Disabling, Configuring, SelfTesting, Probing, Testing, Enabling

LEMMA SettledInvariant == Spec => []Settled
<1>1. Init => Settled
  BY InitSettled
<1>2. Types /\ Settled /\ [Next]_vars => Settled'
  BY NextSettled
<1> QED BY <1>1, <1>2, TypesInvariant, PTL DEF Spec

\* Where the driver stands when it is over: it has returned, or an interrupt has ended
\* it between two accesses of ps2_kbd_init.
LEMMA OverStands ==
    ASSUME Types, Risk, Settled, Over
    PROVE  Conversation /\ Quiet /\ ib = <<>> /\ (pc = "done" \/ (fault /\ pc \in AtDevice))
<1>1. fault => pc \in AtDevice
  BY DEF Risk, Exposed, KbdSteps, AtDevice, Returns, Calling
<1> QED BY <1>1 DEF Over, Stopped, Settled, Quiet

\* When ps2_init is over, undisturbed, exactly the healthy ports are in use: every
\* answer of the forty exchanges went to the read it was meant for.  For every
\* machine, whatever its firmware left in the configuration byte.
THEOREM PortsAlwaysDetected == Spec => []PortsDetected
<1>1. Types /\ Risk /\ Settled => PortsDetected
  BY OverStands DEF Conversation, AfterPortTests, PortsDetected, Tested
<1> QED BY <1>1, TypesInvariant, RiskInvariant, SettledInvariant, PTL

\* ... and every healthy port has its clock running, its interrupt on and its scan
\* codes untranslated, whatever the self test of the controller did.
THEOREM ConfigAlwaysSettled == Spec => []ConfigSettled
<1>1. ASSUME Types, Risk, Settled, Over, NEW p \in Ports, HealthyPort(p)
      PROVE  Bit(ccb, Clock(p)) = 0 /\ Bit(ccb, Interrupt(p)) = 1 /\ Bit(ccb, Translation) = 0
  <2>1. Conversation /\ ib = <<>> /\ pc \in AtDevice \cup {"done"}
    BY <1>1, OverStands
  <2>2. Tested /\ (Untested \/ Driving)
    BY <2>1 DEF Conversation, AfterPortTests
  <2>3. operational[p]
    BY <1>1, <2>2 DEF Tested
  <2>4. ~Untested
    BY <1>1, <2>3 DEF Untested, Ports
  <2>5. Final(ccb)
    BY <2>1, <2>2, <2>4 DEF Driving, Storing, Data
  <2> QED BY <1>1, <2>3, <2>5 DEF Final, Plain, Open
<1>2. Types /\ Risk /\ Settled => ConfigSettled
  BY <1>1 DEF ConfigSettled
<1> QED BY <1>2, TypesInvariant, RiskInvariant, SettledInvariant, PTL
=============================================================================

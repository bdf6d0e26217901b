-------------------------- MODULE InterruptsProofs --------------------------
(* The vectors, masks and descriptors that module Interrupts sets up, and    *)
(* what they lead to, for any lines, any firmware masks and any number of    *)
(* interrupts.                                                               *)
EXTENDS Interrupts, TLAPS

-----------------------------------------------------------------------------
(* The inductive invariant. *)

\* The number of the write that starts a controller's initialisation.
First(c) == IF c = "master" THEN 1 ELSE 2

Wiring(c) == IF c = "master" THEN 4 ELSE 2

\* What a controller expects before the k-th write of pic_remap.
Stage(k, first) ==
    CASE k <= first                     -> "ready"
      [] first < k /\ k <= first + 2     -> "icw2"
      [] first + 2 < k /\ k <= first + 4 -> "icw3"
      [] first + 4 < k /\ k <= first + 6 -> "icw4"
      [] first + 6 < k                  -> "ready"

\* The sequence of initialisation words of each controller is in step with n.
Programmed ==
    /\ n = 11 <=> pc # "remap"
    /\ \A c \in Chips :
           /\ pic[c].step = Stage(n, First(c))
           /\ n > First(c) + 2 => pic[c].offset = Offset[c]
           /\ n > First(c) + 4 => pic[c].wiring = Wiring(c)
           /\ n > First(c) + 6 => pic[c].mode = 1

\* The masks are the firmware's before the first write and after the last one
\* of each controller, up to the keyboard's bit.
MasksKept ==
    /\ saved = firmware
    /\ n = 0 => \A c \in Chips : pic[c].mask = firmware[c]
    /\ n > 9 => pic["master"].mask = IF pc \in {"install", "int", "done"}
                                     THEN Cleared(firmware["master"], KBD_IRQ)
                                     ELSE firmware["master"]
    /\ n > 10 => pic["slave"].mask = firmware["slave"]
    /\ pc = "unmask_write" => value = firmware["master"]

\* Until idt_init nothing is accepted.
ClosedAtFirst == pc \in {"remap", "idt_init"} => Running /\ ~iflag

\* Once interrupts are on, the keyboard's is the only one that gets a descriptor.
Descriptors ==
    idt = [v \in Bytes |->
              IF pc \in {"remap", "idt_init"} THEN "absent"
              ELSE IF v < 32 THEN "exception"
              ELSE IF v = pic_get_vector(KBD_IRQ) /\ pc \in {"int", "done"} THEN "generic_isr_stub"
              ELSE "absent"]

\* Only the keyboard's interrupt is ever in service, while its stub runs and
\* until the stub has sent the end of interrupt.
InService ==
    /\ InServiceEnded
    /\ frame # <<>> =>
         /\ pic["slave"].isr = {} /\ pic["master"].isr \subseteq {KBD_IRQ}
         /\ frame[1].at = "iret" => pic["master"].isr = {}

Requested ==
    /\ pic["master"].irr \subseteq Lines
    /\ \A i \in pic["slave"].irr : i + 8 \in Lines

IInv == /\ TypeOK /\ Programmed /\ MasksKept /\ ClosedAtFirst /\ Descriptors
        /\ InService /\ Requested /\ FaultOnlyUnprepared

-----------------------------------------------------------------------------
(* Bits of a mask. *)

LEMMA BitValue ==
  ASSUME NEW b \in Bytes, NEW i \in Inputs
  PROVE  (b \div 2^i) % 2 \in {0, 1}
<1>1. i \in {0, 1, 2, 3, 4, 5, 6, 7}
  BY DEF Inputs
<1> QED BY <1>1 DEF Bytes

LEMMA HighWeights ==
  ASSUME NEW i \in 2 .. 7
  PROVE  2^i \in {4, 8, 16, 32, 64, 128}
<1>1. i = 2 => 2^i = 4
  OBVIOUS
<1>2. i = 3 => 2^i = 8
  OBVIOUS
<1>3. i = 4 => 2^i = 16
  OBVIOUS
<1>4. i = 5 => 2^i = 32
  OBVIOUS
<1>5. i = 6 => 2^i = 64
  OBVIOUS
<1>6. i = 7 => 2^i = 128
  OBVIOUS
<1> QED BY <1>1, <1>2, <1>3, <1>4, <1>5, <1>6

\* Clearing the keyboard's bit clears that bit and no other.
LEMMA ClearedBit ==
  ASSUME NEW b \in Bytes
  PROVE  /\ Cleared(b, KBD_IRQ) \in Bytes
         /\ (Cleared(b, KBD_IRQ) \div 2^KBD_IRQ) % 2 = 0
         /\ \A i \in Inputs \ {KBD_IRQ} :
                (Cleared(b, KBD_IRQ) \div 2^i) % 2 = (b \div 2^i) % 2
<1>1. Cleared(b, KBD_IRQ) = b - ((b \div 2) % 2) * 2
  BY DEF Cleared, KBD_IRQ, Bytes
<1>2. Cleared(b, KBD_IRQ) \in Bytes
  BY <1>1 DEF Bytes
<1>3. (Cleared(b, KBD_IRQ) \div 2^KBD_IRQ) % 2 = 0
  BY <1>1 DEF KBD_IRQ, Bytes
<1>4. ASSUME NEW i \in Inputs \ {KBD_IRQ}
      PROVE  (Cleared(b, KBD_IRQ) \div 2^i) % 2 = (b \div 2^i) % 2
  <2>2. CASE i = 0
    BY <1>1, <2>2 DEF Bytes
  <2>3. ASSUME NEW w \in {4, 8, 16, 32, 64, 128}
        PROVE  (b - ((b \div 2) % 2) * 2) \div w = b \div w
    BY <2>3 DEF Bytes
  <2>4. ASSUME i # 0 PROVE 2^i \in {4, 8, 16, 32, 64, 128}
    <3>1. i \in 2 .. 7
      BY <2>4 DEF Inputs, KBD_IRQ
    <3> QED BY <3>1, HighWeights
  <2> QED BY <1>1, <2>2, <2>3, <2>4
<1> QED BY <1>2, <1>3, <1>4

-----------------------------------------------------------------------------
(* What a write does to a controller. *)

LEMMA CommandEffect ==
  ASSUME NEW chip \in Chip8259, NEW b \in Bytes
  PROVE  /\ Command(chip, b) \in Chip8259
         /\ b = ICW1 => /\ Command(chip, b).step = "icw2"
                        /\ Command(chip, b).irr = {} /\ Command(chip, b).isr = {}
         /\ b # ICW1 => \A f \in {"step", "offset", "wiring", "mode", "mask", "irr"} :
                            Command(chip, b)[f] = chip[f]
         /\ b \in {PIC_READ_IRR, PIC_READ_ISR} => Command(chip, b).isr = chip.isr
         /\ b = PIC_EOI => Command(chip, b).isr = IF chip.isr = {} THEN {}
                                                  ELSE chip.isr \ {Min(chip.isr)}
<1>1. /\ ICW1 \in Bytes /\ PIC_READ_IRR \in Bytes /\ PIC_READ_ISR \in Bytes /\ PIC_EOI = \h20
      /\ ICW1 # \h20 /\ ICW1 # PIC_READ_IRR /\ ICW1 # PIC_READ_ISR
      /\ PIC_READ_IRR # \h20 /\ PIC_READ_ISR # \h20
  BY DEF ICW1, PIC_READ_IRR, PIC_READ_ISR, Bytes, PIC_EOI
<1>2. CASE b = ICW1
  <2> DEFINE new == [chip EXCEPT !.step = "icw2", !.mask = 0, !.irr = {}, !.isr = {},
                                 !.reading = PIC_READ_IRR]
  <2>1. Command(chip, b) = new
    BY <1>1, <1>2 DEF Command
  <2>2. 0 \in Bytes
    BY DEF Bytes
  <2>3. new \in Chip8259 /\ new.step = "icw2" /\ new.irr = {} /\ new.isr = {}
    BY <2>2, Zenon DEF Chip8259
  <2> HIDE DEF new
  <2> QED BY <1>1, <1>2, <2>1, <2>3
<1>3. CASE b = \h20
  <2> DEFINE left == IF chip.isr = {} THEN {} ELSE chip.isr \ {Min(chip.isr)}
             new == [chip EXCEPT !.isr = left]
  <2>1. Command(chip, b) = new
    BY <1>1, <1>3 DEF Command, Ended
  <2>2. left \subseteq Inputs
    BY DEF Chip8259
  <2> HIDE DEF left
  <2>3. new \in Chip8259 /\ new.isr = left
    BY <2>2, Zenon DEF Chip8259
  <2>4. \A f \in {"step", "offset", "wiring", "mode", "mask", "irr"} : new[f] = chip[f]
    BY Zenon DEF Chip8259
  <2> HIDE DEF new
  <2> QED BY <1>1, <1>3, <2>1, <2>3, <2>4 DEF left
<1>4. CASE b \in {PIC_READ_IRR, PIC_READ_ISR}
  <2> DEFINE new == [chip EXCEPT !.reading = b]
  <2>1. Command(chip, b) = new
    BY <1>1, <1>4 DEF Command
  <2>2. new \in Chip8259 /\ new.isr = chip.isr
    BY <1>4, Zenon DEF Chip8259
  <2>3. \A f \in {"step", "offset", "wiring", "mode", "mask", "irr"} : new[f] = chip[f]
    BY Zenon DEF Chip8259
  <2> HIDE DEF new
  <2> QED BY <1>1, <1>4, <2>1, <2>2, <2>3
<1>5. CASE b \notin {ICW1, \h20, PIC_READ_IRR, PIC_READ_ISR}
  BY <1>1, <1>5 DEF Command
<1> QED BY <1>2, <1>3, <1>4, <1>5

LEMMA DataEffect ==
  ASSUME NEW chip \in Chip8259, NEW b \in Bytes
  PROVE  /\ Data(chip, b) \in Chip8259
         /\ Data(chip, b).irr = chip.irr /\ Data(chip, b).isr = chip.isr
         /\ Data(chip, b).step = CASE chip.step = "icw2" -> "icw3" [] chip.step = "icw3" -> "icw4"
                                   [] chip.step = "icw4" -> "ready" [] chip.step = "ready" -> "ready"
         /\ Data(chip, b).offset = IF chip.step = "icw2" THEN b ELSE chip.offset
         /\ Data(chip, b).wiring = IF chip.step = "icw3" THEN b ELSE chip.wiring
         /\ Data(chip, b).mode = IF chip.step = "icw4" THEN b ELSE chip.mode
         /\ Data(chip, b).mask = IF chip.step = "ready" THEN b ELSE chip.mask
<1>1. CASE chip.step = "icw2"
  <2> DEFINE new == [chip EXCEPT !.step = "icw3", !.offset = b]
  <2>1. Data(chip, b) = new
    BY <1>1 DEF Data
  <2>2. /\ new \in Chip8259 /\ new.step = "icw3" /\ new.offset = b
        /\ \A f \in {"wiring", "mode", "mask", "irr", "isr"} : new[f] = chip[f]
    BY Zenon DEF Chip8259
  <2> HIDE DEF new
  <2> QED BY <1>1, <2>1, <2>2
<1>2. CASE chip.step = "icw3"
  <2> DEFINE new == [chip EXCEPT !.step = "icw4", !.wiring = b]
  <2>1. Data(chip, b) = new
    BY <1>2 DEF Data
  <2>2. /\ new \in Chip8259 /\ new.step = "icw4" /\ new.wiring = b
        /\ \A f \in {"offset", "mode", "mask", "irr", "isr"} : new[f] = chip[f]
    BY Zenon DEF Chip8259
  <2> HIDE DEF new
  <2> QED BY <1>2, <2>1, <2>2
<1>3. CASE chip.step = "icw4"
  <2> DEFINE new == [chip EXCEPT !.step = "ready", !.mode = b]
  <2>1. Data(chip, b) = new
    BY <1>3 DEF Data
  <2>2. /\ new \in Chip8259 /\ new.step = "ready" /\ new.mode = b
        /\ \A f \in {"offset", "wiring", "mask", "irr", "isr"} : new[f] = chip[f]
    BY Zenon DEF Chip8259
  <2> HIDE DEF new
  <2> QED BY <1>3, <2>1, <2>2
<1>4. CASE chip.step = "ready"
  <2> DEFINE new == [chip EXCEPT !.mask = b]
  <2>1. Data(chip, b) = new
    BY <1>4 DEF Data
  <2>2. /\ new \in Chip8259 /\ new.mask = b
        /\ \A f \in {"step", "offset", "wiring", "mode", "irr", "isr"} : new[f] = chip[f]
    BY Zenon DEF Chip8259
  <2> HIDE DEF new
  <2> QED BY <1>4, <2>1, <2>2
<1> QED BY <1>1, <1>2, <1>3, <1>4 DEF Chip8259

-----------------------------------------------------------------------------
(* The writes of pic_remap. *)

Target(k) == IF k % 2 = 1 THEN "master" ELSE "slave"

Byte(k) == CASE k \in {1, 2}  -> ICW1
             [] k \in {3, 4}  -> Offset[Target(k)]
             [] k \in {5, 6}  -> Wiring(Target(k))
             [] k \in {7, 8}  -> 1
             [] k \in {9, 10} -> saved[Target(k)]

\* They alternate between the controllers.
LEMMA RemapWrite ==
  ASSUME NEW k \in 1 .. 10
  PROVE  /\ Len(RemapWrites) = 10
         /\ RemapWrites[k][1] = Target(k)
         /\ RemapWrites[k][2] = IF k <= 2 THEN "command" ELSE "data"
         /\ RemapWrites[k][3] = Byte(k)
<1> USE DEF RemapWrites, Target, Byte, Offset, Wiring
<1>0. Len(RemapWrites) = 10
  OBVIOUS
<1>1. CASE k = 1
  BY <1>0, <1>1
<1>2. CASE k = 2
  BY <1>0, <1>2
<1>3. CASE k = 3
  BY <1>0, <1>3
<1>4. CASE k = 4
  BY <1>0, <1>4
<1>5. CASE k = 5
  BY <1>0, <1>5
<1>6. CASE k = 6
  BY <1>0, <1>6
<1>7. CASE k = 7
  BY <1>0, <1>7
<1>8. CASE k = 8
  BY <1>0, <1>8
<1>9. CASE k = 9
  BY <1>0, <1>9
<1>10. CASE k = 10
  BY <1>0, <1>10
<1> QED BY <1>1, <1>2, <1>3, <1>4, <1>5, <1>6, <1>7, <1>8, <1>9, <1>10

LEMMA InitInv == Init => IInv
<1> SUFFICES ASSUME Init PROVE IInv
  OBVIOUS
<1>1. firmware \in [Chips -> Bytes]
  BY InterruptsAssumption DEF Init
<1>2. \A c \in Chips : /\ pic[c].step = "ready" /\ pic[c].mask = firmware[c]
                       /\ pic[c].irr = {} /\ pic[c].isr = {}
  BY DEF Init
<1>3. pic \in [Chips -> Chip8259]
  BY <1>1 DEF Init, Chip8259, Bytes, PIC_READ_IRR
<1>4. TypeOK
  <2>1. value \in Bytes /\ handlers \subseteq Bytes /\ fault \in Bytes \cup {-1} /\ n \in 0 .. 11
    BY DEF Init, Bytes
  <2>2. raised \in 0 .. MaxRaise
    BY InterruptsAssumption DEF Init
  <2>3. idt \in [Bytes -> {"absent", "exception", "generic_isr_stub"}]
    BY DEF Init
  <2> QED BY <1>1, <1>3, <2>1, <2>2, <2>3 DEF Init, TypeOK
<1>5. Programmed
  BY <1>2 DEF Init, Programmed, Stage, First
<1>6. MasksKept /\ ClosedAtFirst
  BY <1>2 DEF Init, MasksKept, ClosedAtFirst, Running
<1>7. Descriptors
  BY DEF Init, Descriptors
<1>8. InService /\ Requested
  BY <1>2 DEF Init, InService, InServiceEnded, Requested, Chips
<1>9. FaultOnlyUnprepared
  BY DEF Init, FaultOnlyUnprepared
<1> QED BY <1>4, <1>5, <1>6, <1>7, <1>8, <1>9 DEF IInv

-----------------------------------------------------------------------------
(* The kernel's steps. *)

LEMMA RemapStep ==
  ASSUME IInv, pic_remap
  PROVE  IInv'
<1>1. /\ pc = "remap" /\ n \in 0 .. 10 /\ n' = n + 1
      /\ UNCHANGED <<value, iflag, idt, handlers, frame, fault, lost, raised, firmware>>
      /\ TypeOK /\ Running /\ ~iflag
  BY DEF IInv, TypeOK, Programmed, ClosedAtFirst, pic_remap
<1>2. pc' = IF n = 10 THEN "idt_init" ELSE "remap"
  BY RemapWrite DEF pic_remap
<1>3. CASE n = 0
  <2>1. saved' = [c \in Chips |-> pic[c].mask] /\ UNCHANGED pic
    BY <1>3 DEF pic_remap
  <2>2. saved' = firmware
    BY <1>1, <1>3, <2>1 DEF IInv, MasksKept, TypeOK
  <2>3. TypeOK'
    BY <1>1, <1>2, <1>3, <2>1, <2>2 DEF TypeOK
  <2>4. Programmed'
    BY <1>1, <1>2, <1>3, <2>1 DEF IInv, Programmed, Stage, First
  <2>5. MasksKept' /\ ClosedAtFirst' /\ Descriptors'
    BY <1>1, <1>2, <1>3, <2>1, <2>2 DEF IInv, MasksKept, ClosedAtFirst, Descriptors, Running
  <2>6. InService' /\ Requested'
    BY <1>1, <2>1 DEF IInv, InService, InServiceEnded, Requested, Running
  <2>7. FaultOnlyUnprepared'
    BY <1>1 DEF FaultOnlyUnprepared, Running
  <2> QED BY <2>3, <2>4, <2>5, <2>6, <2>7 DEF IInv
<1>4. CASE n \in 1 .. 10
  <2> DEFINE c == Target(n)
             new == IF n <= 2 THEN Command(pic[c], ICW1) ELSE Data(pic[c], Byte(n))
  <2>1. pic' = [pic EXCEPT ![c] = new] /\ UNCHANGED saved
    <3>1. RemapWrites[n][1] = c /\ RemapWrites[n][3] = Byte(n)
          /\ RemapWrites[n][2] = IF n <= 2 THEN "command" ELSE "data"
      BY <1>4, RemapWrite
    <3>2. n <= 2 => Byte(n) = ICW1
      BY <1>4 DEF Byte
    <3> HIDE DEF c
    <3> QED BY <1>4, <3>1, <3>2 DEF pic_remap, Write
  <2>2. c \in Chips /\ pic[c] \in Chip8259 /\ Byte(n) \in Bytes /\ ICW1 \in Bytes
    BY SMTT(30), <1>1, <1>4 DEF TypeOK, Chips, Target, Byte, Offset, Wiring, ICW1, Bytes
  <2>3. /\ new \in Chip8259 /\ new.isr \subseteq pic[c].isr /\ new.irr \subseteq pic[c].irr
    <3>1. CASE n <= 2
      BY <2>2, <3>1, CommandEffect
    <3>2. CASE ~(n <= 2)
      BY <2>2, <3>2, DataEffect
    <3> QED BY <3>1, <3>2
  <2>4. /\ new.step = Stage(n + 1, First(c))
        /\ n + 1 > First(c) + 2 => new.offset = Offset[c]
        /\ n + 1 > First(c) + 4 => new.wiring = Wiring(c)
        /\ n + 1 > First(c) + 6 => new.mode = 1
        /\ n \in {9, 10} => new.mask = firmware[c]
    <3>0. /\ pic[c].step = Stage(n, First(c))
          /\ n > First(c) + 2 => pic[c].offset = Offset[c]
          /\ n > First(c) + 4 => pic[c].wiring = Wiring(c)
          /\ n > First(c) + 6 => pic[c].mode = 1
          /\ saved[c] = firmware[c]
      BY <2>2 DEF IInv, Programmed, MasksKept
    <3>1. n - First(c) \in {0, 2, 4, 6, 8} /\ First(c) \in {1, 2}
      BY <1>4 DEF First, Target
    <3> HIDE DEF c
    <3>2. CASE n - First(c) = 0
      <4>1. n <= 2 /\ ~(n \in {9, 10}) /\ Stage(n + 1, First(c)) = "icw2"
        BY <1>4, <3>1, <3>2 DEF Stage
      <4>2. new.step = "icw2"
        BY <2>2, <4>1, CommandEffect
      <4> QED BY <1>4, <3>1, <3>2, <4>1, <4>2
    <3>3. CASE n - First(c) = 2
      <4>1. /\ n \in {3, 4} /\ ~(n \in {9, 10})
            /\ Stage(n, First(c)) = "icw2" /\ Stage(n + 1, First(c)) = "icw3"
        BY <1>4, <3>1, <3>3 DEF Stage
      <4>2. new.step = "icw3" /\ new.offset = Offset[c]
        BY <2>2, <3>0, <4>1, DataEffect DEF Byte, c
      <4> QED BY <1>4, <3>1, <3>3, <4>1, <4>2
    <3>4. CASE n - First(c) = 4
      <4>1. /\ n \in {5, 6} /\ ~(n \in {9, 10})
            /\ Stage(n, First(c)) = "icw3" /\ Stage(n + 1, First(c)) = "icw4"
        BY <1>4, <3>1, <3>4 DEF Stage
      <4>2. new.step = "icw4" /\ new.offset = Offset[c] /\ new.wiring = Wiring(c)
        BY <2>2, <3>0, <3>1, <3>4, <4>1, DataEffect DEF Byte, c
      <4> QED BY <1>4, <3>1, <3>4, <4>1, <4>2
    <3>5. CASE n - First(c) = 6
      <4>1. /\ n \in {7, 8} /\ ~(n \in {9, 10})
            /\ Stage(n, First(c)) = "icw4" /\ Stage(n + 1, First(c)) = "ready"
        BY <1>4, <3>1, <3>5 DEF Stage
      <4>2. new.step = "ready" /\ new.offset = Offset[c] /\ new.wiring = Wiring(c) /\ new.mode = 1
        BY <2>2, <3>0, <3>1, <3>5, <4>1, DataEffect DEF Byte, c
      <4> QED BY <1>4, <3>1, <3>5, <4>1, <4>2
    <3>6. CASE n - First(c) = 8
      <4>1. n \in {9, 10} /\ Stage(n, First(c)) = "ready" /\ Stage(n + 1, First(c)) = "ready"
        BY <1>4, <3>1, <3>6 DEF Stage
      <4>2. /\ new.step = "ready" /\ new.offset = Offset[c] /\ new.wiring = Wiring(c)
            /\ new.mode = 1 /\ new.mask = firmware[c]
        BY <2>2, <3>0, <3>1, <3>6, <4>1, DataEffect DEF Byte, c
      <4> QED BY <4>1, <4>2
    <3> QED BY <3>1, <3>2, <3>3, <3>4, <3>5, <3>6
  <2> HIDE DEF new
  <2>5. /\ pic' \in [Chips -> Chip8259] /\ pic'[c] = new
        /\ \A d \in Chips : d # c => pic'[d] = pic[d]
    BY <1>1, <2>1, <2>2, <2>3 DEF TypeOK
  <2>6. TypeOK'
    BY <1>1, <1>2, <1>4, <2>1, <2>5 DEF TypeOK
  <2>7. Programmed'
    <3> SUFFICES ASSUME NEW d \in Chips
                 PROVE  /\ pic'[d].step = Stage(n + 1, First(d))
                        /\ n + 1 > First(d) + 2 => pic'[d].offset = Offset[d]
                        /\ n + 1 > First(d) + 4 => pic'[d].wiring = Wiring(d)
                        /\ n + 1 > First(d) + 6 => pic'[d].mode = 1
      BY <1>1, <1>2, <1>4 DEF Programmed
    <3>1. CASE d = c
      BY <2>4, <2>5, <3>1
    <3>2. CASE d # c
      <4>1. /\ n + 1 - First(d) \notin {1, 3, 5, 7, 9} /\ First(d) \in {1, 2}
        BY <1>4, <3>2 DEF First, Target, Chips
      <4>2. /\ Stage(n + 1, First(d)) = Stage(n, First(d))
            /\ n + 1 > First(d) + 2 <=> n > First(d) + 2
            /\ n + 1 > First(d) + 4 <=> n > First(d) + 4
            /\ n + 1 > First(d) + 6 <=> n > First(d) + 6
        BY <1>4, <4>1 DEF Stage
      <4> QED BY <2>5, <3>2, <4>2 DEF IInv, Programmed
    <3> QED BY <3>1, <3>2
  <2>8. MasksKept'
    <3>1. n = 9 => c = "master"
      BY DEF Target
    <3>2. n = 10 => c = "slave" /\ pic["master"].mask = firmware["master"]
      BY <1>1 DEF Target, IInv, MasksKept
    <3> HIDE DEF c
    <3>3. n = 10 => pic'["master"].mask = firmware["master"]
      BY <2>5, <3>2 DEF Chips
    <3> QED BY <1>1, <1>2, <1>4, <2>1, <2>4, <2>5, <3>1, <3>2, <3>3 DEF IInv, MasksKept
  <2>9. ClosedAtFirst' /\ Descriptors' /\ FaultOnlyUnprepared'
    BY <1>1, <1>2 DEF IInv, ClosedAtFirst, Descriptors, FaultOnlyUnprepared, Running
  <2>10. InService' /\ Requested'
    <3>1. \A d \in Chips : pic'[d].isr \subseteq pic[d].isr /\ pic'[d].irr \subseteq pic[d].irr
      BY <2>3, <2>5
    <3> QED BY <1>1, <3>1 DEF IInv, InService, InServiceEnded, Requested, Running, Chips
  <2> QED BY <2>6, <2>7, <2>8, <2>9, <2>10 DEF IInv
<1> QED BY <1>1, <1>3, <1>4

LEMMA IdtInitStep ==
  ASSUME IInv, idt_init
  PROVE  IInv'
<1>1. /\ pc = "idt_init" /\ pc' = "unmask" /\ iflag' = TRUE /\ Running
      /\ idt' = [v \in Bytes |-> IF v < 32 THEN "exception" ELSE idt[v]]
      /\ UNCHANGED <<pic, n, saved, value, handlers, frame, fault, lost, raised, firmware>>
  BY DEF idt_init
<1>2. TypeOK'
  BY <1>1 DEF IInv, TypeOK
<1>3. Programmed' /\ MasksKept' /\ ClosedAtFirst'
  BY <1>1 DEF IInv, Programmed, MasksKept, ClosedAtFirst
<1>4. Descriptors'
  BY <1>1 DEF IInv, Descriptors
<1>5. InService' /\ Requested' /\ FaultOnlyUnprepared'
  BY <1>1 DEF IInv, InService, InServiceEnded, Requested, FaultOnlyUnprepared, Running
<1> QED BY <1>2, <1>3, <1>4, <1>5 DEF IInv

LEMMA ClearMaskStep ==
  ASSUME IInv, irq_clear_mask
  PROVE  IInv'
<1>1. /\ Running
      /\ UNCHANGED <<n, saved, iflag, idt, handlers, frame, fault, lost, raised, firmware>>
      /\ TypeOK
  BY DEF IInv, irq_clear_mask
<1>2. CASE pc = "unmask" /\ value' = pic["master"].mask /\ pc' = "unmask_write" /\ UNCHANGED pic
  <2>1. value' = firmware["master"] /\ value' \in Bytes
    BY <1>1, <1>2 DEF IInv, MasksKept, Programmed, TypeOK, Chips
  <2>2. TypeOK'
    BY <1>1, <1>2, <2>1 DEF TypeOK
  <2>3. Programmed' /\ MasksKept' /\ ClosedAtFirst' /\ Descriptors'
    BY <1>1, <1>2, <2>1 DEF IInv, Programmed, MasksKept, ClosedAtFirst, Descriptors
  <2>4. InService' /\ Requested' /\ FaultOnlyUnprepared'
    BY <1>1, <1>2 DEF IInv, InService, InServiceEnded, Requested, FaultOnlyUnprepared, Running
  <2> QED BY <2>2, <2>3, <2>4 DEF IInv
<1>3. CASE /\ pc = "unmask_write" /\ pc' = "install" /\ UNCHANGED value
           /\ Write("master", "data", Cleared(value, KBD_IRQ))
  <2> DEFINE chip == pic["master"]
             byte == Cleared(value, KBD_IRQ)
             new  == Data(chip, byte)
  <2>1. pic' = [pic EXCEPT !["master"] = new]
    BY <1>3 DEF Write
  <2>2. chip \in Chip8259 /\ byte \in Bytes
    BY <1>1, ClearedBit DEF TypeOK, Chips
  <2>3. chip.step = "ready" /\ n = 11
    BY <1>3 DEF IInv, Programmed, Stage, First, Chips
  <2> HIDE DEF chip, byte
  <2>4. /\ new \in Chip8259 /\ new.mask = byte
        /\ new.irr = chip.irr /\ new.isr = chip.isr /\ new.step = chip.step
        /\ new.offset = chip.offset /\ new.wiring = chip.wiring /\ new.mode = chip.mode
    BY <2>2, <2>3, DataEffect
  <2> HIDE DEF new
  <2>5. /\ pic' \in [Chips -> Chip8259] /\ pic'["master"] = new /\ pic'["slave"] = pic["slave"]
    BY <1>1, <2>1, <2>4 DEF TypeOK, Chips
  <2>6. TypeOK'
    BY <1>1, <1>3, <2>5 DEF TypeOK
  <2>7. Programmed'
    BY <1>1, <1>3, <2>4, <2>5 DEF IInv, Programmed, Chips, chip
  <2>8. MasksKept'
    BY <1>1, <1>3, <2>3, <2>4, <2>5 DEF IInv, MasksKept, byte
  <2>9. ClosedAtFirst' /\ Descriptors' /\ FaultOnlyUnprepared'
    BY <1>1, <1>3 DEF IInv, ClosedAtFirst, Descriptors, FaultOnlyUnprepared, Running
  <2>10. InService' /\ Requested'
    BY <1>1, <2>4, <2>5 DEF IInv, InService, InServiceEnded, Requested, Running, Chips, chip
  <2> QED BY <2>6, <2>7, <2>8, <2>9, <2>10 DEF IInv
<1> QED BY <1>2, <1>3 DEF irq_clear_mask

LEMMA InstallStep ==
  ASSUME IInv, idt_install_irq_handler
  PROVE  IInv'
<1>1. /\ pc = "install" /\ pc' = "int" /\ Running
      /\ idt' = [idt EXCEPT ![pic_get_vector(KBD_IRQ)] = "generic_isr_stub"]
      /\ handlers' = handlers \cup {pic_get_vector(KBD_IRQ)}
      /\ UNCHANGED <<pic, n, saved, value, iflag, frame, fault, lost, raised, firmware>>
  BY DEF idt_install_irq_handler
<1>2. pic_get_vector(KBD_IRQ) = 33 /\ 33 \in Bytes
  BY DEF pic_get_vector, KBD_IRQ, Offset, Bytes
<1>3. TypeOK'
  BY <1>1, <1>2 DEF IInv, TypeOK
<1>4. Programmed' /\ MasksKept' /\ ClosedAtFirst'
  BY <1>1 DEF IInv, Programmed, MasksKept, ClosedAtFirst
<1>5. Descriptors'
  BY <1>1, <1>2 DEF IInv, Descriptors
<1>6. InService' /\ Requested' /\ FaultOnlyUnprepared'
  BY <1>1 DEF IInv, InService, InServiceEnded, Requested, FaultOnlyUnprepared, Running
<1> QED BY <1>3, <1>4, <1>5, <1>6 DEF IInv

\* int $0x21 finds the descriptor just installed.
LEMMA TriggerStep ==
  ASSUME IInv, trigger_interrupt
  PROVE  IInv'
<1>1. /\ pc = "int" /\ pc' = "done" /\ Running
      /\ UNCHANGED <<pic, n, saved, value, idt, handlers, raised, firmware, lost>>
      /\ iflag' = FALSE /\ Enter(33)
  BY DEF trigger_interrupt, Enter
<1>2. idt[33] = "generic_isr_stub"
  BY <1>1 DEF IInv, Descriptors, pic_get_vector, KBD_IRQ, Offset, Bytes
<1> DEFINE f == [vector |-> 33, at |-> "dispatch", iflag |-> iflag]
<1>3. frame' = <<f>> /\ UNCHANGED fault
  BY <1>1, <1>2 DEF Enter
<1>4. f \in Frame /\ f.at = "dispatch"
  BY DEF Frame, Bytes, IInv, TypeOK
<1> HIDE DEF f
<1>5. TypeOK'
  BY <1>1, <1>3, <1>4 DEF IInv, TypeOK
<1>6. Programmed' /\ MasksKept' /\ ClosedAtFirst' /\ Descriptors'
  BY <1>1 DEF IInv, Programmed, MasksKept, ClosedAtFirst, Descriptors
<1>7. InService'
  BY <1>1, <1>3, <1>4 DEF IInv, InService, InServiceEnded, Running, Chips
<1>8. Requested' /\ FaultOnlyUnprepared'
  BY <1>1, <1>3 DEF IInv, Requested, FaultOnlyUnprepared, Running
<1> QED BY <1>5, <1>6, <1>7, <1>8 DEF IInv

LEMMA NoKeyboardStep ==
  ASSUME IInv, no_keyboard
  PROVE  IInv'
<1>1. /\ pc = "unmask" /\ pc' = "idle" /\ Running
      /\ UNCHANGED <<pic, iflag, n, saved, value, idt, handlers, frame, fault, lost, raised, firmware>>
  BY DEF no_keyboard
<1>2. TypeOK' /\ Programmed' /\ MasksKept'
  BY <1>1 DEF IInv, TypeOK, Programmed, MasksKept
<1>3. ClosedAtFirst' /\ Descriptors'
  BY <1>1 DEF IInv, ClosedAtFirst, Descriptors
<1>4. InService' /\ Requested' /\ FaultOnlyUnprepared'
  BY <1>1 DEF IInv, InService, InServiceEnded, Requested, FaultOnlyUnprepared, Running
<1> QED BY <1>2, <1>3, <1>4 DEF IInv

-----------------------------------------------------------------------------
(* What the invariant says about masks and vectors. *)

LEMMA InvMasks == IInv => MasksRestored
<1> SUFFICES ASSUME IInv, pc # "remap"
             PROVE  /\ pic["slave"].mask = firmware["slave"]
                    /\ \A i \in Inputs \ {KBD_IRQ} : Masked(pic["master"], i) = ~Unmasked(i)
                    /\ Masked(pic["master"], KBD_IRQ) =
                          (pc \in {"idt_init", "unmask", "unmask_write", "idle"} /\ ~Unmasked(KBD_IRQ))
  BY DEF MasksRestored
<1> DEFINE fw == firmware["master"]
           m  == pic["master"].mask
<1>1. n = 11 /\ pic["slave"].mask = firmware["slave"] /\ fw \in Bytes
  BY DEF IInv, Programmed, MasksKept, TypeOK, Chips
<1>2. m = IF pc \in {"install", "int", "done"} THEN Cleared(fw, KBD_IRQ) ELSE fw
  BY <1>1 DEF IInv, MasksKept
<1>3. \A i \in Inputs : Unmasked(i) <=> (fw \div 2^i) % 2 = 0
  BY DEF Unmasked, Inputs
<1>4. \A i \in Inputs : Masked(pic["master"], i) <=> (m \div 2^i) % 2 = 1
  BY DEF Masked
<1> HIDE DEF fw, m
<1>5. ASSUME NEW i \in Inputs \ {KBD_IRQ}
      PROVE  Masked(pic["master"], i) <=> ~Unmasked(i)
  <2>1. (m \div 2^i) % 2 = (fw \div 2^i) % 2
    BY <1>1, <1>2, ClearedBit
  <2>2. (fw \div 2^i) % 2 \in {0, 1}
    BY <1>1, BitValue
  <2> QED BY <1>3, <1>4, <2>1, <2>2
<1>6. Masked(pic["master"], KBD_IRQ) <=>
          (pc \in {"idt_init", "unmask", "unmask_write", "idle"} /\ ~Unmasked(KBD_IRQ))
  <2>1. KBD_IRQ \in Inputs
    BY DEF KBD_IRQ, Inputs
  <2>2. CASE pc \in {"install", "int", "done"}
    <3>1. (m \div 2^KBD_IRQ) % 2 = 0
      BY <1>1, <1>2, <2>2, ClearedBit
    <3> QED BY <1>4, <2>1, <2>2, <3>1
  <2>3. CASE pc \in {"idt_init", "unmask", "unmask_write", "idle"}
    <3>1. (m \div 2^KBD_IRQ) % 2 \in {0, 1} /\ m = fw
      BY <1>1, <1>2, <2>1, <2>3, BitValue
    <3> QED BY <1>3, <1>4, <2>1, <2>3, <3>1
  <2> QED BY <2>2, <2>3 DEF IInv, TypeOK
<1>7. /\ \A i \in Inputs \ {KBD_IRQ} : Masked(pic["master"], i) = ~Unmasked(i)
      /\ Masked(pic["master"], KBD_IRQ) =
             (pc \in {"idt_init", "unmask", "unmask_write", "idle"} /\ ~Unmasked(KBD_IRQ))
  BY <1>5, <1>6 DEF Masked
<1> QED BY <1>1, <1>7

LEMMA InvSettings ==
  ASSUME IInv, pc # "remap", NEW c \in Chips
  PROVE  /\ pic[c].step = "ready" /\ pic[c].mode = 1
         /\ pic[c].offset = Offset[c] /\ pic[c].wiring = Wiring(c)
<1>1. n = 11 /\ First(c) \in {1, 2}
  BY DEF IInv, Programmed, First
<1> QED BY <1>1 DEF IInv, Programmed, Stage

LEMMA InvVectors == IInv => VectorsMatch
<1> SUFFICES ASSUME IInv, pc # "remap" PROVE VectorsMatch
  BY DEF VectorsMatch
<1>1. /\ pic["master"].offset = 32 /\ pic["slave"].offset = 40
      /\ pic["master"].wiring = 4 /\ pic["slave"].wiring = 2
  BY InvSettings DEF Chips, Offset, Wiring
<1>2. \A irq \in 0 .. 15 : Delivered(irq) = pic_get_vector(irq) /\ Delivered(irq) >= 32
  BY <1>1 DEF Delivered, pic_get_vector, Offset
<1>3. 2^pic["slave"].wiring = 4
  BY <1>1
<1> QED BY <1>1, <1>2, <1>3, InvSettings DEF VectorsMatch

-----------------------------------------------------------------------------
(* Devices and handlers. *)

LEMMA RaiseStep ==
  ASSUME IInv, Raise
  PROVE  IInv'
<1>1. PICK irq \in Lines :
          IF irq < 8 THEN pic' = [pic EXCEPT !["master"].irr = @ \cup {irq}]
                     ELSE pic' = [pic EXCEPT !["slave"].irr = @ \cup {irq - 8}]
  BY DEF Raise
<1> DEFINE c == IF irq < 8 THEN "master" ELSE "slave"
           i == IF irq < 8 THEN irq ELSE irq - 8
           new == [pic[c] EXCEPT !.irr = @ \cup {i}]
<1>2. pic' = [pic EXCEPT ![c] = new]
  BY <1>1
<1>3. /\ raised' = raised + 1 /\ raised < MaxRaise
      /\ UNCHANGED <<pc, n, saved, value, idt, handlers, iflag, frame, fault, lost, firmware>>
  BY DEF Raise, kernel, cpu
<1>4. irq \in 0 .. 15 /\ i \in Inputs /\ c \in Chips
  BY InterruptsAssumption DEF Inputs, Chips
<1>5. pic[c] \in Chip8259
  BY <1>4 DEF IInv, TypeOK
<1>6. /\ new \in Chip8259 /\ new.irr = pic[c].irr \cup {i}
      /\ \A f \in {"step", "offset", "wiring", "mode", "mask", "isr"} : new[f] = pic[c][f]
  <2> HIDE DEF c, i
  <2>1. pic[c].irr \cup {i} \subseteq Inputs
    BY <1>4, <1>5 DEF Chip8259
  <2> QED BY <1>5, <2>1, Zenon DEF Chip8259
<1>7. IF irq < 8 THEN c = "master" /\ i \in Lines ELSE c = "slave" /\ i + 8 \in Lines
  BY <1>4
<1> HIDE DEF c, i, new
<1>8. /\ pic' \in [Chips -> Chip8259] /\ pic'[c] = new
      /\ \A d \in Chips : d # c => pic'[d] = pic[d]
  BY <1>2, <1>4, <1>6 DEF IInv, TypeOK
<1>9. \A d \in Chips : /\ pic'[d].step = pic[d].step /\ pic'[d].offset = pic[d].offset
                       /\ pic'[d].wiring = pic[d].wiring /\ pic'[d].mode = pic[d].mode
                       /\ pic'[d].mask = pic[d].mask /\ pic'[d].isr = pic[d].isr
  BY <1>6, <1>8
<1>10. TypeOK'
  BY <1>3, <1>8, InterruptsAssumption DEF IInv, TypeOK
<1>11. Programmed' /\ MasksKept'
  BY <1>3, <1>9 DEF IInv, Programmed, MasksKept, Chips
<1>12. ClosedAtFirst' /\ Descriptors' /\ FaultOnlyUnprepared'
  BY <1>3 DEF IInv, ClosedAtFirst, Descriptors, FaultOnlyUnprepared, Running, Unmasked
<1>13. InService'
  BY <1>3, <1>9 DEF IInv, InService, InServiceEnded, Running, Chips
<1>14. Requested'
  BY <1>4, <1>6, <1>7, <1>8 DEF IInv, Requested, Chips
<1> QED BY <1>10, <1>11, <1>12, <1>13, <1>14 DEF IInv

\* What a controller signals is requested and not masked.
LEMMA SignalledRequest ==
  ASSUME NEW chip, NEW requests, NEW i \in Signalled(chip, requests)
  PROVE  i \in requests /\ ~Masked(chip, i)
BY DEF Signalled

\* Registers that accepting an interrupt leaves alone.
SameSettings == \A d \in Chips :
    /\ pic'[d].step = pic[d].step /\ pic'[d].offset = pic[d].offset
    /\ pic'[d].wiring = pic[d].wiring /\ pic'[d].mode = pic[d].mode
    /\ pic'[d].mask = pic[d].mask

\* An interrupt without a descriptor ends the kernel; it is one of those named
\* in FaultOnlyUnprepared.
LEMMA FaultStep ==
  ASSUME IInv, NEW irq \in Lines, idt[pic_get_vector(irq)] # "generic_isr_stub",
         Running, iflag,
         irq = KBD_IRQ => ~Masked(pic["master"], KBD_IRQ),
         irq # KBD_IRQ => Unmasked(irq),
         Enter(pic_get_vector(irq)),
         UNCHANGED <<pc, n, saved, value, idt, handlers, raised, firmware>>,
         pic' \in [Chips -> Chip8259], SameSettings,
         \A d \in Chips : pic'[d].irr \subseteq pic[d].irr
  PROVE  IInv'
<1> DEFINE v == pic_get_vector(irq)
<1>1. irq \in 0 .. 15 /\ v \in Bytes /\ v # -1
  BY InterruptsAssumption DEF pic_get_vector, Offset, Bytes
<1>2. fault' = v /\ iflag' = FALSE /\ UNCHANGED <<frame, lost>>
  BY DEF Enter
<1>3. pc \notin {"remap", "idt_init"}
  BY DEF IInv, ClosedAtFirst
<1>4. irq = KBD_IRQ => pc \in {"unmask", "unmask_write", "install", "idle"}
  <2> SUFFICES ASSUME irq = KBD_IRQ, pc \in {"int", "done"} PROVE FALSE
    BY <1>3 DEF IInv, TypeOK
  <2> QED BY <1>1 DEF IInv, Descriptors, pic_get_vector, KBD_IRQ, Offset
<1>5. Unmasked(irq) \/ (irq = KBD_IRQ /\ pc = "install")
  <2>1. MasksRestored
    BY InvMasks
  <2>2. CASE irq = KBD_IRQ
    BY <1>3, <1>4, <2>1, <2>2 DEF MasksRestored
  <2> QED BY <2>2
<1>6. FaultOnlyUnprepared'
  <2>1. Unmasked(irq)' = Unmasked(irq)
    BY DEF Unmasked
  <2> QED BY <1>2, <1>3, <1>4, <1>5, <2>1 DEF FaultOnlyUnprepared
<1>7. TypeOK'
  BY <1>1, <1>2 DEF IInv, TypeOK
<1>8. Programmed' /\ MasksKept'
  BY DEF SameSettings, IInv, Programmed, MasksKept, Chips
<1>9. ClosedAtFirst' /\ Descriptors'
  BY <1>3 DEF IInv, ClosedAtFirst, Descriptors
<1>10. InService' /\ Requested'
  BY <1>1, <1>2 DEF IInv, InService, InServiceEnded, Requested, Running, Chips
<1> QED BY <1>6, <1>7, <1>8, <1>9, <1>10 DEF IInv

LEMMA AcceptStep ==
  ASSUME IInv, Accept
  PROVE  IInv'
<1>1. /\ Running /\ iflag /\ TypeOK
      /\ UNCHANGED <<pc, n, saved, value, idt, handlers, raised, firmware>>
  BY DEF Accept, kernel, IInv
<1>2. pc \notin {"remap", "idt_init"}
  BY <1>1 DEF IInv, ClosedAtFirst
<1>3. MasksRestored
  BY InvMasks
<1>4. pic["master"].offset = 32 /\ pic["slave"].offset = 40
  BY <1>2, InvSettings DEF Chips, Offset
<1>5. pic["master"] \in Chip8259 /\ pic["slave"] \in Chip8259
  BY <1>1 DEF TypeOK, Chips
<1>6. PICK m \in MasterSignals :
           IF m = 2 /\ SlaveSignals # {}
           THEN \E i \in SlaveSignals :
                    /\ pic' = [pic EXCEPT !["master"].isr = @ \cup {2},
                                          !["slave"].isr = @ \cup {i}, !["slave"].irr = @ \ {i}]
                    /\ Enter(pic["slave"].offset + i)
           ELSE /\ pic' = [pic EXCEPT !["master"].isr = @ \cup {m}, !["master"].irr = @ \ {m}]
                /\ Enter(pic["master"].offset + m)
  BY DEF Accept
<1>7. /\ m \in pic["master"].irr \cup (IF SlaveSignals = {} THEN {} ELSE {2})
      /\ ~Masked(pic["master"], m)
  BY <1>6, SignalledRequest DEF MasterSignals
<1>8. m \in Inputs /\ 2 \in Inputs
  BY <1>5, <1>7 DEF Chip8259, Inputs
<1>9. m # KBD_IRQ => Unmasked(m)
  BY <1>2, <1>3, <1>7, <1>8 DEF MasksRestored
<1>10. CASE m = 2 /\ SlaveSignals # {}
  <2>1. PICK i \in SlaveSignals :
            /\ pic' = [pic EXCEPT !["master"].isr = @ \cup {2},
                                  !["slave"].isr = @ \cup {i}, !["slave"].irr = @ \ {i}]
            /\ Enter(pic["slave"].offset + i)
    BY <1>6, <1>10
  <2>2. i \in pic["slave"].irr /\ ~Masked(pic["slave"], i)
    BY SignalledRequest DEF SlaveSignals
  <2>3. i \in Inputs /\ i + 8 \in Lines
    BY <1>5, <2>2 DEF Chip8259, IInv, Requested
  <2>4. /\ i + 8 # KBD_IRQ /\ pic_get_vector(i + 8) = 40 + i /\ 40 + i \in Bytes /\ 40 + i # 33
    BY <2>3 DEF Inputs, KBD_IRQ, pic_get_vector, Offset, Bytes
  <2>5. idt[40 + i] # "generic_isr_stub"
    BY <1>2, <2>4 DEF IInv, Descriptors, pic_get_vector, KBD_IRQ, Offset
  <2>6. Unmasked(i + 8)
    <3>1. (firmware["slave"] \div 2^i) % 2 = 0
      <4>1. pic["slave"].mask = firmware["slave"] /\ firmware["slave"] \in Bytes
        BY <1>1, <1>2, <1>3 DEF MasksRestored, TypeOK, Chips
      <4>2. (firmware["slave"] \div 2^i) % 2 # 1
        BY <2>2, <4>1 DEF Masked
      <4> QED BY <2>3, <4>1, <4>2, BitValue
    <3>2. (firmware["master"] \div 4) % 2 = 0
      BY <1>9, <1>10 DEF Unmasked, KBD_IRQ
    <3>3. (i + 8) - 8 = i /\ ~(i + 8 < 8)
      BY <2>3 DEF Inputs
    <3> QED BY <3>1, <3>2, <3>3 DEF Unmasked
  <2> DEFINE ms == [pic["master"] EXCEPT !.isr = @ \cup {2}]
             sl == [pic["slave"] EXCEPT !.isr = @ \cup {i}, !.irr = @ \ {i}]
  <2>7. pic' = [pic EXCEPT !["master"] = ms, !["slave"] = sl]
    BY <1>1, <2>1, Zenon DEF TypeOK, Chips
  <2>8. /\ ms \in Chip8259 /\ ms.irr = pic["master"].irr
        /\ \A f \in {"step", "offset", "wiring", "mode", "mask"} : ms[f] = pic["master"][f]
    <3>1. pic["master"].isr \cup {2} \subseteq Inputs
      BY <1>5, <1>8 DEF Chip8259
    <3> QED BY <1>5, <3>1, Zenon DEF Chip8259
  <2>9. /\ sl \in Chip8259 /\ sl.irr \subseteq pic["slave"].irr
        /\ \A f \in {"step", "offset", "wiring", "mode", "mask"} : sl[f] = pic["slave"][f]
    <3>1. /\ pic["slave"].isr \cup {i} \subseteq Inputs
          /\ pic["slave"].irr \ {i} \subseteq Inputs
      BY <1>5, <2>3 DEF Chip8259
    <3> QED BY <1>5, <3>1, Zenon DEF Chip8259
  <2> HIDE DEF ms, sl
  <2>10. /\ pic' \in [Chips -> Chip8259] /\ pic'["master"] = ms /\ pic'["slave"] = sl
    BY <1>1, <2>7, <2>8, <2>9 DEF TypeOK, Chips
  <2>11. SameSettings /\ \A d \in Chips : pic'[d].irr \subseteq pic[d].irr
    BY <2>8, <2>9, <2>10 DEF SameSettings, Chips
  <2>12. Enter(pic_get_vector(i + 8))
    BY <1>4, <2>1, <2>4
  <2> QED BY <1>1, <2>3, <2>4, <2>5, <2>6, <2>10, <2>11, <2>12, FaultStep
<1>11. CASE ~(m = 2 /\ SlaveSignals # {})
  <2>1. m \in pic["master"].irr /\ m \in Lines
    BY <1>7, <1>11 DEF IInv, Requested
  <2>2. pic_get_vector(m) = 32 + m
    BY <1>8 DEF Inputs, pic_get_vector, Offset
  <2>3. Enter(pic_get_vector(m))
    BY <1>4, <1>6, <1>11, <2>2
  <2> DEFINE ms == [pic["master"] EXCEPT !.isr = @ \cup {m}, !.irr = @ \ {m}]
  <2>4. pic' = [pic EXCEPT !["master"] = ms]
    BY <1>6, <1>11
  <2>5. /\ ms \in Chip8259 /\ ms.irr \subseteq pic["master"].irr
        /\ ms.isr = pic["master"].isr \cup {m}
        /\ \A f \in {"step", "offset", "wiring", "mode", "mask"} : ms[f] = pic["master"][f]
    <3>1. /\ pic["master"].isr \cup {m} \subseteq Inputs
          /\ pic["master"].irr \ {m} \subseteq Inputs
      BY <1>5, <1>8 DEF Chip8259
    <3> QED BY <1>5, <3>1, Zenon DEF Chip8259
  <2> HIDE DEF ms
  <2>6. /\ pic' \in [Chips -> Chip8259] /\ pic'["master"] = ms /\ pic'["slave"] = pic["slave"]
    BY <1>1, <2>4, <2>5 DEF TypeOK, Chips
  <2>7. SameSettings /\ \A d \in Chips : pic'[d].irr \subseteq pic[d].irr
    BY <2>5, <2>6 DEF SameSettings, Chips
  <2>8. CASE idt[pic_get_vector(m)] # "generic_isr_stub"
    BY <1>1, <1>7, <1>9, <2>1, <2>3, <2>6, <2>7, <2>8, FaultStep
  <2>9. CASE idt[pic_get_vector(m)] = "generic_isr_stub"
    <3>1. m = KBD_IRQ
      BY <1>8, <2>2, <2>9 DEF IInv, Descriptors, Inputs, Bytes, pic_get_vector, KBD_IRQ, Offset
    <3> DEFINE f == [vector |-> pic_get_vector(m), at |-> "dispatch", iflag |-> iflag]
    <3>2. frame' = <<f>> /\ iflag' = FALSE /\ UNCHANGED <<fault, lost>>
      BY <2>3, <2>9 DEF Enter
    <3>3. f \in Frame /\ f.at = "dispatch"
      BY <1>1, <1>8, <2>2 DEF Frame, Bytes, Inputs, TypeOK
    <3> HIDE DEF f
    <3>4. TypeOK'
      BY <1>1, <2>6, <3>2, <3>3 DEF TypeOK
    <3>5. Programmed' /\ MasksKept'
      BY <1>1, <2>7 DEF SameSettings, IInv, Programmed, MasksKept, Chips
    <3>6. ClosedAtFirst' /\ Descriptors'
      BY <1>1, <1>2 DEF IInv, ClosedAtFirst, Descriptors
    <3>7. InService'
      BY <1>1, <2>5, <2>6, <3>1, <3>2, <3>3 DEF IInv, InService, InServiceEnded, Running, Chips
    <3>8. Requested' /\ FaultOnlyUnprepared'
      BY <1>1, <2>7, <3>2 DEF IInv, Requested, FaultOnlyUnprepared, Running, Chips
    <3> QED BY <3>4, <3>5, <3>6, <3>7, <3>8 DEF IInv
  <2> QED BY <2>8, <2>9
<1> QED BY <1>10, <1>11

LEMMA HandlerStep ==
  ASSUME IInv, generic_handler
  PROVE  IInv'
<1> DEFINE read(c) == Command(Command(pic[c], PIC_READ_ISR), PIC_READ_IRR)
<1>1. /\ frame # <<>> /\ frame[1].at = "dispatch"
      /\ lost' \in BOOLEAN
      /\ frame' \in {frame, [frame EXCEPT ![1].at = "eoi"]}
      /\ pic' = [c \in Chips |-> read(c)]
      /\ UNCHANGED <<pc, n, saved, value, idt, handlers, iflag, fault, raised, firmware>>
  BY DEF generic_handler, kernel, pic_get_irq_reg
<1>2. \A c \in Chips : /\ read(c) \in Chip8259 /\ read(c).isr = pic[c].isr
                       /\ \A f \in {"step", "offset", "wiring", "mode", "mask", "irr"} :
                              read(c)[f] = pic[c][f]
  <2>1. /\ PIC_READ_ISR \in Bytes /\ PIC_READ_ISR # ICW1
        /\ PIC_READ_IRR \in Bytes /\ PIC_READ_IRR # ICW1
    BY DEF Bytes, PIC_READ_IRR, PIC_READ_ISR, ICW1
  <2> SUFFICES ASSUME NEW c \in Chips
               PROVE  /\ read(c) \in Chip8259 /\ read(c).isr = pic[c].isr
                      /\ \A f \in {"step", "offset", "wiring", "mode", "mask", "irr"} :
                             read(c)[f] = pic[c][f]
    OBVIOUS
  <2>2. pic[c] \in Chip8259
    BY DEF IInv, TypeOK
  <2> DEFINE first == Command(pic[c], PIC_READ_ISR)
  <2>3. /\ first \in Chip8259 /\ first.isr = pic[c].isr
        /\ \A f \in {"step", "offset", "wiring", "mode", "mask", "irr"} : first[f] = pic[c][f]
    BY <2>1, <2>2, CommandEffect
  <2> HIDE DEF first
  <2>4. /\ Command(first, PIC_READ_IRR) \in Chip8259
        /\ Command(first, PIC_READ_IRR).isr = first.isr
        /\ \A f \in {"step", "offset", "wiring", "mode", "mask", "irr"} :
               Command(first, PIC_READ_IRR)[f] = first[f]
    BY <2>1, <2>3, CommandEffect
  <2> QED BY <2>3, <2>4 DEF first
<1> HIDE DEF read
<1>3. /\ pic' \in [Chips -> Chip8259]
      /\ \A c \in Chips : /\ pic'[c].isr = pic[c].isr /\ pic'[c].irr = pic[c].irr
                          /\ pic'[c].step = pic[c].step /\ pic'[c].mask = pic[c].mask
                          /\ pic'[c].offset = pic[c].offset /\ pic'[c].wiring = pic[c].wiring
                          /\ pic'[c].mode = pic[c].mode
  BY <1>1, <1>2
<1>4. PICK f \in Frame : frame = <<f>>
  BY <1>1 DEF IInv, TypeOK
<1> DEFINE g == [f EXCEPT !.at = "eoi"]
<1>5. frame' \in {<<f>>, <<g>>} /\ f.at = "dispatch"
  BY <1>1, <1>4
<1>6. g \in Frame /\ g.at = "eoi"
  BY Zenon DEF Frame
<1> HIDE DEF g
<1>7. TypeOK'
  BY <1>1, <1>3, <1>4, <1>5, <1>6 DEF IInv, TypeOK
<1>8. pc \notin {"remap", "idt_init"}
  BY <1>1 DEF IInv, ClosedAtFirst, Running
<1>9. Programmed' /\ MasksKept' /\ ClosedAtFirst' /\ Descriptors'
  BY <1>1, <1>3, <1>8 DEF IInv, Programmed, MasksKept, ClosedAtFirst, Descriptors, Chips
<1>10. InService'
  BY <1>1, <1>3, <1>4, <1>5, <1>6 DEF IInv, InService, InServiceEnded, Running, Chips
<1>11. Requested' /\ FaultOnlyUnprepared'
  BY <1>1, <1>3 DEF IInv, Requested, FaultOnlyUnprepared, Unmasked, Chips
<1> QED BY <1>7, <1>9, <1>10, <1>11 DEF IInv

\* The end of interrupt clears the keyboard's bit, the only one in service.
LEMMA EoiStep ==
  ASSUME IInv, stub_eoi
  PROVE  IInv'
<1> DEFINE chip == pic["master"]
           new == Command(chip, PIC_EOI)
<1>1. /\ frame # <<>> /\ frame[1].at = "eoi"
      /\ frame' = [frame EXCEPT ![1].at = "iret"]
      /\ pic' = [pic EXCEPT !["master"] = new]
      /\ UNCHANGED <<pc, n, saved, value, idt, handlers, iflag, fault, lost, raised, firmware>>
  BY DEF stub_eoi, kernel, Write
<1>2. chip \in Chip8259 /\ PIC_EOI \in Bytes /\ PIC_EOI # ICW1
  BY DEF IInv, TypeOK, Chips, PIC_EOI, ICW1, Bytes
<1>3. chip.isr \in {{}, {KBD_IRQ}}
  BY <1>1 DEF IInv, InService
<1>4. chip.isr = {KBD_IRQ} => Min(chip.isr) = KBD_IRQ
  BY DEF Min, KBD_IRQ
<1> HIDE DEF chip
<1>5. /\ new \in Chip8259 /\ new.isr = {}
      /\ \A f \in {"step", "offset", "wiring", "mode", "mask", "irr"} : new[f] = chip[f]
  BY ZenonT(40), <1>2, <1>3, <1>4, CommandEffect
<1> HIDE DEF new
<1>6. /\ pic' \in [Chips -> Chip8259]
      /\ pic'["master"] = new /\ pic'["slave"] = pic["slave"]
      /\ \A c \in Chips : /\ pic'[c].irr = pic[c].irr
                          /\ pic'[c].step = pic[c].step /\ pic'[c].mask = pic[c].mask
                          /\ pic'[c].offset = pic[c].offset /\ pic'[c].wiring = pic[c].wiring
                          /\ pic'[c].mode = pic[c].mode
  BY <1>1, <1>5 DEF IInv, TypeOK, Chips, chip
<1>7. PICK f \in Frame : frame = <<f>>
  BY <1>1 DEF IInv, TypeOK
<1> DEFINE g == [f EXCEPT !.at = "iret"]
<1>8. frame' = <<g>>
  BY <1>1, <1>7
<1>9. g \in Frame
  BY Zenon DEF Frame
<1> HIDE DEF g
<1>10. TypeOK'
  BY <1>1, <1>6, <1>8, <1>9 DEF IInv, TypeOK
<1>11. pc \notin {"remap", "idt_init"}
  BY <1>1 DEF IInv, ClosedAtFirst, Running
<1>12. Programmed' /\ MasksKept' /\ ClosedAtFirst' /\ Descriptors'
  BY <1>1, <1>6, <1>11 DEF IInv, Programmed, MasksKept, ClosedAtFirst, Descriptors, Chips
<1>13. InService'
  BY <1>1, <1>5, <1>6, <1>8 DEF IInv, InService, InServiceEnded, Running, Chips
<1>14. Requested' /\ FaultOnlyUnprepared'
  BY <1>1, <1>6 DEF IInv, Requested, FaultOnlyUnprepared, Unmasked, Chips
<1> QED BY <1>10, <1>12, <1>13, <1>14 DEF IInv

LEMMA IretStep ==
  ASSUME IInv, stub_iret
  PROVE  IInv'
<1>1. /\ frame # <<>> /\ frame[1].at = "iret"
      /\ frame' = <<>> /\ iflag' = frame[1].iflag
      /\ UNCHANGED <<pic, pc, n, saved, value, idt, handlers, fault, lost, raised, firmware>>
  BY DEF stub_iret, kernel
<1>2. PICK f \in Frame : frame = <<f>>
  BY <1>1 DEF IInv, TypeOK
<1>3. iflag' \in BOOLEAN
  BY <1>1, <1>2 DEF Frame
<1>4. TypeOK'
  BY <1>1, <1>3 DEF IInv, TypeOK
<1>5. pc \notin {"remap", "idt_init"}
  BY <1>1 DEF IInv, ClosedAtFirst, Running
<1>6. Programmed' /\ MasksKept' /\ ClosedAtFirst' /\ Descriptors'
  BY <1>1, <1>5 DEF IInv, Programmed, MasksKept, ClosedAtFirst, Descriptors
<1>7. InService'
  BY <1>1 DEF IInv, InService, InServiceEnded, Running, Chips
<1>8. Requested' /\ FaultOnlyUnprepared'
  BY <1>1 DEF IInv, Requested, FaultOnlyUnprepared, Unmasked
<1> QED BY <1>4, <1>6, <1>7, <1>8 DEF IInv

LEMMA StepInv == IInv /\ [Next]_vars => IInv'
<1> SUFFICES ASSUME IInv, [Next]_vars PROVE IInv'
  OBVIOUS
<1>1. CASE Main
  BY <1>1, RemapStep, IdtInitStep, ClearMaskStep, InstallStep, TriggerStep, NoKeyboardStep DEF Main
<1>2. CASE Raise \/ Accept
  BY <1>2, RaiseStep, AcceptStep
<1>3. CASE generic_isr_stub
  BY <1>3, HandlerStep, EoiStep, IretStep DEF generic_isr_stub
<1>4. CASE hang \/ Gone \/ UNCHANGED vars
  <2>1. UNCHANGED <<pic, pc, n, saved, value, iflag, idt, handlers, frame, fault, lost, raised, firmware>>
    BY <1>4 DEF hang, Gone, vars
  <2>2. TypeOK' /\ Programmed' /\ MasksKept'
    BY <2>1 DEF IInv, TypeOK, Programmed, MasksKept
  <2>3. ClosedAtFirst' /\ Descriptors' /\ InService'
    BY <2>1 DEF IInv, ClosedAtFirst, Descriptors, InService, InServiceEnded, Running
  <2>4. Requested' /\ FaultOnlyUnprepared'
    BY <2>1 DEF IInv, Requested, FaultOnlyUnprepared, Unmasked
  <2> QED BY <2>2, <2>3, <2>4 DEF IInv
<1> QED BY <1>1, <1>2, <1>3, <1>4 DEF Next

LEMMA AlwaysInv == Spec => []IInv
BY InitInv, StepInv, PTL DEF Spec

-----------------------------------------------------------------------------

\* Every register of the controllers stays a byte, whatever words and masks the
\* kernel writes and whenever lines are raised.
THEOREM InterruptTypes == Spec => []TypeOK
<1>1. IInv => TypeOK
  BY DEF IInv
<1> QED BY <1>1, AlwaysInv, PTL

\* After pic_remap every line arrives at the vector the kernel computes for it,
\* clear of the exceptions, whatever was raised during the initialisation.
THEOREM VectorsAlwaysMatch == Spec => []VectorsMatch
BY InvVectors, AlwaysInv, PTL

\* Initialisation and irq_clear_mask change the keyboard's mask bit and no
\* other, for every pair of masks the firmware may have left.
THEOREM MasksAlwaysRestored == Spec => []MasksRestored
BY InvMasks, AlwaysInv, PTL

\* No interrupt is left in service when the kernel resumes.
THEOREM ServiceAlwaysEnded == Spec => []InServiceEnded
<1>1. IInv => InServiceEnded
  BY DEF IInv, InService
<1> QED BY <1>1, AlwaysInv, PTL

\* The interrupts that find no descriptor are those of lines the firmware left
\* open, and the keyboard's while ps2_kbd_init has it open without a handler.
THEOREM FaultsAreUnprepared == Spec => []FaultOnlyUnprepared
<1>1. IInv => FaultOnlyUnprepared
  BY DEF IInv
<1> QED BY <1>1, AlwaysInv, PTL
=============================================================================

-------------------------- MODULE Ps2DevicesProofs --------------------------
(***************************************************************************)
(* What ps2_init makes of the devices while no key is pressed and every    *)
(* wait ends in time, for every set of machines and any number of garbled  *)
(* bytes.                                                                  *)
(*                                                                         *)
(* The controller works at its own pace.  What the driver gets to see      *)
(* depends on the bytes the controller will hold once it has worked off    *)
(* its input: Outcome.  The steps of the hardware choose among outcomes    *)
(* and add none, so that it remains to follow the driver, whose reads take *)
(* the first byte of an outcome and whose writes append an answer to it.   *)
(***************************************************************************)
EXTENDS Ps2InitProofs

-----------------------------------------------------------------------------
(* What the driver has yet to read. *)

\* The bytes the controller holds for the driver, the next one to be read first.
Buffered == IF obf THEN <<obuf>> \o outq ELSE outq

\* The byte b is on its way to the device on port t.
Forwarding(t, b) == t \in Ports /\ target = t /\ Data(b)

\* The bytes to read and the devices, once b has reached the device on port t.
Reply(t, b) == Reaction(hw.attached[t], dev[t], b)

Reached(t, b, q, d) ==
    \/ q = Buffered \o Reply(t, b).answer /\ d = [dev EXCEPT ![t] = Reply(t, b).new]
    \/ hw.attached[t] \in Talking /\ q = Buffered \o <<RESP_RESEND>> /\ d = dev

\* The byte that stays in the data register when all of q has been read.
Latest(q) == IF q = <<>> THEN obuf ELSE q[Len(q)]

\* The controller, when it has worked off the input buffer, may hold the bytes q
\* for the driver, with the devices in the states d, and s the byte that stays.
Outcome(q, d, s) ==
    /\ s = Latest(q)
    /\ \/ \E t \in Ports, b \in Bytes : Forwarding(t, b) /\ Reached(t, b, q, d)
       \/ (\A t \in Ports, b \in Bytes : ~Forwarding(t, b)) /\ q = Buffered /\ d = dev

\* The port the next data byte goes to.
Aim == IF ib = <<>> THEN target
       ELSE IF Sent(CMD_WRITE_INPUT_PORT_1) /\ hw.dual THEN 1 ELSE 0

\* s comes after q0 and the bytes a.
Follows(s, s0, a) == s = IF a = <<>> THEN s0 ELSE a[Len(a)]

LEMMA LatestOfConcat ==
    ASSUME NEW q \in Seq(Bytes), NEW a \in Seq(Bytes)
    PROVE  Follows(Latest(q \o a), Latest(q), a)
<1>1. Len(q \o a) = Len(q) + Len(a)
  OBVIOUS
<1>2. CASE a = <<>>
  BY <1>2 DEF Follows
<1>3. CASE a # <<>>
  <2>1. Len(a) \in Nat /\ Len(a) > 0 /\ Len(q) \in Nat
    BY <1>3
  <2>2. q \o a # <<>>
    BY <1>1, <2>1
  <2>3. (q \o a)[Len(q) + Len(a)] = a[Len(a)]
    BY <2>1
  <2> QED BY <1>1, <1>3, <2>2, <2>3 DEF Latest, Follows
<1> QED BY <1>2, <1>3

LEMMA BufferedTypes ==
    ASSUME Types
    PROVE  Buffered \in Seq(Bytes)
BY DEF Types, HwTypes, Buffered

LEMMA ReachedTypes ==
    ASSUME Types, NEW t \in Ports, NEW b \in Bytes, NEW q, NEW d, Reached(t, b, q, d)
    PROVE  q \in Seq(Bytes) /\ d \in [Ports -> DeviceState]
<1>1. Buffered \in Seq(Bytes) /\ dev \in [Ports -> DeviceState] /\ hw.attached[t] \in Devices
  BY BufferedTypes, MachineTypes DEF Types, HwTypes
<1>2. CASE q = Buffered \o Reply(t, b).answer /\ d = [dev EXCEPT ![t] = Reply(t, b).new]
  <2>1. Reply(t, b).answer \in Seq(Bytes) /\ Reply(t, b).new \in DeviceState
    BY <1>1, ReactionTypes DEF Reply
  <2> QED BY <1>1, <1>2, <2>1
<1>3. CASE q = Buffered \o <<RESP_RESEND>> /\ d = dev
  <2>1. <<RESP_RESEND>> \in Seq(Bytes)
    BY Commands
  <2> QED BY <1>1, <1>3, <2>1
<1> QED BY <1>2, <1>3 DEF Reached

LEMMA OutcomeTypes ==
    ASSUME Types, NEW q, NEW d, NEW s, Outcome(q, d, s)
    PROVE  q \in Seq(Bytes) /\ d \in [Ports -> DeviceState] /\ s \in Bytes
<1>1. q \in Seq(Bytes) /\ d \in [Ports -> DeviceState]
  BY BufferedTypes, ReachedTypes DEF Outcome, Types, HwTypes
<1>2. s \in Bytes
  <2>1. CASE q = <<>>
    BY <2>1 DEF Outcome, Latest, Types, HwTypes
  <2>2. CASE q # <<>>
    <3>1. Len(q) \in DOMAIN q
      BY <1>1, <2>2
    <3> QED BY <1>1, <2>2, <3>1 DEF Outcome, Latest
  <2> QED BY <2>1, <2>2
<1> QED BY <1>1, <1>2

-----------------------------------------------------------------------------
(* How the accesses of the driver change the outcomes. *)

\* The variables outcomes depend on.
hardware == <<hw, ib, target, obf, obuf, outq, dev>>

LEMMA SameOutcome ==
    ASSUME UNCHANGED hardware, NEW q, NEW d, NEW s, Outcome(q, d, s)'
    PROVE  Outcome(q, d, s)
BY DEF hardware, Outcome, Forwarding, Reached, Reply, Latest, Buffered, Data

\* Nothing is on its way to a device.
LEMMA PlainOutcome ==
    ASSUME ib = <<>> \/ (\E cmd : Sent(cmd)) \/ target = Ram
    PROVE  \A q, d, s : Outcome(q, d, s) <=> q = Buffered /\ d = dev /\ s = Latest(q)
<1>1. \A t \in Ports, b \in Bytes : ~Forwarding(t, b)
  <2>1. ASSUME NEW b, Data(b) PROVE ib # <<>> /\ \A cmd : ~Sent(cmd)
    BY <2>1 DEF Data, Sent
  <2>2. Ram \notin Ports
    BY DEF Ports, Ram
  <2> QED BY <2>1, <2>2 DEF Forwarding
<1> QED BY <1>1 DEF Outcome

LEMMA CommandOutcome ==
    ASSUME ib = <<>>, NEW cmd, Sent(cmd)', UNCHANGED <<hw, target, obf, obuf, outq, dev>>,
           NEW q, NEW d, NEW s, Outcome(q, d, s)'
    PROVE  Outcome(q, d, s)
<1>1. \A t \in Ports, b \in Bytes : ~Forwarding(t, b)'
  BY DEF Forwarding, Data, Sent
<1>2. q = Buffered' /\ d = dev' /\ s = Latest(q)'
  BY <1>1 DEF Outcome
<1>3. q = Buffered /\ d = dev /\ s = Latest(q)
  BY <1>2 DEF Buffered, Latest
<1> QED BY <1>3, PlainOutcome

\* A data byte adds the answer of the device, or the request to send it again.
LEMMA DataOutcome ==
    ASSUME Types, Types', ib = <<>>, NEW t \in Ports, target = t, NEW b \in Bytes, ib' = << <<"data", b>> >>,
           UNCHANGED <<hw, target, obf, obuf, outq, dev>>, NEW q, NEW d, NEW s, Outcome(q, d, s)'
    PROVE  \E q0 \in Seq(Bytes), s0 \in Bytes :
              /\ Outcome(q0, dev, s0)
              /\ \/ /\ q = q0 \o Reply(t, b).answer /\ d = [dev EXCEPT ![t] = Reply(t, b).new]
                    /\ Follows(s, s0, Reply(t, b).answer)
                 \/ /\ hw.attached[t] \in Talking
                    /\ q = q0 \o <<RESP_RESEND>> /\ d = dev /\ s = RESP_RESEND
<1>1. Outcome(Buffered, dev, Latest(Buffered))
  BY PlainOutcome
<1>2. Buffered \in Seq(Bytes) /\ Latest(Buffered) \in Bytes
  BY <1>1, OutcomeTypes
<1>3. Buffered' = Buffered /\ Forwarding(t, b)'
  BY DEF Buffered, Forwarding, Data
<1>4. \A t1 \in Ports, b1 \in Bytes : Forwarding(t1, b1)' => t1 = t /\ b1 = b
  BY DEF Forwarding, Data
<1>5. Reached(t, b, q, d)' /\ s = Latest(q)'
  BY <1>3, <1>4 DEF Outcome
<1>6. s = Latest(q)
  BY <1>5 DEF Latest
<1>7. ASSUME q = Buffered \o Reply(t, b).answer
      PROVE  Follows(s, Latest(Buffered), Reply(t, b).answer)
  <2>1. Reply(t, b).answer \in Seq(Bytes)
    BY ReactionTypes, MachineTypes DEF Reply, Types, HwTypes
  <2> QED BY <1>2, <1>6, <1>7, <2>1, LatestOfConcat
<1>8. ASSUME q = Buffered \o <<RESP_RESEND>> PROVE s = RESP_RESEND
  <2>1. <<RESP_RESEND>> \in Seq(Bytes) /\ Len(<<RESP_RESEND>>) = 1 /\ <<RESP_RESEND>> # <<>>
    BY Commands
  <2> QED BY <1>2, <1>6, <1>8, <2>1, LatestOfConcat DEF Follows
<1>9. \/ q = Buffered \o Reply(t, b).answer /\ d = [dev EXCEPT ![t] = Reply(t, b).new]
      \/ hw.attached[t] \in Talking /\ q = Buffered \o <<RESP_RESEND>> /\ d = dev
  BY <1>3, <1>5 DEF Reached, Reply
<1> QED BY <1>1, <1>2, <1>7, <1>8, <1>9

LEMMA HeadAndTail ==
    ASSUME NEW x \in Bytes, NEW q \in Seq(Bytes)
    PROVE  /\ <<x>> \o q \in Seq(Bytes) /\ <<x>> \o q # <<>>
           /\ Head(<<x>> \o q) = x /\ Tail(<<x>> \o q) = q
<1> DEFINE p == <<x>> \o q
<1>1. p \in Seq(Bytes) /\ Len(p) = Len(q) + 1 /\ p[1] = x /\ Len(q) \in Nat
  OBVIOUS
<1>2. \A i \in 1 .. Len(q) : p[i + 1] = q[i]
  OBVIOUS
<1> HIDE DEF p
<1>3. p # <<>> /\ Head(p) = x /\ Tail(p) \in Seq(Bytes) /\ Len(Tail(p)) = Len(q)
  BY <1>1
<1>4. \A i \in 1 .. Len(q) : Tail(p)[i] = q[i]
  BY <1>1, <1>2, <1>3
<1>5. Tail(p) = q
  BY <1>3, <1>4
<1> QED BY <1>1, <1>3, <1>5 DEF p

LEMMA Reassemble ==
    ASSUME NEW q \in Seq(Bytes), q # <<>>
    PROVE  <<Head(q)>> \o Tail(q) = q
OBVIOUS

LEMMA Regroup ==
    ASSUME NEW p \in Seq(Bytes), NEW q \in Seq(Bytes), NEW r \in Seq(Bytes)
    PROVE  (p \o q) \o r = p \o (q \o r)
OBVIOUS

\* A read takes the first byte of every outcome.  Where there is none it returns
\* the byte that has stayed.
LEMMA ReadOutcome ==
    ASSUME Types, Types', NEW got \in BOOLEAN, ReadBuffer(got), Quiet',
           NEW q, NEW d, NEW s, Outcome(q, d, s)'
    PROVE  /\ Quiet /\ got
           /\ q = <<>> => obuf = s
           /\ \E q0 \in Seq(Bytes) :
                 /\ Outcome(q0, d, s)
                 /\ \/ q0 # <<>> /\ obuf = Head(q0) /\ q = Tail(q0)
                    \/ q0 = <<>> /\ q = <<>> /\ obuf = s
<1>1. /\ Quiet /\ got /\ (obf \/ Idle) /\ obf' = FALSE
      /\ UNCHANGED <<hw, ccb, ib, target, obuf, outq, dev, resends>>
  BY QuietRead
<1>2. obuf \in Bytes /\ outq \in Seq(Bytes) /\ <<obuf>> \in Seq(Bytes)
  BY DEF Types, HwTypes
<1>3. Buffered' = outq /\ (\A t \in Ports, b \in Bytes : Forwarding(t, b)' <=> Forwarding(t, b))
  BY <1>1 DEF Buffered, Forwarding, Data
<1>4. s = IF q = <<>> THEN obuf ELSE q[Len(q)]
  BY <1>1 DEF Outcome, Latest
<1>5. CASE obf
  <2> DEFINE q0 == <<obuf>> \o q
  <2>1. Buffered = <<obuf>> \o outq
    BY <1>5 DEF Buffered
  <2>2. ASSUME NEW t \in Ports, NEW b \in Bytes, Forwarding(t, b), Reached(t, b, q, d)'
        PROVE  q \in Seq(Bytes) /\ Reached(t, b, q0, d)
    <3>1. \/ q = outq \o Reply(t, b).answer /\ d = [dev EXCEPT ![t] = Reply(t, b).new]
          \/ hw.attached[t] \in Talking /\ q = outq \o <<RESP_RESEND>> /\ d = dev
      BY <1>1, <1>3, <2>2 DEF Reached, Reply
    <3>2. Reply(t, b).answer \in Seq(Bytes) /\ <<RESP_RESEND>> \in Seq(Bytes)
      BY ReactionTypes, MachineTypes, Commands DEF Reply, Types, HwTypes
    <3>3. \A a \in Seq(Bytes) : outq \o a \in Seq(Bytes) /\ <<obuf>> \o (outq \o a) = Buffered \o a
      BY <1>2, <2>1, Regroup
    <3>4. q \in Seq(Bytes)
      BY <3>1, <3>2, <3>3
    <3>5. \/ q0 = Buffered \o Reply(t, b).answer /\ d = [dev EXCEPT ![t] = Reply(t, b).new]
          \/ hw.attached[t] \in Talking /\ q0 = Buffered \o <<RESP_RESEND>> /\ d = dev
      BY <3>1, <3>2, <3>3
    <3> QED BY <3>4, <3>5 DEF Reached
  <2>3. (\E t \in Ports, b \in Bytes : Forwarding(t, b) /\ Reached(t, b, q, d)')
        \/ ((\A t \in Ports, b \in Bytes : ~Forwarding(t, b)) /\ q = outq /\ d = dev)
    BY <1>1, <1>3 DEF Outcome
  <2>4. q \in Seq(Bytes)
    BY <1>2, <2>2, <2>3
  <2>5. s = Latest(q0)
    <3>1. Latest(<<obuf>>) = obuf
      BY <1>2 DEF Latest
    <3>2. Follows(Latest(q0), Latest(<<obuf>>), q)
      BY <1>2, <2>4, LatestOfConcat
    <3> QED BY <1>4, <3>1, <3>2 DEF Follows
  <2>6. Outcome(q0, d, s)
    BY <2>1, <2>2, <2>3, <2>5 DEF Outcome
  <2>7. q0 \in Seq(Bytes) /\ q0 # <<>> /\ obuf = Head(q0) /\ q = Tail(q0)
    BY <1>2, <2>4, HeadAndTail
  <2> HIDE DEF q0
  <2> QED BY <1>1, <1>4, <2>6, <2>7
<1>6. CASE ~obf
  <2>1. ib = <<>> /\ outq = <<>> /\ Buffered = <<>>
    BY <1>1, <1>6 DEF Idle, Buffered
  <2>2. \A t \in Ports, b \in Bytes : ~Forwarding(t, b)
    BY <2>1 DEF Forwarding, Data
  <2>3. q = <<>> /\ d = dev /\ s = obuf
    BY <1>1, <1>3, <1>4, <2>1, <2>2 DEF Outcome
  <2>4. Outcome(<<>>, d, s)
    BY <2>1, <2>2, <2>3 DEF Outcome, Latest
  <2>5. <<>> \in Seq(Bytes)
    OBVIOUS
  <2> QED BY <1>1, <2>3, <2>4, <2>5
<1> QED BY <1>5, <1>6 DEF Types, HwTypes

-----------------------------------------------------------------------------
(* The hardware. *)

LEMMA EmptiedOutcome ==
    ASSUME ib' = <<>>, NEW q, NEW d, NEW s, Outcome(q, d, s)'
    PROVE  q = Buffered' /\ d = dev' /\ s = Latest(q)'
<1>1. \A t \in Ports, b \in Bytes : ~Forwarding(t, b)'
  BY DEF Forwarding, Data
<1> QED BY <1>1 DEF Outcome

\* The steps of the controller choose among the outcomes.
LEMMA TakeOutcome ==
    ASSUME Types, Driving, Take, NEW q, NEW d, NEW s, Outcome(q, d, s)'
    PROVE  Outcome(q, d, s) /\ Aim' = Aim
<1>1. ib' = <<>> /\ UNCHANGED <<hw, obf, obuf>> /\ Aim' = target' /\ ib # <<>>
  BY DEF Take, Aim
<1>2. q = Buffered' /\ d = dev' /\ s = Latest(q)
  BY <1>1, EmptiedOutcome DEF Latest
<1>3. CASE Storing
  <2>1. StoreConfig(config)
    BY <1>3, TakeData DEF Storing, Forward, Garble, Ports, Ram
  <2>2. q = Buffered /\ d = dev /\ target' = 0
    BY <1>1, <1>2, <2>1 DEF StoreConfig, Buffered
  <2>3. Aim = 0
    BY <1>3 DEF Aim, Storing, Data, Sent
  <2> QED BY <1>1, <1>2, <1>3, <2>2, <2>3, PlainOutcome DEF Storing
<1>4. CASE Sent(CMD_WRITE_INPUT_PORT_1)
  <2>1. Execute(CMD_WRITE_INPUT_PORT_1)
    BY <1>4, TakeCommand
  <2>2. outq' = outq /\ dev' = dev
    BY <2>1, Executed DEF Mute, Types, HwTypes, Execute
  <2>3. target' = IF hw.dual THEN 1 ELSE 0
    BY <2>1 DEF Execute, CMD_WRITE_INPUT_PORT_1, CMD_WRITE_RAM
  <2>4. q = Buffered /\ d = dev
    BY <1>1, <1>2, <2>2 DEF Buffered
  <2>5. Aim = IF hw.dual THEN 1 ELSE 0
    BY <1>1, <1>4 DEF Aim
  <2> QED BY <1>1, <1>2, <1>4, <2>3, <2>4, <2>5, PlainOutcome
<1>5. ASSUME target \in Ports, NEW b \in Bytes, Data(b)
      PROVE  Outcome(q, d, s) /\ Aim' = Aim
  <2>1. ~StoreConfig(b) /\ Forwarding(target, b)
    BY <1>5 DEF StoreConfig, Ports, Ram, Forwarding
  <2>2. Forward(b) \/ Garble
    BY <1>5, <2>1, TakeData
  <2>3. outq \in Seq(Bytes) /\ <<obuf>> \in Seq(Bytes) /\ Reply(target, b).answer \in Seq(Bytes)
        /\ <<RESP_RESEND>> \in Seq(Bytes)
    BY <1>5, ReactionTypes, MachineTypes, Commands DEF Reply, Types, HwTypes
  <2>4. ASSUME Forward(b) PROVE Reached(target, b, q, d)
    <3>1. outq' = outq \o Reply(target, b).answer /\ dev' = [dev EXCEPT ![target] = Reply(target, b).new]
      BY <2>4 DEF Forward, Reply
    <3>2. q = Buffered \o Reply(target, b).answer
      BY <1>1, <1>2, <2>3, <3>1, Regroup DEF Buffered
    <3> QED BY <1>2, <3>1, <3>2 DEF Reached
  <2>5. ASSUME Garble PROVE Reached(target, b, q, d)
    <3>1. outq' = outq \o <<RESP_RESEND>> /\ dev' = dev /\ hw.attached[target] \in Talking
      BY <2>3, <2>5 DEF Garble, Talking
    <3>2. q = Buffered \o <<RESP_RESEND>>
      BY <1>1, <1>2, <2>3, <3>1, Regroup DEF Buffered
    <3> QED BY <1>2, <3>1, <3>2 DEF Reached
  <2>6. Reached(target, b, q, d)
    BY <2>2, <2>4, <2>5
  <2>7. target' = 0 /\ Aim = 0
    BY <1>1, <1>5, <2>2 DEF Forward, Garble, Aim, Data, Sent
  <2> QED BY <1>1, <1>2, <1>5, <2>1, <2>6, <2>7 DEF Outcome
<1> QED BY <1>1, <1>3, <1>4, <1>5 DEF Driving

LEMMA DeliverOutcome ==
    ASSUME Types, Deliver, NEW q, NEW d, NEW s, Outcome(q, d, s)'
    PROVE  Outcome(q, d, s) /\ Aim' = Aim
<1>1. /\ ~obf /\ obf' = TRUE /\ outq # <<>> /\ obuf' = Head(outq) /\ outq' = Tail(outq)
      /\ UNCHANGED <<hw, ccb, ib, target, dev, keys, resends, late>>
  BY DEF Deliver
<1>2. outq \in Seq(Bytes)
  BY DEF Types, HwTypes
<1>3. Buffered' = Buffered /\ Buffered = outq
  BY <1>1, <1>2, Reassemble DEF Buffered
<1>4. \A t \in Ports, b \in Bytes : /\ Forwarding(t, b)' <=> Forwarding(t, b)
                                    /\ Reached(t, b, q, d)' <=> Reached(t, b, q, d)
  BY <1>1, <1>3 DEF Forwarding, Data, Reached, Reply
<1>5. ASSUME NEW t \in Ports, NEW b \in Bytes, Reached(t, b, q, d)
      PROVE  q # <<>>
  <2>1. Reply(t, b).answer \in Seq(Bytes) /\ <<RESP_RESEND>> \in Seq(Bytes)
    BY ReactionTypes, MachineTypes, Commands DEF Reply, Types, HwTypes
  <2>2. \A a \in Seq(Bytes) : outq \o a # <<>>
    <3>1. TAKE a \in Seq(Bytes)
    <3>2. Len(outq \o a) = Len(outq) + Len(a) /\ Len(outq) > 0 /\ Len(a) \in Nat /\ Len(outq) \in Nat
      BY <1>1, <1>2
    <3> QED BY <3>2
  <2> QED BY <1>3, <1>5, <2>1, <2>2 DEF Reached
<1>6. q # <<>>
  BY <1>1, <1>3, <1>4, <1>5 DEF Outcome
<1>7. Latest(q)' = Latest(q)
  BY <1>6 DEF Latest
<1>8. Aim' = Aim
  BY <1>1 DEF Aim, Sent
<1>9. /\ s = Latest(q)
      /\ \/ \E t \in Ports, b \in Bytes : Forwarding(t, b)' /\ Reached(t, b, q, d)'
         \/ (\A t \in Ports, b \in Bytes : ~Forwarding(t, b)') /\ q = Buffered' /\ d = dev'
  BY <1>7 DEF Outcome
<1>10. Outcome(q, d, s)
  BY <1>1, <1>3, <1>4, <1>9 DEF Outcome
<1> QED BY <1>8, <1>10

-----------------------------------------------------------------------------
(* The conversation with the devices. *)

NoBroken == \A p \in Ports : hw.attached[p] # "broken"

\* A stale byte that passes neither for the identity of a mouse nor for a failed
\* reset.
Harmless(s) == NoBroken => s # 0 /\ s # RESP_RESET_FAIL

\* The device the driver works on, and its current command.
Kind     == hw.attached[port]
Asks(to) == pc \in Calling /\ call.to = to

\* The keyboard driver is at work.
Keying == \/ pc \in {"set_codes", "set_id", "get_codes", "check_set", "install"}
          \/ Asks("set_codes") \/ Asks("set_id") \/ Asks("check_set")

Untouched(p) == announced[p] = "none" /\ id[p] = 0 /\ kbd.port # p

\* What ps2_init has made of port p when it has dealt with it.
Dealt(p, d) ==
    /\ ~operational[p] => announced[p] = "none"
    /\ operational[p] =>
         /\ hw.attached[p] \in Keyboards => /\ announced[p] = "KBD_MF2" /\ d[p].scan
                                            /\ kbd.installed /\ kbd.port <= p
         /\ hw.attached[p] = "mouse" => announced[p] = "MOUSE_PS2" /\ d[p].scan
         /\ hw.attached[p] = "broken" => announced[p] = "MOUSE_PS2"
         /\ hw.attached[p] = "none" /\ NoBroken => announced[p] = "none"

\* Where the driver is among the ports.
Placed(d) ==
    /\ operational[port]
    /\ port = 0 => Untouched(1)
    /\ port = 1 => Dealt(0, d)
    /\ kbd.port = port <=> Keying

Position(d) ==
    /\ pc = "port_0" => kbd.port = NoPort /\ \A p \in Ports : Untouched(p)
    /\ pc = "port_1" => Dealt(0, d) /\ Untouched(1)
    /\ pc = "done" => \A p \in Ports : Dealt(p, d)
    /\ pc \in AtDevice => Placed(d)

\* The driver belongs to a keyboard on a port in use, and only that keyboard may
\* be waiting for the number of a scan code set.
Driven(d) ==
    /\ kbd.port # NoPort => /\ kbd.port \in Ports /\ operational[kbd.port]
                            /\ hw.attached[kbd.port] \in Keyboards
    /\ \A p \in Ports : d[p].pending => kbd.port = p

\* What has been read of the answer to a reset, and what is left of it.
ResetRead(r, q, s) ==
    /\ Kind = "none" => q = <<>> /\ Harmless(s) /\ (r # <<>> => r[1] = s)
    /\ Kind = "broken" =>
         \/ r = <<>> /\ q = <<RESP_RESET_FAIL>>
         \/ r # <<>> /\ r[1] = RESP_RESET_FAIL /\ q = <<>> /\ s = RESP_RESET_FAIL
    /\ Kind \in Talking =>
         \/ r = <<>> /\ (q = ResetAnswer(Kind) \/ q = <<RESP_RESEND>>)
         \/ r # <<>> /\ r[1] = RESP_RESEND /\ q = <<>> /\ s = RESP_RESEND
         \/ Len(r) = 1 /\ r[1] = RESP_ACK /\ q = Tail(ResetAnswer(Kind))
         \/ /\ Len(r) = 2 /\ r[1] = RESP_ACK /\ q = Tail(Tail(ResetAnswer(Kind)))
            /\ Kind = "kbd" => s = RESP_RESET_SUCCESS

Resetting(q, s) ==
    /\ pc \in {"reset_select", "reset"} => q = <<>> /\ Harmless(s) /\ id[port] = 0 /\ resp = <<>>
    /\ pc = "reset_response" => ResetRead(resp, q, s) /\ id[port] = 0
    /\ pc = "special_code" => \/ Kind = "none" /\ q = <<>> /\ Harmless(s)
                              \/ Kind = "kbd_id" /\ q = <<\h83>>

\* There is nothing to read before a command is sent to a device that answers, and
\* then the right answer or the request to send the command again.
Command(q, s, right) ==
    \/ Kind = "none" /\ q = <<>> /\ Harmless(s)
    \/ Kind \in Talking /\ pc # "device_ack" /\ q = <<>>
    \/ Kind \in Talking /\ pc = "device_ack" /\ (q = right \/ q = <<RESP_RESEND>>)

\* id is the identity of the device, or what comes of a stale byte.
Known(s) ==
    /\ Kind = "none" => id[port] = Word(s * 256 + s)
    /\ Kind = "mouse" => id[port] = 0
    /\ Kind \in Keyboards => id[port] = \hab83

Identifying(q, d, s) ==
    /\ Asks("identify") => call.cmd = CMD_DISABLE_SCAN /\ Command(q, s, <<RESP_ACK>>)
    /\ pc = "identify" => q = <<>> /\ ((Kind = "none" /\ Harmless(s)) \/ Kind \in Talking)
    /\ Asks("id_1") => call.cmd = CMD_IDENTIFY /\ Command(q, s, Identity(Kind))
    /\ pc = "id_1" => \/ Kind = "none" /\ q = <<>> /\ Harmless(s)
                      \/ Kind = "mouse" /\ q = <<0>>
                      \/ Kind \in Keyboards /\ q = <<\hab, \h83>>
    /\ pc = "id_2" => \/ Kind = "none" /\ q = <<>> /\ Harmless(s) /\ id[port] = s
                      \/ Kind = "mouse" /\ q = <<>> /\ s = 0 /\ id[port] = 0
                      \/ Kind \in Keyboards /\ q = <<\h83>> /\ id[port] = \hab
    /\ Asks("init_device") =>
         /\ call.cmd = CMD_ENABLE_SCAN /\ Command(q, s, <<RESP_ACK>>) /\ Known(s)
         /\ Kind \in Talking /\ q = <<RESP_ACK>> => d[port].scan
    /\ pc = "init_device" =>
         /\ q = <<>> /\ Harmless(s)
         /\ \/ Kind \in Talking /\ Known(s) /\ d[port].scan
            \/ Kind = "none" /\ Known(s)
            \/ Kind \in {"none", "broken"} /\ ~NoBroken /\ id[port] = 0

Acks == {RESP_ACK, RESP_RESEND}

\* The answer to the number of the set, if there was one, is not read until the
\* next command has been sent.
Overdue(q) == \/ q = <<>> /\ port = 1
              \/ \E a \in Acks : q = <<a>>

SettingCodes(q, d, s) ==
    /\ pc = "kbd_init" \/ Keying => Kind \in Keyboards /\ announced[port] = "KBD_MF2" /\ d[port].scan
    /\ pc = "kbd_init" => q = <<>> /\ kbd.port = NoPort
    /\ Asks("set_codes") => /\ call.cmd = CMD_ENABLE_SCAN /\ Command(q, s, <<RESP_ACK>>)
                            /\ ~d[port].pending
    /\ pc = "set_codes" => q = <<>> /\ ~d[port].pending
    /\ Asks("set_id") => /\ call.cmd = CMD_SET_SCAN_CODE /\ Command(q, s, <<RESP_ACK>>)
                         /\ d[port].pending <=> q = <<RESP_ACK>>
    /\ pc = "set_id" => q = <<>> /\ d[port].pending /\ s = RESP_ACK
    /\ pc = "get_codes" => Overdue(q) /\ s \in Acks
    /\ Asks("check_set") =>
         /\ call.cmd = CMD_SET_SCAN_CODE
         /\ \/ pc # "device_ack" /\ Overdue(q) /\ s \in Acks
            \/ pc = "device_ack" /\ \E a \in Acks : \/ q = <<a>> /\ port = 1
                                                    \/ \E b \in Acks : q = <<a, b>>
    /\ pc = "check_set" => s \in Acks /\ (q = <<>> \/ \E a \in Acks : q = <<a>>)
    /\ pc = "install" => q = <<>> /\ s \in Acks

Conduct(q, d, s) == Resetting(q, s) /\ Identifying(q, d, s) /\ SettingCodes(q, d, s)

\* What holds of every outcome once the configuration is written.
View(q, d, s) ==
    /\ Driven(d) /\ Position(d)
    /\ pc \in {"port_0", "port_1", "done"} => q = <<>>
    /\ pc \in {"port_0", "port_1"} => Harmless(s)
    /\ pc \in AtDevice => Conduct(q, d, s)

\* Where data bytes go.
Aiming ==
    /\ pc \in Devoted => Aim = IF pc \in {"reset", "device_command"} THEN port ELSE 0
    /\ pc \in {"reset_select", "select_port"} => port = 1

BeforeDevices == BeforeTests \cup {"test_1", "tested_1", "enable_0", "enable_1", "get_4", "edit_4", "set_4", "data_4"}

Prepared ==
    /\ kbd.port = NoPort /\ \A p \in Ports : Untouched(p) /\ ~dev[p].pending
    /\ pc \in {"set_4", "data_4"} => Harmless(obuf)

Dialogue ==
    /\ pc \in BeforeDevices \cup Devoted \cup {"done"}
    /\ pc \in BeforeDevices => Prepared
    /\ pc \in Devoted \cup {"done"} => Aiming /\ \A q, d, s : Outcome(q, d, s) => View(q, d, s)

-----------------------------------------------------------------------------
(* Facts about the answers of devices. *)

LEMMA Tails ==
    ASSUME NEW a, NEW b, NEW c, NEW e
    PROVE  /\ Head(<<a>>) = a /\ Tail(<<a>>) = <<>>
           /\ Head(<<a, b>>) = a /\ Tail(<<a, b>>) = <<b>>
           /\ Head(<<a, b, c>>) = a /\ Tail(<<a, b, c>>) = <<b, c>>
           /\ Head(<<a, b, c, e>>) = a /\ Tail(<<a, b, c, e>>) = <<b, c, e>>
OBVIOUS

LEMMA ResetAnswers ==
    /\ ResetAnswer("broken") = <<RESP_RESET_FAIL>>
    /\ ResetAnswer("kbd") = <<RESP_ACK, RESP_RESET_SUCCESS>>
    /\ Tail(ResetAnswer("kbd")) = <<RESP_RESET_SUCCESS>>
    /\ Tail(Tail(ResetAnswer("kbd"))) = <<>>
    /\ ResetAnswer("kbd_id") = <<RESP_ACK, RESP_RESET_SUCCESS, \hab, \h83>>
    /\ Tail(ResetAnswer("kbd_id")) = <<RESP_RESET_SUCCESS, \hab, \h83>>
    /\ Tail(Tail(ResetAnswer("kbd_id"))) = <<\hab, \h83>>
    /\ ResetAnswer("mouse") = <<RESP_ACK, RESP_RESET_SUCCESS, 0>>
    /\ Tail(ResetAnswer("mouse")) = <<RESP_RESET_SUCCESS, 0>>
    /\ Tail(Tail(ResetAnswer("mouse"))) = <<0>>
BY Tails DEF ResetAnswer

LEMMA ResetAnswerHeads ==
    ASSUME NEW k \in Talking
    PROVE  /\ ResetAnswer(k) # <<>> /\ Head(ResetAnswer(k)) = RESP_ACK
           /\ Tail(ResetAnswer(k)) # <<>>
<1>1. PICK a, b, c : ResetAnswer(k) \in {<<RESP_ACK, a>>, <<RESP_ACK, a, b>>, <<RESP_ACK, a, b, c>>}
  BY ResetAnswers DEF Talking
<1>2. /\ <<RESP_ACK, a>> # <<>> /\ Head(<<RESP_ACK, a>>) = RESP_ACK /\ Tail(<<RESP_ACK, a>>) # <<>>
      /\ <<RESP_ACK, a, b>> # <<>> /\ Head(<<RESP_ACK, a, b>>) = RESP_ACK /\ Tail(<<RESP_ACK, a, b>>) # <<>>
      /\ <<RESP_ACK, a, b, c>> # <<>> /\ Head(<<RESP_ACK, a, b, c>>) = RESP_ACK /\ Tail(<<RESP_ACK, a, b, c>>) # <<>>
  OBVIOUS
<1> QED BY <1>1, <1>2

LEMMA TwoJoined ==
    ASSUME NEW a \in Bytes, NEW b \in Bytes
    PROVE  <<a>> \o <<b>> = <<a, b>>
<1> DEFINE p == <<a>> \o <<b>>
<1>1. <<a>> \in Seq(Bytes) /\ <<b>> \in Seq(Bytes)
  OBVIOUS
<1>2. p \in Seq(Bytes) /\ Len(p) = 2 /\ p[1] = a /\ p[2] = b
  BY <1>1
<1> HIDE DEF p
<1>3. p = <<a, b>>
  BY <1>2
<1> QED BY <1>3 DEF p

LEMMA ThreeJoined ==
    ASSUME NEW a \in Bytes, NEW b \in Bytes, NEW c \in Bytes
    PROVE  <<a>> \o <<b, c>> = <<a, b, c>>
<1> DEFINE p == <<a>> \o <<b, c>>
<1>1. <<a>> \in Seq(Bytes) /\ <<b, c>> \in Seq(Bytes)
  OBVIOUS
<1>2. p \in Seq(Bytes) /\ Len(p) = 3 /\ p[1] = a /\ p[2] = b /\ p[3] = c
  BY <1>1
<1> HIDE DEF p
<1>3. p = <<a, b, c>>
  BY <1>2
<1> QED BY <1>3 DEF p

LEMMA Identities ==
    /\ Identity("mouse") = <<RESP_ACK, 0>>
    /\ \A k \in Keyboards : Identity(k) = <<RESP_ACK, \hab, \h83>>
<1> DEFINE ab == \hab
           n83 == \h83
<1>1. RESP_ACK \in Bytes /\ 0 \in Bytes /\ ab \in Bytes /\ n83 \in Bytes
  BY DEF Bytes, RESP_ACK
<1> HIDE DEF ab, n83
<1>2. <<RESP_ACK>> \o <<0>> = <<RESP_ACK, 0>>
  BY <1>1, TwoJoined
<1>3. <<RESP_ACK>> \o <<ab, n83>> = <<RESP_ACK, ab, n83>>
  BY <1>1, ThreeJoined
<1>4. "mouse" \notin Keyboards
  BY DEF Keyboards
<1> QED BY <1>2, <1>3, <1>4 DEF Identity, ab, n83

\* The acknowledgement comes first, the two bytes of a keyboard or the one of a
\* mouse after it.
LEMMA IdentityParts ==
    ASSUME NEW k \in Talking
    PROVE  /\ Identity(k) # <<>> /\ Head(Identity(k)) = RESP_ACK
           /\ Tail(Identity(k)) = IF k = "mouse" THEN <<0>> ELSE <<\hab, \h83>>
<1>1. ASSUME NEW a, NEW b
      PROVE  <<a, b>> # <<>> /\ Head(<<a, b>>) = a /\ Tail(<<a, b>>) = <<b>>
  OBVIOUS
<1>2. ASSUME NEW a, NEW b, NEW c
      PROVE  <<a, b, c>> # <<>> /\ Head(<<a, b, c>>) = a /\ Tail(<<a, b, c>>) = <<b, c>>
  OBVIOUS
<1>3. CASE k = "mouse"
  <2>1. /\ <<RESP_ACK, 0>> # <<>> /\ Head(<<RESP_ACK, 0>>) = RESP_ACK
        /\ Tail(<<RESP_ACK, 0>>) = <<0>>
    BY <1>1
  <2> QED BY <1>3, <2>1, Identities
<1>4. CASE k # "mouse"
  <2>1. k \in Keyboards
    BY <1>4 DEF Talking, Keyboards
  <2> DEFINE ab == \hab
             n83 == \h83
  <2>2. Identity(k) = <<RESP_ACK, ab, n83>>
    BY <2>1, Identities
  <2> HIDE DEF ab, n83
  <2>3. /\ <<RESP_ACK, ab, n83>> # <<>> /\ Head(<<RESP_ACK, ab, n83>>) = RESP_ACK
        /\ Tail(<<RESP_ACK, ab, n83>>) = <<ab, n83>>
    BY <1>2
  <2>4. /\ Identity(k) # <<>> /\ Head(Identity(k)) = RESP_ACK
        /\ Tail(Identity(k)) = <<ab, n83>>
    BY <2>2, <2>3
  <2> QED BY <1>4, <2>4 DEF ab, n83
<1> QED BY <1>3, <1>4

LEMMA ResetAnswerTypes ==
    ASSUME NEW kind \in Devices, kind # "none"
    PROVE  ResetAnswer(kind) \in Seq(Bytes)
<1>1. RESP_ACK \in Bytes /\ RESP_RESEND \in Bytes /\ RESP_RESET_SUCCESS \in Bytes
      /\ RESP_RESET_FAIL \in Bytes /\ 0 \in Bytes /\ \hab \in Bytes /\ \h83 \in Bytes
  BY Commands DEF Bytes
<1> QED BY <1>1 DEF ResetAnswer, Devices

LEMMA Kinds ==
    ASSUME Types, pc \in AtDevice
    PROVE  /\ port \in Ports /\ Kind \in Devices
           /\ Kind \in Talking <=> Kind \in Keyboards \/ Kind = "mouse"
           /\ Kind \in Keyboards <=> Kind = "kbd" \/ Kind = "kbd_id"
           /\ Kind \in Talking \/ Kind = "none" \/ Kind = "broken"
           /\ Kind = "none" => Kind \notin Talking
           /\ Kind = "broken" => Kind \notin Talking /\ Kind # "none"
           /\ Kind = "mouse" => Kind \notin Keyboards
<1>1. port \in Ports /\ Kind \in Devices
  BY MachineTypes DEF Types, HwTypes, Ready, Kind
<1> QED BY <1>1 DEF Devices, Talking, Keyboards

LEMMA ByteValues ==
    /\ RESP_ACK = 250 /\ RESP_RESEND = 254 /\ RESP_RESET_SUCCESS = 170 /\ RESP_RESET_FAIL = 252
    /\ \hab = 171 /\ \h83 = 131 /\ \hac = 172
BY DEF RESP_ACK, RESP_RESEND, RESP_RESET_SUCCESS, RESP_RESET_FAIL

\* An access that changes neither the place of the driver among the ports nor
\* what it has found out about other ports.
LEMMA PlaceKept ==
    ASSUME Types, pc \in AtDevice, pc' \in AtDevice, Keying' <=> Keying,
           NEW d0, NEW d, Driven(d0), Placed(d0),
           UNCHANGED <<hw, operational, announced, port, kbd>>, port = 0 => id'[1] = id[1],
           port = 1 => (d0[0].scan => d[0].scan),
           \A p \in Ports : d[p].pending => d0[p].pending \/ kbd.port = p
    PROVE  Driven(d)' /\ Position(d)'
<1>1. Driven(d)'
  BY DEF Driven
<1>2. port = 0 => Untouched(1)'
  BY DEF Placed, Untouched
<1>3. port = 1 => Dealt(0, d)'
  BY DEF Placed, Dealt, NoBroken
<1>4. Placed(d)'
  BY <1>2, <1>3 DEF Placed
<1>5. pc' \notin {"port_0", "port_1", "done"}
  BY DEF AtDevice, Calling, Returns
<1> QED BY <1>1, <1>4, <1>5 DEF Position

LEMMA ViewAtDevice ==
    ASSUME pc' \in AtDevice, NEW q, NEW d, NEW s, Driven(d)', Position(d)', Conduct(q, d, s)'
    PROVE  View(q, d, s)'
<1>1. pc' \notin {"port_0", "port_1", "done"}
  BY DEF AtDevice, Calling, Returns
<1> QED BY <1>1 DEF View

\* The view before an access.
LEMMA Seen ==
    ASSUME Dialogue, pc \in AtDevice, NEW q, NEW d, NEW s, Outcome(q, d, s)
    PROVE  Driven(d) /\ Placed(d) /\ Conduct(q, d, s)
BY DEF Dialogue, Devoted, View, Position

-----------------------------------------------------------------------------
(* The reset of a device. *)

LEMMA EachPortView ==
    ASSUME Types, Types', Conversation, Dialogue, EachPort, Quiet'
    PROVE  Dialogue'
<1> USE DEF AtDevice, Calling, Returns, Devoted, BeforeDevices, BeforeTests
<1>1. PICK p \in Ports :
        /\ pc = IF p = 0 THEN "port_0" ELSE "port_1"
        /\ IF operational[p]
           THEN /\ pc' = IF p = 1 THEN "reset_select" ELSE "reset"
                /\ port' = p /\ resp' = <<>> /\ UNCHANGED id
           ELSE /\ pc' = After(p)
                /\ id' = [id EXCEPT ![p] = 0] /\ UNCHANGED <<port, resp>>
        /\ UNCHANGED <<hwVars, config, dual_channel, operational, announced, call, kbd>>
  BY DEF EachPort
<1>2. UNCHANGED hardware
  BY <1>1 DEF hwVars, hardware
<1>3. Aiming'
  <2>1. Aim = 0 /\ Aim' = Aim
    BY <1>1, <1>2 DEF Dialogue, Aiming, hardware, Aim, Sent, Ports
  <2> QED BY <1>1, <2>1 DEF Aiming, After, Ports
<1>4. ASSUME NEW q, NEW d, NEW s, Outcome(q, d, s)'
      PROVE  View(q, d, s)'
  <2>1. View(q, d, s)
    BY <1>1, <1>2, <1>4, SameOutcome DEF Dialogue
  <2>2. q = <<>> /\ Harmless(s) /\ Driven(d) /\ Untouched(p)
    BY <1>1, <2>1 DEF View, Position, Ports
  <2>3. Driven(d)' /\ Harmless(s)'
    BY <1>1, <1>2, <2>2 DEF Driven, Harmless, NoBroken, hardware
  <2>4. CASE operational[p]
    <3>1. pc' \in {"reset_select", "reset"} /\ port' = p /\ ~Keying'
      BY <1>1, <2>4 DEF Keying, Asks
    <3>2. p = 0 => Untouched(1)'
      BY <1>1, <2>1, <2>4 DEF View, Position, Untouched, Ports
    <3>3. p = 1 => Dealt(0, d)'
      BY <1>1, <1>2, <2>1, <2>4 DEF View, Position, Dealt, NoBroken, hardware
    <3>4. kbd'.port # p /\ operational'[p]
      BY <1>1, <2>2, <2>4 DEF Untouched
    <3>5. Position(d)'
      BY <3>1, <3>2, <3>3, <3>4 DEF Position, Placed
    <3>6. id'[p] = 0 /\ resp' = <<>>
      BY <1>1, <2>2, <2>4 DEF Untouched
    <3>7. Conduct(q, d, s)'
      BY <2>2, <2>3, <3>1, <3>6 DEF Conduct, Resetting, Identifying, SettingCodes, Asks, Keying
    <3> QED BY <2>3, <3>1, <3>5, <3>7, ViewAtDevice
  <2>5. CASE ~operational[p]
    <3>1. Dealt(p, d)'
      BY <1>1, <2>2, <2>5 DEF Dealt, Untouched
    <3>2. p = 0 => pc' = "port_1" /\ Untouched(1)'
      BY <1>1, <2>1, <2>5 DEF View, Position, Untouched, Ports, After, Types, LocalTypes
    <3>3. p = 1 => pc' = "done" /\ Dealt(0, d)'
      BY <1>1, <1>2, <2>1, <2>5 DEF View, Position, Dealt, NoBroken, hardware, After
    <3> QED BY <2>2, <2>3, <3>1, <3>2, <3>3 DEF View, Position, Ports
  <2> QED BY <2>4, <2>5
<1>5. pc' \in Devoted \cup {"done"} /\ pc' \notin BeforeDevices
  BY <1>1 DEF After
<1> QED BY <1>3, <1>4, <1>5 DEF Dialogue

LEMMA DialogueAtDevice ==
    ASSUME pc' \in AtDevice, Aiming', \A q, d, s : Outcome(q, d, s)' => View(q, d, s)'
    PROVE  Dialogue'
BY DEF Dialogue, Devoted, AtDevice, Calling, Returns, BeforeDevices, BeforeTests

\* Steps that leave the input buffer alone go on to send a data byte to the first
\* port, or to address the second one.
LEMMA AimKept ==
    ASSUME Types, Dialogue, pc \in AtDevice, pc \notin {"reset", "device_command"},
           UNCHANGED <<hw, ib, target, port>>,
           pc' \in {"reset", "device_command"} => port = 0,
           pc' \in {"reset_select", "select_port"} => port = 1
    PROVE  Aiming'
<1>1. Aim' = Aim /\ Aim = 0
  BY DEF Dialogue, Aiming, Aim, Sent, Devoted
<1> QED BY <1>1 DEF Aiming

LEMMA AddressedAim ==
    ASSUME Types, Conversation, Dialogue, pc \in {"reset_select", "select_port"}, pc' \in {"reset", "device_command"},
           Sent(CMD_WRITE_INPUT_PORT_1)', UNCHANGED <<hw, port>>,
           \E q, d, s : Outcome(q, d, s)
    PROVE  Aiming'
<1> USE DEF Devoted, AtDevice, Calling, Returns
<1>1. port = 1 /\ operational[1]
  BY Seen DEF Dialogue, Aiming, Placed
<1>2. hw.dual
  BY <1>1 DEF Conversation, AfterPortTests, Tested, HealthyPort, Ports
<1>3. Aim' = 1
  BY <1>2 DEF Aim, Sent
<1> QED BY <1>1, <1>3 DEF Aiming

\* There always is an outcome.
LEMMA SomeOutcome == \E q, d, s : Outcome(q, d, s)
<1>1. CASE \E t \in Ports, b \in Bytes : Forwarding(t, b)
  <2>1. PICK t \in Ports, b \in Bytes : Forwarding(t, b)
    BY <1>1
  <2> DEFINE q == Buffered \o Reply(t, b).answer
             d == [dev EXCEPT ![t] = Reply(t, b).new]
  <2>2. Reached(t, b, q, d)
    BY DEF Reached
  <2>3. Outcome(q, d, Latest(q))
    BY <2>1, <2>2 DEF Outcome
  <2> QED BY <2>3
<1>2. CASE ~ \E t \in Ports, b \in Bytes : Forwarding(t, b)
  <2>1. Outcome(Buffered, dev, Latest(Buffered))
    BY <1>2 DEF Outcome
  <2> QED BY <2>1
<1> QED BY <1>1, <1>2

\* What the driver faces after it has sent byte b to its device.
LEMMA SentToDevice ==
    ASSUME Types, Types', Dialogue, Quiet', pc \in {"reset", "device_command"},
           NEW b \in Bytes, WriteBuffer("data", b), NEW q, NEW d, NEW s, Outcome(q, d, s)'
    PROVE  \E q0 \in Seq(Bytes), s0 \in Bytes :
              /\ Outcome(q0, dev, s0)
              /\ \/ /\ q = q0 \o Reply(port, b).answer /\ d = [dev EXCEPT ![port] = Reply(port, b).new]
                    /\ Follows(s, s0, Reply(port, b).answer)
                 \/ /\ Kind \in Talking
                    /\ q = q0 \o <<RESP_RESEND>> /\ d = dev /\ s = RESP_RESEND
<1>1. /\ Quiet /\ ib = <<>> /\ ib' = << <<"data", b>> >>
      /\ UNCHANGED <<hw, ccb, target, obf, obuf, outq, dev, resends>>
  BY QuietWrite
<1>2. port \in Ports /\ target = port
  BY <1>1 DEF Dialogue, Aiming, Aim, Devoted, AtDevice, Calling, Types, Ready
<1> QED BY <1>1, <1>2, DataOutcome DEF Kind

\* ... when the reaction of the device is known.
LEMMA SentAndAnswered ==
    ASSUME Types, Types', Dialogue, Quiet', pc \in {"reset", "device_command"},
           NEW b \in Bytes, WriteBuffer("data", b), NEW q, NEW d, NEW s, Outcome(q, d, s)',
           NEW answer, NEW new, Reacts(Kind, dev[port], b, answer, new)
    PROVE  \E q0 \in Seq(Bytes), s0 \in Bytes :
              /\ Outcome(q0, dev, s0)
              /\ \A p \in Ports : p # port => d[p] = dev[p]
              /\ \/ q = q0 \o answer /\ d[port] = new /\ Follows(s, s0, answer)
                 \/ Kind \in Talking /\ q = q0 \o <<RESP_RESEND>> /\ d = dev /\ s = RESP_RESEND
<1>1. PICK q0 \in Seq(Bytes), s0 \in Bytes :
              /\ Outcome(q0, dev, s0)
              /\ \/ /\ q = q0 \o Reply(port, b).answer /\ d = [dev EXCEPT ![port] = Reply(port, b).new]
                    /\ Follows(s, s0, Reply(port, b).answer)
                 \/ /\ Kind \in Talking
                    /\ q = q0 \o <<RESP_RESEND>> /\ d = dev /\ s = RESP_RESEND
  BY SentToDevice
<1>2. Reply(port, b).answer = answer /\ Reply(port, b).new = new
  BY DEF Reacts, Reply, Kind
<1>3. port \in Ports /\ dev \in [Ports -> DeviceState]
  BY DEF Types, HwTypes, Ready, AtDevice, Calling
<1>4. CASE q = q0 \o answer /\ d = [dev EXCEPT ![port] = new] /\ Follows(s, s0, answer)
  <2>1. d[port] = new /\ \A p \in Ports : p # port => d[p] = dev[p]
    BY <1>3, <1>4
  <2> QED BY <1>1, <1>4, <2>1
<1>5. CASE Kind \in Talking /\ q = q0 \o <<RESP_RESEND>> /\ d = dev /\ s = RESP_RESEND
  BY <1>1, <1>5
<1> QED BY <1>1, <1>2, <1>4, <1>5

LEMMA SentAim ==
    ASSUME Types, Quiet', pc \in AtDevice, NEW b \in Bytes, WriteBuffer("data", b),
           pc' \in AtDevice \ {"reset", "device_command", "reset_select", "select_port"}
    PROVE  Aiming'
<1>1. ib' = << <<"data", b>> >>
  BY QuietWrite
<1>2. Aim' = 0
  BY <1>1 DEF Aim, Sent
<1> QED BY <1>2 DEF Aiming

LEMMA Unread ==
    ASSUME NEW a \in Seq(Bytes)
    PROVE  <<>> \o a = a
OBVIOUS

LEMMA SendResetView ==
    ASSUME Types, Types', Conversation, Dialogue, SendReset, Quiet'
    PROVE  Dialogue'
<1> USE DEF AtDevice, Calling, Returns
<1>1. UNCHANGED <<operational, announced, kbd, port, id, resp, call>>
  BY DEF SendReset, local
<1>2. CASE ps2_send_command("reset_select", CMD_WRITE_INPUT_PORT_1, "reset")
  <2>1. /\ pc = "reset_select" /\ pc' = "reset" /\ ib = <<>> /\ Sent(CMD_WRITE_INPUT_PORT_1)'
        /\ UNCHANGED <<hw, ccb, target, obf, obuf, outq, dev, resends>>
    BY <1>2, QuietCommand
  <2>2. Aiming'
    BY <1>1, <2>1, AddressedAim, SomeOutcome
  <2>3. ASSUME NEW q, NEW d, NEW s, Outcome(q, d, s)'
        PROVE  View(q, d, s)'
    <3>1. Outcome(q, d, s)
      BY <2>1, <2>3, CommandOutcome
    <3>2. Driven(d) /\ Placed(d) /\ Conduct(q, d, s)
      BY <2>1, <3>1, Seen
    <3>3. ~Keying /\ ~Keying'
      BY <2>1 DEF Keying, Asks
    <3>4. Driven(d)' /\ Position(d)'
      BY <1>1, <2>1, <3>2, <3>3, PlaceKept
    <3>5. q = <<>> /\ Harmless(s)' /\ id'[port'] = 0 /\ resp' = <<>>
      BY <1>1, <2>1, <3>2 DEF Conduct, Resetting, Harmless, NoBroken
    <3>6. Conduct(q, d, s)'
      BY <2>1, <3>5 DEF Conduct, Resetting, Identifying, SettingCodes, Keying, Asks
    <3> QED BY <2>1, <3>4, <3>6, ViewAtDevice
  <2> QED BY <2>1, <2>2, <2>3, DialogueAtDevice
<1>3. CASE ps2_send_data("reset", CMD_RESET_DEVICE, "reset_response")
  <2>1. pc = "reset" /\ pc' = "reset_response" /\ WriteBuffer("data", CMD_RESET_DEVICE) /\ CMD_RESET_DEVICE \in Bytes
    BY <1>3, Commands DEF ps2_send_data
  <2>2. Aiming'
    BY <2>1, SentAim
  <2>3. UNCHANGED hw
    BY <2>1 DEF WriteBuffer
  <2>4. ASSUME NEW q, NEW d, NEW s, Outcome(q, d, s)'
        PROVE  View(q, d, s)'
    <3>1. PICK answer \in Seq(Bytes), new \in DeviceState :
              /\ Reacts(Kind, dev[port], CMD_RESET_DEVICE, answer, new)
              /\ Kind = "none" => answer = <<>> /\ new = dev[port]
              /\ Kind # "none" => answer = ResetAnswer(Kind) /\ new = PowerOnDevice
      <4>1. dev[port] \in DeviceState /\ Kind \in Devices /\ CMD_RESET_DEVICE \in Bytes /\ <<>> \in Seq(Bytes)
        BY <2>1, Kinds DEF Types, HwTypes
      <4>2. Kind # "none" => ResetAnswer(Kind) \in Seq(Bytes)
        BY <4>1, ResetAnswerTypes
      <4>3. PowerOnDevice \in DeviceState
        BY DEF PowerOnDevice, DeviceState
      <4> QED BY <4>1, <4>2, <4>3, ReactionCases
    <3>2. PICK q0 \in Seq(Bytes), s0 \in Bytes :
              /\ Outcome(q0, dev, s0)
              /\ \A p \in Ports : p # port => d[p] = dev[p]
              /\ \/ q = q0 \o answer /\ d[port] = new /\ Follows(s, s0, answer)
                 \/ Kind \in Talking /\ q = q0 \o <<RESP_RESEND>> /\ d = dev /\ s = RESP_RESEND
      BY <2>1, <2>4, <3>1, SentAndAnswered
    <3>3. Driven(dev) /\ Placed(dev) /\ Conduct(q0, dev, s0)
      BY <2>1, <3>2, Seen
    <3>4. q0 = <<>> /\ Harmless(s0) /\ id[port] = 0 /\ resp = <<>>
      BY <2>1, <3>3 DEF Conduct, Resetting
    <3>5. \/ q = answer /\ d[port] = new /\ Follows(s, s0, answer)
          \/ Kind \in Talking /\ q = <<RESP_RESEND>> /\ d = dev /\ s = RESP_RESEND
      <4>1. <<>> \o answer = answer /\ <<>> \o <<RESP_RESEND>> = <<RESP_RESEND>>
        BY Unread, Commands
      <4> QED BY <3>2, <3>4, <4>1
    <3>6. /\ Kind = "none" => q = <<>> /\ s = s0
          /\ Kind # "none" => q = ResetAnswer(Kind) \/ (Kind \in Talking /\ q = <<RESP_RESEND>>)
      <4>1. Kind = "none" => Kind \notin Talking
        BY <2>1, Kinds
      <4> QED BY <3>1, <3>5, <4>1 DEF Follows
    <3>7. \A p \in Ports : d[p].pending => dev[p].pending
      <4>1. d[port].pending => dev[port].pending
        BY <3>1, <3>5 DEF PowerOnDevice
      <4> QED BY <3>2, <4>1
    <3>8. ~Keying /\ ~Keying'
      BY <2>1 DEF Keying, Asks
    <3>9. Driven(d)' /\ Position(d)'
      <4>1. port = 1 => (dev[0].scan => d[0].scan)
        BY <3>2 DEF Ports
      <4> QED BY <1>1, <2>1, <2>3, <3>3, <3>7, <3>8, <4>1, PlaceKept
    <3>10. ResetRead(resp, q, s)
      BY <2>1, <3>4, <3>6, Kinds, ResetAnswers DEF ResetRead
    <3>11. ResetRead(resp, q, s)' /\ id'[port'] = 0
      BY <1>1, <2>3, <3>4, <3>10 DEF ResetRead, Kind, Harmless, NoBroken
    <3>12. Conduct(q, d, s)'
      BY <2>1, <3>11 DEF Conduct, Resetting, Identifying, SettingCodes, Keying, Asks
    <3> QED BY <2>1, <3>9, <3>12, ViewAtDevice
  <2> QED BY <2>1, <2>2, <2>4, DialogueAtDevice
<1> QED BY <1>2, <1>3 DEF SendReset

\* What a read takes from q0 leaves q.
Taken(q0, q, s) ==
    \/ q0 # <<>> /\ obuf = Head(q0) /\ q = Tail(q0) /\ s = q0[Len(q0)]
    \/ q0 = <<>> /\ q = <<>> /\ obuf = s

LEMMA ReadAtDevice ==
    ASSUME Types, Types', Dialogue, pc \in AtDevice, NEW got \in BOOLEAN, ReadBuffer(got), Quiet',
           NEW q, NEW d, NEW s, Outcome(q, d, s)'
    PROVE  /\ got /\ s \in Bytes /\ obuf \in Bytes
           /\ \E q0 \in Seq(Bytes) : Taken(q0, q, s) /\ Driven(d) /\ Placed(d) /\ Conduct(q0, d, s)
<1>1. got
  BY QuietRead
<1>2. PICK q0 \in Seq(Bytes) :
        /\ Outcome(q0, d, s)
        /\ \/ q0 # <<>> /\ obuf = Head(q0) /\ q = Tail(q0)
           \/ q0 = <<>> /\ q = <<>> /\ obuf = s
  BY ReadOutcome
<1>3. s \in Bytes
  BY <1>2, OutcomeTypes
<1>4. Taken(q0, q, s) /\ obuf \in Bytes
  BY <1>2 DEF Taken, Outcome, Latest, Types, HwTypes
<1> QED BY <1>1, <1>2, <1>3, <1>4, Seen

LEMMA TakenNone ==
    ASSUME NEW q0, NEW q, NEW s, Taken(q0, q, s), q0 = <<>>
    PROVE  q = <<>> /\ obuf = s
BY DEF Taken

LEMMA TakenOne ==
    ASSUME NEW q0, NEW q, NEW s, Taken(q0, q, s), NEW a, q0 = <<a>>
    PROVE  obuf = a /\ q = <<>> /\ s = a
<1>1. <<a>> # <<>> /\ Len(<<a>>) = 1 /\ <<a>>[1] = a
  OBVIOUS
<1> QED BY <1>1, Tails DEF Taken

LEMMA TakenTwo ==
    ASSUME NEW q0, NEW q, NEW s, Taken(q0, q, s), NEW a, NEW b, q0 = <<a, b>>
    PROVE  obuf = a /\ q = <<b>> /\ s = b
<1>1. <<a, b>> # <<>> /\ Len(<<a, b>>) = 2 /\ <<a, b>>[2] = b
  OBVIOUS
<1> QED BY <1>1, Tails DEF Taken

LEMMA TakenSome ==
    ASSUME NEW q0, NEW q, NEW s, Taken(q0, q, s), q0 # <<>>
    PROVE  obuf = Head(q0) /\ q = Tail(q0)
BY DEF Taken

LEMMA Appended ==
    ASSUME NEW r \in Seq(Bytes), NEW b \in Bytes
    PROVE  /\ Len(Append(r, b)) = Len(r) + 1 /\ Append(r, b) # <<>>
           /\ Append(r, b)[1] = IF r = <<>> THEN b ELSE r[1]
<1>1. Len(Append(r, b)) = Len(r) + 1 /\ Len(r) \in Nat
  OBVIOUS
<1>2. Append(r, b) # <<>>
  BY <1>1
<1>3. CASE r = <<>>
  BY <1>3
<1>4. CASE r # <<>>
  <2>1. 1 \in 1 .. Len(r)
    BY <1>1, <1>4
  <2> QED BY <1>4, <2>1
<1> QED BY <1>1, <1>2, <1>3, <1>4

\* The answer to a reset, all, with one more byte read.
ResetStep(all, q, s) ==
    /\ Len(all) # 3 => ResetRead(all, q, s)
    /\ Len(all) = 3 =>
          /\ Kind = "none" => q = <<>> /\ Harmless(s) /\ all[1] = s
          /\ Kind = "broken" => q = <<>> /\ all[1] = RESP_RESET_FAIL
          /\ Kind \in Talking => /\ all[1] # RESP_RESET_FAIL
                                 /\ obuf \in {\hab, \hac} => Kind = "kbd_id" /\ q = <<\h83>>
                                 /\ obuf \notin {\hab, \hac} => q = <<>>

LEMMA ResetByte ==
    ASSUME Types, pc = "reset_response", NEW q0, NEW q, NEW s, s \in Bytes, ResetRead(resp, q0, s), Taken(q0, q, s),
           NEW all, all = Append(resp, obuf)
    PROVE  ResetStep(all, q, s)
<1>1. resp \in Seq(Bytes) /\ Len(resp) \in Nat /\ Len(resp) < 3 /\ obuf \in Bytes
  BY DEF Types, LocalTypes, HwTypes, Ready, NRESP
<1>2. Len(all) = Len(resp) + 1 /\ all # <<>> /\ all[1] = IF resp = <<>> THEN obuf ELSE resp[1]
  BY <1>1, Appended
<1>3. resp = <<>> <=> Len(resp) = 0
  BY <1>1
<1>4. pc \in AtDevice
  BY DEF AtDevice
<1>5. Len(all) \in Nat /\ Len(all) <= 3
  BY <1>1, <1>2
<1>7. CASE Kind = "none"
  <2>1. q0 = <<>> /\ Harmless(s) /\ (resp # <<>> => resp[1] = s)
    BY <1>7 DEF ResetRead
  <2>2. q = <<>> /\ all[1] = s
    BY <1>2, <2>1, TakenNone
  <2>3. Kind \notin Talking /\ Kind # "broken"
    BY <1>4, <1>7, Kinds
  <2> QED BY <1>2, <1>7, <2>1, <2>2, <2>3 DEF ResetRead, ResetStep
<1>8. CASE Kind = "broken"
  <2>1. q = <<>> /\ s = RESP_RESET_FAIL /\ all[1] = RESP_RESET_FAIL
    BY <1>2, <1>8, TakenNone, TakenOne DEF ResetRead
  <2>2. Kind \notin Talking /\ Kind # "none"
    BY <1>4, <1>8, Kinds
  <2> QED BY <1>2, <1>8, <2>1, <2>2 DEF ResetRead, ResetStep
<1>9. CASE Kind \in Talking
  <2>1. Kind # "none" /\ Kind # "broken" /\ (Kind = "kbd" \/ Kind = "kbd_id" \/ Kind = "mouse")
    BY <1>4, <1>9, Kinds
  <2>2. ASSUME Len(all) # 3, ResetRead(all, q, s)
        PROVE  ResetStep(all, q, s)
    BY <2>2 DEF ResetStep
  <2>3. ASSUME Len(all) = 3, all[1] # RESP_RESET_FAIL,
               obuf \in {\hab, \hac} => Kind = "kbd_id" /\ q = <<\h83>>,
               obuf \notin {\hab, \hac} => q = <<>>
        PROVE  ResetStep(all, q, s)
    BY <2>1, <2>3 DEF ResetStep
  <2>4. CASE resp = <<>> /\ q0 = ResetAnswer(Kind)
    <3>1. obuf = RESP_ACK /\ q = Tail(ResetAnswer(Kind))
      BY <1>9, <2>4, TakenSome, ResetAnswerHeads
    <3>2. ResetRead(all, q, s)
      BY <1>2, <1>3, <2>1, <2>4, <3>1 DEF ResetRead
    <3> QED BY <1>2, <1>3, <2>2, <2>4, <3>2
  <2>5. CASE resp = <<>> /\ q0 = <<RESP_RESEND>>
    <3>1. obuf = RESP_RESEND /\ q = <<>> /\ s = RESP_RESEND
      BY <2>5, TakenOne
    <3>2. ResetRead(all, q, s)
      BY <1>2, <1>3, <2>1, <2>5, <3>1 DEF ResetRead
    <3> QED BY <1>2, <1>3, <2>2, <2>5, <3>2
  <2>6. CASE resp # <<>> /\ resp[1] = RESP_RESEND /\ q0 = <<>> /\ s = RESP_RESEND
    <3>1. obuf = RESP_RESEND /\ q = <<>>
      BY <2>6, TakenNone
    <3>2. ResetRead(all, q, s)
      BY <1>2, <2>1, <2>6, <3>1 DEF ResetRead
    <3>3. all[1] # RESP_RESET_FAIL /\ obuf \notin {\hab, \hac}
      BY <1>2, <2>6, <3>1, ByteValues
    <3>4. CASE Len(all) = 3
      BY <2>3, <3>1, <3>3, <3>4
    <3> QED BY <2>2, <3>2, <3>4
  <2>7. CASE Len(resp) = 1 /\ resp[1] = RESP_ACK /\ q0 = Tail(ResetAnswer(Kind))
    <3>1. q = Tail(Tail(ResetAnswer(Kind)))
      BY <1>9, <2>7, TakenSome, ResetAnswerHeads
    <3>2. ASSUME Kind = "kbd" PROVE s = RESP_RESET_SUCCESS
      <4>1. q0 = <<RESP_RESET_SUCCESS>>
        BY <2>7, <3>2, ResetAnswers
      <4> QED BY <4>1, TakenOne
    <3>3. ResetRead(all, q, s)
      BY <1>2, <1>3, <2>1, <2>7, <3>1, <3>2 DEF ResetRead
    <3> QED BY <1>2, <2>2, <2>7, <3>3
  <2>8. CASE /\ Len(resp) = 2 /\ resp[1] = RESP_ACK /\ q0 = Tail(Tail(ResetAnswer(Kind)))
             /\ Kind = "kbd" => s = RESP_RESET_SUCCESS
    <3>1. all[1] # RESP_RESET_FAIL /\ Len(all) = 3
      BY <1>2, <1>3, <2>8, ByteValues
    <3>2. CASE Kind = "kbd"
      <4>1. q0 = <<>> /\ s = 170
        BY <2>8, <3>2, ResetAnswers, ByteValues
      <4>2. q = <<>> /\ obuf = 170
        BY <4>1, TakenNone
      <4>3. obuf \notin {\hab, \hac}
        BY <4>2
      <4> QED BY <2>3, <3>1, <4>2, <4>3
    <3>3. CASE Kind = "kbd_id"
      <4>1. q0 = <<\hab, \h83>>
        BY <2>8, <3>3, ResetAnswers
      <4>2. obuf = \hab /\ q = <<\h83>>
        BY <4>1, TakenTwo
      <4> QED BY <2>3, <3>1, <3>3, <4>2
    <3>4. CASE Kind = "mouse"
      <4>1. q0 = <<0>>
        BY <2>8, <3>4, ResetAnswers
      <4>2. obuf = 0 /\ q = <<>>
        BY <4>1, TakenOne
      <4>3. obuf \notin {\hab, \hac}
        BY <4>2
      <4> QED BY <2>3, <3>1, <4>2, <4>3
    <3> QED BY <2>1, <3>2, <3>3, <3>4
  <2> QED BY <1>9, <2>4, <2>5, <2>6, <2>7, <2>8 DEF ResetRead
<1>10. Kind = "none" \/ Kind = "broken" \/ Kind \in Talking
  BY <1>4, Kinds
<1> QED BY <1>7, <1>8, <1>9, <1>10

\* Where a call of ps2_send_device_command starts.
LEMMA Entered ==
    ASSUME NEW cmd, NEW p \in Ports, NEW to, Call(cmd, p, to)
    PROVE  /\ pc' \in {"select_port", "device_command"} /\ pc' \in AtDevice
           /\ pc' = "device_command" => p = 0
           /\ pc' = "select_port" => p = 1
           /\ call'.cmd = cmd /\ \A x : Asks(x)' <=> x = to
<1>1. /\ pc' = IF p = 1 THEN "select_port" ELSE "device_command"
      /\ call'.cmd = cmd /\ call'.to = to
  BY DEF Call, DeviceCommandEntry
<1> QED BY <1>1 DEF Ports, Asks, AtDevice, Calling

\* A read of an answer leaves the machine and the place of the driver alone.
LEMMA ReadKeeps ==
    ASSUME Types, NEW got \in BOOLEAN, ReadBuffer(got), Quiet'
    PROVE  got /\ UNCHANGED <<hw, ib, target, dev>>
BY QuietRead

LEMMA ResetResponseView ==
    ASSUME Types, Types', Dialogue, ResetResponse, Quiet'
    PROVE  Dialogue'
<1> USE DEF AtDevice, Calling, Returns
<1> DEFINE all == Append(resp, obuf)
<1>1. PICK got \in BOOLEAN :
        /\ pc = "reset_response" /\ ReadBuffer(got)
        /\ resp' = IF got THEN all ELSE resp
        /\ \/ ~got
           \/ got /\ ~(got /\ Len(all) = 3) /\ pc' = "reset_response" /\ UNCHANGED <<id, call>>
           \/ got /\ Len(all) = 3 /\ all[1] = RESP_RESET_FAIL /\ pc' = "init_device" /\ UNCHANGED <<id, call>>
           \/ /\ got /\ Len(all) = 3 /\ all[1] # RESP_RESET_FAIL
              /\ id' = [id EXCEPT ![port] = obuf]
              /\ IF obuf \in {\hab, \hac}
                 THEN pc' = "special_code" /\ UNCHANGED call
                 ELSE Call(CMD_DISABLE_SCAN, port, "identify")
  BY DEF ResetResponse, try_read_data, NRESP
<1>2. got /\ UNCHANGED <<hw, ib, target, operational, announced, port, kbd>>
  BY <1>1, ReadKeeps DEF ResetResponse
<1>3. port \in Ports /\ id \in [Ports -> Words]
  BY <1>1 DEF Types, Ready, LocalTypes
<1> HIDE DEF all
<1>4. /\ pc' \in {"reset_response", "init_device", "special_code", "select_port", "device_command"}
      /\ pc' = "device_command" => port = 0
      /\ pc' = "select_port" => port = 1
      /\ ~Keying'
  <2>1. ASSUME Call(CMD_DISABLE_SCAN, port, "identify")
        PROVE  /\ pc' \in {"select_port", "device_command"}
               /\ pc' = "device_command" => port = 0
               /\ pc' = "select_port" => port = 1
               /\ ~Keying'
    BY <1>3, <2>1, Entered DEF Keying
  <2>2. ASSUME pc' \in {"reset_response", "init_device", "special_code"}
        PROVE  ~Keying'
    BY <2>2 DEF Keying, Asks
  <2> QED BY <1>1, <1>2, <2>1, <2>2
<1>5. Aiming'
  BY <1>1, <1>2, <1>4, AimKept
<1>6. ASSUME NEW q, NEW d, NEW s, Outcome(q, d, s)'
      PROVE  View(q, d, s)'
  <2>1. PICK q0 \in Seq(Bytes) : Taken(q0, q, s) /\ Driven(d) /\ Placed(d) /\ Conduct(q0, d, s)
    BY <1>1, <1>6, ReadAtDevice
  <2>2. s \in Bytes /\ obuf \in Bytes
    BY <1>1, <1>6, ReadAtDevice
  <2>3. ResetRead(resp, q0, s) /\ id[port] = 0
    BY <1>1, <2>1 DEF Conduct, Resetting
  <2>4. ResetStep(all, q, s)
    <3>1. all = Append(resp, obuf) /\ pc = "reset_response"
      BY <1>1 DEF all
    <3> QED BY <2>1, <2>2, <2>3, <3>1, ResetByte
  <2>5. Kind' = Kind /\ (Harmless(s)' <=> Harmless(s)) /\ (NoBroken' <=> NoBroken)
    BY <1>2 DEF Kind, Harmless, NoBroken
  <2>6. Kind \in Talking \/ Kind = "none" \/ Kind = "broken"
    BY <1>1, Kinds
  <2>7. ~Keying /\ ~Asks("set_codes") /\ ~Asks("set_id") /\ ~Asks("check_set")
    BY <1>1 DEF Keying, Asks
  <2>8. ~Keying' /\ (port = 0 => id'[1] = id[1])
    BY <1>1, <1>2, <1>3, <1>4 DEF Ports
  <2>9. Driven(d)' /\ Position(d)'
    BY <1>1, <1>2, <1>4, <2>1, <2>7, <2>8, PlaceKept
  <2>10. CASE Len(all) # 3
    <3>1. pc' = "reset_response" /\ resp' = all /\ id' = id
      BY <1>1, <1>2, <2>10
    <3>2. ResetRead(resp, q, s)'
      BY <2>4, <2>5, <2>10, <3>1 DEF ResetRead, ResetStep
    <3>3. Conduct(q, d, s)'
      BY <1>2, <2>3, <2>8, <3>1, <3>2 DEF Conduct, Resetting, Identifying, SettingCodes, Asks
    <3> QED BY <1>4, <2>9, <3>3, ViewAtDevice
  <2>11. CASE Len(all) = 3 /\ all[1] = RESP_RESET_FAIL
    <3>1. pc' = "init_device" /\ id' = id
      BY <1>1, <1>2, <2>11
    <3>2. q = <<>> /\ Harmless(s) /\ Kind \in {"none", "broken"} /\ ~NoBroken
      <4>1. Kind = "broken" => ~NoBroken
        BY <1>3 DEF NoBroken, Kind
      <4>2. Kind = "none" => ~NoBroken
        BY <2>4, <2>11 DEF Harmless, ResetStep
      <4> QED BY <2>4, <2>6, <2>11, <4>1, <4>2 DEF Harmless, ResetStep
    <3>3. Conduct(q, d, s)'
      BY <1>2, <2>3, <2>5, <2>8, <3>1, <3>2 DEF Conduct, Resetting, Identifying, SettingCodes, Asks
    <3> QED BY <1>4, <2>9, <3>3, ViewAtDevice
  <2>12. CASE Len(all) = 3 /\ all[1] # RESP_RESET_FAIL
    <3>1. (Kind = "none" /\ q = <<>> /\ Harmless(s)) \/ Kind \in Talking
      BY <2>4, <2>6, <2>12 DEF ResetStep
    <3>2. CASE obuf \in {\hab, \hac}
      <4>1. pc' = "special_code"
        BY <1>1, <1>2, <2>12, <3>2
      <4>2. (Kind = "none" /\ q = <<>> /\ Harmless(s)) \/ (Kind = "kbd_id" /\ q = <<\h83>>)
        BY <2>4, <2>12, <3>1, <3>2 DEF ResetStep
      <4>3. Conduct(q, d, s)'
        BY <2>5, <2>8, <4>1, <4>2 DEF Conduct, Resetting, Identifying, SettingCodes, Asks
      <4> QED BY <1>4, <2>9, <4>3, ViewAtDevice
    <3>3. CASE obuf \notin {\hab, \hac}
      <4>1. Call(CMD_DISABLE_SCAN, port, "identify")
        BY <1>1, <1>2, <2>12, <3>3
      <4>2. Command(q, s, <<RESP_ACK>>)'
        BY <1>3, <2>4, <2>5, <2>12, <3>1, <3>3, <4>1, Entered DEF Command, ResetStep
      <4>3. Conduct(q, d, s)'
        BY <1>3, <2>8, <4>1, <4>2, Entered DEF Conduct, Resetting, Identifying, SettingCodes
      <4> QED BY <1>4, <2>9, <4>3, ViewAtDevice
    <3> QED BY <3>2, <3>3
  <2> QED BY <2>10, <2>11, <2>12
<1> QED BY <1>4, <1>5, <1>6, DialogueAtDevice

-----------------------------------------------------------------------------
(* The identification. *)

\* What is the same after a step that leaves the machine and the port alone.
SameDevice == (Kind' = Kind) /\ (NoBroken' <=> NoBroken) /\ \A s : Harmless(s)' <=> Harmless(s)

LEMMA DeviceKept ==
    ASSUME UNCHANGED <<hw, port>>
    PROVE  SameDevice
BY DEF SameDevice, Kind, Harmless, NoBroken

LEMMA SpecialCodeView ==
    ASSUME Types, Types', Dialogue, SpecialCode, Quiet'
    PROVE  Dialogue'
<1> USE DEF AtDevice, Calling, Returns
<1>1. PICK got \in BOOLEAN :
        /\ pc = "special_code" /\ ReadBuffer(got)
        /\ id' = IF got THEN [id EXCEPT ![port] = Word(id[port] + obuf * 256)] ELSE id
  BY DEF SpecialCode, try_read_data
<1>2. /\ UNCHANGED <<hw, ib, target, operational, announced, port, kbd>>
      /\ Call(CMD_DISABLE_SCAN, port, "identify")
  BY <1>1, ReadKeeps DEF SpecialCode
<1>3. port \in Ports /\ id \in [Ports -> Words] /\ (port = 0 => id'[1] = id[1])
  BY <1>1 DEF Types, Ready, LocalTypes, Ports
<1>4. /\ pc' \in {"select_port", "device_command"}
      /\ pc' = "device_command" => port = 0
      /\ pc' = "select_port" => port = 1
      /\ call'.cmd = CMD_DISABLE_SCAN /\ \A x : Asks(x)' <=> x = "identify"
  BY <1>2, <1>3, Entered
<1>5. Aiming'
  BY <1>1, <1>2, <1>4, AimKept
<1>6. ASSUME NEW q, NEW d, NEW s, Outcome(q, d, s)'
      PROVE  View(q, d, s)'
  <2>1. PICK q0 \in Seq(Bytes) : Taken(q0, q, s) /\ Driven(d) /\ Placed(d) /\ Conduct(q0, d, s)
    BY <1>1, <1>6, ReadAtDevice
  <2>2. (Kind = "none" /\ q = <<>> /\ Harmless(s)) \/ (Kind \in Talking /\ q = <<>>)
    <3>1. (Kind = "none" /\ q0 = <<>> /\ Harmless(s)) \/ (Kind = "kbd_id" /\ q0 = <<\h83>>)
      BY <1>1, <2>1 DEF Conduct, Resetting
    <3> QED BY <2>1, <3>1, TakenNone, TakenOne DEF Talking
  <2>3. ~Keying /\ ~Keying'
    BY <1>1, <1>4 DEF Keying, Asks
  <2>4. Driven(d)' /\ Position(d)'
    BY <1>1, <1>2, <1>3, <1>4, <2>1, <2>3, PlaceKept
  <2>5. Command(q, s, <<RESP_ACK>>)'
    BY <1>2, <1>4, <2>2, DeviceKept DEF Command, SameDevice
  <2>6. Conduct(q, d, s)'
    BY <1>4, <2>3, <2>5 DEF Conduct, Resetting, Identifying, SettingCodes
  <2> QED BY <1>4, <2>4, <2>6, ViewAtDevice
<1> QED BY <1>4, <1>5, <1>6, DialogueAtDevice

\* The identity that two bytes make.
LEMMA TwoBytes == Word(\hab * 256 + \h83) = \hab83 /\ Word(0 * 256 + 0) = 0
BY SMT DEF Word

LEMMA IdentifyView ==
    ASSUME Types, Types', Dialogue, Identify, Quiet'
    PROVE  Dialogue'
<1> USE DEF AtDevice, Calling, Returns
<1>1. CASE pc = "identify"
  <2>1. /\ UNCHANGED <<hwVars, operational, announced, port, kbd, id>>
        /\ Call(CMD_IDENTIFY, port, "id_1")
    BY <1>1 DEF Identify, try_read_data
  <2>2. port \in Ports /\ UNCHANGED <<hardware, hw, ib, target>>
    BY <1>1, <2>1 DEF Types, Ready, hwVars, hardware
  <2>3. /\ pc' \in {"select_port", "device_command"}
        /\ pc' = "device_command" => port = 0
        /\ pc' = "select_port" => port = 1
        /\ call'.cmd = CMD_IDENTIFY /\ \A x : Asks(x)' <=> x = "id_1"
    BY <2>1, <2>2, Entered
  <2>4. Aiming'
    BY <1>1, <2>1, <2>2, <2>3, AimKept
  <2>5. ASSUME NEW q, NEW d, NEW s, Outcome(q, d, s)'
        PROVE  View(q, d, s)'
    <3>1. Driven(d) /\ Placed(d) /\ Conduct(q, d, s)
      BY <1>1, <2>2, <2>5, SameOutcome, Seen
    <3>2. ~Keying /\ ~Keying'
      BY <1>1, <2>3 DEF Keying, Asks
    <3>3. Driven(d)' /\ Position(d)'
      BY <1>1, <2>1, <2>2, <2>3, <3>1, <3>2, PlaceKept
    <3>4. q = <<>> /\ ((Kind = "none" /\ Harmless(s)) \/ Kind \in Talking)
      BY <1>1, <3>1 DEF Conduct, Identifying
    <3>5. Command(q, s, Identity(Kind))'
      BY <2>1, <2>2, <2>3, <3>4, DeviceKept DEF Command, SameDevice
    <3>6. Conduct(q, d, s)'
      BY <2>3, <3>2, <3>5 DEF Conduct, Resetting, Identifying, SettingCodes
    <3> QED BY <2>3, <3>3, <3>6, ViewAtDevice
  <2> QED BY <2>3, <2>4, <2>5, DialogueAtDevice
<1>2. CASE pc = "id_1"
  <2>1. /\ ReadBuffer(TRUE) /\ UNCHANGED <<hw, ib, target, operational, announced, port, kbd>>
        /\ id' = [id EXCEPT ![port] = obuf] /\ pc' = "id_2"
    <3>1. ~ReadBuffer(FALSE)
      BY ReadKeeps
    <3> QED BY <1>2, <3>1, ReadKeeps DEF Identify, try_read_data
  <2>2. port \in Ports /\ id'[port] = obuf /\ (port = 0 => id'[1] = id[1])
    BY <1>2, <2>1 DEF Types, Ready, LocalTypes, Ports
  <2>3. Aiming'
    BY <1>2, <2>1, AimKept
  <2>4. ASSUME NEW q, NEW d, NEW s, Outcome(q, d, s)'
        PROVE  View(q, d, s)'
    <3>1. PICK q0 \in Seq(Bytes) : Taken(q0, q, s) /\ Driven(d) /\ Placed(d) /\ Conduct(q0, d, s)
      BY <1>2, <2>1, <2>4, ReadAtDevice
    <3>2. ~Keying /\ ~Keying'
      BY <1>2, <2>1 DEF Keying, Asks
    <3>3. Driven(d)' /\ Position(d)'
      BY <1>2, <2>1, <2>2, <3>1, <3>2, PlaceKept
    <3>4. \/ Kind = "none" /\ q0 = <<>> /\ Harmless(s)
          \/ Kind = "mouse" /\ q0 = <<0>>
          \/ Kind \in Keyboards /\ q0 = <<\hab, \h83>>
      BY <1>2, <3>1 DEF Conduct, Identifying
    <3>5. \/ Kind = "none" /\ q = <<>> /\ Harmless(s) /\ obuf = s
          \/ Kind = "mouse" /\ q = <<>> /\ s = 0 /\ obuf = 0
          \/ Kind \in Keyboards /\ q = <<\h83>> /\ obuf = \hab
      BY <3>1, <3>4, TakenNone, TakenOne, TakenTwo
    <3>6. Conduct(q, d, s)'
      BY <2>1, <2>2, <3>2, <3>5, DeviceKept DEF Conduct, Resetting, Identifying, SettingCodes, Asks, SameDevice
    <3> QED BY <2>1, <3>3, <3>6, ViewAtDevice
  <2> QED BY <2>1, <2>3, <2>4, DialogueAtDevice
<1>3. CASE pc = "id_2"
  <2>1. PICK got \in BOOLEAN :
          /\ ReadBuffer(got)
          /\ id' = IF got THEN [id EXCEPT ![port] = Word(id[port] * 256 + obuf)] ELSE id
    BY <1>3 DEF Identify, try_read_data
  <2>2. got /\ UNCHANGED <<hw, ib, target>>
    BY <2>1, ReadKeeps
  <2>3. UNCHANGED <<operational, announced, port, kbd>> /\ Call(CMD_ENABLE_SCAN, port, "init_device")
    BY <1>3 DEF Identify, try_read_data
  <2>4. port \in Ports /\ id'[port] = Word(id[port] * 256 + obuf) /\ (port = 0 => id'[1] = id[1])
    BY <1>3, <2>1, <2>2 DEF Types, Ready, LocalTypes, Ports
  <2>5. /\ pc' \in {"select_port", "device_command"}
        /\ pc' = "device_command" => port = 0
        /\ pc' = "select_port" => port = 1
        /\ call'.cmd = CMD_ENABLE_SCAN /\ \A x : Asks(x)' <=> x = "init_device"
    BY <2>3, <2>4, Entered
  <2>6. Aiming'
    BY <1>3, <2>2, <2>3, <2>5, AimKept
  <2>7. ASSUME NEW q, NEW d, NEW s, Outcome(q, d, s)'
        PROVE  View(q, d, s)'
    <3>1. PICK q0 \in Seq(Bytes) : Taken(q0, q, s) /\ Driven(d) /\ Placed(d) /\ Conduct(q0, d, s)
      BY <1>3, <2>1, <2>7, ReadAtDevice
    <3>2. ~Keying /\ ~Keying'
      BY <1>3, <2>5 DEF Keying, Asks
    <3>3. Driven(d)' /\ Position(d)'
      BY <1>3, <2>2, <2>3, <2>4, <2>5, <3>1, <3>2, PlaceKept
    <3>4. \/ Kind = "none" /\ q0 = <<>> /\ Harmless(s) /\ id[port] = s
          \/ Kind = "mouse" /\ q0 = <<>> /\ s = 0 /\ id[port] = 0
          \/ Kind \in Keyboards /\ q0 = <<\h83>> /\ id[port] = \hab
      BY <1>3, <3>1 DEF Conduct, Identifying
    <3>5. \/ Kind = "none" /\ q = <<>> /\ Harmless(s) /\ id'[port] = Word(s * 256 + s)
          \/ Kind = "mouse" /\ q = <<>> /\ id'[port] = 0
          \/ Kind \in Keyboards /\ q = <<>> /\ id'[port] = \hab83
      <4>1. CASE Kind = "none" /\ q0 = <<>> /\ Harmless(s) /\ id[port] = s
        BY <2>4, <3>1, <4>1, TakenNone
      <4>2. CASE Kind = "mouse" /\ q0 = <<>> /\ s = 0 /\ id[port] = 0
        BY <2>4, <3>1, <4>2, TakenNone, TwoBytes
      <4>3. CASE Kind \in Keyboards /\ q0 = <<\h83>> /\ id[port] = \hab
        BY <2>4, <3>1, <4>3, TakenOne, TwoBytes
      <4> QED BY <3>4, <4>1, <4>2, <4>3
    <3>6. (Kind \in Keyboards \/ Kind = "mouse" => Kind \in Talking /\ Kind # "none")
          /\ (Kind = "mouse" => Kind \notin Keyboards)
          /\ (Kind = "none" => Kind \notin Keyboards)
      BY DEF Keyboards, Talking
    <3>7. Known(s)' /\ Command(q, s, <<RESP_ACK>>)' /\ q # <<RESP_ACK>>
      <4>1. SameDevice /\ port' = port /\ pc' # "device_ack"
        BY <2>2, <2>3, <2>5, DeviceKept
      <4>2. Known(s)'
        BY <3>5, <3>6, <4>1 DEF Known, SameDevice
      <4>3. Command(q, s, <<RESP_ACK>>)'
        BY <3>5, <3>6, <4>1 DEF Command, SameDevice
      <4>4. <<>> # <<RESP_ACK>>
        OBVIOUS
      <4>5. q = <<>>
        BY <3>5
      <4> QED BY <4>2, <4>3, <4>4, <4>5
    <3>8. Conduct(q, d, s)'
      BY <2>5, <3>2, <3>7 DEF Conduct, Resetting, Identifying, SettingCodes
    <3> QED BY <2>5, <3>3, <3>8, ViewAtDevice
  <2> QED BY <2>5, <2>6, <2>7, DialogueAtDevice
<1> QED BY <1>1, <1>2, <1>3 DEF Identify, try_read_data

-----------------------------------------------------------------------------
(* ps2_send_device_command. *)

LEMMA DeviceFields ==
    ASSUME NEW d \in DeviceState
    PROVE  /\ \A v \in BOOLEAN : /\ Scanning(d, v) \in DeviceState
                                 /\ Scanning(d, v).scan = v /\ Scanning(d, v).pending = d.pending
           /\ Expecting(d) \in DeviceState /\ Expecting(d).pending = TRUE /\ Expecting(d).scan = d.scan
           /\ Answered(d) \in DeviceState /\ Answered(d).pending = FALSE /\ Answered(d).scan = d.scan
BY DEF DeviceState, Scanning, Expecting, Answered

\* What the commands of ps2_init and ps2_kbd_init get for an answer.
Wanted(answer, new) ==
    /\ Kind = "none" => answer = <<>> /\ new = dev[port]
    /\ Kind \in Talking =>
         /\ Asks("identify") => answer = <<RESP_ACK>>
         /\ Asks("id_1") => answer = Identity(Kind)
         /\ Asks("init_device") => answer = <<RESP_ACK>> /\ new.scan
         /\ Asks("set_codes") => answer = <<RESP_ACK>> /\ ~new.pending
         /\ Asks("set_id") => answer = <<RESP_ACK>> /\ new.pending
         /\ Asks("check_set") => answer = <<RESP_ACK>> \/ answer = <<RESP_RESEND>>
         /\ Keying => new.scan
    /\ new.pending => dev[port].pending \/ Keying

LEMMA CommandAnswered ==
    ASSUME Types, pc = "device_command", NEW q, NEW s, Driven(dev), Placed(dev), Conduct(q, dev, s)
    PROVE  \E answer \in Seq(Bytes), new \in DeviceState :
              Reacts(Kind, dev[port], call.cmd, answer, new) /\ Wanted(answer, new)
<1> DEFINE x == dev[port]
<1>1. x \in DeviceState /\ Kind \in Devices /\ port \in Ports /\ call.cmd \in Bytes /\ call.to \in Returns
      /\ \A to : Asks(to) <=> call.to = to
  BY Kinds DEF Types, HwTypes, LocalTypes, Ready, AtDevice, Calling, Asks
<1>2. x.pending => Keying
  BY <1>1 DEF Driven, Placed
<1>3. <<>> \in Seq(Bytes) /\ <<RESP_ACK>> \in Seq(Bytes) /\ <<RESP_RESEND>> \in Seq(Bytes)
  BY Commands
<1>4. /\ Kind \in Talking \/ Kind = "none"
      /\ Kind = "none" => Kind \notin Talking /\ ~Keying
      /\ Kind \in Keyboards => Kind \in Talking
      /\ Keying => Kind \in Keyboards /\ x.scan
      /\ Keying <=> call.to \in {"set_codes", "set_id", "check_set"}
  <2>1. /\ Kind = "none" => Kind \notin Talking /\ Kind \notin Keyboards
        /\ Kind \in Keyboards => Kind \in Talking
    BY DEF Talking, Keyboards
  <2>2. Keying <=> call.to \in {"set_codes", "set_id", "check_set"}
    BY <1>1 DEF Keying
  <2>3. Keying => Kind \in Keyboards /\ x.scan
    BY DEF Conduct, SettingCodes
  <2>4. Kind \in Talking \/ Kind = "none"
    BY <1>1, <2>1, <2>2, <2>3 DEF Conduct, Identifying, Command, Returns
  <2> QED BY <2>1, <2>2, <2>3, <2>4
<1>5. /\ Asks("identify") => call.cmd = CMD_DISABLE_SCAN
      /\ Asks("id_1") => call.cmd = CMD_IDENTIFY
      /\ Asks("init_device") => call.cmd = CMD_ENABLE_SCAN
      /\ Asks("set_codes") => call.cmd = CMD_ENABLE_SCAN /\ ~x.pending
      /\ Asks("set_id") => call.cmd = CMD_SET_SCAN_CODE /\ ~x.pending
      /\ Asks("check_set") => call.cmd = CMD_SET_SCAN_CODE
  <2>1. Asks("set_id") => ~x.pending
    <3>1. Asks("set_id") => Command(q, s, <<RESP_ACK>>) /\ (x.pending <=> q = <<RESP_ACK>>)
      BY DEF Conduct, SettingCodes
    <3>2. <<>> # <<RESP_ACK>>
      OBVIOUS
    <3> QED BY <3>1, <3>2 DEF Command
  <2> QED BY <2>1 DEF Conduct, Identifying, SettingCodes
<1>6. CASE Kind = "none"
  <2>1. Reacts(Kind, x, call.cmd, <<>>, x)
    BY <1>1, <1>6, ReactionCases
  <2>2. Wanted(<<>>, x)
    BY <1>4, <1>6 DEF Wanted
  <2> QED BY <1>1, <1>3, <2>1, <2>2
<1>7. CASE Kind \in Talking
  <2> HIDE DEF x
  <2>1. CASE call.to = "identify"
    <3> DEFINE new == Scanning(x, FALSE)
    <3>1. Reacts(Kind, x, call.cmd, <<RESP_ACK>>, new)
      BY <1>1, <1>2, <1>4, <1>5, <1>7, <2>1, ReactionCases
    <3>2. new \in DeviceState /\ ~new.scan /\ (new.pending <=> x.pending)
      BY <1>1, DeviceFields DEF DeviceState
    <3> HIDE DEF new
    <3>3. Wanted(<<RESP_ACK>>, new)
      BY <1>1, <1>4, <1>7, <2>1, <3>2 DEF Wanted, x
    <3> QED BY <1>1, <1>3, <3>1, <3>2, <3>3 DEF x
  <2>2. CASE call.to = "id_1"
    <3>1. Reacts(Kind, x, call.cmd, Identity(Kind), x)
      BY <1>1, <1>2, <1>4, <1>5, <1>7, <2>2, ReactionCases
    <3>2. Wanted(Identity(Kind), x)
      BY <1>1, <1>4, <1>7, <2>2 DEF Wanted, x
    <3>3. Identity(Kind) \in Seq(Bytes)
      BY <1>1, <3>1, ReactionTypes DEF Reacts
    <3> QED BY <1>1, <3>1, <3>2, <3>3 DEF x
  <2>3. CASE call.to = "init_device"
    <3> DEFINE new == Scanning(x, TRUE)
    <3>1. Reacts(Kind, x, call.cmd, <<RESP_ACK>>, new)
      BY <1>1, <1>2, <1>4, <1>5, <1>7, <2>3, ReactionCases
    <3>2. new \in DeviceState /\ new.scan /\ (new.pending <=> x.pending)
      BY <1>1, DeviceFields DEF DeviceState
    <3> HIDE DEF new
    <3>3. Wanted(<<RESP_ACK>>, new)
      BY <1>1, <1>4, <1>7, <2>3, <3>2 DEF Wanted, x
    <3> QED BY <1>1, <1>3, <3>1, <3>2, <3>3 DEF x
  <2>4. CASE call.to = "set_codes"
    <3> DEFINE new == Scanning(x, TRUE)
    <3>1. Reacts(Kind, x, call.cmd, <<RESP_ACK>>, new)
      BY <1>1, <1>5, <1>7, <2>4, ReactionCases
    <3>2. new \in DeviceState /\ new.scan /\ (new.pending <=> x.pending)
      BY <1>1, DeviceFields DEF DeviceState
    <3> HIDE DEF new
    <3>3. Wanted(<<RESP_ACK>>, new)
      BY <1>1, <1>4, <1>5, <1>7, <2>4, <3>2 DEF Wanted, x
    <3> QED BY <1>1, <1>3, <3>1, <3>2, <3>3 DEF x
  <2>5. CASE call.to = "set_id"
    <3>1. Reacts(Kind, x, call.cmd, <<RESP_ACK>>, Expecting(x))
      BY <1>1, <1>4, <1>5, <1>7, <2>5, ReactionCases
    <3>2. Expecting(x).scan = x.scan /\ Expecting(x).pending = TRUE
      BY <1>1, DeviceFields
    <3>3. Wanted(<<RESP_ACK>>, Expecting(x))
      BY <1>1, <1>4, <1>7, <2>5, <3>2 DEF Wanted, x
    <3> QED BY <1>1, <1>3, <3>1, <3>3, DeviceFields DEF x
  <2>6. CASE call.to = "check_set" /\ ~x.pending
    <3>1. Reacts(Kind, x, call.cmd, <<RESP_ACK>>, Expecting(x))
      BY <1>1, <1>4, <1>5, <1>7, <2>6, ReactionCases
    <3>2. Expecting(x).scan = x.scan /\ Expecting(x).pending = TRUE
      BY <1>1, DeviceFields
    <3>3. Wanted(<<RESP_ACK>>, Expecting(x))
      BY <1>1, <1>4, <1>7, <2>6, <3>2 DEF Wanted, x
    <3> QED BY <1>1, <1>3, <3>1, <3>3, DeviceFields DEF x
  <2>7. CASE call.to = "check_set" /\ x.pending
    <3>1. NotUnderstood(Kind, x, call.cmd)
      BY <1>1, <1>5, <2>7 DEF NotUnderstood, CMD_SET_SCAN_CODE, CMD_RESET_DEVICE
    <3>2. Reacts(Kind, x, call.cmd, <<RESP_RESEND>>, Answered(x))
      BY <1>1, <1>7, <3>1, ReactionCases
    <3>3. Answered(x).scan = x.scan /\ Answered(x).pending = FALSE
      BY <1>1, DeviceFields
    <3>4. Wanted(<<RESP_RESEND>>, Answered(x))
      BY <1>1, <1>4, <1>7, <2>7, <3>3 DEF Wanted, x
    <3> QED BY <1>1, <1>3, <3>2, <3>4, DeviceFields DEF x
  <2> QED BY <1>1, <2>1, <2>2, <2>3, <2>4, <2>5, <2>6, <2>7 DEF Returns
<1> QED BY <1>4, <1>6, <1>7

LEMMA SelectPortView ==
    ASSUME Types, Types', Conversation, Dialogue, UNCHANGED local, Quiet',
           ps2_send_command("select_port", CMD_WRITE_INPUT_PORT_1, "device_command")
    PROVE  Dialogue'
<1> USE DEF AtDevice, Calling, Returns
<1>1. UNCHANGED <<operational, announced, kbd, port, id, resp, call>>
  BY DEF local
<1>2. /\ pc = "select_port" /\ pc' = "device_command" /\ ib = <<>> /\ Sent(CMD_WRITE_INPUT_PORT_1)'
      /\ UNCHANGED <<hw, ccb, target, obf, obuf, outq, dev, resends>>
  BY QuietCommand
<1>3. Aiming'
  BY <1>1, <1>2, AddressedAim, SomeOutcome
<1>4. ASSUME NEW q, NEW d, NEW s, Outcome(q, d, s)'
      PROVE  View(q, d, s)'
  <2>1. Outcome(q, d, s)
    BY <1>2, <1>4, CommandOutcome
  <2>2. Driven(d) /\ Placed(d) /\ Conduct(q, d, s)
    BY <1>2, <2>1, Seen
  <2>3. Keying' <=> Keying
    BY <1>1, <1>2 DEF Keying, Asks
  <2>4. Driven(d)' /\ Position(d)'
    BY <1>1, <1>2, <2>2, <2>3, PlaceKept
  <2>5. SameDevice /\ \A right : Command(q, s, right)' <=> Command(q, s, right)
    BY <1>1, <1>2, DeviceKept DEF Command, SameDevice
  <2>6. Conduct(q, d, s)'
    BY <1>1, <1>2, <2>2, <2>3, <2>5
       DEF Conduct, Resetting, Identifying, SettingCodes, Asks, SameDevice, Known, Overdue
  <2> QED BY <1>2, <2>4, <2>6, ViewAtDevice
<1> QED BY <1>2, <1>3, <1>4, DialogueAtDevice

\* The command itself: the device answers it, or asks for it again.
LEMMA SendCommandView ==
    ASSUME Types, Types', Dialogue, UNCHANGED local, Quiet',
           ps2_send_data("device_command", call.cmd, "device_ack")
    PROVE  Dialogue'
<1> USE DEF AtDevice, Calling, Returns
<1>1. UNCHANGED <<operational, announced, kbd, port, id, resp, call>>
  BY DEF local
<1>2. pc = "device_command" /\ pc' = "device_ack" /\ WriteBuffer("data", call.cmd) /\ call.cmd \in Bytes
  BY DEF ps2_send_data, Types, LocalTypes
<1>3. hw' = hw /\ ib = <<>>
  BY <1>2, QuietWrite
<1>4. Aiming'
  BY <1>2, SentAim
<1>5. PICK answer \in Seq(Bytes), new \in DeviceState :
        Reacts(Kind, dev[port], call.cmd, answer, new) /\ Wanted(answer, new)
  <2>1. Outcome(Buffered, dev, Latest(Buffered))
    BY <1>3, PlainOutcome
  <2> QED BY <1>2, <2>1, Seen, CommandAnswered
<1>6. /\ call.to \in Returns /\ \A to : Asks(to) <=> call.to = to
      /\ \A to : Asks(to)' <=> Asks(to)
      /\ Keying <=> call.to \in {"set_codes", "set_id", "check_set"}
      /\ Keying' <=> Keying
  BY <1>1, <1>2 DEF Asks, Keying, Types, Ready
<1>7. ASSUME NEW q, NEW d, NEW s, Outcome(q, d, s)'
      PROVE  View(q, d, s)'
  <2>1. PICK q0 \in Seq(Bytes), s0 \in Bytes :
              /\ Outcome(q0, dev, s0)
              /\ \A p \in Ports : p # port => d[p] = dev[p]
              /\ \/ q = q0 \o answer /\ d[port] = new /\ Follows(s, s0, answer)
                 \/ Kind \in Talking /\ q = q0 \o <<RESP_RESEND>> /\ d = dev /\ s = RESP_RESEND
    BY <1>2, <1>5, <1>7, SentAndAnswered
  <2>2. Driven(dev) /\ Placed(dev) /\ Conduct(q0, dev, s0)
    BY <1>2, <2>1, Seen
  <2>3. \A p \in Ports : d[p].pending => dev[p].pending \/ kbd.port = p
    <3>1. d[port].pending => dev[port].pending \/ Keying
      BY <1>5, <2>1 DEF Wanted
    <3>2. Keying => kbd.port = port
      BY <2>2 DEF Placed
    <3> QED BY <2>1, <3>1, <3>2
  <2>4. Driven(d)' /\ Position(d)'
    <3>1. port = 1 => (dev[0].scan => d[0].scan)
      BY <2>1 DEF Ports
    <3> QED BY <1>1, <1>2, <1>3, <1>6, <2>2, <2>3, <3>1, PlaceKept
  <2>5. SameDevice
    BY <1>1, <1>3, DeviceKept
  <2>6. Keying => Kind \in Keyboards /\ announced[port] = "KBD_MF2" /\ d[port].scan
    <3>1. Keying => Kind \in Keyboards /\ announced[port] = "KBD_MF2" /\ dev[port].scan
      BY <2>2 DEF Conduct, SettingCodes
    <3>2. Kind \in Keyboards => Kind \in Talking
      BY DEF Keyboards, Talking
    <3> QED BY <1>5, <2>1, <3>1, <3>2 DEF Wanted
  <2>7. CASE call.to # "check_set"
    <3>1. q0 = <<>> /\ ((Kind = "none" /\ Harmless(s0)) \/ Kind \in Talking)
      BY <1>2, <1>6, <2>2, <2>7 DEF Conduct, Identifying, SettingCodes, Command
    <3>2. /\ Kind = "none" => q = <<>> /\ s = s0 /\ Harmless(s)
          /\ Kind \in Talking => \/ q = answer /\ d[port] = new
                                 \/ q = <<RESP_RESEND>> /\ d = dev
      <4>1. <<>> \o answer = answer /\ <<>> \o <<RESP_RESEND>> = <<RESP_RESEND>>
        BY Unread, Commands
      <4>2. Kind = "none" => Kind \notin Talking
        BY DEF Talking
      <4> QED BY <1>5, <2>1, <3>1, <4>1, <4>2 DEF Wanted, Follows
    <3>3. ASSUME NEW right, Kind \in Talking => answer = right
          PROVE  Command(q, s, right)'
      BY <1>2, <2>5, <3>1, <3>2, <3>3 DEF Command, SameDevice
    <3>4. <<RESP_ACK>> # <<RESP_RESEND>>
      BY ByteValues
    <3>5. Identifying(q, d, s)'
      <4>1. Asks("identify") => call.cmd = CMD_DISABLE_SCAN /\ Command(q, s, <<RESP_ACK>>)'
        BY <1>5, <2>2, <3>3 DEF Conduct, Identifying, Wanted
      <4>2. Asks("id_1") => call.cmd = CMD_IDENTIFY /\ Command(q, s, Identity(Kind))'
        <5>1. Asks("id_1") => (Kind \in Talking => answer = Identity(Kind)) /\ call.cmd = CMD_IDENTIFY
          BY <1>5, <2>2 DEF Conduct, Identifying, Wanted
        <5>2. Kind' = Kind
          BY <2>5 DEF SameDevice
        <5> QED BY <1>2, <3>1, <3>2, <2>5, <5>1, <5>2 DEF Command, SameDevice
      <4>3. Asks("init_device") =>
              /\ call.cmd = CMD_ENABLE_SCAN /\ Command(q, s, <<RESP_ACK>>)' /\ Known(s)
              /\ Kind \in Talking /\ q = <<RESP_ACK>> => d[port].scan
        <5> SUFFICES ASSUME Asks("init_device")
                     PROVE  /\ call.cmd = CMD_ENABLE_SCAN /\ Command(q, s, <<RESP_ACK>>)' /\ Known(s)
                            /\ Kind \in Talking /\ q = <<RESP_ACK>> => d[port].scan
          OBVIOUS
        <5>1. call.cmd = CMD_ENABLE_SCAN /\ Known(s0)
          BY <2>2 DEF Conduct, Identifying
        <5>2. Command(q, s, <<RESP_ACK>>)'
          BY <1>5, <3>3 DEF Wanted
        <5>3. Known(s)
          BY <3>1, <3>2, <5>1 DEF Known, Talking
        <5>4. Kind \in Talking /\ q = <<RESP_ACK>> => d[port].scan
          BY <1>5, <3>2, <3>4 DEF Wanted
        <5> QED BY <5>1, <5>2, <5>3, <5>4
      <4> QED BY <1>1, <1>2, <1>6, <2>5, <4>1, <4>2, <4>3 DEF Identifying, SameDevice, Known
    <3>6. SettingCodes(q, d, s)'
      <4>1. Asks("set_codes") => call.cmd = CMD_ENABLE_SCAN /\ Command(q, s, <<RESP_ACK>>)' /\ ~d[port].pending
        BY <1>5, <1>6, <2>2, <2>6, <3>2, <3>3 DEF Conduct, SettingCodes, Wanted, Keyboards, Talking
      <4>2. Asks("set_id") => /\ call.cmd = CMD_SET_SCAN_CODE /\ Command(q, s, <<RESP_ACK>>)'
                              /\ d[port].pending <=> q = <<RESP_ACK>>
        <5> SUFFICES ASSUME Asks("set_id")
                     PROVE  /\ call.cmd = CMD_SET_SCAN_CODE /\ Command(q, s, <<RESP_ACK>>)'
                            /\ d[port].pending <=> q = <<RESP_ACK>>
          OBVIOUS
        <5>1. call.cmd = CMD_SET_SCAN_CODE /\ (dev[port].pending <=> q0 = <<RESP_ACK>>) /\ Kind \in Keyboards
          BY <1>6, <2>2, <2>6 DEF Conduct, SettingCodes
        <5>2. ~dev[port].pending
          <6>1. <<>> # <<RESP_ACK>>
            OBVIOUS
          <6> QED BY <3>1, <5>1, <6>1
        <5>3. Kind \in Talking /\ answer = <<RESP_ACK>> /\ new.pending
          BY <1>5, <5>1 DEF Wanted, Keyboards, Talking
        <5>4. Command(q, s, <<RESP_ACK>>)'
          BY <3>3, <5>3
        <5> QED BY <3>2, <3>4, <5>1, <5>2, <5>3, <5>4
      <4> QED BY <1>1, <1>2, <1>6, <2>5, <2>6, <2>7, <4>1, <4>2 DEF SettingCodes, SameDevice
    <3> QED BY <1>2, <2>4, <3>5, <3>6, ViewAtDevice DEF Conduct, Resetting
  <2>8. CASE call.to = "check_set"
    <3>1. Overdue(q0) /\ call.cmd = CMD_SET_SCAN_CODE /\ Kind \in Talking
      BY <1>2, <1>6, <2>2, <2>6, <2>8 DEF Conduct, SettingCodes, Keyboards, Talking
    <3>2. PICK b \in Acks : q = q0 \o <<b>>
      BY <1>5, <1>6, <2>1, <2>8, <3>1 DEF Wanted, Acks
    <3>3. \E a \in Acks : (q = <<a>> /\ port = 1) \/ (\E c \in Acks : q = <<a, c>>)
      <4>1. Acks \subseteq Bytes
        BY Commands DEF Acks
      <4>2. CASE q0 = <<>> /\ port = 1
        <5>1. <<>> \o <<b>> = <<b>>
          OBVIOUS
        <5> QED BY <3>2, <4>2, <5>1
      <4>3. ASSUME NEW a \in Acks, q0 = <<a>>
            PROVE  q = <<a, b>>
        BY <3>2, <4>1, <4>3, TwoJoined
      <4> QED BY <3>1, <4>2, <4>3 DEF Overdue
    <3>4. Conduct(q, d, s)'
      BY <1>1, <1>2, <1>6, <2>5, <2>6, <2>8, <3>1, <3>3
         DEF Conduct, Resetting, Identifying, SettingCodes, SameDevice
    <3> QED BY <1>2, <2>4, <3>4, ViewAtDevice
  <2> QED BY <2>7, <2>8
<1> QED BY <1>2, <1>4, <1>7, DialogueAtDevice

\* What becomes of a command when its answer has been read.
LEMMA AnswerTaken ==
    ASSUME NEW q0, NEW q, NEW s, NEW right, NEW rest, pc = "device_ack", Command(q0, s, right), Taken(q0, q, s),
           right # <<>>, Head(right) = RESP_ACK, Tail(right) = rest
    PROVE  \/ Kind = "none" /\ q = <<>> /\ Harmless(s) /\ q0 = <<>>
           \/ Kind \in Talking /\ obuf = RESP_RESEND /\ q = <<>> /\ q0 = <<RESP_RESEND>>
           \/ Kind \in Talking /\ obuf = RESP_ACK /\ q = rest /\ q0 = right
<1>1. CASE Kind = "none" /\ q0 = <<>> /\ Harmless(s)
  BY <1>1, TakenNone
<1>2. CASE Kind \in Talking /\ q0 = right
  BY <1>2, TakenSome
<1>3. CASE Kind \in Talking /\ q0 = <<RESP_RESEND>>
  BY <1>3, TakenOne
<1> QED BY <1>1, <1>2, <1>3 DEF Command

LEMMA AcknowledgeView ==
    ASSUME Types, Types', Dialogue, UNCHANGED local, Quiet', NEW got \in BOOLEAN, try_read_data("device_ack", got),
           pc' = IF MustResend(got, obuf) THEN DeviceCommandEntry(port) ELSE call.to
    PROVE  Dialogue'
<1> USE DEF AtDevice, Calling, Returns
<1>1. UNCHANGED <<operational, announced, kbd, port, id, resp, call>>
  BY DEF local
<1>2. pc = "device_ack" /\ ReadBuffer(got) /\ got /\ UNCHANGED <<hw, ib, target, dev>>
  BY ReadKeeps DEF try_read_data
<1>3. port \in Ports /\ call.to \in Returns
  BY <1>2 DEF Types, Ready
<1>4. /\ obuf = RESP_RESEND => /\ pc' \in {"select_port", "device_command"}
                               /\ pc' = IF port = 0 THEN "device_command" ELSE "select_port"
      /\ obuf # RESP_RESEND => pc' = call.to
  BY <1>2, <1>3 DEF MustResend, DeviceCommandEntry, Ports
<1>5. Aiming'
  BY <1>1, <1>2, <1>3, <1>4, AimKept DEF Ports
<1>6. /\ \A to : Asks(to) <=> call.to = to
      /\ \A to : Asks(to)' <=> obuf = RESP_RESEND /\ call.to = to
      /\ Keying <=> call.to \in {"set_codes", "set_id", "check_set"}
      /\ Keying' <=> Keying
  BY <1>1, <1>2, <1>3, <1>4 DEF Asks, Keying
<1>7. SameDevice
  BY <1>1, <1>2, DeviceKept
<1>8. pc' \in AtDevice
  BY <1>3, <1>4
<1>9. ASSUME NEW q, NEW d, NEW s, Outcome(q, d, s)'
      PROVE  View(q, d, s)'
  <2>1. PICK q0 \in Seq(Bytes) : Taken(q0, q, s) /\ Driven(d) /\ Placed(d) /\ Conduct(q0, d, s)
    BY <1>2, <1>9, ReadAtDevice
  <2>2. Driven(d)' /\ Position(d)'
    BY <1>1, <1>2, <1>6, <1>8, <2>1, PlaceKept
  <2>3. SUFFICES Conduct(q, d, s)'
    BY <1>8, <2>2, ViewAtDevice
  <2>4. Keying => Kind \in Keyboards /\ announced[port] = "KBD_MF2" /\ d[port].scan
    BY <2>1 DEF Conduct, SettingCodes
  <2>5. /\ <<RESP_ACK>> # <<>> /\ Head(<<RESP_ACK>>) = RESP_ACK /\ Tail(<<RESP_ACK>>) = <<>>
        /\ RESP_ACK # RESP_RESEND /\ <<RESP_ACK>> # <<RESP_RESEND>> /\ <<>> # <<RESP_ACK>>
    BY Tails, ByteValues
  <2>6. /\ "none" \notin Talking /\ "none" \notin Keyboards /\ "mouse" \notin Keyboards
        /\ \A k \in Talking : k = "mouse" \/ k \in Keyboards
        /\ \A k \in Keyboards : k \in Talking
    BY DEF Talking, Keyboards
  <2>7. ASSUME q = <<>>, (Kind = "none" /\ Harmless(s)) \/ Kind \in Talking, obuf = RESP_RESEND
        PROVE  \A right : Command(q, s, right)'
    BY <1>4, <1>7, <2>7 DEF Command, SameDevice
  <2>8. CASE call.to = "identify"
    <3>1. call.cmd = CMD_DISABLE_SCAN /\ Command(q0, s, <<RESP_ACK>>)
      BY <1>6, <2>1, <2>8 DEF Conduct, Identifying
    <3>2. q = <<>> /\ ((Kind = "none" /\ Harmless(s)) \/ Kind \in Talking)
      BY <1>2, <2>1, <2>5, <3>1, AnswerTaken
    <3> QED BY <1>1, <1>4, <1>6, <1>7, <2>7, <2>8, <3>1, <3>2
            DEF Conduct, Resetting, Identifying, SettingCodes, SameDevice
  <2>9. CASE call.to = "id_1"
    <3>1. call.cmd = CMD_IDENTIFY /\ Command(q0, s, Identity(Kind))
      BY <1>6, <2>1, <2>9 DEF Conduct, Identifying
    <3>2. Kind \in Talking => /\ Identity(Kind) # <<>> /\ Head(Identity(Kind)) = RESP_ACK
                              /\ Tail(Identity(Kind)) = IF Kind = "mouse" THEN <<0>> ELSE <<\hab, \h83>>
      BY IdentityParts
    <3>3. \/ Kind = "none" /\ q = <<>> /\ Harmless(s)
          \/ Kind \in Talking /\ obuf = RESP_RESEND /\ q = <<>>
          \/ Kind \in Talking /\ obuf = RESP_ACK /\ q = Tail(Identity(Kind))
      <4>1. CASE Kind = "none"
        <5>1. Kind \notin Talking
          BY <2>6, <4>1
        <5> QED BY <2>1, <3>1, <4>1, <5>1, TakenNone DEF Command
      <4>2. CASE Kind \in Talking
        BY ZenonT(40), <1>2, <2>1, <3>1, <3>2, <4>2, AnswerTaken
      <4> QED BY <3>1, <4>1, <4>2 DEF Command
    <3>4. CASE obuf = RESP_RESEND
      <4>1. q = <<>> /\ ((Kind = "none" /\ Harmless(s)) \/ Kind \in Talking)
        BY <2>5, <3>3, <3>4
      <4>2. \A right : Command(q, s, right)'
        BY <2>7, <3>4, <4>1
      <4> QED BY <1>1, <1>4, <1>6, <2>9, <3>1, <3>4, <4>2 DEF Conduct, Resetting, Identifying, SettingCodes
    <3>5. CASE obuf # RESP_RESEND
      <4>1. pc' = "id_1" /\ ~Keying' /\ \A to : ~Asks(to)'
        BY <1>4, <1>6, <2>9, <3>5
      <4>2. \/ Kind = "none" /\ q = <<>> /\ Harmless(s)
            \/ Kind = "mouse" /\ q = <<0>>
            \/ Kind \in Keyboards /\ q = <<\hab, \h83>>
        <5>1. Kind \in Keyboards => Kind # "mouse"
          BY <2>6
        <5> QED BY <2>6, <3>2, <3>3, <3>5, <5>1
      <4> QED BY <1>7, <4>1, <4>2 DEF Conduct, Resetting, Identifying, SettingCodes, SameDevice
    <3> QED BY <3>4, <3>5
  <2>10. CASE call.to = "init_device"
    <3>1. /\ call.cmd = CMD_ENABLE_SCAN /\ Command(q0, s, <<RESP_ACK>>) /\ Known(s)
          /\ Kind \in Talking /\ q0 = <<RESP_ACK>> => d[port].scan
      BY <1>6, <2>1, <2>10 DEF Conduct, Identifying
    <3>2. \/ Kind = "none" /\ q = <<>> /\ Harmless(s)
          \/ Kind \in Talking /\ obuf = RESP_RESEND /\ q = <<>>
          \/ Kind \in Talking /\ obuf = RESP_ACK /\ q = <<>> /\ d[port].scan
      BY <1>2, <2>1, <2>5, <3>1, AnswerTaken
    <3>3. Known(s)'
      BY <1>1, <1>7, <3>1 DEF Known, SameDevice
    <3>4. CASE obuf = RESP_RESEND
      <4>1. \A right : Command(q, s, right)'
        BY <2>7, <3>2, <3>4
      <4>2. q # <<RESP_ACK>>
        BY <2>5, <3>2
      <4> QED BY <1>1, <1>4, <1>6, <2>10, <3>1, <3>3, <3>4, <4>1, <4>2
              DEF Conduct, Resetting, Identifying, SettingCodes
    <3>5. CASE obuf # RESP_RESEND
      <4>1. Kind \in Talking => Harmless(s)
        <5>1. Kind \in Talking => q0 = <<RESP_ACK>> \/ q0 = <<RESP_RESEND>>
          BY <1>2, <2>6, <3>1 DEF Command
        <5>2. Kind \in Talking => s = RESP_ACK \/ s = RESP_RESEND
          BY <2>1, <5>1, TakenOne
        <5> QED BY <5>2, ByteValues DEF Harmless
      <4>2. pc' = "init_device" /\ ~Keying' /\ \A to : ~Asks(to)'
        BY <1>4, <1>6, <2>10, <3>5
      <4> QED BY <1>1, <1>7, <3>2, <3>3, <3>5, <4>1, <4>2
              DEF Conduct, Resetting, Identifying, SettingCodes, SameDevice
    <3> QED BY <3>4, <3>5
  <2>11. CASE call.to = "set_codes"
    <3>1. call.cmd = CMD_ENABLE_SCAN /\ Command(q0, s, <<RESP_ACK>>) /\ ~d[port].pending /\ Kind \in Keyboards
      BY <1>6, <2>1, <2>4, <2>11 DEF Conduct, SettingCodes
    <3>2. q = <<>> /\ Kind \in Talking
      BY <1>2, <2>1, <2>5, <2>6, <3>1, AnswerTaken
    <3> QED BY <1>1, <1>4, <1>6, <1>7, <2>4, <2>7, <2>11, <3>1, <3>2
            DEF Conduct, Resetting, Identifying, SettingCodes, SameDevice
  <2>12. CASE call.to = "set_id"
    <3>1. /\ call.cmd = CMD_SET_SCAN_CODE /\ Command(q0, s, <<RESP_ACK>>) /\ Kind \in Keyboards
          /\ d[port].pending <=> q0 = <<RESP_ACK>>
      BY <1>6, <2>1, <2>4, <2>12 DEF Conduct, SettingCodes
    <3>2. \/ obuf = RESP_RESEND /\ q = <<>> /\ ~d[port].pending
          \/ obuf = RESP_ACK /\ q = <<>> /\ d[port].pending /\ q0 = <<RESP_ACK>>
      BY <1>2, <2>1, <2>5, <2>6, <3>1, AnswerTaken
    <3>3. CASE obuf = RESP_RESEND
      <4>1. \A right : Command(q, s, right)'
        BY <2>6, <2>7, <3>1, <3>2, <3>3
      <4>2. q # <<RESP_ACK>> /\ ~d[port].pending
        BY <2>5, <3>2, <3>3
      <4> QED BY <1>1, <1>4, <1>6, <1>7, <2>4, <2>12, <3>1, <3>3, <4>1, <4>2
              DEF Conduct, Resetting, Identifying, SettingCodes, SameDevice
    <3>4. CASE obuf # RESP_RESEND
      <4>1. s = RESP_ACK /\ q = <<>> /\ d[port].pending
        BY <2>1, <3>2, <3>4, TakenOne
      <4>2. pc' = "set_id" /\ Keying' /\ \A to : ~Asks(to)'
        BY <1>4, <1>6, <2>12, <3>4
      <4> QED BY <1>1, <1>6, <1>7, <2>4, <4>1, <4>2
              DEF Conduct, Resetting, Identifying, SettingCodes, SameDevice
    <3> QED BY <3>3, <3>4
  <2>13. CASE call.to = "check_set"
    <3>1. /\ call.cmd = CMD_SET_SCAN_CODE
          /\ \E a \in Acks : (q0 = <<a>> /\ port = 1) \/ \E b \in Acks : q0 = <<a, b>>
      BY <1>2, <1>6, <2>1, <2>13 DEF Conduct, SettingCodes
    <3>2. s \in Acks /\ ((q = <<>> /\ port = 1) \/ \E b \in Acks : q = <<b>>)
      BY <2>1, <3>1, TakenOne, TakenTwo
    <3> QED BY <1>1, <1>4, <1>6, <1>7, <2>4, <2>13, <3>1, <3>2
            DEF Conduct, Resetting, Identifying, SettingCodes, SameDevice, Overdue
  <2> QED BY <1>3, <2>8, <2>9, <2>10, <2>11, <2>12, <2>13
<1> QED BY <1>5, <1>8, <1>9, DialogueAtDevice

LEMMA DeviceCommandView ==
    ASSUME Types, Types', Conversation, Dialogue, ps2_send_device_command, Quiet'
    PROVE  Dialogue'
BY SelectPortView, SendCommandView, AcknowledgeView DEF ps2_send_device_command

-----------------------------------------------------------------------------
(* ps2_init_device. *)

LEMMA AfterView ==
    ASSUME NEW p \in Ports, pc' = After(p), NEW q, NEW d, NEW s, q = <<>>, Harmless(s)', Driven(d)', Dealt(p, d)',
           p = 0 => Untouched(1)', p = 1 => Dealt(0, d)'
    PROVE  View(q, d, s)'
<1>1. pc' = IF p = 0 THEN "port_1" ELSE "done"
  BY DEF After
<1>2. p = 0 \/ p = 1
  BY DEF Ports
<1>3. pc' \notin AtDevice /\ pc' # "port_0"
  BY <1>1 DEF AtDevice, Calling, Returns
<1>4. Position(d)'
  BY <1>1, <1>2, <1>3 DEF Position, Ports
<1> QED BY <1>1, <1>3, <1>4 DEF View

LEMMA DialogueAfter ==
    ASSUME NEW p, pc' = After(p), Aiming', \A q, d, s : Outcome(q, d, s)' => View(q, d, s)'
    PROVE  Dialogue'
BY DEF Dialogue, After, Devoted, BeforeDevices, BeforeTests

LEMMA TypesOfDevices ==
    /\ get_device_type(0) = "MOUSE_PS2"
    /\ get_device_type(\hab83) = "KBD_MF2"
BY DEF get_device_type

\* The same byte twice is the identity of a device only when it is 0.
LEMMA TwiceTheSame ==
    ASSUME NEW b \in Bytes
    PROVE  get_device_type(Word(b * 256 + b)) = IF b = 0 THEN "MOUSE_PS2" ELSE "DEV_UNKNOWN"
<1>1. Word(b * 256 + b) = 257 * b
  BY SMT DEF Word, Bytes
<1>2. 257 * b \notin {3, 4, \hab83, \habc1, \hab84, \hab85, \hab86, \hab90, \hab91, \hab92, \haca1}
  BY SMT DEF Bytes
<1>3. 257 * b = 0 <=> b = 0
  BY DEF Bytes
<1> DEFINE i == 257 * b
<1> HIDE DEF i
<1>4. get_device_type(i) = IF b = 0 THEN "MOUSE_PS2" ELSE "DEV_UNKNOWN"
  BY <1>2, <1>3 DEF get_device_type, i
<1> QED BY <1>1, <1>4 DEF i

LEMMA InitDeviceView ==
    ASSUME Types, Types', Dialogue, ps2_init_device, Quiet'
    PROVE  Dialogue'
<1> USE DEF AtDevice, Calling, Returns
<1> DEFINE type == get_device_type(id[port])
           name == IF type = "DEV_UNKNOWN" THEN "none" ELSE type
<1>1. /\ pc = "init_device" /\ UNCHANGED <<hwVars, operational, id, port, kbd>>
      /\ announced' = [announced EXCEPT ![port] = name]
      /\ pc' = IF type \in KeyboardTypes /\ kbd.port = NoPort THEN "kbd_init" ELSE After(port)
  BY DEF ps2_init_device, DriverFree
<1> HIDE DEF name, type
<1>2. UNCHANGED <<hardware, hw, ib, target>> /\ port \in Ports
  BY <1>1 DEF Types, Ready, hwVars, hardware
<1>3. announced'[port] = name /\ \A p \in Ports : p # port => announced'[p] = announced[p]
  BY <1>1, <1>2 DEF Types, LocalTypes
<1>4. Aiming'
  BY <1>1, <1>2, AimKept DEF After
<1>5. SameDevice
  BY <1>1, <1>2, DeviceKept
<1>6. ASSUME NEW q, NEW d, NEW s, Outcome(q, d, s)'
      PROVE  View(q, d, s)'
  <2>1. Outcome(q, d, s) /\ Driven(d) /\ Placed(d) /\ Conduct(q, d, s)
    BY <1>1, <1>2, <1>6, SameOutcome, Seen
  <2>2. s \in Bytes
    BY <2>1, OutcomeTypes
  <2>3. /\ q = <<>> /\ Harmless(s)
        /\ \/ Kind \in Talking /\ Known(s) /\ d[port].scan
           \/ Kind = "none" /\ Known(s)
           \/ Kind \in {"none", "broken"} /\ ~NoBroken /\ id[port] = 0
    BY <1>1, <2>1 DEF Conduct, Identifying
  <2>4. /\ Kind \in Keyboards => type = "KBD_MF2" /\ d[port].scan
        /\ Kind = "mouse" => type = "MOUSE_PS2" /\ d[port].scan
        /\ Kind = "broken" => type = "MOUSE_PS2"
        /\ Kind = "none" => type = "DEV_UNKNOWN" \/ (type = "MOUSE_PS2" /\ ~NoBroken)
    <3>1. CASE Kind \in Talking /\ Known(s) /\ d[port].scan
      <4>1. Kind = "mouse" => type = "MOUSE_PS2"
        BY <3>1, TypesOfDevices DEF Known, type
      <4>2. Kind \in Keyboards => type = "KBD_MF2"
        BY <3>1, TypesOfDevices DEF Known, type
      <4>3. Kind # "broken" /\ Kind # "none"
        BY <3>1 DEF Talking
      <4> QED BY <3>1, <4>1, <4>2, <4>3
    <3>2. CASE Kind = "none" /\ Known(s)
      <4>1. type = IF s = 0 THEN "MOUSE_PS2" ELSE "DEV_UNKNOWN"
        BY <2>2, <3>2, TwiceTheSame DEF Known, type
      <4> QED BY <2>3, <3>2, <4>1 DEF Harmless, Keyboards
    <3>3. CASE Kind \in {"none", "broken"} /\ ~NoBroken /\ id[port] = 0
      <4>1. type = "MOUSE_PS2"
        BY <3>3, TypesOfDevices DEF type
      <4> QED BY <3>3, <4>1 DEF Keyboards
    <3> QED BY <2>3, <3>1, <3>2, <3>3
  <2>5. Harmless(s)' /\ ~Keying /\ kbd.port # port /\ operational[port]
    BY <1>1, <1>5, <2>1, <2>3 DEF SameDevice, Placed, Keying, Asks
  <2>6. Driven(d)'
    BY <1>1, <1>2, <2>1 DEF Driven
  <2>7. port = 0 => Untouched(1)'
    BY <1>1, <1>3, <2>1 DEF Placed, Untouched, Ports
  <2>8. port = 1 => Dealt(0, d)'
    BY <1>1, <1>2, <1>3, <2>1 DEF Placed, Dealt, NoBroken, Ports
  <2>9. Kind \in Talking \/ Kind = "none" \/ Kind = "broken"
    BY <1>1, Kinds
  <2>10. CASE type \in KeyboardTypes /\ kbd.port = NoPort
    <3>1. pc' = "kbd_init" /\ ~Keying'
      BY <1>1, <2>10 DEF Keying, Asks
    <3>2. Kind \in Keyboards /\ type = "KBD_MF2" /\ d[port].scan /\ name = "KBD_MF2"
      BY <2>4, <2>9, <2>10 DEF KeyboardTypes, Talking, Keyboards, name
    <3>3. Position(d)'
      BY <1>1, <2>5, <2>7, <2>8, <3>1 DEF Position, Placed
    <3>4. Conduct(q, d, s)'
      BY <1>1, <1>3, <1>5, <2>3, <2>10, <3>1, <3>2
         DEF Conduct, Resetting, Identifying, SettingCodes, Asks, SameDevice
    <3> QED BY <2>6, <3>1, <3>3, <3>4, ViewAtDevice
  <2>11. CASE ~(type \in KeyboardTypes /\ kbd.port = NoPort)
    <3>1. pc' = After(port)
      BY <1>1, <2>11
    <3>2. Kind \in Keyboards => kbd.installed /\ kbd.port <= port
      <4> SUFFICES ASSUME Kind \in Keyboards
                   PROVE  kbd.installed /\ kbd.port <= port
        OBVIOUS
      <4>1. kbd.port # NoPort
        BY <2>4, <2>11 DEF KeyboardTypes
      <4>2. port = 1 /\ kbd.port = 0
        BY <1>2, <2>1, <2>5, <4>1 DEF Driven, Placed, Untouched, Ports
      <4> QED BY <2>1, <4>2 DEF Driven, Placed, Dealt, Ports, NoPort
    <3>3. ASSUME NEW p \in Ports, p = port
          PROVE  View(q, d, s)'
      <4>1. hw'.attached[p] = Kind /\ operational'[p] /\ announced'[p] = name /\ kbd' = kbd
            /\ (NoBroken' => NoBroken)
        BY <1>1, <1>2, <1>3, <1>5, <2>5, <3>3 DEF Kind, SameDevice
      <4>2. /\ Kind \in Keyboards => name = "KBD_MF2" /\ d[p].scan /\ kbd.installed /\ kbd.port <= p
            /\ Kind = "mouse" => name = "MOUSE_PS2" /\ d[p].scan
            /\ Kind = "broken" => name = "MOUSE_PS2"
            /\ Kind = "none" /\ NoBroken => name = "none"
        BY <2>4, <3>2, <3>3 DEF name
      <4>3. Dealt(p, d)'
        BY <4>1, <4>2 DEF Dealt
      <4> QED BY <1>2, <2>3, <2>5, <2>6, <2>7, <2>8, <3>1, <3>3, <4>3, AfterView
    <3> QED BY <1>2, <3>3
  <2> QED BY <2>10, <2>11
<1>7. CASE type \in KeyboardTypes /\ kbd.port = NoPort
  BY <1>1, <1>4, <1>6, <1>7, DialogueAtDevice
<1>8. CASE ~(type \in KeyboardTypes /\ kbd.port = NoPort)
  BY <1>1, <1>4, <1>6, <1>8, DialogueAfter
<1> QED BY <1>7, <1>8

-----------------------------------------------------------------------------
(* ps2_kbd_init. *)

\* The driver takes the port.
LEMMA KbdStartView ==
    ASSUME Types, Types', Dialogue, Quiet', pc = "kbd_init",
           kbd' = [kbd EXCEPT !.port = port, !.unmasked = TRUE], Call(CMD_ENABLE_SCAN, port, "set_codes"),
           UNCHANGED <<hwVars, config, dual_channel, operational, id, announced, port, resp>>
    PROVE  Dialogue'
<1> USE DEF AtDevice, Calling, Returns
<1>1. UNCHANGED <<hardware, hw, ib, target>> /\ port \in Ports /\ kbd'.port = port /\ kbd'.installed = kbd.installed
  BY DEF Types, Ready, LocalTypes, hwVars, hardware
<1>2. /\ pc' \in {"select_port", "device_command"} /\ pc' \in AtDevice
      /\ pc' = "device_command" => port = 0
      /\ pc' = "select_port" => port = 1
      /\ call'.cmd = CMD_ENABLE_SCAN /\ \A x : Asks(x)' <=> x = "set_codes"
  BY <1>1, Entered
<1>3. Aiming'
  BY <1>1, <1>2, AimKept
<1>4. SameDevice
  BY <1>1, DeviceKept
<1>5. ASSUME NEW q, NEW d, NEW s, Outcome(q, d, s)'
      PROVE  View(q, d, s)'
  <2>1. Outcome(q, d, s) /\ Driven(d) /\ Placed(d) /\ Conduct(q, d, s)
    BY <1>1, <1>5, SameOutcome, Seen
  <2>2. /\ q = <<>> /\ kbd.port = NoPort
        /\ Kind \in Keyboards /\ announced[port] = "KBD_MF2" /\ d[port].scan
    BY <2>1 DEF Conduct, SettingCodes
  <2>3. Keying'
    BY <1>2 DEF Keying
  <2>4. \A p \in Ports : ~d[p].pending
    BY <2>1, <2>2 DEF Driven, Ports, NoPort
  <2>5. Driven(d)'
    BY <1>1, <2>1, <2>2, <2>4 DEF Driven, Placed, Kind
  <2>6. port = 0 => Untouched(1)'
    BY <1>1, <2>1 DEF Placed, Untouched
  <2>7. port = 1 => Dealt(0, d)'
    <3>1. ~(kbd.port <= 0)
      BY <2>2 DEF NoPort
    <3> QED BY <1>1, <2>1, <3>1 DEF Placed, Dealt, NoBroken
  <2>8. Position(d)'
    BY <1>1, <1>2, <2>1, <2>3, <2>6, <2>7 DEF Position, Placed
  <2>9. Command(q, s, <<RESP_ACK>>)'
    BY <1>2, <1>4, <2>2 DEF Command, SameDevice, Keyboards, Talking
  <2>10. Conduct(q, d, s)'
    BY <1>1, <1>2, <1>4, <2>2, <2>4, <2>9 DEF Conduct, Resetting, Identifying, SettingCodes, SameDevice
  <2> QED BY <1>2, <2>5, <2>8, <2>10, ViewAtDevice
<1> QED BY <1>2, <1>3, <1>5, DialogueAtDevice

\* It asks for a set, or for the one in use.
LEMMA KbdCallView ==
    ASSUME Types, Types', Dialogue, Quiet', NEW to, NEW from,
           pc = from /\ ((from = "set_codes" /\ to = "set_id") \/ (from = "get_codes" /\ to = "check_set")),
           Call(CMD_SET_SCAN_CODE, kbd.port, to),
           UNCHANGED <<hwVars, config, dual_channel, operational, id, announced, port, resp, kbd>>
    PROVE  Dialogue'
<1> USE DEF AtDevice, Calling, Returns
<1>1. UNCHANGED <<hardware, hw, ib, target>> /\ port \in Ports
  BY DEF Types, Ready, hwVars, hardware
<1>2. Keying
  BY DEF Keying
<1>3. kbd.port = port
  <2>1. PICK q, d, s : Outcome(q, d, s)
    BY SomeOutcome
  <2>2. Placed(d)
    BY <2>1, Seen
  <2> QED BY <1>2, <2>2 DEF Placed
<1>4. /\ pc' \in {"select_port", "device_command"} /\ pc' \in AtDevice
      /\ pc' = "device_command" => port = 0
      /\ pc' = "select_port" => port = 1
      /\ call'.cmd = CMD_SET_SCAN_CODE /\ \A x : Asks(x)' <=> x = to
  BY <1>1, <1>3, Entered
<1>5. Aiming'
  BY <1>1, <1>4, AimKept
<1>6. SameDevice
  BY <1>1, DeviceKept
<1>7. ASSUME NEW q, NEW d, NEW s, Outcome(q, d, s)'
      PROVE  View(q, d, s)'
  <2>1. Outcome(q, d, s) /\ Driven(d) /\ Placed(d) /\ Conduct(q, d, s)
    BY <1>1, <1>7, SameOutcome, Seen
  <2>2. Keying'
    BY <1>4 DEF Keying
  <2>3. Driven(d)' /\ Position(d)'
    BY <1>1, <1>2, <1>4, <2>1, <2>2, PlaceKept
  <2>4. Kind \in Keyboards /\ announced[port] = "KBD_MF2" /\ d[port].scan
    BY <1>2, <2>1 DEF Conduct, SettingCodes
  <2>5. CASE from = "set_codes" /\ to = "set_id"
    <3>1. q = <<>> /\ ~d[port].pending
      BY <2>1, <2>5 DEF Conduct, SettingCodes
    <3>2. <<>> # <<RESP_ACK>>
      OBVIOUS
    <3>3. Command(q, s, <<RESP_ACK>>)'
      BY <1>4, <1>6, <2>4, <3>1 DEF Command, SameDevice, Keyboards, Talking
    <3>4. q # <<RESP_ACK>>
      BY <3>1, <3>2
    <3>5. Conduct(q, d, s)'
      BY <1>1, <1>4, <1>6, <2>4, <2>5, <3>1, <3>3, <3>4
         DEF Conduct, Resetting, Identifying, SettingCodes, SameDevice
    <3> QED BY <1>4, <2>3, <3>5, ViewAtDevice
  <2>6. CASE from = "get_codes" /\ to = "check_set"
    <3>1. Overdue(q) /\ s \in Acks
      BY <2>1, <2>6 DEF Conduct, SettingCodes
    <3>2. Overdue(q)'
      BY <1>1, <3>1 DEF Overdue
    <3>3. Conduct(q, d, s)'
      BY <1>1, <1>4, <1>6, <2>4, <2>6, <3>1, <3>2
         DEF Conduct, Resetting, Identifying, SettingCodes, SameDevice
    <3> QED BY <1>4, <2>3, <3>3, ViewAtDevice
  <2> QED BY <2>5, <2>6
<1> QED BY <1>4, <1>5, <1>7, DialogueAtDevice

\* The number of the set goes to the first port, whichever the keyboard is on: the
\* keyboard takes it, another device asks for something else, or nobody answers.
LEMMA NumberAnswered ==
    ASSUME Types, pc = "set_id", NEW q, NEW s, Driven(dev), Placed(dev), Conduct(q, dev, s)
    PROVE  \E answer \in Seq(Bytes), new \in DeviceState :
              /\ Reacts(hw.attached[0], dev[0], 1, answer, new)
              /\ (answer = <<>> /\ port = 1) \/ \E a \in Acks : answer = <<a>>
              /\ new.scan = dev[0].scan /\ (new.pending => dev[0].pending)
<1> USE DEF AtDevice, Calling, Returns
<1> DEFINE x == dev[0]
           kind == hw.attached[0]
<1>1. x \in DeviceState /\ kind \in Devices /\ 1 \in Bytes /\ 1 \in 1 .. 3 /\ port \in Ports
  BY MachineTypes DEF Types, HwTypes, Ready, Ports, Bytes
<1>2. <<>> \in Seq(Bytes) /\ <<RESP_ACK>> \in Seq(Bytes) /\ <<RESP_RESEND>> \in Seq(Bytes)
      /\ RESP_ACK \in Acks /\ RESP_RESEND \in Acks
  BY Commands DEF Acks
<1>3. Kind \in Keyboards /\ dev[port].pending /\ kbd.port = port
  BY DEF Conduct, SettingCodes, Keying, Placed
<1> HIDE DEF x, kind
<1>4. CASE port = 0
  <2>1. kind \in Keyboards /\ x.pending
    BY <1>3, <1>4 DEF Kind, kind, x
  <2>2. Reacts(kind, x, 1, <<RESP_ACK>>, Using(x, 1))
    BY <1>1, <2>1, ReactionCases
  <2>3. Using(x, 1) \in DeviceState /\ Using(x, 1).scan = x.scan /\ Using(x, 1).pending = FALSE
    BY <1>1 DEF Using, DeviceState
  <2> QED BY <1>2, <2>2, <2>3 DEF kind, x
<1>5. CASE port = 1
  <2>1. ~x.pending
    BY <1>3, <1>5 DEF Driven, Ports, x
  <2>2. 1 # CMD_RESET_DEVICE /\ 1 \notin {CMD_IDENTIFY, CMD_ENABLE_SCAN, CMD_DISABLE_SCAN, CMD_SET_SCAN_CODE}
    BY DEF CMD_RESET_DEVICE, CMD_IDENTIFY, CMD_ENABLE_SCAN, CMD_DISABLE_SCAN, CMD_SET_SCAN_CODE
  <2>3. CASE kind \in {"none", "broken"}
    <3>1. Reacts(kind, x, 1, <<>>, x)
      BY <1>1, <2>2, <2>3, ReactionCases
    <3> QED BY <1>1, <1>2, <1>5, <3>1 DEF kind, x
  <2>4. CASE kind \in Talking
    <3>1. NotUnderstood(kind, x, 1)
      BY <2>1, <2>2 DEF NotUnderstood
    <3>2. Reacts(kind, x, 1, <<RESP_RESEND>>, Answered(x))
      BY <1>1, <2>4, <3>1, ReactionCases
    <3>3. Answered(x) \in DeviceState /\ Answered(x).scan = x.scan /\ Answered(x).pending = FALSE
      BY <1>1, DeviceFields
    <3> QED BY <1>2, <3>2, <3>3 DEF kind, x
  <2> QED BY <1>1, <2>3, <2>4 DEF Devices, Talking
<1> QED BY <1>1, <1>4, <1>5 DEF Ports

LEMMA KbdNumberView ==
    ASSUME Types, Types', Dialogue, UNCHANGED local, Quiet', ps2_send_data("set_id", 1, "get_codes")
    PROVE  Dialogue'
<1> USE DEF AtDevice, Calling, Returns
<1>1. UNCHANGED <<operational, announced, kbd, port, id, resp, call>>
  BY DEF local
<1>2. /\ pc = "set_id" /\ pc' = "get_codes" /\ ib = <<>> /\ ib' = << <<"data", 1>> >> /\ WriteBuffer("data", 1)
      /\ UNCHANGED <<hw, ccb, target, obf, obuf, outq, dev, resends>>
  BY QuietData DEF ps2_send_data
<1>3. 0 \in Ports /\ 1 \in Bytes /\ target = 0
  BY <1>2 DEF Dialogue, Aiming, Aim, Devoted, Ports, Bytes
<1>4. Aiming'
  BY <1>2, <1>3, SentAim
<1>5. Outcome(Buffered, dev, Latest(Buffered))
  BY <1>2, PlainOutcome
<1>6. Driven(dev) /\ Placed(dev) /\ Conduct(Buffered, dev, Latest(Buffered))
  BY <1>2, <1>5, Seen
<1>7. PICK answer \in Seq(Bytes), new \in DeviceState :
              /\ Reacts(hw.attached[0], dev[0], 1, answer, new)
              /\ (answer = <<>> /\ port = 1) \/ \E a \in Acks : answer = <<a>>
              /\ new.scan = dev[0].scan /\ (new.pending => dev[0].pending)
  BY <1>2, <1>6, NumberAnswered
<1>8. Reply(0, 1).answer = answer /\ Reply(0, 1).new = new
  BY <1>7 DEF Reacts, Reply
<1>9. SameDevice
  BY <1>1, <1>2, DeviceKept
<1>10. Keying /\ Keying' /\ \A to : ~Asks(to)'
  BY <1>2 DEF Keying, Asks
<1>11. ASSUME NEW q, NEW d, NEW s, Outcome(q, d, s)'
      PROVE  View(q, d, s)'
  <2>1. PICK q0 \in Seq(Bytes), s0 \in Bytes :
              /\ Outcome(q0, dev, s0)
              /\ \/ /\ q = q0 \o answer /\ d = [dev EXCEPT ![0] = new]
                    /\ Follows(s, s0, answer)
                 \/ /\ hw.attached[0] \in Talking
                    /\ q = q0 \o <<RESP_RESEND>> /\ d = dev /\ s = RESP_RESEND
    <3>1. PICK t \in Ports, b \in Bytes : t = 0 /\ b = 1
      BY <1>3
    <3>2. target = t /\ ib' = << <<"data", b>> >> /\ Reply(t, b).answer = answer /\ Reply(t, b).new = new
      BY <1>2, <1>3, <1>8, <3>1
    <3>3. PICK q0 \in Seq(Bytes), s0 \in Bytes :
              /\ Outcome(q0, dev, s0)
              /\ \/ /\ q = q0 \o Reply(t, b).answer /\ d = [dev EXCEPT ![t] = Reply(t, b).new]
                    /\ Follows(s, s0, Reply(t, b).answer)
                 \/ /\ hw.attached[t] \in Talking
                    /\ q = q0 \o <<RESP_RESEND>> /\ d = dev /\ s = RESP_RESEND
      BY SMTT(30), <1>2, <1>11, <3>2, DataOutcome
    <3> QED BY <3>1, <3>2, <3>3
  <2>2. Driven(dev) /\ Placed(dev) /\ Conduct(q0, dev, s0)
    BY <1>2, <2>1, Seen
  <2>3. q0 = <<>> /\ s0 = RESP_ACK /\ Kind \in Keyboards /\ announced[port] = "KBD_MF2" /\ dev[port].scan
    BY <1>2, <1>10, <2>2 DEF Conduct, SettingCodes
  <2>4. /\ dev \in [Ports -> DeviceState]
        /\ \A p \in Ports : d[p].scan = dev[p].scan /\ (d[p].pending => dev[p].pending)
    <3>1. dev \in [Ports -> DeviceState]
      BY DEF Types, HwTypes
    <3>2. CASE d = [dev EXCEPT ![0] = new]
      <4>1. d[0] = new /\ \A p \in Ports : p # 0 => d[p] = dev[p]
        BY <1>3, <3>1, <3>2
      <4> QED BY <1>7, <3>1, <4>1
    <3>3. CASE d = dev
      BY <3>1, <3>3
    <3> QED BY <2>1, <3>1, <3>2, <3>3
  <2>5. Overdue(q) /\ s \in Acks
    <3>1. <<>> \o answer = answer /\ <<>> \o <<RESP_RESEND>> = <<RESP_RESEND>>
      BY Unread, Commands
    <3>2. CASE q = answer /\ Follows(s, RESP_ACK, answer)
      <4>1. CASE answer = <<>> /\ port = 1
        BY <3>2, <4>1 DEF Overdue, Follows, Acks
      <4>2. ASSUME NEW a \in Acks, answer = <<a>>
            PROVE  Overdue(q) /\ s \in Acks
        <5>1. <<a>> # <<>> /\ Len(<<a>>) = 1 /\ <<a>>[1] = a
          OBVIOUS
        <5> QED BY <3>2, <4>2, <5>1 DEF Overdue, Follows
      <4> QED BY <1>7, <4>1, <4>2
    <3>3. CASE q = <<RESP_RESEND>> /\ s = RESP_RESEND
      BY <3>3 DEF Overdue, Acks
    <3> QED BY <2>1, <2>3, <3>1, <3>2, <3>3
  <2>6. Driven(d)' /\ Position(d)'
    <3>1. port = 1 => (dev[0].scan => d[0].scan)
      BY <1>3, <2>4
    <3> QED BY <1>1, <1>2, <1>10, <2>2, <2>4, <3>1, PlaceKept
  <2>7. d[port].scan
    BY <1>2, <2>3, <2>4, Kinds
  <2>8. Overdue(q)'
    BY <1>1, <2>5 DEF Overdue
  <2>9. Conduct(q, d, s)'
    BY <1>1, <1>2, <1>9, <1>10, <2>3, <2>5, <2>7, <2>8
       DEF Conduct, Resetting, Identifying, SettingCodes, SameDevice
  <2> QED BY <1>2, <2>6, <2>9, ViewAtDevice
<1> QED BY <1>2, <1>4, <1>11, DialogueAtDevice

\* An acknowledgement is no number of a set, so that set 1 is assumed.
LEMMA KbdCheckView ==
    ASSUME Types, Types', Dialogue, UNCHANGED local, Quiet', NEW b \in Readable, ps2_read_data("check_set", b),
           pc' = IF get_scan_code_set(b) = 1 THEN "install" ELSE "set_codes"
    PROVE  Dialogue'
<1> USE DEF AtDevice, Calling, Returns
<1>1. UNCHANGED <<operational, announced, kbd, port, id, resp, call>>
  BY DEF local
<1>2. PICK got \in BOOLEAN : pc = "check_set" /\ ReadBuffer(got) /\ b = IF got THEN obuf ELSE 0
  BY DEF ps2_read_data, try_read_data
<1>3. b = obuf /\ UNCHANGED <<hw, ib, target, dev>>
  BY <1>2, ReadKeeps
<1>4. pc' \in {"install", "set_codes"}
  OBVIOUS
<1>5. Aiming'
  BY <1>1, <1>2, <1>3, <1>4, AimKept
<1>6. SameDevice
  BY <1>1, <1>3, DeviceKept
<1>7. Keying /\ Keying' /\ \A to : ~Asks(to)'
  BY <1>2, <1>4 DEF Keying, Asks
<1>8. ASSUME NEW q, NEW d, NEW s, Outcome(q, d, s)'
      PROVE  View(q, d, s)'
  <2>1. PICK q0 \in Seq(Bytes) : Taken(q0, q, s) /\ Driven(d) /\ Placed(d) /\ Conduct(q0, d, s)
    BY <1>2, <1>8, ReadAtDevice
  <2>2. /\ s \in Acks /\ (q0 = <<>> \/ \E a \in Acks : q0 = <<a>>)
        /\ Kind \in Keyboards /\ announced[port] = "KBD_MF2" /\ d[port].scan
    BY <1>2, <1>7, <2>1 DEF Conduct, SettingCodes
  <2>3. q = <<>> /\ obuf \in Acks
    BY <2>1, <2>2, TakenNone, TakenOne
  <2>4. pc' = "install"
    <3>1. obuf \notin {2, 3}
      BY <2>3, ByteValues DEF Acks
    <3> QED BY <1>3, <3>1 DEF get_scan_code_set
  <2>5. Driven(d)' /\ Position(d)'
    BY <1>1, <1>2, <1>3, <1>4, <1>7, <2>1, PlaceKept
  <2>6. Conduct(q, d, s)'
    BY <1>1, <1>6, <1>7, <2>2, <2>3, <2>4 DEF Conduct, Resetting, Identifying, SettingCodes, SameDevice
  <2> QED BY <1>4, <2>5, <2>6, ViewAtDevice
<1> QED BY <1>4, <1>5, <1>8, DialogueAtDevice

LEMMA KbdInstallView ==
    ASSUME Types, Types', Dialogue, Quiet', pc = "install",
           kbd' = [kbd EXCEPT !.installed = TRUE], pc' = After(port),
           UNCHANGED <<hwVars, config, dual_channel, operational, id, announced, port, call, resp>>
    PROVE  Dialogue'
<1> USE DEF AtDevice, Calling, Returns
<1>1. /\ UNCHANGED <<hardware, hw, ib, target>> /\ port \in Ports
      /\ kbd'.port = kbd.port /\ kbd'.installed = TRUE
  BY DEF Types, Ready, LocalTypes, hwVars, hardware
<1>2. Aiming'
  BY <1>1, AimKept DEF After
<1>3. SameDevice
  BY <1>1, DeviceKept
<1>4. Keying
  BY DEF Keying
<1>5. ASSUME NEW q, NEW d, NEW s, Outcome(q, d, s)'
      PROVE  View(q, d, s)'
  <2>1. Outcome(q, d, s) /\ Driven(d) /\ Placed(d) /\ Conduct(q, d, s)
    BY <1>1, <1>5, SameOutcome, Seen
  <2>2. /\ q = <<>> /\ s \in Acks /\ kbd.port = port /\ operational[port]
        /\ Kind \in Keyboards /\ announced[port] = "KBD_MF2" /\ d[port].scan
    BY <1>4, <2>1 DEF Conduct, SettingCodes, Placed
  <2>3. Harmless(s)'
    BY <1>3, <2>2, ByteValues DEF Acks, Harmless, SameDevice
  <2>4. Driven(d)'
    BY <1>1, <2>1 DEF Driven
  <2>5. ASSUME NEW p \in Ports, p = port
        PROVE  View(q, d, s)'
    <3>1. p = 0 => Untouched(1)'
      BY <1>1, <2>1, <2>5 DEF Placed, Untouched
    <3>2. p = 1 => Dealt(0, d)'
      BY <1>1, <2>1, <2>5 DEF Placed, Dealt, NoBroken
    <3>3. /\ hw'.attached[p] \in Keyboards /\ announced'[p] = "KBD_MF2" /\ d[p].scan /\ kbd'.installed
          /\ kbd'.port <= p /\ operational'[p]
      BY <1>1, <2>2, <2>5 DEF Kind, Ports
    <3>4. hw'.attached[p] # "mouse" /\ hw'.attached[p] # "broken" /\ hw'.attached[p] # "none"
      BY <3>3 DEF Keyboards
    <3>5. Dealt(p, d)'
      BY <3>3, <3>4 DEF Dealt
    <3> QED BY <2>2, <2>3, <2>4, <2>5, <3>1, <3>2, <3>5, AfterView
  <2> QED BY <1>1, <2>5
<1> QED BY <1>2, <1>5, DialogueAfter

LEMMA KbdInitView ==
    ASSUME Types, Types', Dialogue, KbdInit, Quiet'
    PROVE  Dialogue'
<1>1. CASE /\ pc = "kbd_init"
           /\ kbd' = [kbd EXCEPT !.port = port, !.unmasked = TRUE]
           /\ Call(CMD_ENABLE_SCAN, port, "set_codes")
           /\ UNCHANGED <<hwVars, config, dual_channel, operational, id, announced, port, resp>>
  BY <1>1, KbdStartView
<1>2. CASE /\ \/ pc = "set_codes" /\ Call(CMD_SET_SCAN_CODE, kbd.port, "set_id")
              \/ pc = "get_codes" /\ Call(CMD_SET_SCAN_CODE, kbd.port, "check_set")
           /\ UNCHANGED <<hwVars, config, dual_channel, operational, id, announced, port, resp, kbd>>
  BY <1>2, KbdCallView
<1>3. CASE ps2_send_data("set_id", 1, "get_codes") /\ UNCHANGED local
  BY <1>3, KbdNumberView
<1>4. CASE /\ \E b \in Readable : /\ ps2_read_data("check_set", b)
                                  /\ pc' = IF get_scan_code_set(b) = 1 THEN "install" ELSE "set_codes"
           /\ UNCHANGED local
  BY <1>4, KbdCheckView
<1>5. CASE /\ pc = "install"
           /\ kbd' = [kbd EXCEPT !.installed = TRUE]
           /\ pc' = After(port)
           /\ UNCHANGED <<hwVars, config, dual_channel, operational, id, announced, port, call, resp>>
  BY <1>5, KbdInstallView
<1> QED BY <1>1, <1>2, <1>3, <1>4, <1>5 DEF KbdInit

-----------------------------------------------------------------------------
(* ps2_init up to the reset of the devices. *)

LEMMA EarlyWriteKeeps ==
    ASSUME NEW reg, NEW b, WriteBuffer(reg, b)
    PROVE  UNCHANGED <<hw, dev, obuf>>
BY DEF WriteBuffer

LEMMA EarlyReadKeeps ==
    ASSUME NEW from, NEW value, ps2_read_data(from, value)
    PROVE  UNCHANGED <<hw, dev, obuf>>
BY DEF ps2_read_data, try_read_data, ReadBuffer

\* These accesses reach no device, and the driver has not begun with one.
LEMMA EarlyStep ==
    ASSUME DisableAndFlush \/ Configure \/ SelfTest \/ Probe \/ TestPorts \/ EnablePorts
    PROVE  pc \in BeforeDevices /\ UNCHANGED <<hw, dev, obuf, announced, id, port, kbd>>
<1> USE DEF BeforeDevices, BeforeTests, ps2_send_command, ps2_send_data
<1>1. CASE DisableAndFlush
  BY <1>1, EarlyWriteKeeps DEF DisableAndFlush, FlushBuffer, local
<1>2. CASE Configure
  <2>1. pc \in BeforeDevices /\ UNCHANGED <<announced, id, port, kbd>>
    BY <1>2 DEF Configure, local, ps2_read_data, try_read_data
  <2> QED BY <1>2, <2>1, EarlyWriteKeeps, EarlyReadKeeps DEF Configure
<1>3. CASE SelfTest
  <2>1. pc \in BeforeDevices /\ UNCHANGED <<announced, id, port, kbd>>
    BY <1>3 DEF SelfTest, local, ps2_read_data, try_read_data
  <2> QED BY <1>3, <2>1, EarlyWriteKeeps, EarlyReadKeeps DEF SelfTest
<1>4. CASE Probe
  <2>1. pc \in BeforeDevices /\ UNCHANGED <<announced, id, port, kbd>>
    BY <1>4 DEF Probe, local, ps2_read_data, try_read_data
  <2> QED BY <1>4, <2>1, EarlyWriteKeeps, EarlyReadKeeps DEF Probe
<1>5. CASE TestPorts
  <2>1. pc \in BeforeDevices /\ UNCHANGED <<announced, id, port, kbd>>
    BY <1>5 DEF TestPorts, local, ps2_read_data, try_read_data
  <2> QED BY <1>5, <2>1, EarlyWriteKeeps, EarlyReadKeeps DEF TestPorts
<1>6. CASE EnablePorts
  <2>1. pc \in BeforeDevices /\ UNCHANGED <<announced, id, port, kbd>>
    BY <1>6 DEF EnablePorts, local, ps2_read_data, try_read_data
  <2> QED BY <1>6, <2>1, EarlyWriteKeeps, EarlyReadKeeps DEF EnablePorts
<1> QED BY <1>1, <1>2, <1>3, <1>4, <1>5, <1>6

LEMMA EarlyView ==
    ASSUME Dialogue, pc \in BeforeDevices, UNCHANGED <<hw, dev, obuf, announced, id, port, kbd>>,
           pc' \in BeforeDevices,
           pc' \in {"set_4", "data_4"} => pc = "set_4" \/ Harmless(obuf)
    PROVE  Dialogue'
<1>1. Prepared
  BY DEF Dialogue
<1>2. Prepared'
  BY <1>1 DEF Prepared, Untouched, Harmless, NoBroken
<1>3. pc' \notin Devoted \cup {"done"}
  BY DEF BeforeDevices, BeforeTests, Devoted, AtDevice, Calling, Returns
<1> QED BY <1>2, <1>3 DEF Dialogue

\* ps2_init returns before there is a port to use.
LEMMA ReturnView ==
    ASSUME Types, Types', Dialogue, pc \in BeforeDevices, UNCHANGED <<hw, dev, obuf, announced, id, port, kbd>>,
           pc' = "done", ib' = <<>>, Silent', Untested'
    PROVE  Dialogue'
<1>1. Prepared'
  BY DEF Dialogue, Prepared, Untouched
<1>2. ASSUME NEW q, NEW d, NEW s, Outcome(q, d, s)'
      PROVE  View(q, d, s)'
  <2>1. q = <<>> /\ d = dev'
    BY <1>2, EmptiedOutcome DEF Buffered, Silent
  <2>2. Driven(d)'
    BY <1>1, <2>1 DEF Driven, Prepared, NoPort
  <2>3. \A p \in Ports : Dealt(p, d)'
    BY <1>1 DEF Prepared, Untouched, Dealt, Untested, Ports
  <2> QED BY <2>1, <2>2, <2>3 DEF View, Position, AtDevice, Calling, Returns
<1> QED BY <1>2 DEF Dialogue, Aiming, BeforeDevices, BeforeTests, Devoted, AtDevice, Calling, Returns

LEMMA FirstStepsView ==
    ASSUME Types, Types', Dialogue, DisableAndFlush \/ Configure \/ Probe, Quiet'
    PROVE  Dialogue'
<1>1. pc \in BeforeDevices /\ UNCHANGED <<hw, dev, obuf, announced, id, port, kbd>>
  BY EarlyStep
<1>2. pc' \in BeforeDevices \ {"set_4", "data_4"}
  BY DEF DisableAndFlush, Configure, Probe, ps2_send_command, ps2_send_data, BeforeDevices, BeforeTests
<1> QED BY <1>1, <1>2, EarlyView

LEMMA SelfTestView ==
    ASSUME Types, Types', Conversation, Dialogue, SelfTest, Quiet'
    PROVE  Dialogue'
<1>1. pc \in BeforeDevices /\ UNCHANGED <<hw, dev, obuf, announced, id, port, kbd>>
  BY EarlyStep
<1>2. CASE \E b \in Readable : ps2_read_data("test_result", b)
  <2>1. ib' = <<>> /\ Silent' /\ pc = "test_result"
    BY <1>2, QuietAnswer DEF Conversation, SelfTesting
  <2>2. Untested'
    BY <2>1 DEF Conversation, BeforeTests, Untested, SelfTest, local
  <2>3. pc' \in {"get_2", "done"}
    BY <1>2, <2>1 DEF SelfTest, ps2_send_command, ps2_send_data, ps2_read_data, try_read_data
  <2>4. pc' = "get_2" => pc' \in BeforeDevices \ {"set_4", "data_4"}
    BY DEF BeforeDevices, BeforeTests
  <2> QED BY <1>1, <2>1, <2>2, <2>3, <2>4, EarlyView, ReturnView
<1>3. CASE ~ \E b \in Readable : ps2_read_data("test_result", b)
  <2>1. pc' \in BeforeDevices \ {"set_4", "data_4"}
    BY <1>3 DEF SelfTest, ps2_send_command, ps2_send_data, BeforeDevices, BeforeTests
  <2> QED BY <1>1, <2>1, EarlyView
<1> QED BY <1>2, <1>3

LEMMA TestPortsView ==
    ASSUME Types, Types', Conversation, Dialogue, TestPorts, Quiet'
    PROVE  Dialogue'
<1>1. pc \in BeforeDevices /\ UNCHANGED <<hw, dev, obuf, announced, id, port, kbd>>
  BY EarlyStep
<1>2. CASE pc' # "done"
  <2>1. pc' \in BeforeDevices \ {"set_4", "data_4"}
    BY <1>2 DEF TestPorts, AfterTests, ps2_send_command, BeforeDevices, BeforeTests
  <2> QED BY <1>1, <2>1, EarlyView
<1>3. CASE pc' = "done"
  <2>1. /\ \/ \E b \in Readable : ps2_read_data("tested_0", b)
           \/ \E b \in Readable : ps2_read_data("tested_1", b)
        /\ pc' = AfterTests(operational')
    BY <1>3 DEF TestPorts, ps2_send_command
  <2>2. ib' = <<>> /\ Silent'
    BY <2>1, QuietAnswer DEF Conversation, Testing
  <2>3. Untested'
    BY <1>3, <2>1 DEF AfterTests, Untested, Types, LocalTypes, Ports
  <2> QED BY <1>1, <1>3, <2>2, <2>3, ReturnView
<1> QED BY <1>2, <1>3

LEMMA EnablePortsView ==
    ASSUME Types, Types', Conversation, Dialogue, EnablePorts, Quiet'
    PROVE  Dialogue'
<1>1. pc \in BeforeDevices /\ UNCHANGED <<hw, dev, obuf, announced, id, port, kbd>>
  BY EarlyStep
<1>2. CASE ps2_send_data("data_4", config, "port_0")
  <2>1. /\ pc = "data_4" /\ pc' = "port_0" /\ ib' = << <<"data", config>> >>
        /\ UNCHANGED <<target, obf, outq>> /\ Silent /\ target = Ram
    <3>1. /\ pc = "data_4" /\ pc' = "port_0" /\ ib = <<>> /\ ib' = << <<"data", config>> >>
          /\ UNCHANGED <<target, obf, outq>>
      BY <1>2, QuietData
    <3> QED BY <3>1 DEF Conversation, Enabling, Opening, Sent
  <2>2. Prepared' /\ Harmless(obuf)'
    BY <1>1, <2>1 DEF Dialogue, Prepared, Untouched, Harmless, NoBroken
  <2>3. ASSUME NEW q, NEW d, NEW s, Outcome(q, d, s)'
        PROVE  View(q, d, s)'
    <3>1. \A t \in Ports, b \in Bytes : ~Forwarding(t, b)'
      BY <2>1 DEF Forwarding, Ports, Ram
    <3>2. q = Buffered' /\ d = dev' /\ s = Latest(q)'
      BY <2>3, <3>1 DEF Outcome
    <3>3. Buffered' = <<>>
      BY <2>1 DEF Buffered, Silent
    <3>4. q = <<>> /\ d = dev' /\ s = obuf'
      BY <3>2, <3>3 DEF Latest
    <3>5. Driven(d)'
      BY <2>2, <3>4 DEF Driven, Prepared, NoPort
    <3>6. Position(d)'
      BY <2>1, <2>2 DEF Position, Prepared, AtDevice, Calling, Returns
    <3>7. Harmless(s)'
      BY <2>2, <3>4 DEF Harmless, NoBroken
    <3> QED BY <2>1, <3>4, <3>5, <3>6, <3>7 DEF View, AtDevice, Calling, Returns
  <2>4. Aiming'
    BY <2>1 DEF Aiming, Aim, Sent
  <2> QED BY <2>1, <2>3, <2>4 DEF Dialogue, Devoted, BeforeDevices, BeforeTests
<1>3. CASE \E b \in Readable : ps2_read_data("edit_4", b)
  <2>1. PICK b \in Readable : ps2_read_data("edit_4", b)
    BY <1>3
  <2>2. pc = "edit_4" => Answering(CMD_READ_RAM, ccb) /\ Plain(ccb)
    BY DEF Conversation, Enabling
  <2>3. b = ccb /\ pc = "edit_4"
    BY <2>1, <2>2, QuietAnswer
  <2>4. b = obuf
    <3>1. PICK got \in BOOLEAN : ReadBuffer(got) /\ b = IF got THEN obuf ELSE 0
      BY <2>1 DEF ps2_read_data, try_read_data
    <3> QED BY <3>1, QuietRead
  <2>5. Bit(obuf, Interrupt(0)) = 1
    BY <2>2, <2>3, <2>4 DEF Plain
  <2>6. Bit(0, Interrupt(0)) # 1 /\ Bit(RESP_RESET_FAIL, Interrupt(0)) # 1
    BY ByteValues, SMT DEF Bit, Interrupt
  <2>7. Harmless(obuf)
    BY <2>5, <2>6 DEF Harmless
  <2>8. pc' = "set_4"
    BY <2>3 DEF EnablePorts, ps2_send_command, ps2_send_data
  <2> QED BY <1>1, <2>7, <2>8, EarlyView DEF BeforeDevices
<1>4. CASE /\ ~ps2_send_data("data_4", config, "port_0")
           /\ ~ \E b \in Readable : ps2_read_data("edit_4", b)
  <2>1. pc' \in {"enable_1", "get_4", "edit_4", "data_4"} /\ (pc' = "data_4" => pc = "set_4")
    BY <1>4 DEF EnablePorts, ps2_send_command
  <2> QED BY <1>1, <2>1, EarlyView DEF BeforeDevices
<1> QED BY <1>2, <1>3, <1>4

-----------------------------------------------------------------------------
(* The controller at work. *)

LEMMA ViewKept ==
    ASSUME UNCHANGED <<hw, pc, local>>, NEW q, NEW d, NEW s, View(q, d, s)
    PROVE  View(q, d, s)'
<1>1. UNCHANGED <<hw, pc, operational, id, announced, port, call, resp, kbd>>
  BY DEF local
<1>2. SameDevice /\ (Keying' <=> Keying) /\ \A to : Asks(to)' <=> Asks(to)
  BY <1>1, DeviceKept DEF Keying, Asks
<1>3. Driven(d)' <=> Driven(d)
  BY <1>1 DEF Driven
<1>4. Position(d)' <=> Position(d)
  <2>1. \A p \in Ports : (Untouched(p)' <=> Untouched(p)) /\ (Dealt(p, d)' <=> Dealt(p, d))
    BY <1>1 DEF Untouched, Dealt, NoBroken
  <2>2. 0 \in Ports /\ 1 \in Ports
    BY DEF Ports
  <2>3. Placed(d)' <=> Placed(d)
    BY <1>1, <1>2, <2>1, <2>2 DEF Placed
  <2> QED BY <1>1, <2>1, <2>2, <2>3 DEF Position
<1>5. Conduct(q, d, s)' <=> Conduct(q, d, s)
  <2>1. Resetting(q, s)' <=> Resetting(q, s)
    <3>1. ResetRead(resp, q, s)' <=> ResetRead(resp, q, s)
      BY <1>1, <1>2 DEF ResetRead, SameDevice
    <3> QED BY <1>1, <1>2, <3>1 DEF Resetting, SameDevice
  <2>2. \A right : Command(q, s, right)' <=> Command(q, s, right)
    BY <1>1, <1>2 DEF Command, SameDevice
  <2>3. Identifying(q, d, s)' <=> Identifying(q, d, s)
    <3>1. Known(s)' <=> Known(s)
      BY <1>1, <1>2 DEF Known, SameDevice
    <3>2. Command(q, s, Identity(Kind))' <=> Command(q, s, Identity(Kind))
      BY <1>1, <1>2 DEF Command, SameDevice
    <3> QED BY <1>1, <1>2, <2>2, <3>1, <3>2 DEF Identifying, SameDevice
  <2>4. SettingCodes(q, d, s)' <=> SettingCodes(q, d, s)
    BY <1>1, <1>2, <2>2 DEF SettingCodes, SameDevice, Overdue
  <2> QED BY <2>1, <2>3, <2>4 DEF Conduct
<1> QED BY <1>1, <1>2, <1>3, <1>4, <1>5 DEF View, SameDevice

\* Before the devices no byte is on its way to one.
LEMMA NothingForDevices ==
    ASSUME Conversation, pc \in BeforeDevices, ib # <<>>
    PROVE  (\E cmd : Sent(cmd)) \/ Storing
<1>1. CASE pc \in {"disable_0", "disable_1", "flush", "get_1"}
  BY <1>1 DEF Conversation, Disabling
<1>2. CASE pc \in {"edit_1", "set_1", "data_1", "test"}
  BY <1>2 DEF Conversation, Configuring, Answering, Opening
<1>3. CASE pc \in {"test_result", "get_2", "compare", "set_2", "data_2"}
  BY <1>3 DEF Conversation, SelfTesting, Answering, Opening
<1>4. CASE pc \in {"probe", "get_3", "probed", "close_1", "set_3", "data_3"}
  BY <1>4 DEF Conversation, Probing, Answering, Opening
<1>5. CASE pc \in {"test_0", "tested_0", "test_1", "tested_1"}
  BY <1>5 DEF Conversation, Testing, Answering
<1>6. CASE pc \in {"enable_0", "enable_1", "get_4", "edit_4", "set_4", "data_4"}
  BY <1>6 DEF Conversation, Enabling, Answering, Opening
<1> QED BY <1>1, <1>2, <1>3, <1>4, <1>5, <1>6 DEF BeforeDevices, BeforeTests

LEMMA HardwareKeepsPrepared ==
    ASSUME Conversation, pc \in BeforeDevices, Prepared, Take \/ Deliver, UNCHANGED <<pc, local>>
    PROVE  Prepared'
<1>1. UNCHANGED <<pc, hw, announced, id, kbd>>
  BY DEF local, Take, Deliver
<1>2. dev' = dev
  <2>1. ASSUME NEW cmd, Sent(cmd), Take PROVE dev' = dev
    BY <2>1, TakeCommand DEF Execute
  <2>2. ASSUME Storing, Take PROVE dev' = dev
    BY <2>2, TakeData DEF Storing, StoreConfig, Forward, Garble, Ports, Ram
  <2>3. Take => ib # <<>>
    BY DEF Take
  <2> QED BY <2>1, <2>2, <2>3, NothingForDevices DEF Deliver
<1>3. pc \in {"set_4", "data_4"} => obuf' = obuf
  BY DEF Conversation, Enabling, Opening, Silent, Take, Deliver
<1> QED BY <1>1, <1>2, <1>3 DEF Prepared, Untouched, Harmless, NoBroken

LEMMA SomeOutcomeLater == (\E q, d, s : Outcome(q, d, s))'
BY SomeOutcome, PTL

LEMMA HardwareDialogue ==
    ASSUME Types, Types', Conversation, Dialogue, Take \/ Deliver, UNCHANGED <<pc, local>>
    PROVE  Dialogue'
<1>1. UNCHANGED <<hw, pc, port>>
  BY DEF local, Take, Deliver
<1>2. pc \in BeforeDevices => Prepared'
  BY HardwareKeepsPrepared DEF Dialogue
<1>3. ASSUME pc \in Devoted \cup {"done"}
      PROVE  Aiming' /\ \A q, d, s : Outcome(q, d, s)' => View(q, d, s)'
  <2>1. Take => Driving
    <3>1. Take => ib # <<>>
      BY DEF Take
    <3> QED BY <1>3, <3>1 DEF Conversation, Devoted
  <2>2. \A q, d, s : Outcome(q, d, s)' => Outcome(q, d, s) /\ Aim' = Aim
    BY <2>1, TakeOutcome, DeliverOutcome
  <2>3. Aim' = Aim
    <3>1. PICK q, d, s : Outcome(q, d, s)'
      BY SomeOutcomeLater
    <3> QED BY <2>2, <3>1
  <2>4. Aiming'
    BY <1>1, <1>3, <2>3 DEF Dialogue, Aiming
  <2>5. \A q, d, s : Outcome(q, d, s)' => View(q, d, s)'
    BY <1>1, <1>3, <2>2, ViewKept DEF Dialogue
  <2> QED BY <2>4, <2>5
<1> QED BY <1>1, <1>2, <1>3 DEF Dialogue

-----------------------------------------------------------------------------
(* The invariant. *)

Guided == Quiet => Dialogue

LEMMA AccessNoise ==
    ASSUME Types, Quiet', Access
    PROVE  Quiet
BY Accesses, QuietWrite, QuietRead DEF FlushBuffer, hwVars, Quiet

LEMMA AccessDialogue ==
    ASSUME Types, Types', Conversation, Dialogue, Access, Quiet'
    PROVE  Dialogue'
<1>1. CASE DisableAndFlush \/ Configure \/ Probe
  BY <1>1, FirstStepsView
<1>2. CASE SelfTest \/ TestPorts \/ EnablePorts
  BY <1>2, SelfTestView, TestPortsView, EnablePortsView
<1>3. CASE EachPort \/ SendReset \/ ResetResponse \/ SpecialCode
  BY <1>3, EachPortView, SendResetView, ResetResponseView, SpecialCodeView
<1>4. CASE Identify \/ ps2_send_device_command \/ ps2_init_device \/ KbdInit
  BY <1>4, IdentifyView, DeviceCommandView, InitDeviceView, KbdInitView
<1> QED BY <1>1, <1>2, <1>3, <1>4 DEF Access

LEMMA StutterDialogue ==
    ASSUME Dialogue, AtRest
    PROVE  Dialogue'
<1>1. UNCHANGED <<hw, ib, target, dev, pc, kbd, announced, id, port, obuf, local, hardware>>
  BY DEF AtRest, hwVars, local, hardware
<1>2. Prepared => Prepared'
  BY <1>1 DEF Prepared, Untouched, Harmless, NoBroken
<1>3. Aiming => Aiming'
  BY <1>1 DEF Aiming, Aim, Sent
<1>4. ASSUME NEW q, NEW d, NEW s, Outcome(q, d, s)', \A q1, d1, s1 : Outcome(q1, d1, s1) => View(q1, d1, s1)
      PROVE  View(q, d, s)'
  BY <1>1, <1>4, SameOutcome, ViewKept
<1> QED BY <1>1, <1>2, <1>3, <1>4 DEF Dialogue

LEMMA NextGuided ==
    ASSUME Types, Types', Settled, Guided, [Next]_vars
    PROVE  Guided'
<1> SUFFICES ASSUME Quiet' PROVE Dialogue'
  BY DEF Guided
<1>1. CASE Access
  <2>1. Quiet
    BY <1>1, AccessNoise
  <2> QED BY <1>1, <2>1, AccessDialogue DEF Settled, Guided
<1>2. CASE Hardware
  <2>1. ASSUME NEW p \in Ports, Key(p) PROVE FALSE
    <3>1. keys \in Nat /\ late \in Nat
      BY MachineAssumption DEF Types, HwTypes
    <3> QED BY <2>1, <3>1 DEF Key, Quiet
  <2>2. Take \/ Deliver
    BY <1>2, <2>1 DEF Hardware, Controller
  <2>3. Quiet
    BY <2>2 DEF Take, Deliver, Quiet
  <2> QED BY <1>2, <2>2, <2>3, HardwareDialogue DEF Hardware, Settled, Guided
<1>3. CASE AtRest
  <2>1. Quiet
    BY <1>3 DEF AtRest, hwVars, Quiet
  <2> QED BY <1>3, <2>1, StutterDialogue DEF Guided
<1> QED BY <1>1, <1>2, <1>3, StepCases

LEMMA InitGuided ==
    ASSUME Init
    PROVE  Guided
<1>1. pc = "disable_0"
  BY DEF Init
<1>2. kbd.port = NoPort /\ \A p \in Ports : Untouched(p) /\ ~dev[p].pending
  BY DEF Init, InitHw, Untouched, NoPort, Ports, PowerOnDevice
<1> QED BY <1>1, <1>2 DEF Guided, Dialogue, Prepared, BeforeDevices, BeforeTests, Devoted, AtDevice, Calling, Returns

LEMMA GuidedInvariant == Spec => []Guided
<1>1. Init => Guided
  BY InitGuided
<1>2. Types /\ Types' /\ Settled /\ Guided /\ [Next]_vars => Guided'
  BY NextGuided
<1> QED BY <1>1, <1>2, TypesInvariant, SettledInvariant, PTL DEF Spec

-----------------------------------------------------------------------------
(* What has become of the devices. *)

LEMMA Undisturbance ==
    ASSUME Types, Settled, Guided, Undisturbed
    PROVE  /\ Buffered = <<>> /\ Tested
           /\ \A p \in Ports : Dealt(p, dev)
<1>1. Conversation /\ Dialogue /\ pc = "done" /\ ib = <<>>
  BY DEF Undisturbed, Finished, Settled, Guided, Quiet
<1>2. Outcome(Buffered, dev, Latest(Buffered))
  BY <1>1, PlainOutcome
<1>3. View(Buffered, dev, Latest(Buffered))
  BY <1>1, <1>2 DEF Dialogue
<1> QED BY <1>1, <1>3 DEF View, Position, Conversation, AfterPortTests

\* Between the unmask and the install the keyboard driver is at work.
LEMMA ExposedKeying ==
    ASSUME Types, Exposed
    PROVE  Keying /\ pc \in AtDevice /\ port \in Ports
<1>1. pc \in AtDevice
  BY DEF Exposed, KbdSteps, AtDevice, Returns, Calling
<1>2. pc \in Calling /\ call.to \in KbdSteps => call.to \in {"set_codes", "set_id", "check_set"}
  BY DEF Types, Ready, Returns, KbdSteps
<1>3. Keying
  BY <1>2 DEF Exposed, KbdSteps, Keying, Asks
<1> QED BY <1>1, <1>3 DEF Types, Ready

\* What an interrupt leaves behind.
LEMMA Interruption ==
    ASSUME Types, Risk, Settled, Guided, Over, fault
    PROVE  /\ Tested /\ port \in Ports /\ operational[port]
           /\ Kind \in Keyboards /\ announced[port] = "KBD_MF2" /\ dev[port].scan
           /\ port = 0 => Untouched(1)
           /\ port = 1 => Dealt(0, dev)
<1>1. Keying /\ pc \in AtDevice /\ port \in Ports
  BY ExposedKeying DEF Risk
<1>2. Conversation /\ Dialogue /\ ib = <<>>
  BY DEF Over, Settled, Guided, Quiet
<1>3. Outcome(Buffered, dev, Latest(Buffered))
  BY <1>2, PlainOutcome
<1>4. View(Buffered, dev, Latest(Buffered))
  BY <1>1, <1>2, <1>3 DEF Dialogue, Devoted
<1>5. Placed(dev) /\ SettingCodes(Buffered, dev, Latest(Buffered))
  BY <1>1, <1>4 DEF View, Position, Conduct
<1>6. Tested
  BY <1>1, <1>2 DEF Conversation, AfterPortTests
<1> QED BY <1>1, <1>5, <1>6 DEF Placed, SettingCodes

\* When ps2_init is over, undisturbed, every device on a healthy port it came to is
\* recognised and left scanning, whatever the machine, however the accesses of the
\* driver and the controller interleaved and however often a byte arrived garbled
\* and was asked for again.
THEOREM DevicesAlwaysIdentified == Spec => []DevicesIdentified
<1>1. ASSUME Types, Risk, Settled, Guided, Over, NEW p \in Ports, HealthyPort(p), fault => p <= port
      PROVE  /\ hw.attached[p] \in Keyboards => announced[p] = "KBD_MF2" /\ dev[p].scan
             /\ hw.attached[p] = "mouse" => announced[p] = "MOUSE_PS2" /\ dev[p].scan
             /\ hw.attached[p] = "broken" => announced[p] = "MOUSE_PS2"
  <2>1. CASE fault
    <3>1. Tested /\ port \in Ports /\ Kind \in Keyboards /\ announced[port] = "KBD_MF2" /\ dev[port].scan
          /\ (port = 1 => Dealt(0, dev))
      BY <1>1, <2>1, Interruption
    <3>2. p = port \/ (p = 0 /\ port = 1)
      BY <1>1, <2>1, <3>1 DEF Ports
    <3>3. operational[p]
      BY <1>1, <3>1 DEF Tested
    <3>4. CASE p = port
      BY <3>1, <3>4 DEF Kind, Keyboards
    <3>5. CASE p = 0 /\ port = 1
      BY <3>1, <3>3, <3>5 DEF Dealt
    <3> QED BY <3>2, <3>4, <3>5
  <2>2. CASE ~fault
    <3>1. Undisturbed
      BY <1>1, <2>2 DEF Over, Stopped, Undisturbed, Finished
    <3> QED BY <1>1, <3>1, Undisturbance DEF Tested, Dealt
  <2> QED BY <2>1, <2>2
<1>2. Types /\ Risk /\ Settled /\ Guided => DevicesIdentified
  BY <1>1 DEF DevicesIdentified
<1> QED BY <1>2, TypesInvariant, RiskInvariant, SettledInvariant, GuidedInvariant, PTL

\* The bytes that stay in the data register, which reset_port reads again and again
\* on an empty port, are never taken for a device, unless one failed its reset.
THEOREM EmptyPortsAlwaysSilent == Spec => []EmptyPortSilent
<1>1. ASSUME Types, Risk, Settled, Guided, Over, NoBroken, NEW p \in Ports, hw.attached[p] = "none"
      PROVE  announced[p] = "none"
  <2>1. CASE fault
    <3>1. /\ port \in Ports /\ Kind \in Keyboards
          /\ (port = 0 => Untouched(1)) /\ (port = 1 => Dealt(0, dev))
      BY <1>1, <2>1, Interruption
    <3>2. p # port
      BY <1>1, <3>1 DEF Kind, Keyboards
    <3>3. (p = 0 /\ port = 1) \/ (p = 1 /\ port = 0)
      BY <3>1, <3>2 DEF Ports
    <3>4. operational[p] \in BOOLEAN
      BY <1>1 DEF Types, LocalTypes
    <3> QED BY <1>1, <3>1, <3>3, <3>4 DEF Dealt, Untouched
  <2>2. CASE ~fault
    <3>1. Undisturbed
      BY <1>1, <2>2 DEF Over, Stopped, Undisturbed, Finished
    <3>2. Dealt(p, dev)
      BY <1>1, <3>1, Undisturbance
    <3> QED BY <1>1, <3>2 DEF Dealt
  <2> QED BY <2>1, <2>2
<1>2. Types /\ Risk /\ Settled /\ Guided => EmptyPortSilent
  BY <1>1 DEF EmptyPortSilent, NoBroken
<1> QED BY <1>2, TypesInvariant, RiskInvariant, SettledInvariant, GuidedInvariant, PTL

\* From the moment ps2_kbd_init takes a port, there is a keyboard on that port and
\* the port is healthy.
THEOREM DriverAlwaysHasKeyboard == Spec => []KeyboardDriverHasKeyboard
<1>1. ASSUME Types, Settled, Guided, kbd.port # NoPort, keys + late = 0
      PROVE  HealthyPort(kbd.port) /\ hw.attached[kbd.port] \in Keyboards
  <2>1. Conversation /\ Dialogue
    BY <1>1 DEF Settled, Guided, Quiet
  <2>2. pc \in Devoted \cup {"done"}
    BY <1>1, <2>1 DEF Dialogue, Prepared
  <2>3. PICK q, d, s : Outcome(q, d, s)
    BY SomeOutcome
  <2>4. Driven(d)
    BY <2>1, <2>2, <2>3 DEF Dialogue, View
  <2>5. Tested
    BY <2>1, <2>2 DEF Conversation, AfterPortTests, Devoted
  <2> QED BY <1>1, <2>4, <2>5 DEF Driven, Tested
<1>2. Types /\ Settled /\ Guided => KeyboardDriverHasKeyboard
  BY <1>1 DEF KeyboardDriverHasKeyboard
<1> QED BY <1>2, TypesInvariant, SettledInvariant, GuidedInvariant, PTL

\* Where ps2_init returns it leaves no answer behind: those that would stay are from
\* the first port and interrupt it, and where nobody there has answered the number of
\* the scan code set, the read too many finds nothing to take.
THEOREM AnswersAlwaysConsumed == Spec => []AnswersConsumed
<1>1. ASSUME Types, Settled, Guided, Undisturbed
      PROVE  ~obf /\ outq = <<>>
  <2>1. Buffered = <<>>
    BY <1>1, Undisturbance
  <2>2. obuf \in Bytes /\ outq \in Seq(Bytes)
    BY <1>1 DEF Types, HwTypes
  <2>3. <<obuf>> \o outq # <<>>
    BY <2>2, HeadAndTail
  <2> QED BY <2>1, <2>3 DEF Buffered
<1>2. Types /\ Settled /\ Guided => AnswersConsumed
  BY <1>1 DEF AnswersConsumed
<1> QED BY <1>2, TypesInvariant, SettledInvariant, GuidedInvariant, PTL

-----------------------------------------------------------------------------
(* The ports the bytes come from. *)

AllFrom(p) == \A i \in DOMAIN origin : origin[i] = p

\* The bytes added are all from the port the byte was sent to.
LEMMA TakeOrigin ==
    ASSUME Types, Types', Take
    PROVE  \E a \in Seq(Bytes) : outq' = outq \o a /\ origin' = origin \o [i \in 1 .. Len(a) |-> Sender]
<1>1. PICK a \in Seq(Bytes) : outq' = outq \o a
  BY TakeExtends DEF Types
<1>2. outq \in Seq(Bytes) /\ Len(outq) \in Nat /\ Len(a) \in Nat /\ Len(outq') = Len(outq) + Len(a)
  BY <1>1 DEF Types, HwTypes
<1>3. Len(outq') - Len(outq) = Len(a)
  BY <1>2
<1> QED BY <1>1, <1>3 DEF Take

LEMMA JoinedElements ==
    ASSUME NEW T, NEW u \in Seq(T), NEW v \in Seq(T)
    PROVE  /\ DOMAIN u = 1 .. Len(u) /\ Len(u) \in Nat
           /\ DOMAIN (u \o v) = 1 .. Len(u) + Len(v)
           /\ \A i \in 1 .. Len(u) + Len(v) : (u \o v)[i] = IF i <= Len(u) THEN u[i] ELSE v[i - Len(u)]
OBVIOUS

LEMMA TakeAllFrom ==
    ASSUME Types, Types', Origins, Take, NEW p \in Ports, AllFrom(p), Sender = p \/ outq' = outq
    PROVE  AllFrom(p)'
<1>1. PICK a \in Seq(Bytes) : outq' = outq \o a /\ origin' = origin \o [i \in 1 .. Len(a) |-> Sender]
  BY TakeOrigin
<1> DEFINE who == [i \in 1 .. Len(a) |-> Sender]
<1>2. Len(a) \in Nat /\ origin \in Seq(Ports) /\ outq \in Seq(Bytes)
  BY DEF Origins, Types, HwTypes
<1>3. who \in Seq(Ports) /\ Len(who) = Len(a) /\ \A i \in 1 .. Len(a) : who[i] = Sender
  BY <1>2 DEF Sender, Ports
<1>4. outq' = outq => Len(a) = 0
  <2>1. Len(outq \o a) = Len(outq) + Len(a) /\ Len(outq) \in Nat
    BY <1>2
  <2>2. outq' = outq \o a
    BY <1>1
  <2> HIDE DEF who
  <2> QED BY <1>2, <2>1, <2>2
<1> HIDE DEF who
<1>5. \A i \in 1 .. Len(who) : who[i] = p
  BY <1>2, <1>3, <1>4
<1>6. /\ DOMAIN origin = 1 .. Len(origin) /\ Len(origin) \in Nat
      /\ DOMAIN (origin \o who) = 1 .. Len(origin) + Len(who)
      /\ \A i \in 1 .. Len(origin) + Len(who) :
            (origin \o who)[i] = IF i <= Len(origin) THEN origin[i] ELSE who[i - Len(origin)]
  BY <1>2, <1>3, JoinedElements
<1>7. \A i \in DOMAIN (origin \o who) : (origin \o who)[i] = p
  <2> TAKE i \in DOMAIN (origin \o who)
  <2>1. i \in 1 .. Len(origin) + Len(who) /\ Len(who) \in Nat
    BY <1>2, <1>3, <1>6
  <2>2. CASE i <= Len(origin)
    <3>1. i \in DOMAIN origin /\ (origin \o who)[i] = origin[i]
      BY <1>6, <2>1, <2>2
    <3> QED BY <3>1 DEF AllFrom
  <2>3. CASE ~(i <= Len(origin))
    <3>1. i - Len(origin) \in 1 .. Len(who) /\ (origin \o who)[i] = who[i - Len(origin)]
      BY <1>6, <2>1, <2>3
    <3> QED BY <1>5, <3>1
  <2> QED BY <2>2, <2>3
<1>8. origin' = origin \o who
  BY <1>1 DEF who
<1> QED BY <1>7, <1>8 DEF AllFrom

LEMMA RemoveAllFrom ==
    ASSUME Types, Origins, ReadBuffer(TRUE) \/ ReadBuffer(FALSE) \/ FlushBuffer, NEW p \in Ports, AllFrom(p)
    PROVE  AllFrom(p)'
<1>1. origin \in Seq(Ports) /\ Len(outq) \in Nat
  BY DEF Origins, Types, HwTypes
<1>2. CASE origin' = origin
  BY <1>2 DEF AllFrom
<1>3. CASE origin' = Tail(origin) /\ origin # <<>>
  <2>1. \A i \in DOMAIN origin' : i + 1 \in DOMAIN origin /\ origin'[i] = origin[i + 1]
    BY <1>1, <1>3
  <2> QED BY <2>1 DEF AllFrom
<1>4. obf => origin # <<>>
  BY <1>1 DEF Origins
<1> QED BY <1>2, <1>3, <1>4 DEF ReadBuffer, FlushBuffer

-----------------------------------------------------------------------------
(* The second port is not addressed before its turn. *)

FirstHw ==
    /\ target # 1 /\ ~Sent(CMD_WRITE_INPUT_PORT_1)
    /\ keys = 0 => AllFrom(0)

FirstOnly ==
    /\ pc \in BeforeDevices \cup {"port_0"} => port = NoPort
    /\ pc \in {"reset_select", "select_port"} => port = 1
    /\ Exposed => kbd.port = port
    /\ port # 1 => FirstHw

LEMMA WriteFirst ==
    ASSUME Types, NEW reg, NEW b, reg = "command" => b # CMD_WRITE_INPUT_PORT_1, WriteBuffer(reg, b), FirstHw
    PROVE  FirstHw'
<1>1. ib' = << <<reg, b>> >> \/ ib' = ib
  BY DEF WriteBuffer
<1>2. UNCHANGED <<target, keys, origin>>
  BY DEF WriteBuffer
<1>3. ~Sent(CMD_WRITE_INPUT_PORT_1)'
  BY <1>1 DEF Sent, FirstHw
<1> QED BY <1>2, <1>3 DEF FirstHw, AllFrom

LEMMA RemoveFirst ==
    ASSUME Types, Origins, ReadBuffer(TRUE) \/ ReadBuffer(FALSE) \/ FlushBuffer, FirstHw
    PROVE  FirstHw'
<1>1. UNCHANGED <<target, keys, ib>>
  BY DEF ReadBuffer, FlushBuffer
<1>2. 0 \in Ports
  BY DEF Ports
<1> QED BY <1>1, <1>2, RemoveAllFrom DEF FirstHw, Sent

LEMMA HardwareFirst ==
    ASSUME Types, Types', Origins, Hardware, FirstHw
    PROVE  FirstHw'
<1>1. CASE Take
  <2>1. PICK r \in Registers, b \in Bytes : ib = << <<r, b>> >>
    BY <1>1 DEF Types, HwTypes, Take
  <2>2. ib' = <<>> /\ keys' = keys /\ 0 \in Ports
    BY <1>1 DEF Take, Ports
  <2>3. (r = "command" /\ Execute(b)) \/ StoreConfig(b) \/ Forward(b) \/ Garble
    BY <1>1, <2>1 DEF Take
  <2>4. target' # 1
    BY <2>1, <2>3 DEF Execute, StoreConfig, Forward, Garble, FirstHw, Sent, Ram
  <2>5. Sender = 0
    BY DEF Sender, FirstHw
  <2> QED BY <1>1, <2>2, <2>4, <2>5, TakeAllFrom DEF FirstHw, Sent
<1>2. CASE Deliver
  BY <1>2 DEF Deliver, FirstHw, Sent, AllFrom
<1>3. ASSUME NEW p \in Ports, Key(p) PROVE FirstHw'
  <2>1. keys' # 0 /\ UNCHANGED <<ib, target>>
    BY <1>3 DEF Key, Types, HwTypes
  <2> QED BY <2>1 DEF FirstHw, Sent
<1> QED BY <1>1, <1>2, <1>3 DEF Hardware, Controller

LEMMA OtherCommands ==
    CMD_WRITE_INPUT_PORT_1 \notin
        {CMD_READ_RAM, CMD_WRITE_RAM, CMD_DISABLE_PORT_1, CMD_ENABLE_PORT_1, CMD_TEST_PORT_1, CMD_TEST,
         CMD_TEST_PORT_0, CMD_DISABLE_PORT_0, CMD_ENABLE_PORT_0}
BY DEF CMD_READ_RAM, CMD_WRITE_RAM, CMD_DISABLE_PORT_1, CMD_ENABLE_PORT_1, CMD_TEST_PORT_1, CMD_TEST,
       CMD_TEST_PORT_0, CMD_DISABLE_PORT_0, CMD_ENABLE_PORT_0, CMD_WRITE_INPUT_PORT_1

\* An access that addresses no device but that of the current port, and keeps to it.
Modest == /\ port' # 1 => port # 1
          /\ \/ \E reg, b : WriteBuffer(reg, b) /\ (reg = "command" /\ b = CMD_WRITE_INPUT_PORT_1 => port = 1)
             \/ \E got \in BOOLEAN : ReadBuffer(got)
             \/ FlushBuffer
             \/ UNCHANGED hwVars

LEMMA ModestKeepsFirst ==
    ASSUME Types, Origins, port # 1 => FirstHw, Modest
    PROVE  port' # 1 => FirstHw'
<1> SUFFICES ASSUME port # 1, FirstHw, port' # 1 PROVE FirstHw'
  BY DEF Modest
<1>1. CASE UNCHANGED hwVars
  BY <1>1 DEF hwVars, FirstHw, Sent, AllFrom
<1> QED BY <1>1, WriteFirst, RemoveFirst DEF Modest

LEMMA AccessModest ==
    ASSUME Types, FirstOnly, Access
    PROVE  Modest
<1> USE OtherCommands DEF Modest, ps2_send_command, ps2_send_data, ps2_read_data, try_read_data
<1>1. CASE DisableAndFlush \/ Configure \/ SelfTest
  BY <1>1 DEF DisableAndFlush, Configure, SelfTest, local
<1>2. CASE Probe
  BY <1>2 DEF Probe, local
<1>3. CASE TestPorts \/ EnablePorts
  BY <1>3 DEF TestPorts, EnablePorts, local
<1>4. CASE EachPort
  <2>1. port' # 1 => port # 1
    BY <1>4 DEF EachPort, FirstOnly, Ports, NoPort
  <2> QED BY <1>4, <2>1 DEF EachPort, hwVars
<1>5. CASE SendReset
  BY <1>5 DEF SendReset, local, FirstOnly
<1>6. CASE ps2_init_device
  BY <1>6 DEF ps2_init_device, hwVars
<1>7. CASE ResetResponse \/ SpecialCode
  BY <1>7 DEF ResetResponse, SpecialCode
<1>8. CASE Identify
  BY <1>8 DEF Identify, hwVars
<1>9. CASE ps2_send_device_command
  BY <1>9 DEF ps2_send_device_command, local, FirstOnly
<1>10. CASE KbdInit
  BY <1>10 DEF KbdInit, hwVars, local
<1> QED BY <1>1, <1>2, <1>3, <1>4, <1>5, <1>6, <1>7, <1>8, <1>9, <1>10 DEF Access

\* Where the driver goes.
Turns == /\ pc \in BeforeDevices \cup {"port_0"} => port = NoPort
         /\ pc \in {"reset_select", "select_port"} => port = 1
         /\ Exposed => kbd.port = port

LEMMA AccessTurns ==
    ASSUME Types, Turns, Access
    PROVE  Turns'
<1> USE DEF ps2_send_command, ps2_send_data, ps2_read_data, try_read_data, Turns
<1>1. CASE DisableAndFlush \/ Configure \/ SelfTest \/ Probe \/ TestPorts \/ EnablePorts
  <2>1. /\ pc \in BeforeDevices /\ pc' \in BeforeDevices \cup {"port_0", "done"}
        /\ UNCHANGED <<port, kbd>>
    <3> USE DEF BeforeDevices, BeforeTests, local
    <3>1. CASE DisableAndFlush \/ Configure
      BY <3>1 DEF DisableAndFlush, Configure
    <3>2. CASE SelfTest
      BY <3>2 DEF SelfTest
    <3>3. CASE Probe
      BY <3>3 DEF Probe
    <3>4. CASE TestPorts
      BY <3>4 DEF TestPorts, AfterTests
    <3>5. CASE EnablePorts
      BY <3>5 DEF EnablePorts
    <3> QED BY <1>1, <3>1, <3>2, <3>3, <3>4, <3>5
  <2>2. pc' \notin Calling \cup KbdSteps \cup {"reset_select"}
    BY <2>1 DEF BeforeDevices, BeforeTests, Calling, KbdSteps
  <2> QED BY <2>1, <2>2 DEF Exposed, Calling
<1>2. ASSUME pc' \notin BeforeDevices \cup {"port_0"} \cup Calling \cup KbdSteps \cup {"reset_select"} PROVE Turns'
  BY <1>2 DEF Exposed, Calling
<1> USE DEF Calling, KbdSteps, BeforeDevices, BeforeTests
<1>3. CASE EachPort
  <2>1. /\ pc' \in {"reset_select", "reset", "port_1", "done"}
        /\ pc' = "reset_select" => port' = 1
    BY <1>3 DEF EachPort, After
  <2> QED BY <2>1 DEF Exposed
<1>4. CASE SendReset
  BY <1>2, <1>4 DEF SendReset
<1>5. CASE ps2_init_device
  <2>1. pc' \in {"kbd_init", "port_1", "done"}
    BY <1>5 DEF ps2_init_device, After
  <2> QED BY <1>2, <2>1
<1>6. CASE ResetResponse \/ SpecialCode \/ Identify
  <2>1. UNCHANGED port /\ pc' \in Calling \cup {"init_device", "reset_response", "special_code", "id_2"}
    <3>1. CASE ResetResponse
      BY <3>1 DEF ResetResponse, Call, DeviceCommandEntry
    <3>2. CASE SpecialCode
      BY <3>2 DEF SpecialCode, Call, DeviceCommandEntry
    <3>3. CASE Identify
      BY <3>3 DEF Identify, Call, DeviceCommandEntry
    <3> QED BY <1>6, <3>1, <3>2, <3>3
  <2>2. pc' \in Calling => call'.to \in {"identify", "id_1", "init_device"} /\ (pc' = "select_port" => port = 1)
    <3>1. CASE ResetResponse
      BY <3>1 DEF ResetResponse, Call, DeviceCommandEntry
    <3>2. CASE SpecialCode
      BY <3>2 DEF SpecialCode, Call, DeviceCommandEntry
    <3>3. CASE Identify
      <4>1. \/ Call(CMD_IDENTIFY, port, "id_1")
            \/ Call(CMD_ENABLE_SCAN, port, "init_device")
            \/ pc' = "id_2"
        BY <3>3 DEF Identify
      <4>2. ASSUME NEW cmd, NEW to, Call(cmd, port, to)
            PROVE  call'.to = to /\ (pc' = "select_port" => port = 1)
        BY <4>2 DEF Call, DeviceCommandEntry
      <4> QED BY <4>1, <4>2
    <3> QED BY <1>6, <3>1, <3>2, <3>3
  <2> QED BY <2>1, <2>2 DEF Exposed
<1>7. CASE ps2_send_device_command
  <2>1. UNCHANGED <<port, kbd, call>> /\ pc \in Calling
    BY <1>7 DEF ps2_send_device_command, local
  <2>2. pc' \in Calling \cup {call.to} /\ call.to \in Returns /\ (pc' = "select_port" => port = 1)
    BY <1>7, <2>1 DEF ps2_send_device_command, DeviceCommandEntry, Types, Ready, Returns
  <2>3. pc' \notin BeforeDevices \cup {"port_0", "reset_select"}
    BY <2>2 DEF Returns
  <2>4. Exposed' => Exposed
    BY <2>1, <2>2 DEF Exposed, Returns
  <2> QED BY <2>1, <2>2, <2>3, <2>4
<1>8. CASE KbdInit
  <2>1. UNCHANGED port /\ pc \in KbdSteps \cup {"kbd_init"}
    BY <1>8 DEF KbdInit, local
  <2>2. pc = "kbd_init" => kbd'.port = port /\ pc' \in Calling /\ (pc' = "select_port" => port = 1)
    BY <1>8 DEF KbdInit, Call, DeviceCommandEntry, Types, LocalTypes
  <2>3. pc # "kbd_init" => kbd'.port = kbd.port /\ kbd.port = port
    BY <1>8, <2>1 DEF KbdInit, local, Exposed, Types, LocalTypes
  <2>4. pc # "kbd_init" => /\ pc' \in Calling \cup KbdSteps \cup {"port_1", "done"}
                           /\ pc' = "select_port" => port = 1
    BY <1>8, <2>3 DEF KbdInit, Call, DeviceCommandEntry, After
  <2> QED BY <2>1, <2>2, <2>3, <2>4
<1> QED BY <1>1, <1>3, <1>4, <1>5, <1>6, <1>7, <1>8 DEF Access

LEMMA NextFirst ==
    ASSUME Types, Types', Origins, FirstOnly, [Next]_vars
    PROVE  FirstOnly'
<1>1. Turns /\ (port # 1 => FirstHw)
  BY DEF FirstOnly, Turns
<1>2. CASE Access
  <2>1. Turns'
    BY <1>1, <1>2, AccessTurns
  <2>2. port' # 1 => FirstHw'
    BY <1>1, <1>2, AccessModest, ModestKeepsFirst
  <2> QED BY <2>1, <2>2 DEF FirstOnly, Turns
<1>3. CASE UNCHANGED <<pc, local>> /\ (Hardware \/ UNCHANGED hwVars)
  <2>1. Turns' /\ UNCHANGED port
    BY <1>1, <1>3 DEF local, Turns, Exposed
  <2>2. port # 1 => FirstHw'
    <3>1. CASE Hardware
      BY <1>1, <3>1, HardwareFirst
    <3>2. CASE UNCHANGED hwVars
      BY <1>1, <3>2 DEF hwVars, FirstHw, Sent, AllFrom
    <3> QED BY <1>3, <3>1, <3>2
  <2> QED BY <2>1, <2>2 DEF FirstOnly, Turns
<1> QED BY <1>2, <1>3, StepCases DEF AtRest, Hardware

LEMMA InitFirst ==
    ASSUME Init
    PROVE  FirstOnly
<1>1. pc = "disable_0" /\ port = NoPort /\ ib = <<>> /\ target = 0
  BY DEF Init, InitHw
<1>2. origin = <<0>> \/ origin = <<>>
  BY DEF Init, InitHw
<1>3. AllFrom(0)
  BY <1>2 DEF AllFrom
<1>4. FirstHw
  BY <1>1, <1>3 DEF FirstHw, Sent
<1> QED BY <1>1, <1>4 DEF FirstOnly, Exposed, KbdSteps, Calling

LEMMA FirstInvariant == Spec => []FirstOnly
<1>1. Init => FirstOnly
  BY InitFirst
<1>2. Types /\ Types' /\ Origins /\ FirstOnly /\ [Next]_vars => FirstOnly'
  BY NextFirst
<1> QED BY <1>1, <1>2, TypesInvariant, OriginsInvariant, PTL DEF Spec

-----------------------------------------------------------------------------
(* Data bytes reach a device once one has been reset. *)

Addressed == AtDevice \ {"reset_select", "reset"}

Aimed == Quiet /\ pc \in Addressed => target \in Ports

LEMMA AccessAddressed ==
    ASSUME Types, Access, pc' \in Addressed
    PROVE  pc \in Addressed \/ ps2_send_data("reset", CMD_RESET_DEVICE, "reset_response")
<1> USE DEF ps2_send_command, ps2_read_data, try_read_data, Addressed, AtDevice, Calling, Returns
<1>1. CASE DisableAndFlush \/ Configure
  BY <1>1 DEF DisableAndFlush, Configure, ps2_send_data
<1>2. CASE SelfTest
  BY <1>2 DEF SelfTest, ps2_send_data
<1>3. CASE Probe
  BY <1>3 DEF Probe, ps2_send_data
<1>4. CASE TestPorts
  BY <1>4 DEF TestPorts, AfterTests
<1>5. CASE EnablePorts
  BY <1>5 DEF EnablePorts, ps2_send_data
<1>6. CASE EachPort
  BY <1>6 DEF EachPort, After
<1>7. CASE SendReset
  BY <1>7 DEF SendReset
<1>8. CASE ResetResponse \/ SpecialCode
  BY <1>8 DEF ResetResponse, SpecialCode
<1>9. CASE Identify \/ ps2_init_device
  BY <1>9 DEF Identify, ps2_init_device
<1>10. CASE ps2_send_device_command
  BY <1>10 DEF ps2_send_device_command, ps2_send_data
<1>11. CASE KbdInit
  BY <1>11 DEF KbdInit, ps2_send_data
<1> QED BY <1>1, <1>2, <1>3, <1>4, <1>5, <1>6, <1>7, <1>8, <1>9, <1>10, <1>11 DEF Access

LEMMA TakeAimed ==
    ASSUME Types, Driving, target \in Ports, Take
    PROVE  target' \in Ports
<1>1. Ram \notin Ports /\ 0 \in Ports
  BY DEF Ram, Ports
<1>2. CASE Sent(CMD_WRITE_INPUT_PORT_1)
  BY <1>2, TakeCommand, Executed DEF Types, HwTypes, CMD_WRITE_INPUT_PORT_1, CMD_WRITE_RAM
<1>3. ASSUME NEW b \in Bytes, Data(b) PROVE target' \in Ports
  BY <1>1, <1>3, TakeData DEF StoreConfig, Forward, Garble
<1> QED BY <1>1, <1>2, <1>3 DEF Driving, Storing, Take

LEMMA NextAimed ==
    ASSUME Types, Settled, Aimed, [Next]_vars
    PROVE  Aimed'
<1> SUFFICES ASSUME Quiet', pc' \in Addressed PROVE target' \in Ports
  BY DEF Aimed
<1>0. Addressed \subseteq AtDevice
  BY DEF Addressed
<1>1. CASE Access
  <2>1. Quiet
    BY <1>1, AccessNoise
  <2>2. target' = target
    BY <1>1, Accesses DEF WriteBuffer, ReadBuffer, FlushBuffer, hwVars
  <2>3. CASE pc \in Addressed
    BY <2>1, <2>2, <2>3 DEF Aimed
  <2>4. CASE ps2_send_data("reset", CMD_RESET_DEVICE, "reset_response")
    <3>1. ib = <<>> /\ pc = "reset"
      BY <2>4, QuietData
    <3>2. Driving
      BY <2>1, <3>1 DEF Settled, Conversation, AtDevice
    <3> QED BY <2>2, <3>1, <3>2 DEF Driving, Storing, Data
  <2> QED BY <1>1, <2>3, <2>4, AccessAddressed
<1>2. CASE Hardware
  <2>1. UNCHANGED pc
    BY <1>2 DEF Hardware
  <2>2. CASE Take
    <3>1. Quiet
      BY <2>2 DEF Take, Quiet
    <3>2. Driving /\ target \in Ports
      BY <1>0, <2>1, <3>1 DEF Aimed, Settled, Conversation
    <3> QED BY <2>2, <3>2, TakeAimed
  <2>3. CASE Deliver
    BY <2>1, <2>3 DEF Deliver, Quiet, Aimed
  <2>4. ASSUME NEW p \in Ports, Key(p) PROVE FALSE
    <3>1. keys \in Nat /\ late \in Nat
      BY MachineAssumption DEF Types, HwTypes
    <3> QED BY <2>4, <3>1 DEF Key, Quiet
  <2> QED BY <1>2, <2>2, <2>3, <2>4 DEF Hardware, Controller
<1>3. CASE AtRest
  BY <1>3 DEF AtRest, hwVars, Quiet, Aimed
<1> QED BY <1>1, <1>2, <1>3, StepCases

LEMMA AimedInvariant == Spec => []Aimed
<1>1. Init => Aimed
  BY DEF Init, Aimed, Addressed, AtDevice, Calling, Returns
<1>2. Types /\ Settled /\ Aimed /\ [Next]_vars => Aimed'
  BY NextAimed
<1> QED BY <1>1, <1>2, TypesInvariant, SettledInvariant, PTL DEF Spec

-----------------------------------------------------------------------------
(* What raises IRQ 1 before its handler is installed. *)

\* A device on the first port has been sent the number of the set, or its answer is
\* the next byte to read.
Astray == \/ Forwarding(0, 1) /\ origin = <<>> /\ ~dev[0].pending
          \/ origin # <<>> /\ origin[1] = 0

\* ps2_kbd_init gets past the acknowledgement of ENABLE_SCAN only on the second port,
\* and to the install only when no device on the first port answers.
Course == Exposed =>
    /\ kbd.unmasked /\ ~kbd.installed
    /\ port = 0 => Asks("set_codes")
    /\ port = 1 /\ hw.attached[0] \in Talking =>
         pc \notin {"check_set", "install"} /\ (pc = "get_codes" \/ Asks("check_set") => Astray)
    /\ port = 1 /\ hw.attached[0] \notin Talking => AllFrom(1)

Heard == Quiet =>
    /\ Course
    /\ kbd.installed => kbd.port = 1 /\ hw.attached[0] \notin Talking
    /\ fault => hw.attached[0] \in Talking

\* Other accesses than those of the keyboard driver keep out of its steps.
LEMMA AccessElsewhere ==
    ASSUME Types, Access
    PROVE  \/ ps2_send_device_command \/ KbdInit
           \/ pc \notin KbdSteps \cup Calling \cup {"kbd_init"} /\ ~Exposed' /\ UNCHANGED kbd
<1> USE DEF ps2_send_command, ps2_send_data, ps2_read_data, try_read_data, Exposed, KbdSteps, Calling
<1>1. CASE DisableAndFlush \/ Configure \/ SelfTest
  BY <1>1 DEF DisableAndFlush, Configure, SelfTest, local
<1>2. CASE Probe
  BY <1>2 DEF Probe, local
<1>3. CASE TestPorts \/ EnablePorts
  BY <1>3 DEF TestPorts, EnablePorts, AfterTests, local
<1>4. CASE EachPort \/ SendReset \/ ps2_init_device
  BY <1>4 DEF EachPort, SendReset, ps2_init_device, After, local
<1>5. CASE ResetResponse
  BY <1>5 DEF ResetResponse, Call, DeviceCommandEntry
<1>6. CASE SpecialCode
  BY <1>6 DEF SpecialCode, Call, DeviceCommandEntry
<1>7. CASE Identify
  <2>1. /\ pc \in {"identify", "id_1", "id_2"} /\ UNCHANGED kbd
        /\ \/ Call(CMD_IDENTIFY, port, "id_1")
           \/ Call(CMD_ENABLE_SCAN, port, "init_device")
           \/ pc' = "id_2"
    BY <1>7 DEF Identify
  <2>2. ASSUME NEW cmd, NEW to, Call(cmd, port, to)
        PROVE  call'.to = to /\ pc' \in Calling
    BY <2>2 DEF Call, DeviceCommandEntry
  <2> QED BY <2>1, <2>2
<1> QED BY <1>1, <1>2, <1>3, <1>4, <1>5, <1>6, <1>7 DEF Access

\* What the driver knows while it is exposed.
LEMMA Exposition ==
    ASSUME Types, Settled, Guided, Quiet, FirstOnly, Aimed, Exposed
    PROVE  /\ Keying /\ pc \in AtDevice /\ port \in Ports /\ kbd.port = port
           /\ Dialogue /\ target \in Ports /\ Bit(ccb, Interrupt(0)) = 1
           /\ ib = <<>> \/ Sent(CMD_WRITE_INPUT_PORT_1) \/ \E b \in Bytes : Data(b)
<1>1. Keying /\ pc \in AtDevice /\ port \in Ports
  BY ExposedKeying
<1>2. Conversation /\ Dialogue /\ Driving
  BY <1>1 DEF Settled, Guided, Conversation, Devoted
<1>3. pc \in Addressed
  BY DEF Exposed, KbdSteps, Calling, Addressed, AtDevice, Returns
<1>4. target \in Ports
  BY <1>3 DEF Aimed
<1>5. ~Storing
  BY <1>4 DEF Storing, Ports, Ram
<1> QED BY <1>1, <1>2, <1>4, <1>5 DEF FirstOnly, Driving, Final, Plain

\* ... and what it cannot find in the data register, or it would have been interrupted.
LEMMA Unraised ==
    ASSUME Types, Settled, Guided, Quiet, FirstOnly, Aimed, Heard, Exposed, ~Unprepared, obf
    PROVE  origin[1] # 0
BY Exposition DEF Heard, Course, Unprepared, IRQ1

\* An acknowledgement is read when it is there.
LEMMA ExposedRead ==
    ASSUME Types, Settled, Guided, FirstOnly, Aimed, Heard, Exposed, ~Unprepared, Quiet',
           NEW got \in BOOLEAN, try_read_data("device_ack", got)
    PROVE  obf /\ origin[1] # 0
<1>1. pc = "device_ack" /\ Quiet /\ (obf \/ Idle)
  BY QuietRead DEF try_read_data
<1>2. CASE ~obf
  <2>1. ib = <<>> /\ Buffered = <<>>
    BY <1>1, <1>2 DEF Idle, Buffered
  <2>2. Outcome(<<>>, dev, Latest(<<>>))
    BY <2>1, PlainOutcome
  <2>3. Keying /\ SettingCodes(<<>>, dev, Latest(<<>>))
    BY <1>1, <2>2, Exposition, Seen DEF Conduct
  <2>4. Kind \in Keyboards /\ Kind \in Talking /\ Kind # "none"
    BY <2>3, Kinds, Exposition, <1>1 DEF SettingCodes
  <2>5. \A a, b : <<a>> # <<>> /\ <<a, b>> # <<>>
    OBVIOUS
  <2>6. Asks("set_codes") \/ Asks("set_id") \/ Asks("check_set")
    BY <1>1, <2>3 DEF Keying
  <2> QED BY <1>1, <2>3, <2>4, <2>5, <2>6 DEF SettingCodes, Command
<1> QED BY <1>1, <1>2, Unraised

\* With nothing to come, no byte is left.
LEMMA NothingRead ==
    ASSUME Types, Origins, NEW d, NEW s, Outcome(<<>>, d, s)
    PROVE  origin = <<>>
<1>1. Buffered \in Seq(Bytes) /\ outq \in Seq(Bytes) /\ obuf \in Bytes /\ obf \in BOOLEAN
  BY BufferedTypes DEF Types, HwTypes
<1>2. \A u, v \in Seq(Bytes) : u \o v = <<>> => u = <<>>
  OBVIOUS
<1>3. Buffered = <<>>
  <2>1. CASE Buffered = <<>>
    BY <2>1
  <2>2. ASSUME NEW a \in Seq(Bytes), Buffered \o a = <<>> PROVE Buffered = <<>>
    BY <1>1, <1>2, <2>2
  <2>3. ASSUME NEW t \in Ports, NEW b \in Bytes, Reached(t, b, <<>>, d) PROVE Buffered = <<>>
    <3>1. Reply(t, b).answer \in Seq(Bytes) /\ <<RESP_RESEND>> \in Seq(Bytes)
      BY ReactionTypes, MachineTypes, Commands DEF Reply, Types, HwTypes
    <3> QED BY <2>2, <2>3, <3>1 DEF Reached
  <2> QED BY <2>1, <2>3 DEF Outcome
<1>4. \A u \in Seq(Bytes), b \in Bytes : <<b>> \o u # <<>>
  OBVIOUS
<1>5. ~obf /\ outq = <<>>
  BY <1>1, <1>3, <1>4 DEF Buffered
<1>6. Len(origin) = 0 /\ origin \in Seq(Ports)
  BY <1>5 DEF Origins
<1> QED BY <1>6

\* ps2_kbd_init takes a port: all there was to read has been read.
LEMMA HeardStart ==
    ASSUME Types, Origins, Settled, Guided, Heard, KbdInit, pc = "kbd_init", Quiet', ~fault, UNCHANGED fault
    PROVE  Heard'
<1> USE DEF AtDevice, Calling
<1>1. /\ kbd' = [kbd EXCEPT !.port = port, !.unmasked = TRUE] /\ Call(CMD_ENABLE_SCAN, port, "set_codes")
      /\ UNCHANGED <<hwVars, port>>
  BY DEF KbdInit, ps2_send_data, ps2_read_data, try_read_data
<1>2. Quiet /\ UNCHANGED <<hw, origin>>
  BY <1>1 DEF hwVars, Quiet
<1>3. Dialogue
  BY <1>2 DEF Guided
<1>4. PICK q, d, s : Outcome(q, d, s)
  BY SomeOutcome
<1>5. q = <<>> /\ kbd.port = NoPort
  BY <1>3, <1>4, Seen DEF Conduct, SettingCodes
<1>6. ~kbd.installed
  BY <1>2, <1>5 DEF Heard, NoPort
<1>7. origin = <<>>
  BY <1>4, <1>5, NothingRead
<1>8. kbd'.unmasked = TRUE /\ kbd'.installed = FALSE /\ kbd'.port = port
  BY <1>1, <1>6 DEF Types, LocalTypes
<1>9. pc' \in {"select_port", "device_command"} /\ call'.to = "set_codes"
  BY <1>1 DEF Call, DeviceCommandEntry
<1>10. Course'
  BY <1>2, <1>7, <1>8, <1>9 DEF Course, Asks, AllFrom
<1> QED BY <1>8, <1>10 DEF Heard

\* A command on its way to the keyboard.
LEMMA HeardCommand ==
    ASSUME Types, Types', Origins, Settled, Guided, FirstOnly, Aimed, Heard,
           ps2_send_device_command, ~Unprepared, Quiet', ~fault, UNCHANGED fault
    PROVE  Heard'
<1> USE DEF ps2_send_command, ps2_send_data, try_read_data
<1>1. Quiet /\ Access
  BY AccessNoise DEF Access
<1>2. UNCHANGED <<hw, kbd, port, call, dev>> /\ pc \in Calling /\ call.to \in Returns
  BY DEF ps2_send_device_command, local, WriteBuffer, ReadBuffer, Calling, Types, Ready
<1>3. pc' \in Calling \cup {call.to}
  BY DEF ps2_send_device_command, DeviceCommandEntry, Calling
<1>4. Exposed' => Exposed
  <2>1. call'.to = call.to /\ (pc' \in KbdSteps => pc' \in Calling \/ pc' = call.to)
    BY <1>2, <1>3
  <2>2. Calling \cap KbdSteps = {}
    BY DEF Calling, KbdSteps
  <2> QED BY <1>2, <2>1, <2>2 DEF Exposed
<1>5. SUFFICES ASSUME Exposed PROVE Course'
  BY <1>1, <1>2, <1>4 DEF Heard, Course
<1>6. Course /\ port \in Ports /\ kbd.port = port
  BY <1>1, <1>5, Exposition DEF Heard
<1>7. CASE \E reg, b : WriteBuffer(reg, b) /\ pc' \in Calling
  <2>1. ib = <<>> /\ UNCHANGED origin
    BY <1>7, QuietWrite DEF WriteBuffer
  <2>2. Astray => Astray'
    BY <2>1 DEF Astray, Forwarding, Data
  <2>3. AllFrom(1) => AllFrom(1)'
    BY <2>1 DEF AllFrom
  <2>4. \A to : Asks(to)' <=> Asks(to)
    BY <1>2, <1>7 DEF Asks
  <2>5. pc' \notin {"get_codes", "check_set", "install"}
    BY <1>7 DEF Calling
  <2> QED BY <1>2, <1>5, <1>6, <2>2, <2>3, <2>4, <2>5 DEF Course
<1>8. ASSUME NEW got \in BOOLEAN, pc = "device_ack", ReadBuffer(got) PROVE Course'
  <2>1. obf /\ origin[1] # 0
    BY <1>5, <1>8, ExposedRead
  <2>2. 1 \in DOMAIN origin /\ origin # <<>>
    BY <2>1 DEF Origins, Types, HwTypes
  <2>3. port = 1
    <3>1. port # 1 => AllFrom(0)
      BY <1>1 DEF FirstOnly, FirstHw, Quiet, Types, HwTypes
    <3> QED BY <1>6, <2>1, <2>2, <3>1 DEF AllFrom, Ports
  <2>4. CASE hw.attached[0] \in Talking
    <3>1. ~Astray
      BY <2>1, <2>2 DEF Astray
    <3>2. call.to # "check_set"
      BY <1>2, <1>5, <1>6, <2>3, <2>4, <3>1 DEF Course, Asks
    <3>3. pc' \notin {"get_codes", "check_set", "install"} /\ ~Asks("check_set")'
      BY <1>2, <1>3, <3>2 DEF Calling, Returns, Asks
    <3> QED BY <1>2, <1>5, <1>6, <2>3, <2>4, <3>3 DEF Course
  <2>5. CASE hw.attached[0] \notin Talking
    <3>1. AllFrom(1)'
      BY <1>5, <1>6, <1>8, <2>3, <2>5, RemoveAllFrom DEF Course, Ports
    <3> QED BY <1>2, <1>5, <1>6, <2>3, <2>5, <3>1 DEF Course
  <2> QED BY <2>4, <2>5
<1> QED BY <1>7, <1>8 DEF ps2_send_device_command, Calling

\* The keyboard driver at work.
LEMMA HeardKbd ==
    ASSUME Types, Types', Origins, Settled, Guided, FirstOnly, Aimed, Heard,
           KbdInit, pc # "kbd_init", ~Unprepared, Quiet', ~fault, UNCHANGED fault
    PROVE  Heard'
<1> USE DEF ps2_send_data, ps2_read_data, try_read_data
<1>1. Quiet /\ Access
  BY AccessNoise DEF Access
<1>2. pc \in KbdSteps /\ UNCHANGED <<hw, port>>
  BY DEF KbdInit, KbdSteps, hwVars, local, WriteBuffer, ReadBuffer
<1>3. Exposed /\ pc \notin Calling
  BY <1>2 DEF Exposed, KbdSteps, Calling
<1>4. Course /\ pc \in AtDevice /\ port \in Ports /\ kbd.port = port /\ Dialogue
  BY <1>1, <1>3, Exposition DEF Heard
<1>5. port = 1
  BY <1>3, <1>4 DEF Course, Asks, Ports
<1>6. CASE pc \in {"set_codes", "get_codes"}
  <2>1. UNCHANGED <<hwVars, kbd>>
    BY <1>6 DEF KbdInit
  <2>2. /\ pc' \in {"select_port", "device_command"}
        /\ call'.to = IF pc = "set_codes" THEN "set_id" ELSE "check_set"
    BY <1>6 DEF KbdInit, Call, DeviceCommandEntry
  <2>3. Asks("check_set")' => pc = "get_codes"
    BY <1>6, <2>2 DEF Asks
  <2>4. (Astray => Astray') /\ (AllFrom(1) => AllFrom(1)')
    BY <2>1 DEF hwVars, Astray, Forwarding, Data, AllFrom
  <2>5. Course'
    BY <1>2, <1>3, <1>4, <1>5, <2>1, <2>2, <2>3, <2>4 DEF Course
  <2> QED BY <1>1, <1>2, <1>5, <2>1, <2>5 DEF Heard
<1>7. CASE pc = "set_id"
  <2>1. ps2_send_data("set_id", 1, "get_codes") /\ UNCHANGED local
    BY <1>7 DEF KbdInit
  <2>2. WriteBuffer("data", 1) /\ pc' = "get_codes" /\ UNCHANGED <<kbd, call>>
    BY <2>1 DEF local
  <2>3. /\ ib = <<>> /\ ib' = << <<"data", 1>> >>
        /\ UNCHANGED <<origin, target, dev>>
    BY <2>2, QuietWrite DEF WriteBuffer
  <2>4. AllFrom(1) => AllFrom(1)'
    BY <2>3 DEF AllFrom
  <2>5. Astray'
    <3>1. target = 0
      BY <1>4, <1>7, <2>3 DEF Dialogue, Aiming, Aim, Devoted
    <3>2. Outcome(Buffered, dev, Latest(Buffered))
      BY <2>3, PlainOutcome
    <3>3. Driven(dev) /\ SettingCodes(Buffered, dev, Latest(Buffered))
      BY <1>4, <3>2, Seen DEF Conduct
    <3>4. origin = <<>>
      BY <1>7, <3>2, <3>3, NothingRead DEF SettingCodes
    <3>5. ~dev[0].pending
      BY <1>4, <1>5, <3>3 DEF Driven, Ports
    <3> QED BY <2>3, <3>1, <3>4, <3>5 DEF Astray, Forwarding, Data, Ports
  <2>6. Course'
    BY <1>2, <1>3, <1>4, <1>5, <2>2, <2>4, <2>5 DEF Course
  <2> QED BY <1>1, <1>2, <1>5, <2>2, <2>6 DEF Heard
<1>8. CASE pc = "check_set"
  <2>1. /\ \E got \in BOOLEAN : ReadBuffer(got)
        /\ pc' \in {"install", "set_codes"} /\ UNCHANGED <<kbd, call>>
    BY <1>8 DEF KbdInit, local
  <2>2. hw.attached[0] \notin Talking /\ AllFrom(1)
    BY <1>3, <1>4, <1>5, <1>8 DEF Course
  <2>3. AllFrom(1)'
    BY <2>1, <2>2, RemoveAllFrom DEF Ports
  <2>4. Course'
    BY <1>2, <1>3, <1>4, <1>5, <2>1, <2>2, <2>3 DEF Course
  <2> QED BY <1>1, <1>2, <1>5, <2>1, <2>4 DEF Heard
<1>9. CASE pc = "install"
  <2>1. kbd' = [kbd EXCEPT !.installed = TRUE] /\ pc' = After(port)
    BY <1>9 DEF KbdInit
  <2>2. kbd'.port = 1 /\ pc' = "done" /\ hw'.attached[0] \notin Talking
    BY <1>2, <1>3, <1>4, <1>5, <1>9, <2>1 DEF Course, After, Types, LocalTypes
  <2>3. ~Exposed'
    BY <2>2 DEF Exposed, KbdSteps, Calling
  <2> QED BY <2>2, <2>3 DEF Heard, Course
<1> QED BY <1>2, <1>6, <1>7, <1>8, <1>9 DEF KbdSteps

LEMMA AccessHeard ==
    ASSUME Types, Types', Origins, Settled, Guided, FirstOnly, Aimed, Heard,
           Access, ~Unprepared, Quiet', ~fault, UNCHANGED fault
    PROVE  Heard'
<1>1. CASE ps2_send_device_command
  BY <1>1, HeardCommand
<1>2. CASE KbdInit
  BY <1>2, HeardStart, HeardKbd
<1>3. CASE ~Exposed' /\ UNCHANGED kbd
  <2>1. Quiet /\ UNCHANGED hw
    BY AccessNoise, Accesses DEF WriteBuffer, ReadBuffer, FlushBuffer, hwVars
  <2> QED BY <1>3, <2>1 DEF Heard, Course
<1> QED BY <1>1, <1>2, <1>3, AccessElsewhere

\* A device on the first port answers the number of the set, whatever it is.
LEMMA TakeAstray ==
    ASSUME Types, Types', Origins, Origins', hw.attached[0] \in Talking, Astray, Take
    PROVE  Astray'
<1>1. CASE Forwarding(0, 1) /\ origin = <<>> /\ ~dev[0].pending
  <2>1. /\ hw.attached[0] \in Devices /\ dev[0] \in DeviceState /\ 1 \in Bytes /\ 0 \in Ports
        /\ outq \in Seq(Bytes) /\ outq' \in Seq(Bytes)
    BY MachineTypes DEF Types, HwTypes, Ports, Bytes
  <2>2. NotUnderstood(hw.attached[0], dev[0], 1)
    BY <1>1 DEF NotUnderstood, CMD_RESET_DEVICE, CMD_IDENTIFY, CMD_ENABLE_SCAN, CMD_DISABLE_SCAN, CMD_SET_SCAN_CODE
  <2>3. Reaction(hw.attached[0], dev[0], 1).answer = <<RESP_RESEND>>
    <3>1. Reacts(hw.attached[0], dev[0], 1, <<RESP_RESEND>>, Answered(dev[0]))
      BY <2>1, <2>2, ReactionCases
    <3> QED BY <3>1 DEF Reacts
  <2>4. Forward(1) \/ Garble
    BY <1>1, TakeData DEF Forwarding, StoreConfig, Ports, Ram
  <2>5. outq' = outq \o <<RESP_RESEND>> \/ outq' = Append(outq, RESP_RESEND)
    BY <1>1, <2>3, <2>4 DEF Forwarding, Forward, Garble
  <2>6. \A u \in Seq(Bytes), b \in Bytes : Len(u) \in Nat /\ Len(u \o <<b>>) = Len(u) + 1 /\ Len(Append(u, b)) = Len(u) + 1
    OBVIOUS
  <2>7. Len(outq') > 0
    BY <2>1, <2>5, <2>6, Commands
  <2>8. AllFrom(0) /\ Sender = 0
    BY <1>1 DEF AllFrom, Forwarding, Sender
  <2>9. AllFrom(0)'
    BY <2>1, <2>8, TakeAllFrom
  <2>10. Len(origin') > 0 /\ origin' \in Seq(Ports)
    BY <2>1, <2>7 DEF Origins
  <2> QED BY <2>9, <2>10 DEF Astray, AllFrom
<1>2. CASE origin # <<>> /\ origin[1] = 0
  <2>1. PICK a \in Seq(Bytes) : outq' = outq \o a /\ origin' = origin \o [i \in 1 .. Len(a) |-> Sender]
    BY TakeOrigin
  <2> DEFINE who == [i \in 1 .. Len(a) |-> Sender]
  <2>2. who \in Seq(Ports) /\ origin \in Seq(Ports) /\ Len(who) \in Nat /\ Len(origin) \in Nat /\ Len(origin) > 0
    BY <1>2 DEF Sender, Ports, Origins
  <2>3. origin' = origin \o who
    BY <2>1
  <2> HIDE DEF who
  <2>4. (origin \o who)[1] = origin[1] /\ 1 \in DOMAIN (origin \o who)
    BY <2>2, JoinedElements
  <2> QED BY <1>2, <2>3, <2>4 DEF Astray
<1> QED BY <1>1, <1>2 DEF Astray

\* The keyboard driver waits for acknowledgements only.
LEMMA AcksOnly ==
    ASSUME NEW q, NEW d, NEW s, Keying, SettingCodes(q, d, s)
    PROVE  q = <<>> \/ (\E a \in Acks : q = <<a>>) \/ (\E a, b \in Acks : q = <<a, b>>)
<1>1. RESP_ACK \in Acks /\ RESP_RESEND \in Acks
  BY DEF Acks
<1>2. Command(q, s, <<RESP_ACK>>) => q = <<>> \/ \E a \in Acks : q = <<a>>
  BY <1>1 DEF Command
<1>3. Overdue(q) => q = <<>> \/ \E a \in Acks : q = <<a>>
  BY DEF Overdue
<1> QED BY <1>2, <1>3 DEF Keying, SettingCodes

\* Devices that do not answer leave nothing from the first port.
LEMMA TakeSilent ==
    ASSUME Types, Types', Origins, Settled, Guided, Quiet, FirstOnly, Aimed, Exposed,
           hw.attached[0] \notin Talking, AllFrom(1), Take
    PROVE  AllFrom(1)'
<1>1. SUFFICES Sender = 1 \/ outq' = outq
  BY TakeAllFrom DEF Ports
<1>2. Keying /\ pc \in AtDevice /\ target \in Ports /\ Dialogue
      /\ (Sent(CMD_WRITE_INPUT_PORT_1) \/ \E b \in Bytes : Data(b))
  BY Exposition DEF Take
<1>3. CASE Sent(CMD_WRITE_INPUT_PORT_1)
  BY <1>3, TakeCommand, Executed DEF Types, HwTypes, Mute
<1>4. ASSUME NEW b \in Bytes, Data(b), Sender # 1 PROVE outq' = outq
  <2>1. target = 0
    BY <1>2, <1>4 DEF Sender, Data, Ports
  <2>2. /\ hw.attached[0] \in Devices /\ dev[0] \in DeviceState /\ 0 \in Ports /\ outq \in Seq(Bytes)
        /\ Buffered \in Seq(Bytes)
    BY MachineTypes, BufferedTypes DEF Types, HwTypes, Ports
  <2>3. hw.attached[0] \in {"none", "broken"}
    BY <2>2 DEF Devices, Talking
  <2>4. Forward(b)
    BY <1>4, <2>1, TakeData DEF StoreConfig, Garble, Talking, Ram
  <2>5. outq' = outq \o Reaction(hw.attached[0], dev[0], b).answer
    BY <2>1, <2>4 DEF Forward
  <2>6. \A u \in Seq(Bytes) : u \o <<>> = u
    OBVIOUS
  <2>7. CASE hw.attached[0] = "none" \/ b # CMD_RESET_DEVICE
    <3>1. Reacts(hw.attached[0], dev[0], b, <<>>, dev[0])
      BY <2>2, <2>3, <2>7, ReactionCases
    <3>2. Reaction(hw.attached[0], dev[0], b).answer = <<>>
      BY <3>1 DEF Reacts
    <3> QED BY <2>2, <2>5, <2>6, <3>2
  <2>8. CASE hw.attached[0] = "broken" /\ b = CMD_RESET_DEVICE
    <3>1. Reply(0, b).answer = <<RESP_RESET_FAIL>>
      <4>1. Reacts(hw.attached[0], dev[0], b, ResetAnswer(hw.attached[0]), PowerOnDevice)
        BY <2>2, <2>8, ReactionCases
      <4>2. ResetAnswer(hw.attached[0]) = <<RESP_RESET_FAIL>>
        BY <2>8, ResetAnswers
      <4> QED BY <4>1, <4>2 DEF Reply, Reacts
    <3> DEFINE q == Buffered \o <<RESP_RESET_FAIL>>
               d == [dev EXCEPT ![0] = Reply(0, b).new]
    <3>2. Outcome(q, d, Latest(q))
      BY <1>4, <2>1, <2>2, <3>1 DEF Outcome, Reached, Forwarding
    <3>3. SettingCodes(q, d, Latest(q))
      BY <1>2, <3>2, Seen DEF Conduct
    <3>4. q = <<>> \/ (\E a \in Acks : q = <<a>>) \/ (\E a, c \in Acks : q = <<a, c>>)
      BY <1>2, <3>3, AcksOnly
    <3>5. \A u \in Seq(Bytes), c \in Bytes : /\ u \o <<c>> # <<>> /\ Len(u \o <<c>>) = Len(u) + 1
                                             /\ (u \o <<c>>)[Len(u) + 1] = c
      OBVIOUS
    <3>6. q # <<>> /\ q[Len(q)] = RESP_RESET_FAIL
      BY <2>2, <3>5, Commands
    <3> HIDE DEF q
    <3>7. \A a, c : /\ Len(<<a>>) = 1 /\ <<a>>[1] = a
                    /\ Len(<<a, c>>) = 2 /\ <<a, c>>[2] = c
      OBVIOUS
    <3>8. RESP_RESET_FAIL \in Acks
      BY <3>4, <3>6, <3>7
    <3> QED BY <3>8, ByteValues DEF Acks
  <2> QED BY <2>3, <2>7, <2>8
<1> QED BY <1>2, <1>3, <1>4

LEMMA HardwareHeard ==
    ASSUME Types, Types', Origins, Origins', Settled, Guided, FirstOnly, Aimed, Heard, Hardware, Quiet'
    PROVE  Heard'
<1>1. UNCHANGED <<pc, call, port, kbd, fault>>
  BY DEF Hardware, local
<1>2. Take \/ Deliver
  <2>1. ASSUME NEW p \in Ports, Key(p) PROVE FALSE
    <3>1. keys \in Nat /\ late \in Nat
      BY MachineAssumption DEF Types, HwTypes
    <3> QED BY <2>1, <3>1 DEF Key, Quiet
  <2> QED BY <2>1 DEF Hardware, Controller
<1>3. Quiet /\ UNCHANGED hw
  BY <1>2 DEF Take, Deliver, Quiet
<1>4. ASSUME Exposed, hw.attached[0] \in Talking, Astray PROVE Astray'
  <2>1. CASE Deliver
    BY <1>4, <2>1 DEF Deliver, Astray, Forwarding, Data
  <2> QED BY <1>2, <1>4, <2>1, TakeAstray
<1>5. ASSUME Exposed, hw.attached[0] \notin Talking, AllFrom(1) PROVE AllFrom(1)'
  <2>1. CASE Deliver
    BY <1>5, <2>1 DEF Deliver, AllFrom
  <2> QED BY <1>2, <1>3, <1>5, <2>1, TakeSilent
<1>6. (Exposed' <=> Exposed) /\ \A to : Asks(to)' <=> Asks(to)
  BY <1>1 DEF Exposed, Asks
<1>7. Course'
  BY <1>1, <1>3, <1>4, <1>5, <1>6 DEF Heard, Course
<1> QED BY <1>1, <1>3, <1>7 DEF Heard

\* An interrupt strikes: the byte in the data register is from the first port.
LEMMA InterruptedHeard ==
    ASSUME Types, Origins, Risk, Settled, Guided, FirstOnly, Aimed, Heard, AtRest, Interrupted, Quiet'
    PROVE  Heard'
<1>1. Quiet /\ UNCHANGED <<pc, call, port, kbd, hw, ib, target, origin, dev>>
  BY DEF AtRest, hwVars, local, Quiet
<1>2. Exposed /\ obf /\ origin[1] = 0
  BY DEF Interrupted, Unprepared, IRQ1, Risk
<1>3. 1 \in DOMAIN origin
  BY <1>2 DEF Origins, Types, HwTypes
<1>4. Keying /\ pc \in AtDevice /\ port \in Ports /\ Dialogue
  BY <1>1, <1>2, Exposition
<1>5. hw.attached[0] \in Talking
  <2>1. CASE port = 0
    <3>1. PICK q, d, s : Outcome(q, d, s)
      BY SomeOutcome
    <3>2. Kind \in Keyboards
      BY <1>4, <3>1, Seen DEF Conduct, SettingCodes
    <3> QED BY <2>1, <3>2 DEF Kind, Keyboards, Talking
  <2>2. CASE port = 1
    BY <1>1, <1>2, <1>3, <2>2 DEF Heard, Course, AllFrom
  <2> QED BY <1>4, <2>1, <2>2 DEF Ports
<1>6. Course'
  BY <1>1 DEF Heard, Course, Exposed, Asks, Astray, Forwarding, Data, AllFrom
<1> QED BY <1>1, <1>5, <1>6 DEF Heard

LEMMA NextHeard ==
    ASSUME Types, Types', Origins, Origins', Risk, Settled, Guided, FirstOnly, Aimed, Heard, [Next]_vars
    PROVE  Heard'
<1> SUFFICES ASSUME Quiet' PROVE Heard'
  BY DEF Heard
<1>1. CASE Access /\ ~fault /\ ~Unprepared /\ UNCHANGED fault
  BY <1>1, AccessHeard
<1>2. CASE Hardware
  BY <1>2, HardwareHeard
<1>3. CASE AtRest /\ UNCHANGED fault
  BY <1>3 DEF AtRest, hwVars, local, Quiet, Heard, Course, Exposed, Asks, Astray, Forwarding, Data, AllFrom
<1>4. CASE AtRest /\ Interrupted
  BY <1>4, InterruptedHeard
<1> QED BY <1>1, <1>2, <1>3, <1>4, StepCases

LEMMA HeardInvariant == Spec => []Heard
<1>1. ASSUME Init PROVE Heard
  <2>1. pc = "disable_0" /\ kbd = [port |-> NoPort, unmasked |-> FALSE, installed |-> FALSE] /\ fault = FALSE
    BY <1>1 DEF Init
  <2>2. kbd.installed = FALSE /\ ~Exposed
    BY <2>1 DEF Exposed, KbdSteps, Calling
  <2> QED BY <2>1, <2>2 DEF Heard, Course
<1>2. /\ Types /\ Types' /\ Origins /\ Origins' /\ Risk /\ Settled /\ Guided /\ FirstOnly /\ Aimed
      /\ Heard /\ [Next]_vars
      => Heard'
  BY NextHeard
<1> QED BY <1>1, <1>2, TypesInvariant, OriginsInvariant, RiskInvariant, SettledInvariant, GuidedInvariant,
           FirstInvariant, AimedInvariant, PTL DEF Spec

\* Where ps2_init returns on a machine with a keyboard on a healthy port, that keyboard
\* is on the second port, nothing on the first one answers, and the handler is
\* installed: on every other machine an interrupt has come before the handler.
THEOREM KeyboardAlwaysDriven == Spec => []KeyboardDriven
<1>1. ASSUME Types, Settled, Guided, Heard, Undisturbed, NEW p \in Ports, HealthyPort(p),
             hw.attached[p] \in Keyboards
      PROVE  p = 1 /\ hw.attached[0] \in {"none", "broken"} /\ kbd.port = 1 /\ kbd.installed
  <2>1. kbd.installed /\ kbd.port <= p
    BY <1>1, Undisturbance DEF Tested, Dealt
  <2>2. kbd.port = 1 /\ hw.attached[0] \notin Talking
    BY <1>1, <2>1 DEF Heard, Undisturbed, Quiet
  <2>3. p = 1
    BY <2>1, <2>2 DEF Ports
  <2>4. hw.attached[0] \in Devices
    BY <1>1, MachineTypes DEF Types, HwTypes, Ports
  <2> QED BY <2>1, <2>2, <2>3, <2>4 DEF Devices, Talking
<1>2. Types /\ Settled /\ Guided /\ Heard => KeyboardDriven
  BY <1>1 DEF KeyboardDriven
<1> QED BY <1>2, TypesInvariant, SettledInvariant, GuidedInvariant, HeardInvariant, PTL

\* The interrupt without a handler, undisturbed, is always of a device on the first
\* port that answers, and only where there is a keyboard to drive: neither the bytes of
\* the second port nor those of the controller raise it.
THEOREM FaultAlwaysFromFirstPort == Spec => []FaultFromFirstPort
<1>1. ASSUME Types, Risk, Heard, KeyboardDriverHasKeyboard, fault, keys + late = 0
      PROVE  /\ hw.attached[0] \in {"kbd", "kbd_id", "mouse"}
             /\ \E p \in Ports : HealthyPort(p) /\ hw.attached[p] \in Keyboards
  <2>1. hw.attached[0] \in Talking
    BY <1>1 DEF Heard, Quiet
  <2>2. kbd.port \in Ports /\ kbd.port # NoPort
    BY <1>1 DEF Risk, Ports, NoPort
  <2> QED BY <1>1, <2>1, <2>2 DEF Talking, KeyboardDriverHasKeyboard
<1>2. Types /\ Risk /\ Heard /\ KeyboardDriverHasKeyboard => FaultFromFirstPort
  BY <1>1 DEF FaultFromFirstPort
<1> QED BY <1>2, TypesInvariant, RiskInvariant, HeardInvariant, DriverAlwaysHasKeyboard, PTL
=============================================================================

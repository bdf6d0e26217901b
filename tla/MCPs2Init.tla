----------------------------- MODULE MCPs2Init ------------------------------
(* Machines with every pair of devices, with one channel or two, with       *)
(* faulty ports and a faulty controller.  The firmware leaves the usual     *)
(* configuration \h65: translation on, second port off.                     *)
EXTENDS Ps2Init

Healthy(dual, resets, d0, d1) ==
    [dual |-> dual, self_test |-> \h55, resets |-> resets, ccb |-> \h65,
     test |-> [p \in Ports |-> 0], attached |-> [p \in Ports |-> IF p = 0 THEN d0 ELSE d1]]

AllHealthy ==
    {Healthy(TRUE, r, d0, d1) : r \in BOOLEAN, d0 \in Devices, d1 \in Devices}
      \cup {Healthy(FALSE, r, d0, "none") : r \in BOOLEAN, d0 \in Devices}

Faulty ==
    {[m EXCEPT !.test = t] : m \in AllHealthy, t \in [Ports -> {0, 2}]}
      \cup {[m EXCEPT !.self_test = \hfc] : m \in AllHealthy}

AllMachines == AllHealthy \cup Faulty

\* For the disturbed runs: fewer, but every device, on its own and beside every
\* kind of device.
Noisy ==
    {m \in AllHealthy : ~m.resets /\ m.attached[0] # "kbd_id"
                                 /\ m.attached[1] \in {"none", "kbd_id", "mouse"}}
=============================================================================

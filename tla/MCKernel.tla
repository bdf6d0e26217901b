------------------------------ MODULE MCKernel ------------------------------
(* One slot in the EBDA and one in the BIOS area, up to two tables.  The words *)
(* after an XSDT are zero, or the first points to one of two FADTs.            *)
EXTENDS Kernel

Slot == {"none", "unsound", "v1", "v2"}

MCMachines ==
    {m \in [ebda : [1 .. 1 -> Slot], bios : [1 .. 1 -> Slot], sound : BOOLEAN,
            entries : UNION {[1 .. n -> Tables] : n \in 0 .. 2},
            beyond : {<< >>} \cup {<<t>> : t \in {"zero", "facp"}}
                             \cup {<<t, "zero">> : t \in {"zero", "facp1"}},
            stray : BOOLEAN, ps2 : BOOLEAN] :
        Len(m.beyond) = Len(m.entries)}
=============================================================================

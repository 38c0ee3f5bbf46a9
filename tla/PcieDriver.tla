------------------------------ MODULE PcieDriver ------------------------------
(***************************************************************************)
(* The kernel driver (hardware/fpga/driver/smgp_pcie_driver.c) and one     *)
(* process that uses the library on top of it (smgp_hw_lib.c).  probe      *)
(* takes what it needs in the order of Order, one call per step, and any   *)
(* call may fail; what it has is given back from the label the failure     *)
(* jumps to.  The line is shared: its handler may run at any time from     *)
(* request_irq to free_irq.                                                *)
(***************************************************************************)
EXTENDS Naturals, Sequences

VARIABLES
    class,       \* the module is loaded: class and driver are registered
    phase,       \* what the driver does with the device
    step,        \* the next call of probe, or of the release
    held,        \* what the driver holds of the device
    received,    \* irq_received
    user         \* what the process holds: its context, the file, the mapping

driverVars == <<class, phase, step, held, received, user>>

Order == <<"dev", "enabled", "regions", "bar0", "bar2", "vectors", "handler",
           "chrdev", "cdev", "device">>

Resource == {Order[i] : i \in DOMAIN Order}

DriverInit ==
    /\ class = FALSE
    /\ phase = "unbound"
    /\ step = 1
    /\ held = {}
    /\ received = FALSE
    /\ user = {}

(* smgp_init: the class is destroyed when the registration fails.          *)
ModuleInit ==
    /\ ~class
    /\ class' \in BOOLEAN
    /\ UNCHANGED <<phase, step, held, received, user>>

ModuleExit ==
    /\ class /\ phase = "unbound" /\ "file" \notin user
    /\ class' = FALSE
    /\ UNCHANGED <<phase, step, held, received, user>>

ProbeBegins ==
    /\ class /\ phase = "unbound"
    /\ phase' = "probing"
    /\ step' = 1
    /\ UNCHANGED <<class, held, received, user>>

(* kzalloc also clears irq_received.                                       *)
ProbeTakes ==
    /\ phase = "probing"
    /\ held' = held \cup {Order[step]}
    /\ received' = IF step = 1 THEN FALSE ELSE received
    /\ phase' = IF step = Len(Order) THEN "bound" ELSE "probing"
    /\ step' = IF step = Len(Order) THEN step ELSE step + 1
    /\ UNCHANGED <<class, user>>

(* Mutant: the label after the one that is meant.                          *)
FirstReleasedNext(failed) == IF failed > 2 THEN failed - 2 ELSE 0

FirstReleased(failed) == failed - 1

ProbeFails ==
    /\ phase = "probing"
    /\ step' = FirstReleased(step)
    /\ phase' = "releasing"
    /\ UNCHANGED <<class, held, received, user>>

RemoveBegins ==
    /\ phase = "bound"
    /\ phase' = "releasing"
    /\ UNCHANGED <<class, step, held, received, user>>

(* The labels of probe, and the calls of remove, from the last one taken.  *)
Release ==
    /\ phase = "releasing" /\ step > 0
    /\ held' = held \ {Order[step]}
    /\ step' = step - 1
    /\ UNCHANGED <<class, phase, received, user>>

ReleaseEnds ==
    /\ phase = "releasing" /\ step = 0
    /\ phase' = "unbound"
    /\ step' = 1
    /\ UNCHANGED <<class, held, received, user>>

(* The handler reads the status through bar0; done is bit 1 of it.         *)
Interrupt(done) ==
    /\ "handler" \in held
    /\ received' = (received \/ done)
    /\ UNCHANGED <<class, phase, step, held, user>>

-----------------------------------------------------------------------------
(* smgp_hw_open: a failure gives back what was taken before.  The mapping  *)
(* is of bar2.                                                             *)
LibOpen ==
    /\ user = {}
    /\ user' \in {{}} \cup IF "cdev" \in held THEN {{"ctx", "file", "map"}} ELSE {}
    /\ UNCHANGED <<class, phase, step, held, received>>

LibClose ==
    /\ user # {}
    /\ user' = {}
    /\ UNCHANGED <<class, phase, step, held, received>>

DriverNext ==
    \/ ModuleInit \/ ModuleExit
    \/ ProbeBegins \/ ProbeTakes \/ ProbeFails
    \/ RemoveBegins \/ Release \/ ReleaseEnds
    \/ \E done \in BOOLEAN : Interrupt(done)
    \/ LibOpen \/ LibClose

DriverSpec == DriverInit /\ [][DriverNext]_driverVars

-----------------------------------------------------------------------------
(* Wherever a probe fails and whenever an interrupt comes: the handler can *)
(* run only while its device structure, the registers it reads and what    *)
(* they rest on are there, the file only while the handler is; and when a  *)
(* device is unbound again nothing of it is held, so that the next probe   *)
(* starts from nothing.                                                    *)
HandlerSeesDevice ==
    /\ "handler" \in held => {"dev", "enabled", "regions", "bar0", "vectors"} \subseteq held
    /\ "cdev" \in held => {"handler", "bar2", "chrdev"} \subseteq held
    /\ phase = "unbound" => held = {}
=============================================================================

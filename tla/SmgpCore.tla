------------------------------ MODULE SmgpCore ------------------------------
(***************************************************************************)
(* The accelerator's control (hardware/rtl): the instruction register of   *)
(* smgp_system, dispatch, arbiter and status of smgp_core, and the state   *)
(* machines of its four engines.  One Tick is one edge of clk_sys: every   *)
(* block computes its registers from the old values of all.  The host may  *)
(* write the instruction register in any cycle; it cannot see host_ready.  *)
(* Data paths are left out, and so are the counters that steer nothing.    *)
(***************************************************************************)
EXTENDS Naturals

CONSTANTS
    Instruction,  \* the instruction words the host uses
    MaxNnz,       \* spectral: matrix entries in a load
    NodeCount,    \* spectral: node_count, a register nothing ever writes
    ArrayRows,    \* spectral: rows computed in a cycle
    HdBanks,      \* HD: words of a vector
    Batch         \* topology: edges in a load

(* arb_grant counts the engines in this order.                             *)
SPECTRAL == 0
HD == 1
TOPOLOGY == 2
REWRITE == 3
Engine == 0..3
NoEngine == 4     \* the target of NOP, SYSTEM and all other opcodes

Word == [engine : Engine \cup {NoEngine}, sub : 0..15, irq : BOOLEAN]

Nop == [engine |-> NoEngine, sub |-> 0, irq |-> FALSE]

ASSUME InstructionAssumption == Instruction \subseteq Word

ASSUME SizeAssumption ==
    /\ MaxNnz \in Nat /\ NodeCount \in Nat /\ ArrayRows \in Nat
    /\ HdBanks \in Nat \ {0} /\ Batch \in Nat \ {0}

VARIABLES
    instrReg,     \* config_regs[2], which the core and the engines see live
    instrValid,   \* instruction_valid
    started,      \* the engine whose start register is 1, or NoEngine
    hostReady,    \* host_ready
    grant,        \* arb_grant
    irq,
    spectral, hd, topology, rewrite,  \* state, status, done, a counter
    stray         \* history: the last reset found the HD engine at work

core == <<instrReg, instrValid, started, hostReady, grant, irq>>
vars == <<core, spectral, hd, topology, rewrite, stray>>

Unit(e) ==
    IF e = SPECTRAL THEN spectral ELSE IF e = HD THEN hd
    ELSE IF e = TOPOLOGY THEN topology ELSE rewrite

State(e) == Unit(e).state
Status(e) == Unit(e).status
Done(e) == Unit(e).done

AnyDone == \E e \in Engine : Done(e)

(* engine_busy: an engine counts as idle in the cycle of its done only.    *)
Busy(e) == started = e \/ ~Done(e)

CoreStatus == IF Busy(grant) THEN Status(grant) ELSE "IDLE"

HdState == {"IDLE", "BUNDLE", "BIND", "PERMUTE", "SIMILARITY", "ASSOC_READ",
            "ASSOC_WRITE", "GENERATE", "DONE", "UNUSED"}

Idle == [state |-> "IDLE", status |-> "IDLE", done |-> FALSE]
IdleCounting == [state |-> "IDLE", status |-> "IDLE", done |-> FALSE, count |-> 0]

(* The HD engine's state register has no reset: it powers up with any      *)
(* value, "UNUSED" standing for the seven codes without a branch.          *)
Init ==
    /\ instrReg = Nop /\ instrValid = FALSE
    /\ started = NoEngine /\ hostReady = TRUE /\ grant = SPECTRAL /\ irq = FALSE
    /\ spectral = IdleCounting /\ topology = IdleCounting /\ rewrite = Idle
    /\ \E s \in HdState : hd = [IdleCounting EXCEPT !.state = s]
    /\ stray = (hd.state # "IDLE")
-----------------------------------------------------------------------------
(* smgp_system: a write to the instruction register raises valid for one   *)
(* cycle, whether the core is ready for it or not.                         *)
HostWrites(w) == instrReg' = w /\ instrValid' = TRUE

HostSilent == instrReg' = instrReg /\ instrValid' = FALSE

(* smgp_core: start logic.  Opcodes without an engine are accepted and     *)
(* forgotten.                                                              *)
Accepted == instrValid /\ hostReady

(* Mutant: the core stays ready.                                           *)
DispatchStayingReady ==
    /\ started' = IF /\ Accepted
                     /\ ~(instrReg.engine # NoEngine /\ Done(instrReg.engine))
                  THEN instrReg.engine ELSE NoEngine
    /\ hostReady' = TRUE
    /\ irq' = (AnyDone /\ instrReg.irq)

Dispatch ==
    /\ started' = IF /\ Accepted
                     /\ ~(instrReg.engine # NoEngine /\ Done(instrReg.engine))
                  THEN instrReg.engine ELSE NoEngine
    /\ hostReady' = \/ AnyDone
                    \/ hostReady /\ ~(Accepted /\ instrReg.engine # NoEngine)
    /\ irq' = (AnyDone /\ instrReg.irq)

(* smgp_core: arbiter.                                                     *)
Arbitrate ==
    grant' = IF Accepted
             THEN IF instrReg.engine # NoEngine THEN instrReg.engine ELSE grant
             ELSE IF Busy(grant) THEN grant ELSE (grant + 1) % 4
-----------------------------------------------------------------------------
(* The engines.  m is the memory's ready in this cycle.                    *)

(* spectral_engine: whatever the sub-opcode, one pass over the matrix.     *)
SpectralIdle ==
    /\ spectral.state = "IDLE"
    /\ spectral' =
          [state  |-> IF started = SPECTRAL THEN "LOAD_MATRIX" ELSE "IDLE",
           status |-> IF started = SPECTRAL THEN "RUNNING" ELSE "IDLE",
           done   |-> FALSE,
           count  |-> spectral.count]

SpectralMoves(next, count) ==
    spectral' = [state |-> next, status |-> spectral.status,
                 done |-> spectral.done, count |-> count]

SpectralWaits(m) == ~m /\ UNCHANGED spectral

(* The row counter is not cleared after the last write: the next pass      *)
(* loads from where this one stopped.                                      *)
SpectralLoadMatrix(m) ==
    /\ spectral.state = "LOAD_MATRIX"
    /\ \/ SpectralWaits(m)
       \/ /\ m /\ spectral.count < MaxNnz
          /\ SpectralMoves("LOAD_MATRIX", spectral.count + 1)
       \/ /\ m /\ spectral.count >= MaxNnz
          /\ SpectralMoves("LOAD_VECTOR", 0)

SpectralLoadVector(m) ==
    /\ spectral.state = "LOAD_VECTOR"
    /\ \/ SpectralWaits(m)
       \/ /\ m /\ spectral.count < NodeCount
          /\ SpectralMoves("LOAD_VECTOR", spectral.count + 1)
       \/ /\ m /\ spectral.count >= NodeCount
          /\ SpectralMoves("COMPUTE_LAP", spectral.count + 1)

SpectralCompute ==
    /\ spectral.state = "COMPUTE_LAP"
    /\ \/ /\ spectral.count < NodeCount
          /\ SpectralMoves("COMPUTE_LAP", spectral.count + ArrayRows)
       \/ /\ spectral.count >= NodeCount
          /\ SpectralMoves("WRITE_RESULT", 0)

SpectralWrite(m) ==
    /\ spectral.state = "WRITE_RESULT"
    /\ \/ SpectralWaits(m)
       \/ /\ m /\ spectral.count < NodeCount
          /\ SpectralMoves("WRITE_RESULT", spectral.count + 1)
       \/ /\ m /\ spectral.count >= NodeCount
          /\ spectral' = [state |-> "IDLE", status |-> "DONE", done |-> TRUE,
                          count |-> spectral.count + 1]

SpectralStep(m) ==
    \/ SpectralIdle \/ SpectralLoadMatrix(m) \/ SpectralLoadVector(m)
    \/ SpectralCompute \/ SpectralWrite(m)

(* hd_engine.  It decodes the register as it is now, one cycle after the   *)
(* instruction was accepted; ASSOC_READ and ASSOC_WRITE are not decoded.   *)
HdBegins(next) ==
    hd' = [state |-> next, status |-> "RUNNING", done |-> FALSE, count |-> 0]

HdMoves(next, count) ==
    hd' = [state |-> next, status |-> hd.status, done |-> FALSE, count |-> count]

HdIdle ==
    /\ hd.state = "IDLE"
    /\ \/ started # HD /\ HdMoves("IDLE", hd.count)
       \/ /\ started = HD
          /\ \/ instrReg.sub = 0 /\ HdBegins("BUNDLE")
             \/ instrReg.sub \in {1, 2} /\ HdBegins("BIND")
             \/ instrReg.sub = 3 /\ HdBegins("PERMUTE")
             \/ instrReg.sub = 4 /\ HdBegins("SIMILARITY")
             \/ instrReg.sub = 7 /\ HdBegins("GENERATE")
             \/ instrReg.sub \notin {0, 1, 2, 3, 4, 7} /\ HdBegins("IDLE")

(* Mutant: the word index stands still.                                    *)
HdStreamStuck ==
    /\ hd.state \in {"BUNDLE", "SIMILARITY", "GENERATE"}
    /\ HdMoves(hd.state, hd.count)

HdStream ==
    /\ hd.state \in {"BUNDLE", "SIMILARITY", "GENERATE"}
    /\ \/ hd.count < HdBanks /\ HdMoves(hd.state, hd.count + 1)
       \/ hd.count >= HdBanks /\ HdMoves("DONE", hd.count)

HdShort ==
    /\ hd.state \in {"BIND", "PERMUTE"}
    /\ HdMoves("DONE", hd.count)

HdAssocRead(m) ==
    /\ hd.state = "ASSOC_READ"
    /\ \/ ~m /\ HdMoves(hd.state, hd.count)
       \/ m /\ HdMoves("DONE", hd.count)

HdAssocWrite(m) ==
    /\ hd.state = "ASSOC_WRITE"
    /\ \/ ~m /\ HdMoves(hd.state, hd.count)
       \/ m /\ hd.count < HdBanks - 1 /\ HdMoves(hd.state, hd.count + 1)
       \/ m /\ hd.count >= HdBanks - 1 /\ HdMoves("DONE", hd.count)

HdUnused == hd.state = "UNUSED" /\ HdMoves(hd.state, hd.count)

HdFinish ==
    /\ hd.state = "DONE"
    /\ hd' = [state |-> "IDLE", status |-> "DONE", done |-> TRUE,
              count |-> hd.count]

HdStep(m) ==
    \/ HdIdle \/ HdStream \/ HdShort \/ HdAssocRead(m) \/ HdAssocWrite(m)
    \/ HdUnused \/ HdFinish

(* topology_engine.  The counter is edge_count, then edge_idx, then the    *)
(* pairs that are left; how many pairs there are is open.                  *)
TopologyBegins(next, status) ==
    topology' = [state |-> next, status |-> status, done |-> FALSE, count |-> 0]

TopologyMoves(next, count) ==
    topology' = [state |-> next, status |-> topology.status, done |-> FALSE,
                 count |-> count]

(* Mutant: the status is left as the last instruction left it.             *)
TopologyIdleSilent ==
    /\ topology.state = "IDLE"
    /\ \/ started # TOPOLOGY /\ TopologyMoves("IDLE", topology.count)
       \/ /\ started = TOPOLOGY
          /\ \/ instrReg.sub = 0 /\ TopologyBegins("LOAD_DIST", topology.status)
             \/ instrReg.sub # 0 /\ TopologyBegins("DONE", topology.status)

TopologyIdle ==
    /\ topology.state = "IDLE"
    /\ \/ started # TOPOLOGY /\ TopologyMoves("IDLE", topology.count)
       \/ /\ started = TOPOLOGY
          /\ \/ instrReg.sub = 0 /\ TopologyBegins("LOAD_DIST", "RUNNING")
             \/ instrReg.sub = 3 /\ TopologyBegins("WASSERSTEIN", "RUNNING")
             \/ instrReg.sub = 2 /\ TopologyBegins("CHECK_STABLE", "RUNNING")
             \/ instrReg.sub \notin {0, 2, 3} /\ TopologyBegins("DONE", "RUNNING")

TopologyLoad(m) ==
    /\ topology.state = "LOAD_DIST"
    /\ \/ ~m /\ TopologyMoves("LOAD_DIST", topology.count)
       \/ /\ m /\ topology.count < Batch - 1
          /\ TopologyMoves("LOAD_DIST", topology.count + 1)
       \/ /\ m /\ topology.count >= Batch - 1
          /\ TopologyMoves("SORT_EDGES", topology.count)

TopologySort == topology.state = "SORT_EDGES" /\ TopologyMoves("BUILD_UF", 0)

TopologyBuild ==
    /\ topology.state = "BUILD_UF"
    /\ \/ /\ topology.count < Batch
          /\ TopologyMoves("BUILD_UF", topology.count + 1)
       \/ /\ topology.count >= Batch
          /\ \E pairs \in 0..Batch : TopologyMoves("EMIT_BARCODE", pairs)

TopologyEmit ==
    /\ topology.state = "EMIT_BARCODE"
    /\ \/ topology.count > 0 /\ TopologyMoves("EMIT_BARCODE", topology.count - 1)
       \/ topology.count = 0 /\ TopologyMoves("DONE", 0)

TopologyShort ==
    /\ topology.state \in {"WASSERSTEIN", "CHECK_STABLE"}
    /\ TopologyMoves("DONE", topology.count)

TopologyFinish ==
    /\ topology.state = "DONE"
    /\ topology' = [state |-> "IDLE", status |-> "DONE", done |-> TRUE,
                    count |-> topology.count]

TopologyStep(m) ==
    \/ TopologyIdle \/ TopologyLoad(m) \/ TopologySort \/ TopologyBuild
    \/ TopologyEmit \/ TopologyShort \/ TopologyFinish

(* graph_rewrite_engine.  The core does not drive pattern_node_count, so a *)
(* match ends as it begins.                                                *)
RewriteBegins(next) ==
    rewrite' = [state |-> next, status |-> "RUNNING", done |-> FALSE]

RewriteMoves(next) ==
    rewrite' = [state |-> next, status |-> rewrite.status, done |-> FALSE]

RewriteIdle ==
    /\ rewrite.state = "IDLE"
    /\ \/ started # REWRITE /\ RewriteMoves("IDLE")
       \/ /\ started = REWRITE
          /\ \/ instrReg.sub = 0 /\ RewriteBegins("MATCH_INIT")
             \/ instrReg.sub = 1 /\ RewriteBegins("APPLY_DELETE")
             \/ instrReg.sub \notin {0, 1} /\ RewriteBegins("DONE")

RewriteMatch == rewrite.state = "MATCH_INIT" /\ RewriteMoves("DONE")

RewriteDelete(m) ==
    /\ rewrite.state = "APPLY_DELETE"
    /\ \/ ~m /\ RewriteMoves("APPLY_DELETE")
       \/ m /\ RewriteMoves("APPLY_ADD")

RewriteAdd(m) ==
    /\ rewrite.state = "APPLY_ADD"
    /\ \/ ~m /\ RewriteMoves("APPLY_ADD")
       \/ m /\ RewriteMoves("DONE")

RewriteFinish ==
    /\ rewrite.state = "DONE"
    /\ rewrite' = [state |-> "IDLE", status |-> "DONE", done |-> TRUE]

RewriteStep(m) ==
    \/ RewriteIdle \/ RewriteMatch \/ RewriteDelete(m) \/ RewriteAdd(m)
    \/ RewriteFinish
-----------------------------------------------------------------------------
Tick(m) ==
    /\ (\E w \in Instruction : HostWrites(w)) \/ HostSilent
    /\ Dispatch /\ Arbitrate
    /\ SpectralStep(m) /\ HdStep(m) /\ TopologyStep(m) /\ RewriteStep(m)
    /\ UNCHANGED stray

(* rst_n_sys: every register but the HD engine's state.                    *)
CoreReset ==
    /\ instrReg' = Nop /\ instrValid' = FALSE
    /\ started' = NoEngine /\ hostReady' = TRUE /\ grant' = SPECTRAL /\ irq' = FALSE
    /\ spectral' = IdleCounting /\ topology' = IdleCounting /\ rewrite' = Idle
    /\ hd' = [IdleCounting EXCEPT !.state = hd.state]
    /\ stray' = (hd.state # "IDLE")

Next == (\E m \in BOOLEAN : Tick(m)) \/ CoreReset

Spec == Init /\ [][Next]_vars

(* The clock goes on, and the memory answers again and again.              *)
FairSpec == Spec /\ WF_vars(Tick(TRUE))
-----------------------------------------------------------------------------
StatusCode == {"IDLE", "RUNNING", "DONE"}

TypeOK ==
    /\ instrReg \in Instruction \cup {Nop}
    /\ instrValid \in BOOLEAN /\ hostReady \in BOOLEAN /\ irq \in BOOLEAN
    /\ stray \in BOOLEAN
    /\ started \in Engine \cup {NoEngine}
    /\ grant \in Engine
    /\ spectral \in [state : {"IDLE", "LOAD_MATRIX", "LOAD_VECTOR",
                              "COMPUTE_LAP", "WRITE_RESULT"},
                     status : StatusCode, done : BOOLEAN, count : Nat]
    /\ hd \in [state : HdState, status : StatusCode, done : BOOLEAN, count : Nat]
    /\ topology \in [state : {"IDLE", "LOAD_DIST", "SORT_EDGES", "BUILD_UF",
                              "EMIT_BARCODE", "WASSERSTEIN", "CHECK_STABLE",
                              "DONE"},
                     status : StatusCode, done : BOOLEAN, count : Nat]
    /\ rewrite \in [state : {"IDLE", "MATCH_INIT", "APPLY_DELETE", "APPLY_ADD",
                             "DONE"},
                    status : StatusCode, done : BOOLEAN]

AtWork(e) == started = e \/ State(e) # "IDLE"

(* The engines share one memory bus, which arb_grant switches, and the     *)
(* arbiter knows nothing of who is at work: whatever the host writes and   *)
(* whenever, an engine at work holds the grant, so it is the only one, and *)
(* the core takes no instruction meanwhile.                                *)
OneAtWork == ~stray => \A e \in Engine : AtWork(e) => grant = e /\ ~hostReady

(* An instruction the HD engine did not decode leaves it like this.        *)
Wedged == hd.state = "IDLE" /\ hd.status = "RUNNING" /\ grant = HD /\ ~hostReady

(* The host sees nothing but the status register: it reads RUNNING if and  *)
(* only if an engine is, though arb_grant wanders among idle engines and   *)
(* their old statuses; or else the HD engine has dropped an instruction.   *)
StatusTellsWork ==
    ~stray => (CoreStatus = "RUNNING"
                 <=> Wedged \/ \E e \in Engine : State(e) # "IDLE")

(* The core never refuses instructions for nothing: an engine is at work   *)
(* or just done, or the HD engine has dropped an instruction.              *)
NotReadyHasCause ==
    ~stray /\ ~hostReady => Wedged \/ \E e \in Engine : AtWork(e) \/ Done(e)

(* Whatever an engine has begun it ends, and the core is ready again.      *)
WorkEnds == (~stray /\ \E e \in Engine : State(e) # "IDLE") ~> hostReady
=============================================================================

--------------------------- MODULE Hardware_proofs ---------------------------
(***************************************************************************)
(* Proofs about the accelerator's control and the parts around it.  The    *)
(* core: until a reset meets the HD engine at work, what is at work or     *)
(* just done, who holds the grant, whether the core is ready and what the  *)
(* statuses say go together.  The PCIe driver: what it holds is a first    *)
(* part of Order, as far as the phase and the step say.  The PYNQ back     *)
(* end: an answer is read from the job its own call started, and a call    *)
(* that gives up is what spoils the next.  The DMA engine and the memory   *)
(* controller: each on its own, for any input, and so also wired.  The     *)
(* router: what left and what its local buffer holds are what it was       *)
(* given.  The cache: a scan has found a best match so far.  The crossbar: *)
(* the accumulator has the part of the row that the columns so far make.   *)
(* The mapper: the next address is the number of rows in use.              *)
(***************************************************************************)
EXTENDS SmgpCore, PcieDriver, PynqHal, GraphDma, NocRouter, AssociativeCache, Crossbar,
        MemoryMapper, SequenceTheorems, FiniteSetTheorems, WellFoundedInduction, TLAPS

(***************************************************************************)
(* The core.                                                               *)
(***************************************************************************)
(* An engine that is done is idle, and nothing starts or works beside it.  *)
DoneInv ==
    ~stray => \A e \in Engine : Done(e) =>
                 /\ ~hostReady /\ started = NoEngine
                 /\ \A f \in Engine : State(f) = "IDLE"

(* An engine at work says so, an idle one does not, but for a dropped      *)
(* instruction.                                                            *)
StatusInv ==
    ~stray => \A e \in Engine :
                 /\ State(e) # "IDLE" => Status(e) = "RUNNING"
                 /\ State(e) = "IDLE" /\ Status(e) = "RUNNING" =>
                       /\ e = HD /\ Wedged /\ started = NoEngine
                       /\ ~AnyDone

(* An engine shows done in its first idle cycle, after any reset too.      *)
DoneIdle == \A e \in Engine : Done(e) => State(e) = "IDLE"

CoreInv ==
    /\ TypeOK /\ DoneIdle
    /\ OneAtWork /\ DoneInv /\ StatusInv /\ NotReadyHasCause

USE DEF SPECTRAL, HD, TOPOLOGY, REWRITE, Engine, NoEngine

(* What a cycle does to the registers of an engine, whichever it is: it    *)
(* goes to work only if it is started, ends with a done, and sets its      *)
(* status accordingly.                                                     *)
EngineSteps(u, v, e) ==
    /\ v.state # "IDLE" =>
          /\ u.state # "IDLE" \/ started = e
          /\ ~v.done
          /\ u.state = "IDLE" => v.status = "RUNNING"
          /\ u.state # "IDLE" => v.status = u.status
    /\ v.state = "IDLE" =>
          \/ u.state # "IDLE" /\ v.done /\ v.status = "DONE"
          \/ /\ u.state = "IDLE" /\ ~v.done /\ started # e
             /\ v.status = u.status \/ (e # HD /\ v.status = "IDLE")
          \/ /\ u.state = "IDLE" /\ ~v.done /\ started = e /\ e = HD
             /\ v.status = "RUNNING"

SpectralState ==
    {"IDLE", "LOAD_MATRIX", "LOAD_VECTOR", "COMPUTE_LAP", "WRITE_RESULT"}
TopologyState ==
    {"IDLE", "LOAD_DIST", "SORT_EDGES", "BUILD_UF", "EMIT_BARCODE",
     "WASSERSTEIN", "CHECK_STABLE", "DONE"}
RewriteState == {"IDLE", "MATCH_INIT", "APPLY_DELETE", "APPLY_ADD", "DONE"}

SpectralType ==
    [state : SpectralState, status : StatusCode, done : BOOLEAN, count : Nat]
HdType == [state : HdState, status : StatusCode, done : BOOLEAN, count : Nat]
TopologyType ==
    [state : TopologyState, status : StatusCode, done : BOOLEAN, count : Nat]
RewriteType == [state : RewriteState, status : StatusCode, done : BOOLEAN]

(* An engine at work that moves within its machine.                        *)
LEMMA SpectralMoving ==
    ASSUME spectral \in SpectralType, spectral.state # "IDLE", ~spectral.done,
           NEW s \in SpectralState \ {"IDLE"}, NEW c \in Nat, SpectralMoves(s, c)
    PROVE  EngineSteps(spectral, spectral', SPECTRAL) /\ spectral' \in SpectralType
<1>1. /\ spectral'.state = s /\ spectral'.status = spectral.status
      /\ ~spectral'.done /\ spectral' \in SpectralType
  BY DEF SpectralMoves, SpectralType
<1> QED BY <1>1 DEF EngineSteps, SpectralState

LEMMA HdMoving ==
    ASSUME hd \in HdType, hd.state # "IDLE",
           NEW s \in HdState \ {"IDLE"}, NEW c \in Nat, HdMoves(s, c)
    PROVE  EngineSteps(hd, hd', HD) /\ hd' \in HdType
<1>1. /\ hd'.state = s /\ hd'.status = hd.status
      /\ ~hd'.done /\ hd' \in HdType
  BY DEF HdMoves, HdType
<1> QED BY <1>1 DEF EngineSteps, HdState

LEMMA TopologyMoving ==
    ASSUME topology \in TopologyType, topology.state # "IDLE",
           NEW s \in TopologyState \ {"IDLE"}, NEW c \in Nat, TopologyMoves(s, c)
    PROVE  EngineSteps(topology, topology', TOPOLOGY) /\ topology' \in TopologyType
<1>1. /\ topology'.state = s /\ topology'.status = topology.status
      /\ ~topology'.done /\ topology' \in TopologyType
  BY DEF TopologyMoves, TopologyType
<1> QED BY <1>1 DEF EngineSteps, TopologyState

LEMMA RewriteMoving ==
    ASSUME rewrite \in RewriteType, rewrite.state # "IDLE",
           NEW s \in RewriteState \ {"IDLE"}, RewriteMoves(s)
    PROVE  EngineSteps(rewrite, rewrite', REWRITE) /\ rewrite' \in RewriteType
<1>1. /\ rewrite'.state = s /\ rewrite'.status = rewrite.status
      /\ ~rewrite'.done /\ rewrite' \in RewriteType
  BY DEF RewriteMoves, RewriteType
<1> QED BY <1>1 DEF EngineSteps, RewriteState

(* The engines, one transition at a time.                                  *)
LEMMA SpectralSteps ==
    ASSUME spectral \in SpectralType, NEW m \in BOOLEAN, SpectralStep(m),
           spectral.done => spectral.state = "IDLE"
    PROVE  EngineSteps(spectral, spectral', SPECTRAL) /\ spectral' \in SpectralType
<1> USE SizeAssumption
<1> DEFINE Moving == \E s \in SpectralState \ {"IDLE"}, c \in Nat : SpectralMoves(s, c)
<1>0. spectral.state \in SpectralState /\ spectral.count \in Nat
  BY DEF SpectralType
<1>1. CASE SpectralIdle
  <2>1. /\ spectral'.state = IF started = SPECTRAL THEN "LOAD_MATRIX" ELSE "IDLE"
        /\ spectral'.status = IF started = SPECTRAL THEN "RUNNING" ELSE "IDLE"
        /\ ~spectral'.done
    BY <1>1 DEF SpectralIdle
  <2>2. spectral' \in SpectralType
    BY <1>0, <1>1 DEF SpectralIdle, SpectralType, SpectralState, StatusCode
  <2> QED BY <1>1, <2>1, <2>2 DEF EngineSteps, SpectralIdle
<1>2. CASE ~SpectralIdle /\ (spectral' = spectral \/ Moving)
  <2>1. spectral.state # "IDLE" /\ ~spectral.done
    BY <1>2 DEF SpectralStep, SpectralLoadMatrix, SpectralLoadVector,
                SpectralCompute, SpectralWrite
  <2>2. CASE spectral' = spectral
    BY <2>1, <2>2 DEF EngineSteps
  <2> QED BY <1>2, <2>1, <2>2, SpectralMoving
<1>3. CASE SpectralLoadMatrix(m)
  <2>1. spectral' = spectral \/ Moving
    BY <1>0, <1>3 DEF SpectralLoadMatrix, SpectralWaits, SpectralState
  <2> QED BY <1>2, <1>3, <2>1 DEF SpectralLoadMatrix, SpectralIdle
<1>4. CASE SpectralLoadVector(m)
  <2>1. spectral' = spectral \/ Moving
    BY <1>0, <1>4 DEF SpectralLoadVector, SpectralWaits, SpectralState
  <2> QED BY <1>2, <1>4, <2>1 DEF SpectralLoadVector, SpectralIdle
<1>5. CASE SpectralCompute
  <2>1. spectral' = spectral \/ Moving
    BY <1>0, <1>5 DEF SpectralCompute, SpectralState
  <2> QED BY <1>2, <1>5, <2>1 DEF SpectralCompute, SpectralIdle
<1>6. CASE SpectralWrite(m)
  <2>1. CASE m /\ spectral.count >= NodeCount
    <3>1. spectral' = [state |-> "IDLE", status |-> "DONE", done |-> TRUE,
                       count |-> spectral.count + 1]
      BY <1>0, <1>6, <2>1 DEF SpectralWrite, SpectralWaits
    <3>2. spectral' \in SpectralType
      BY <1>0, <3>1 DEF SpectralType, SpectralState, StatusCode
    <3> QED BY <1>6, <3>1, <3>2 DEF EngineSteps, SpectralWrite
  <2>2. CASE ~(m /\ spectral.count >= NodeCount)
    <3>1. spectral' = spectral \/ Moving
      BY <1>0, <1>6, <2>2 DEF SpectralWrite, SpectralWaits, SpectralState
    <3> QED BY <1>2, <1>6, <3>1 DEF SpectralWrite, SpectralIdle
  <2> QED BY <2>1, <2>2
<1> QED BY <1>1, <1>3, <1>4, <1>5, <1>6 DEF SpectralStep

LEMMA HdSteps ==
    ASSUME hd \in HdType, NEW m \in BOOLEAN, HdStep(m)
    PROVE  EngineSteps(hd, hd', HD) /\ hd' \in HdType
<1> USE SizeAssumption
<1> DEFINE Moving == \E s \in HdState \ {"IDLE"}, c \in Nat : HdMoves(s, c)
<1>0. hd.state \in HdState /\ hd.count \in Nat /\ hd.status \in StatusCode
  BY DEF HdType
<1>1. CASE hd.state # "IDLE" /\ Moving
  BY <1>1, HdMoving
<1>2. CASE HdIdle
  <2>1. CASE started # HD
    <3>1. hd' = [state |-> "IDLE", status |-> hd.status, done |-> FALSE,
                 count |-> hd.count]
      BY <1>2, <2>1 DEF HdIdle, HdMoves
    <3>2. hd' \in HdType
      BY <1>0, <3>1 DEF HdType, HdState
    <3> QED BY <1>2, <2>1, <3>1, <3>2 DEF EngineSteps, HdIdle
  <2>2. CASE started = HD
    <3>1. PICK s \in HdState : HdBegins(s)
      BY <1>2, <2>2 DEF HdIdle, HdState
    <3>2. hd' = [state |-> s, status |-> "RUNNING", done |-> FALSE, count |-> 0]
      BY <3>1 DEF HdBegins
    <3>3. hd' \in HdType
      BY <3>2 DEF HdType, StatusCode
    <3> QED BY <1>2, <2>2, <3>2, <3>3 DEF EngineSteps, HdIdle
  <2> QED BY <2>1, <2>2
<1>3. CASE HdStream
  BY <1>0, <1>1, <1>3 DEF HdStream, HdState
<1>4. CASE HdShort
  BY <1>0, <1>1, <1>4 DEF HdShort, HdState
<1>5. CASE HdAssocRead(m)
  BY <1>0, <1>1, <1>5 DEF HdAssocRead, HdState
<1>6. CASE HdAssocWrite(m)
  BY <1>0, <1>1, <1>6 DEF HdAssocWrite, HdState
<1>7. CASE HdUnused
  BY <1>0, <1>1, <1>7 DEF HdUnused, HdState
<1>8. CASE HdFinish
  <2>1. hd' \in HdType
    BY <1>0, <1>8 DEF HdFinish, HdType, HdState, StatusCode
  <2> QED BY <1>8, <2>1 DEF EngineSteps, HdFinish
<1> QED BY <1>2, <1>3, <1>4, <1>5, <1>6, <1>7, <1>8 DEF HdStep

LEMMA TopologySteps ==
    ASSUME topology \in TopologyType, NEW m \in BOOLEAN, TopologyStep(m)
    PROVE  EngineSteps(topology, topology', TOPOLOGY) /\ topology' \in TopologyType
<1> USE SizeAssumption
<1> DEFINE Moving ==
        \E s \in TopologyState \ {"IDLE"}, c \in Nat : TopologyMoves(s, c)
<1>0. /\ topology.state \in TopologyState /\ topology.count \in Nat
      /\ topology.status \in StatusCode
  BY DEF TopologyType
<1>1. CASE topology.state # "IDLE" /\ Moving
  BY <1>1, TopologyMoving
<1>2. CASE TopologyIdle
  <2>1. CASE started # TOPOLOGY
    <3>1. topology' = [state |-> "IDLE", status |-> topology.status,
                       done |-> FALSE, count |-> topology.count]
      BY <1>2, <2>1 DEF TopologyIdle, TopologyMoves
    <3>2. topology' \in TopologyType
      BY <1>0, <3>1 DEF TopologyType, TopologyState
    <3> QED BY <1>2, <2>1, <3>1, <3>2 DEF EngineSteps, TopologyIdle
  <2>2. CASE started = TOPOLOGY
    <3>1. PICK s \in TopologyState \ {"IDLE"} : TopologyBegins(s, "RUNNING")
      BY <1>2, <2>2 DEF TopologyIdle, TopologyState
    <3>2. topology' = [state |-> s, status |-> "RUNNING", done |-> FALSE,
                       count |-> 0]
      BY <3>1 DEF TopologyBegins
    <3>3. topology' \in TopologyType
      BY <3>2 DEF TopologyType, StatusCode
    <3> QED BY <1>2, <2>2, <3>2, <3>3 DEF EngineSteps, TopologyIdle
  <2> QED BY <2>1, <2>2
<1>3. CASE TopologyLoad(m)
  BY <1>0, <1>1, <1>3 DEF TopologyLoad, TopologyState
<1>4. CASE TopologySort
  BY <1>0, <1>1, <1>4 DEF TopologySort, TopologyState
<1>5. CASE TopologyBuild
  BY <1>0, <1>1, <1>5 DEF TopologyBuild, TopologyState
<1>6. CASE TopologyEmit
  BY <1>0, <1>1, <1>6 DEF TopologyEmit, TopologyState
<1>7. CASE TopologyShort
  BY <1>0, <1>1, <1>7 DEF TopologyShort, TopologyState
<1>8. CASE TopologyFinish
  <2>1. topology' \in TopologyType
    BY <1>0, <1>8 DEF TopologyFinish, TopologyType, TopologyState, StatusCode
  <2> QED BY <1>8, <2>1 DEF EngineSteps, TopologyFinish
<1> QED BY <1>2, <1>3, <1>4, <1>5, <1>6, <1>7, <1>8 DEF TopologyStep

LEMMA RewriteSteps ==
    ASSUME rewrite \in RewriteType, NEW m \in BOOLEAN, RewriteStep(m)
    PROVE  EngineSteps(rewrite, rewrite', REWRITE) /\ rewrite' \in RewriteType
<1> DEFINE Moving == \E s \in RewriteState \ {"IDLE"} : RewriteMoves(s)
<1>0. rewrite.state \in RewriteState /\ rewrite.status \in StatusCode
  BY DEF RewriteType
<1>1. CASE rewrite.state # "IDLE" /\ Moving
  BY <1>1, RewriteMoving
<1>2. CASE RewriteIdle
  <2>1. CASE started # REWRITE
    <3>1. rewrite' = [state |-> "IDLE", status |-> rewrite.status, done |-> FALSE]
      BY <1>2, <2>1 DEF RewriteIdle, RewriteMoves
    <3>2. rewrite' \in RewriteType
      BY <1>0, <3>1 DEF RewriteType, RewriteState
    <3> QED BY <1>2, <2>1, <3>1, <3>2 DEF EngineSteps, RewriteIdle
  <2>2. CASE started = REWRITE
    <3>1. PICK s \in RewriteState \ {"IDLE"} : RewriteBegins(s)
      BY <1>2, <2>2 DEF RewriteIdle, RewriteState
    <3>2. rewrite' = [state |-> s, status |-> "RUNNING", done |-> FALSE]
      BY <3>1 DEF RewriteBegins
    <3>3. rewrite' \in RewriteType
      BY <3>2 DEF RewriteType, StatusCode
    <3> QED BY <1>2, <2>2, <3>2, <3>3 DEF EngineSteps, RewriteIdle
  <2> QED BY <2>1, <2>2
<1>3. CASE RewriteMatch
  BY <1>0, <1>1, <1>3 DEF RewriteMatch, RewriteState
<1>4. CASE RewriteDelete(m)
  BY <1>0, <1>1, <1>4 DEF RewriteDelete, RewriteState
<1>5. CASE RewriteAdd(m)
  BY <1>0, <1>1, <1>5 DEF RewriteAdd, RewriteState
<1>6. CASE RewriteFinish
  <2>1. rewrite' \in RewriteType
    BY <1>0, <1>6 DEF RewriteFinish, RewriteType, RewriteState, StatusCode
  <2> QED BY <1>6, <2>1 DEF EngineSteps, RewriteFinish
<1> QED BY <1>2, <1>3, <1>4, <1>5, <1>6 DEF RewriteStep
-----------------------------------------------------------------------------
(* The instruction register always names an engine or none.                *)
LEMMA InstrEngine == TypeOK => instrReg.engine \in Engine \cup {NoEngine}
<1>1. ASSUME TypeOK PROVE instrReg \in Instruction \cup {Nop}
  BY <1>1 DEF TypeOK
<1>2. Nop.engine = NoEngine
  BY DEF Nop
<1>3. ASSUME NEW w \in Instruction PROVE w.engine \in Engine \cup {NoEngine}
  BY <1>3, InstructionAssumption DEF Word
<1> QED BY <1>1, <1>2, <1>3

(* A cycle, seen through EngineSteps only.                                 *)
LEMMA TickSteps ==
    ASSUME TypeOK, DoneIdle, NEW m \in BOOLEAN, Tick(m)
    PROVE  TypeOK' /\ \A e \in Engine : EngineSteps(Unit(e), Unit(e)', e)
<1>0. spectral.done => spectral.state = "IDLE"
  BY DEF DoneIdle, Done, State, Unit
<1>1. /\ EngineSteps(spectral, spectral', SPECTRAL) /\ spectral' \in SpectralType
      /\ EngineSteps(hd, hd', HD) /\ hd' \in HdType
  BY <1>0, SpectralSteps, HdSteps
     DEF Tick, TypeOK, SpectralType, SpectralState, HdType
<1>2. /\ EngineSteps(topology, topology', TOPOLOGY) /\ topology' \in TopologyType
      /\ EngineSteps(rewrite, rewrite', REWRITE) /\ rewrite' \in RewriteType
  BY TopologySteps, RewriteSteps
     DEF Tick, TypeOK, TopologyType, TopologyState, RewriteType, RewriteState
<1>3. instrReg' \in Instruction \cup {Nop} /\ instrValid' \in BOOLEAN
  BY DEF Tick, HostWrites, HostSilent, TypeOK
<1>4. instrReg.engine \in Engine \cup {NoEngine}
  BY InstrEngine
<1>5. /\ hostReady' \in BOOLEAN /\ irq' \in BOOLEAN
      /\ started' \in Engine \cup {NoEngine}
  BY <1>4 DEF Tick, Dispatch
<1>6. grant' \in Engine
  BY <1>4 DEF Tick, Arbitrate, TypeOK
<1>7. stray' \in BOOLEAN
  BY DEF Tick, TypeOK
<1>8. TypeOK'
  BY <1>1, <1>2, <1>3, <1>5, <1>6, <1>7
     DEF TypeOK, SpectralType, HdType, TopologyType, RewriteType,
         SpectralState, TopologyState, RewriteState
<1>9. \A e \in Engine : EngineSteps(Unit(e), Unit(e)', e)
  <2>1. /\ Unit(SPECTRAL) = spectral /\ Unit(SPECTRAL)' = spectral'
        /\ Unit(HD) = hd /\ Unit(HD)' = hd'
        /\ Unit(TOPOLOGY) = topology /\ Unit(TOPOLOGY)' = topology'
        /\ Unit(REWRITE) = rewrite /\ Unit(REWRITE)' = rewrite'
    BY DEF Unit
  <2>2. \A e \in Engine : \/ e = SPECTRAL \/ e = HD \/ e = TOPOLOGY \/ e = REWRITE
    OBVIOUS
  <2> QED BY <1>1, <1>2, <2>1, <2>2
<1> QED BY <1>8, <1>9

(* While an engine is at work the core holds still, and the engine goes    *)
(* on, ends, or, the HD engine, drops what it was given.                   *)
LEMMA WorkGoesOn ==
    ASSUME CoreInv, ~stray, ~stray', NEW m \in BOOLEAN, Tick(m), NEW w \in Engine,
           AtWork(w), \A e \in Engine : EngineSteps(Unit(e), Unit(e)', e)
    PROVE  (OneAtWork /\ DoneInv /\ StatusInv /\ NotReadyHasCause)'
<1>1. grant = w /\ ~hostReady /\ \A e \in Engine : AtWork(e) => e = w
  BY DEF CoreInv, OneAtWork
<1>2. \A e \in Engine : ~Done(e)
  BY DEF CoreInv, DoneInv, AtWork
<1>3. started' = NoEngine /\ ~hostReady' /\ grant' = w
  BY <1>1, <1>2 DEF Tick, Dispatch, Arbitrate, Accepted, AnyDone, Busy
<1>4. ASSUME NEW e \in Engine, e # w
      PROVE  State(e)' = "IDLE" /\ ~Done(e)' /\ Status(e)' # "RUNNING"
  <2>1. started # e /\ State(e) = "IDLE"
    BY <1>1, <1>4 DEF AtWork
  <2>2. Status(e) # "RUNNING"
    <3>1. SUFFICES ASSUME Status(e) = "RUNNING" PROVE FALSE
      OBVIOUS
    <3>2. e = HD /\ grant = HD
      BY <2>1, <3>1 DEF CoreInv, StatusInv, Wedged
    <3> QED BY <1>1, <1>4, <3>2
  <2> QED BY <2>1, <2>2 DEF EngineSteps, State, Status, Done
<1>5. CASE State(w)' # "IDLE"
  <2>1. ~Done(w)' /\ Status(w)' = "RUNNING"
    <3>1. State(w) # "IDLE" => Status(w) = "RUNNING"
      BY DEF CoreInv, StatusInv
    <3> QED BY <1>5, <3>1 DEF EngineSteps, State, Status, Done
  <2>2. \A e \in Engine : ~Done(e)'
    BY <1>4, <2>1
  <2>3. OneAtWork'
    BY <1>3, <1>4 DEF OneAtWork, AtWork
  <2>4. DoneInv'
    BY <2>2 DEF DoneInv
  <2>5. StatusInv'
    BY <1>4, <1>5, <2>1 DEF StatusInv
  <2>6. NotReadyHasCause'
    BY <1>5 DEF NotReadyHasCause, AtWork
  <2> QED BY <2>3, <2>4, <2>5, <2>6
<1>6. CASE State(w)' = "IDLE"
  <2>1. \A e \in Engine : State(e)' = "IDLE"
    BY <1>4, <1>6
  <2>2. \/ Done(w)' /\ Status(w)' = "DONE"
        \/ w = HD /\ ~Done(w)' /\ Status(w)' = "RUNNING"
    BY <1>6 DEF EngineSteps, State, Status, Done, AtWork
  <2>3. OneAtWork'
    BY <1>3, <2>1 DEF OneAtWork, AtWork
  <2>4. DoneInv'
    BY <1>3, <2>1 DEF DoneInv
  <2>5. CASE Done(w)' /\ Status(w)' = "DONE"
    <3>1. StatusInv'
      BY <1>4, <2>1, <2>5 DEF StatusInv
    <3>2. NotReadyHasCause'
      BY <2>5 DEF NotReadyHasCause
    <3> QED BY <2>3, <2>4, <3>1, <3>2
  <2>6. CASE w = HD /\ ~Done(w)' /\ Status(w)' = "RUNNING"
    <3>1. Wedged'
      BY <1>3, <2>1, <2>6 DEF Wedged, State, Status, Unit
    <3>2. ~AnyDone'
      BY <1>4, <2>6 DEF AnyDone
    <3>3. StatusInv'
      BY <1>3, <1>4, <2>1, <2>6, <3>1, <3>2 DEF StatusInv
    <3>4. NotReadyHasCause'
      BY <3>1 DEF NotReadyHasCause
    <3> QED BY <2>3, <2>4, <3>3, <3>4
  <2> QED BY <2>2, <2>5, <2>6
<1> QED BY <1>5, <1>6

(* With nobody at work the engines hold still, and the core may start one. *)
LEMMA IdleGoesOn ==
    ASSUME CoreInv, ~stray, ~stray', NEW m \in BOOLEAN, Tick(m),
           \A e \in Engine : ~AtWork(e),
           \A e \in Engine : EngineSteps(Unit(e), Unit(e)', e)
    PROVE  (OneAtWork /\ DoneInv /\ StatusInv /\ NotReadyHasCause)'
<1>1. started = NoEngine /\ \A e \in Engine : State(e) = "IDLE"
  BY DEF AtWork, CoreInv, TypeOK
<1>2. \A e \in Engine : /\ State(e)' = "IDLE" /\ ~Done(e)'
                        /\ Status(e)' = "RUNNING" => Status(e) = "RUNNING"
                        /\ e = HD => Status(e)' = Status(e)
  BY <1>1 DEF EngineSteps, State, Status, Done
<1>3. DoneInv' /\ ~AnyDone'
  BY <1>2 DEF DoneInv, AnyDone
<1>4. hostReady => /\ \A e \in Engine : ~Done(e)
               /\ \A e \in Engine : Status(e) # "RUNNING"
  BY <1>1 DEF CoreInv, DoneInv, StatusInv, Wedged
<1>5. CASE Accepted
  <2>1. hostReady /\ ~AnyDone
    BY <1>4, <1>5 DEF Accepted, AnyDone
  <2>2. started' \in Engine => grant' = started' /\ ~hostReady'
    <3>1. SUFFICES ASSUME started' \in Engine PROVE grant' = started' /\ ~hostReady'
      OBVIOUS
    <3>2. started' = instrReg.engine /\ instrReg.engine # NoEngine
      BY <3>1 DEF Tick, Dispatch
    <3>3. grant' = instrReg.engine
      BY <1>5, <3>2 DEF Tick, Arbitrate
    <3>4. ~hostReady'
      BY <1>5, <2>1, <3>2 DEF Tick, Dispatch
    <3> QED BY <3>2, <3>3, <3>4
  <2>3. OneAtWork'
    BY <1>2, <2>2 DEF OneAtWork, AtWork
  <2>4. StatusInv'
    BY <1>2, <1>4, <2>1 DEF StatusInv
  <2>5. NotReadyHasCause'
    <3>1. SUFFICES ASSUME ~hostReady' PROVE \E e \in Engine : started' = e
      BY DEF NotReadyHasCause, AtWork
    <3>2. instrReg.engine # NoEngine
      BY <1>5, <2>1, <3>1 DEF Tick, Dispatch
    <3>3. started' = instrReg.engine
      <4>1. instrReg.engine \in Engine
        BY <3>2, InstrEngine DEF CoreInv
      <4> QED BY <1>4, <1>5, <2>1, <4>1 DEF Tick, Dispatch
    <3> QED BY <3>2, <3>3, InstrEngine DEF CoreInv
  <2> QED BY <1>3, <2>3, <2>4, <2>5
<1>6. CASE ~Accepted
  <2>1. started' = NoEngine /\ (hostReady' <=> AnyDone \/ hostReady)
    BY <1>6 DEF Tick, Dispatch
  <2>2. OneAtWork'
    BY <1>2, <2>1 DEF OneAtWork, AtWork
  <2>3. Wedged /\ ~AnyDone => Wedged'
    <3>1. SUFFICES ASSUME Wedged, ~AnyDone PROVE Wedged'
      OBVIOUS
    <3>2. grant' = HD
      BY <1>6, <3>1 DEF Tick, Arbitrate, Busy, AnyDone, Wedged
    <3>3. hd'.state = "IDLE" /\ hd'.status = "RUNNING"
      BY <1>2, <3>1 DEF Wedged, State, Status, Unit
    <3> QED BY <2>1, <3>1, <3>2, <3>3 DEF Wedged
  <2>4. StatusInv'
    <3>1. ASSUME NEW e \in Engine, Status(e)' = "RUNNING"
          PROVE  e = HD /\ Wedged'
      BY <1>1, <1>2, <2>3, <3>1 DEF CoreInv, StatusInv
    <3> QED BY <1>2, <1>3, <2>1, <3>1 DEF StatusInv
  <2>5. NotReadyHasCause'
    <3>1. SUFFICES ASSUME ~hostReady' PROVE Wedged'
      BY DEF NotReadyHasCause
    <3>2. ~AnyDone /\ ~hostReady
      BY <2>1, <3>1
    <3>3. Wedged
      BY <3>2 DEF CoreInv, NotReadyHasCause, AnyDone
    <3> QED BY <2>3, <3>2, <3>3
  <2> QED BY <1>3, <2>2, <2>4, <2>5
<1> QED BY <1>5, <1>6

LEMMA TickKeepsInv ==
    ASSUME CoreInv, NEW m \in BOOLEAN, Tick(m)
    PROVE  CoreInv'
<1>1. TypeOK' /\ \A e \in Engine : EngineSteps(Unit(e), Unit(e)', e)
  BY TickSteps DEF CoreInv
<1>2. DoneIdle'
  BY <1>1 DEF DoneIdle, EngineSteps, State, Done
<1>3. (OneAtWork /\ DoneInv /\ StatusInv /\ NotReadyHasCause)'
  <2>1. CASE stray
    <3>1. stray'
      BY <2>1 DEF Tick
    <3> QED BY <3>1 DEF OneAtWork, DoneInv, StatusInv, NotReadyHasCause
  <2>2. CASE ~stray
    <3>1. ~stray'
      BY <2>2 DEF Tick
    <3> QED BY <1>1, <2>2, <3>1, WorkGoesOn, IdleGoesOn
  <2> QED BY <2>1, <2>2
<1> QED BY <1>1, <1>2, <1>3 DEF CoreInv

(* All that Init and Reset leave behind.                                   *)
AfterReset ==
    /\ instrReg = Nop /\ instrValid = FALSE
    /\ started = NoEngine /\ hostReady = TRUE /\ grant = SPECTRAL /\ irq = FALSE
    /\ spectral = IdleCounting /\ topology = IdleCounting /\ rewrite = Idle
    /\ \E s \in HdState :
          /\ hd = [state |-> s, status |-> "IDLE", done |-> FALSE, count |-> 0]
          /\ stray = (s # "IDLE")

LEMMA ResetEstablishesInv == AfterReset => CoreInv
<1> SUFFICES ASSUME AfterReset PROVE CoreInv
  OBVIOUS
<1>1. PICK s \in HdState :
        /\ hd = [state |-> s, status |-> "IDLE", done |-> FALSE, count |-> 0]
        /\ stray = (s # "IDLE")
  BY DEF AfterReset
<1>2. TypeOK
  <2>1. hd \in [state : HdState, status : StatusCode, done : BOOLEAN, count : Nat]
    BY <1>1 DEF StatusCode
  <2>2. spectral = IdleCounting /\ topology = IdleCounting /\ rewrite = Idle
    BY DEF AfterReset
  <2>3. spectral \in SpectralType
    BY <2>2 DEF SpectralType, SpectralState, StatusCode, IdleCounting
  <2>4. topology \in TopologyType
    BY <2>2 DEF TopologyType, TopologyState, StatusCode, IdleCounting
  <2>5. rewrite \in RewriteType
    BY <2>2 DEF RewriteType, RewriteState, StatusCode, Idle
  <2>6. stray \in BOOLEAN
    BY <1>1
  <2>7. /\ instrReg \in Instruction \cup {Nop} /\ instrValid \in BOOLEAN
        /\ hostReady \in BOOLEAN /\ irq \in BOOLEAN
        /\ started \in Engine \cup {NoEngine} /\ grant \in Engine
    <3>1. instrReg \in Instruction \cup {Nop}
      BY DEF AfterReset
    <3>2. instrValid = FALSE /\ hostReady = TRUE /\ irq = FALSE
      BY DEF AfterReset
    <3>3. started = NoEngine /\ grant = SPECTRAL
      BY DEF AfterReset
    <3>4. started \in Engine \cup {NoEngine} /\ grant \in Engine
      BY <3>3
    <3>5. instrValid \in BOOLEAN /\ hostReady \in BOOLEAN /\ irq \in BOOLEAN
      BY <3>2
    <3> QED BY <3>1, <3>4, <3>5
  <2> QED BY <2>1, <2>3, <2>4, <2>5, <2>6, <2>7
          DEF TypeOK, SpectralType, TopologyType, RewriteType,
              SpectralState, TopologyState, RewriteState
<1>3. \A e \in Engine : /\ ~Done(e) /\ Status(e) = "IDLE"
                        /\ ~stray => State(e) = "IDLE"
  BY <1>1 DEF AfterReset, Done, Status, State, Unit, Idle, IdleCounting
<1>4. hostReady /\ started = NoEngine
  BY DEF AfterReset
<1> QED BY <1>2, <1>3, <1>4
        DEF CoreInv, DoneIdle, OneAtWork, AtWork, DoneInv, StatusInv,
            NotReadyHasCause

(* CoreInv always holds: the type of every register, and up to a reset     *)
(* that meets the HD engine at work, the discipline of the shared bus.     *)
THEOREM Invariance == Spec => []CoreInv
<1>1. Init => CoreInv
  <2>1. Init => AfterReset
    BY DEF Init, AfterReset, IdleCounting
  <2> QED BY <2>1, ResetEstablishesInv
<1>2. CoreInv /\ [Next]_vars => CoreInv'
  <2> SUFFICES ASSUME CoreInv, [Next]_vars PROVE CoreInv'
    OBVIOUS
  <2>1. CASE \E m \in BOOLEAN : Tick(m)
    BY <2>1, TickKeepsInv
  <2>2. CASE CoreReset
    <3>1. hd.state \in HdState
      BY DEF CoreInv, TypeOK
    <3>2. AfterReset'
      BY <2>2, <3>1 DEF CoreReset, AfterReset, IdleCounting
    <3>3. (AfterReset => CoreInv)'
      BY ResetEstablishesInv, PTL
    <3> QED BY <3>2, <3>3
  <2>3. CASE UNCHANGED vars
    BY <2>3 DEF vars, core, CoreInv, TypeOK, DoneIdle, OneAtWork, AtWork,
                DoneInv, StatusInv, NotReadyHasCause, Wedged, AnyDone, Done,
                State, Status, Unit
  <2> QED BY <2>1, <2>2, <2>3 DEF Next
<1> QED BY <1>1, <1>2, PTL DEF Spec

(* Every register keeps its type; the arbiter's grant stays in range.      *)
THEOREM TypeCorrect == Spec => []TypeOK
<1>1. CoreInv => TypeOK
  BY DEF CoreInv
<1> QED BY <1>1, Invariance, PTL

(* Whatever the host writes, one engine works at a time and owns the bus.  *)
THEOREM MutualExclusion == Spec => []OneAtWork
<1>1. CoreInv => OneAtWork
  BY DEF CoreInv
<1> QED BY <1>1, Invariance, PTL

(* The core refuses instructions only while one is under way, just done or *)
(* dropped by the HD engine.                                               *)
THEOREM RefusalsHaveCause == Spec => []NotReadyHasCause
<1>1. CoreInv => NotReadyHasCause
  BY DEF CoreInv
<1> QED BY <1>1, Invariance, PTL

(* The status register reads RUNNING just when an engine is, or when the   *)
(* HD engine has dropped an instruction.                                   *)
THEOREM StatusIsTrue == Spec => []StatusTellsWork
<1>1. CoreInv => StatusTellsWork
  <2> SUFFICES ASSUME CoreInv, ~stray
               PROVE  CoreStatus = "RUNNING"
                        <=> Wedged \/ \E e \in Engine : State(e) # "IDLE"
    BY DEF StatusTellsWork
  <2>1. ASSUME NEW e \in Engine, State(e) # "IDLE" PROVE CoreStatus = "RUNNING"
    <3>1. grant = e /\ Status(e) = "RUNNING" /\ ~Done(e)
      BY <2>1 DEF CoreInv, OneAtWork, AtWork, StatusInv, DoneIdle
    <3> QED BY <3>1 DEF CoreStatus, Busy
  <2>2. ASSUME Wedged PROVE CoreStatus = "RUNNING"
    <3>1. State(HD) = "IDLE" /\ Status(HD) = "RUNNING" /\ grant = HD
      BY <2>2 DEF Wedged, State, Status, Unit
    <3>2. ~Done(HD)
      BY <3>1 DEF CoreInv, StatusInv, AnyDone
    <3> QED BY <3>1, <3>2 DEF CoreStatus, Busy
  <2>3. ASSUME CoreStatus = "RUNNING", \A e \in Engine : State(e) = "IDLE"
        PROVE  Wedged
    <3>1. grant \in Engine /\ Status(grant) = "RUNNING"
      BY <2>3 DEF CoreStatus, CoreInv, TypeOK
    <3> QED BY <2>3, <3>1 DEF CoreInv, StatusInv
  <2> QED BY <2>1, <2>2, <2>3
<1> QED BY <1>1, Invariance, PTL

(***************************************************************************)
(* The PCIe driver.                                                        *)
(***************************************************************************)
(* The first n things a probe takes.                                       *)
FirstOf(n) == {Order[i] : i \in 1..n}

StepOK ==
    /\ phase \in {"unbound", "probing", "bound", "releasing"}
    /\ step \in 0..Len(Order)
    /\ phase = "probing" => step > 0
    /\ phase = "bound" => step = Len(Order)

HeldOK ==
    held = IF phase = "unbound" THEN {}
           ELSE IF phase = "probing" THEN FirstOf(step - 1) ELSE FirstOf(step)

(* The inductive invariant.                                                *)
DriverInv == StepOK /\ HeldOK

-----------------------------------------------------------------------------
(* Order has ten entries, all different.                                   *)
LEMMA OrderLength == Len(Order) = 10
BY DEF Order

LEMMA OrderInjective ==
    ASSUME NEW i \in 1..10, NEW j \in 1..10, Order[i] = Order[j]
    PROVE  i = j
BY DEF Order

(* Taking the next thing, and giving back the last one.                    *)
LEMMA TakeNext ==
    ASSUME NEW n \in 1..10
    PROVE  FirstOf(n - 1) \cup {Order[n]} = FirstOf(n)
BY DEF FirstOf

LEMMA GiveBackLast ==
    ASSUME NEW n \in 1..10
    PROVE  FirstOf(n) \ {Order[n]} = FirstOf(n - 1)
BY OrderInjective DEF FirstOf

LEMMA DriverInvInit == DriverInit => DriverInv
BY OrderLength DEF DriverInit, DriverInv, StepOK, HeldOK

(* One step per action.                                                    *)
LEMMA DriverInvStep == DriverInv /\ [DriverNext]_driverVars => DriverInv'
<1> SUFFICES ASSUME DriverInv, [DriverNext]_driverVars PROVE DriverInv'
  OBVIOUS
<1> USE OrderLength
<1>1. CASE UNCHANGED <<phase, step, held>>
  BY <1>1 DEF DriverInv, StepOK, HeldOK
<1>2. CASE ProbeBegins
  <2>1. FirstOf(0) = {}
    BY DEF FirstOf
  <2> QED
    BY <1>2, <2>1 DEF ProbeBegins, DriverInv, StepOK, HeldOK
<1>3. CASE ProbeTakes
  <2>1. step \in 1..10 /\ held = FirstOf(step - 1)
    BY <1>3 DEF ProbeTakes, DriverInv, StepOK, HeldOK
  <2>2. held' = FirstOf(step)
    BY <1>3, <2>1, TakeNext DEF ProbeTakes
  <2>3. CASE step = 10
    BY <1>3, <2>1, <2>2, <2>3 DEF ProbeTakes, DriverInv, StepOK, HeldOK
  <2>4. CASE step # 10
    <3>1. phase' = "probing" /\ step' = step + 1 /\ step' - 1 = step
      BY <1>3, <2>1, <2>4 DEF ProbeTakes
    <3> QED
      BY <2>1, <2>2, <2>4, <3>1 DEF DriverInv, StepOK, HeldOK
  <2> QED
    BY <2>3, <2>4
<1>4. CASE ProbeFails
  BY <1>4 DEF ProbeFails, FirstReleased, DriverInv, StepOK, HeldOK
<1>5. CASE RemoveBegins
  BY <1>5 DEF RemoveBegins, DriverInv, StepOK, HeldOK
<1>6. CASE Release
  <2>1. step \in 1..10 /\ held = FirstOf(step)
    BY <1>6 DEF Release, DriverInv, StepOK, HeldOK
  <2>2. held' = FirstOf(step - 1)
    BY <1>6, <2>1, GiveBackLast DEF Release
  <2> QED
    BY <1>6, <2>1, <2>2 DEF Release, DriverInv, StepOK, HeldOK
<1>7. CASE ReleaseEnds
  <2>1. FirstOf(0) = {}
    BY DEF FirstOf
  <2> QED
    BY <1>7, <2>1 DEF ReleaseEnds, DriverInv, StepOK, HeldOK
<1>8. UNCHANGED driverVars => UNCHANGED <<phase, step, held>>
  BY DEF driverVars
<1>9. ModuleInit \/ ModuleExit \/ LibOpen \/ LibClose
         \/ (\E done \in BOOLEAN : Interrupt(done))
      => UNCHANGED <<phase, step, held>>
  BY DEF ModuleInit, ModuleExit, LibOpen, LibClose, Interrupt
<1> QED
  BY <1>1, <1>2, <1>3, <1>4, <1>5, <1>6, <1>7, <1>8, <1>9 DEF DriverNext

(* What is held comes in the order of Order: with a thing, all before it.  *)
LEMMA HeldDownward ==
    ASSUME DriverInv, NEW i \in 1..10, NEW j \in 1..i, Order[i] \in held
    PROVE  Order[j] \in held
<1>1. PICK n \in 0..10 : held = FirstOf(n)
  <2>1. FirstOf(0) = {}
    BY DEF FirstOf
  <2> QED
    BY <2>1, OrderLength DEF DriverInv, StepOK, HeldOK
<1>2. PICK k \in 1..n : Order[i] = Order[k]
  BY <1>1 DEF FirstOf
<1>3. i = k
  BY <1>2, OrderInjective
<1> QED
  BY <1>1, <1>2, <1>3 DEF FirstOf

LEMMA InvSeesDevice == DriverInv => HandlerSeesDevice
<1> SUFFICES ASSUME DriverInv PROVE HandlerSeesDevice
  OBVIOUS
<1>1. /\ Order[1] = "dev" /\ Order[2] = "enabled" /\ Order[3] = "regions"
      /\ Order[4] = "bar0" /\ Order[5] = "bar2" /\ Order[6] = "vectors"
      /\ Order[7] = "handler" /\ Order[8] = "chrdev" /\ Order[9] = "cdev"
  BY DEF Order
<1>2. "handler" \in held => \A j \in 1..7 : Order[j] \in held
  BY <1>1, HeldDownward
<1>3. "cdev" \in held => \A j \in 1..9 : Order[j] \in held
  BY <1>1, HeldDownward
<1>4. phase = "unbound" => held = {}
  BY DEF DriverInv, HeldOK
<1> QED
  BY <1>1, <1>2, <1>3, <1>4 DEF HandlerSeesDevice

(* At every moment the driver holds a first part of what a probe takes, of *)
(* the length its phase and step say.                                      *)
THEOREM HoldsInOrder == DriverSpec => []DriverInv
BY DriverInvInit, DriverInvStep, PTL DEF DriverSpec

(* Whatever call of probe fails and however often devices come and go: the *)
(* interrupt handler runs only with its device structure and registers     *)
(* there, and an unbound device has nothing left.                          *)
THEOREM HandlerAlwaysSeesDevice == DriverSpec => []HandlerSeesDevice
BY HoldsInOrder, InvSeesDevice, PTL

-----------------------------------------------------------------------------
(***************************************************************************)
(* The PYNQ back end.                                                      *)
(***************************************************************************)
(* The call under way has written, started and read what its step says.    *)
RegsWritten(n) == \A k \in 1..n : regs[k] = call.instr

Progress ==
    /\ call.step \in {"none", "opcode", "sub", "operand", "start"} => device # "working"
    /\ call.step = "sub" => RegsWritten(1)
    /\ call.step = "operand" => RegsWritten(2)
    /\ call.step = "start" => RegsWritten(3)
    /\ call.step = "poll" =>
          \/ device = "working" /\ job = Fields(call.instr)
          \/ device = "done" /\ result = Fields(call.instr)
    /\ call.step = "cycles" => device = "done" /\ result = Fields(call.instr)
    /\ call.step = "error" => device = "done" /\ call.cycles = Fields(call.instr)

(* What a call does next.                                                  *)
Step == {"none", "opcode", "sub", "operand", "start", "poll", "cycles", "error"}

(* The inductive invariant.  Progress is lost when a call gives up while    *)
(* the device works (late): that is why the property needs late.           *)
HalInv ==
    /\ regs \in [1..3 -> Instr \cup {NoInstr}]
    /\ device \in {"idle", "working", "done"}
    /\ call.instr \in Instr \cup {NoInstr} /\ call.step \in Step
    /\ call.step = "none" => call = NoCall
    /\ hal = "closed" => call = NoCall
    /\ late \in BOOLEAN
    /\ ~late => Progress
    /\ AnswerIsOwn

(* The fields of the records.                                              *)
LEMMA CallFields ==
    ASSUME NEW i, NEW s, NEW p, NEW c
    PROVE  /\ CallAt(i, s, p, c).instr = i
           /\ CallAt(i, s, p, c).step = s
           /\ CallAt(i, s, p, c).cycles = c
BY DEF CallAt

LEMMA NoCallFields == NoCall.step = "none" /\ NoCall.instr = NoInstr
BY CallFields DEF NoCall

LEMMA ReplyFields ==
    ASSUME NEW i, NEW s, NEW c
    PROVE  /\ ReplyOf(i, s, c).instr = i
           /\ ReplyOf(i, s, c).status = s
           /\ ReplyOf(i, s, c).cycles = c
BY DEF ReplyOf

(* Three words written one after the other make the fields of the call.    *)
LEMMA FieldsWritten ==
    ASSUME regs \in [1..3 -> Instr \cup {NoInstr}], RegsWritten(3)
    PROVE  regs = Fields(call.instr)
BY DEF RegsWritten, Fields

LEMMA HalInit == PynqInit => HalInv
<1> SUFFICES ASSUME PynqInit PROVE HalInv
  OBVIOUS
<1>1. regs \in [1..3 -> Instr \cup {NoInstr}]
  BY DEF PynqInit, Fields
<1>2. AnswerIsOwn
  BY ReplyFields DEF PynqInit, AnswerIsOwn, NoReply
<1>3. call = NoCall /\ call.step = "none" /\ call.instr = NoInstr /\ device = "idle" /\ late = FALSE
  BY NoCallFields DEF PynqInit
<1> QED
  BY <1>1, <1>2, <1>3 DEF HalInv, Step, Progress

(* One step per action.                                                    *)
LEMMA HalStep == HalInv /\ [PynqNext]_pynqVars => HalInv'
<1> SUFFICES ASSUME HalInv, [PynqNext]_pynqVars PROVE HalInv'
  OBVIOUS
<1> USE CallFields, NoCallFields, ReplyFields DEF HalInv, Step
<1>1. CASE UNCHANGED halVars
  BY <1>1 DEF halVars, deviceVars, Progress, RegsWritten, AnswerIsOwn
<1>2. CASE OpenHal
  <2>1. regs' \in [1..3 -> Instr \cup {NoInstr}]
    BY <1>2 DEF OpenHal, Fields
  <2>2. AnswerIsOwn'
    BY <1>2 DEF OpenHal, AnswerIsOwn, NoReply
  <2> QED
    BY <1>2, <2>1, <2>2 DEF OpenHal, Progress
<1>3. CASE CloseHal
  BY <1>3 DEF CloseHal, deviceVars, Progress, RegsWritten, AnswerIsOwn
<1>4. ASSUME NEW i \in Instr, Execute(i) PROVE HalInv'
  <2>1. AnswerIsOwn'
    BY <1>4 DEF Execute, AnswerIsOwn
  <2> QED
    BY <1>4, <2>1 DEF Execute, deviceVars, Progress, RegsWritten
<1>5. CASE WriteField
  <2>1. call.step \in {"opcode", "sub", "operand"} /\ call'.instr = call.instr
        /\ call'.step = NextStep(call.step)
    BY <1>5 DEF WriteField
  <2>2. AnswerIsOwn' /\ UNCHANGED <<hal, device, late>>
    BY <1>5 DEF WriteField, AnswerIsOwn
  <2>3. regs' = [regs EXCEPT ![Register(call.step)] = call.instr]
    BY <1>5 DEF WriteField
  <2>4. regs' \in [1..3 -> Instr \cup {NoInstr}]
    BY <2>1, <2>3 DEF Register
  <2>5. ~late => Progress'
    <3>1. CASE call.step = "opcode"
      BY <2>1, <2>2, <2>3, <3>1 DEF NextStep, Register, Progress, RegsWritten
    <3>2. CASE call.step = "sub"
      BY <2>1, <2>2, <2>3, <3>2 DEF NextStep, Register, Progress, RegsWritten
    <3>3. CASE call.step = "operand"
      BY <2>1, <2>2, <2>3, <3>3 DEF NextStep, Register, Progress, RegsWritten
    <3> QED
      BY <2>1, <3>1, <3>2, <3>3
  <2>6. hal # "closed" /\ call'.step \in Step /\ call'.step # "none"
    BY <2>1 DEF NextStep
  <2> QED
    BY <2>1, <2>2, <2>4, <2>5, <2>6
<1>6. CASE WriteStart
  <2>1. call'.instr = call.instr /\ call'.step = "poll" /\ call.step = "start"
    BY <1>6 DEF WriteStart, NextStep
  <2>2. ~late => job' = Fields(call.instr) /\ device' = "working"
    BY <1>6, FieldsWritten DEF WriteStart, Progress
  <2>3. AnswerIsOwn'
    BY <1>6 DEF WriteStart, AnswerIsOwn
  <2> QED
    BY <1>6, <2>1, <2>2, <2>3 DEF WriteStart, Progress
<1>7. CASE PollFinds
  BY <1>7 DEF PollFinds, deviceVars, Progress, AnswerIsOwn
<1>8. CASE PollGivesUp
  BY <1>8 DEF PollGivesUp, Returns, deviceVars, AnswerIsOwn
<1>9. CASE ReadCycles
  BY <1>9 DEF ReadCycles, deviceVars, Progress, AnswerIsOwn
<1>10. CASE ReadError
  BY <1>10 DEF ReadError, Returns, deviceVars, Progress, AnswerIsOwn
<1>11. CASE AccessRaises
  <2>1. AnswerIsOwn'
    BY <1>11 DEF AccessRaises, Returns, AnswerIsOwn
  <2>2. call' = NoCall /\ late' = (late \/ device = "working") /\ UNCHANGED <<hal, regs, device>>
    BY <1>11 DEF AccessRaises, Returns, deviceVars
  <2>3. call'.step = "none" /\ call'.instr = NoInstr /\ late' \in BOOLEAN
    BY <2>2
  <2>4. ~late' => Progress'
    BY <2>2, <2>3 DEF Progress
  <2> QED
    BY <2>1, <2>2, <2>3, <2>4
<1>12. CASE DeviceEnds
  BY <1>12 DEF DeviceEnds, Progress, RegsWritten, AnswerIsOwn
<1>13. OverlayNext => UNCHANGED halVars
  BY DEF OverlayNext, LoadBitstream, AllocateBuffer, FreeBuffer, FreeAllBuffers, CloseOverlay
<1>14. UNCHANGED pynqVars => UNCHANGED halVars
  BY DEF pynqVars
<1> QED
  BY <1>1, <1>2, <1>3, <1>4, <1>5, <1>6, <1>7, <1>8, <1>9, <1>10, <1>11, <1>12,
     <1>13, <1>14 DEF PynqNext, HalNext

-----------------------------------------------------------------------------
(* The list of buffers.                                                    *)
ListInv == listed \in Seq(Buffer) /\ BuffersTracked

(* RemoveAt on the list: one shorter, the later ones one place down.       *)
LEMMA TakenOut ==
    ASSUME NEW s \in Seq(Buffer), NEW i \in 1..Len(s)
    PROVE  /\ RemoveAt(s, i) \in Seq(Buffer)
           /\ Len(RemoveAt(s, i)) = Len(s) - 1
           /\ \A k \in 1..Len(s) - 1 : RemoveAt(s, i)[k] = IF k < i THEN s[k] ELSE s[k + 1]
<1> DEFINE a == SubSeq(s, 1, i - 1)
           b == SubSeq(s, i + 1, Len(s))
<1>1. /\ a \in Seq(Buffer) /\ Len(a) = i - 1
      /\ \A k \in 1..i - 1 : a[k] = s[k]
  <2>1. \A k \in 1..i - 1 : s[k] \in Buffer
    OBVIOUS
  <2> QED
    BY <2>1, SubSeqProperties
<1>2. /\ b \in Seq(Buffer) /\ Len(b) = Len(s) - i
      /\ \A k \in 1..Len(s) - i : b[k] = s[k + i]
  <2>1. \A k \in i + 1..Len(s) : s[k] \in Buffer
    OBVIOUS
  <2> QED
    BY <2>1, SubSeqProperties
<1> HIDE DEF a, b
<1>3. /\ a \o b \in Seq(Buffer) /\ Len(a \o b) = Len(s) - 1
      /\ \A k \in 1..Len(s) - 1 : (a \o b)[k] = IF k <= i - 1 THEN a[k] ELSE b[k - (i - 1)]
  <2>1. Len(a) + Len(b) = Len(s) - 1
    BY <1>1, <1>2
  <2>2. /\ a \o b \in Seq(Buffer) /\ Len(a \o b) = Len(a) + Len(b)
        /\ \A k \in 1..Len(a) + Len(b) :
              (a \o b)[k] = IF k <= Len(a) THEN a[k] ELSE b[k - Len(a)]
    BY <1>1, <1>2, ConcatProperties
  <2> QED
    BY <1>1, <2>1, <2>2
<1>4. RemoveAt(s, i) = a \o b
  BY DEF RemoveAt, a, b
<1>5. ASSUME NEW k \in 1..Len(s) - 1
      PROVE  (a \o b)[k] = IF k < i THEN s[k] ELSE s[k + 1]
  <2>1. CASE k < i
    BY <1>1, <1>3, <2>1
  <2>2. CASE ~(k < i)
    <3>1. k - (i - 1) \in 1..Len(s) - i /\ (k - (i - 1)) + i = k + 1 /\ ~(k <= i - 1)
      BY <2>2
    <3> QED
      BY <1>2, <1>3, <2>2, <3>1
  <2> QED
    BY <2>1, <2>2
<1> QED
  BY <1>3, <1>4, <1>5

(* A list without repetition loses exactly the buffer taken out.           *)
LEMMA ListStep == ListInv /\ [PynqNext]_pynqVars => ListInv'
<1> SUFFICES ASSUME ListInv, [PynqNext]_pynqVars PROVE ListInv'
  OBVIOUS
<1> USE DEF ListInv, BuffersTracked, ToSet
<1>1. CASE UNCHANGED <<listed, live>>
  BY <1>1
<1>2. ASSUME NEW b \in Buffer, AllocateBuffer(b) PROVE ListInv'
  BY <1>2 DEF AllocateBuffer
<1>3. ASSUME NEW b \in Buffer, NEW i \in DOMAIN listed, listed[i] = b,
             listed' = RemoveAt(listed, i), live' = live \ {b}
      PROVE  ListInv'
  <2>1. i \in 1..Len(listed)
    OBVIOUS
  <2>2. /\ listed' \in Seq(Buffer) /\ Len(listed') = Len(listed) - 1
        /\ \A k \in 1..Len(listed) - 1 :
              listed'[k] = IF k < i THEN listed[k] ELSE listed[k + 1]
    BY <1>3, <2>1, TakenOut
  <2>3. ToSet(listed') = live'
    <3>1. ASSUME NEW k \in 1..Len(listed) - 1
          PROVE  listed'[k] \in live'
      BY <1>3, <2>1, <2>2
    <3>2. ASSUME NEW x \in live'
          PROVE  \E k \in 1..Len(listed) - 1 : listed'[k] = x
      <4>1. PICK j \in 1..Len(listed) : listed[j] = x /\ j # i
        BY <1>3
      <4>2. CASE j < i
        BY <2>1, <2>2, <4>1, <4>2
      <4>3. CASE j > i
        <5>1. j - 1 \in 1..Len(listed) - 1 /\ ~(j - 1 < i) /\ (j - 1) + 1 = j
          BY <2>1, <4>3
        <5> QED
          BY <2>2, <4>1, <5>1
      <4> QED
        BY <2>1, <4>1, <4>2, <4>3
    <3> QED
      BY <2>2, <3>1, <3>2
  <2>4. \A k, j \in DOMAIN listed' : listed'[k] = listed'[j] => k = j
    <3> SUFFICES ASSUME NEW k \in 1..Len(listed) - 1, NEW j \in 1..Len(listed) - 1,
                        listed'[k] = listed'[j]
                 PROVE  k = j
      BY <2>2
    <3> DEFINE was(m) == IF m < i THEN m ELSE m + 1
    <3>0. Len(listed) \in Nat
      OBVIOUS
    <3>1. was(k) \in 1..Len(listed) /\ was(j) \in 1..Len(listed)
      BY <2>1, <3>0
    <3>4. was(k) = was(j) => k = j
      BY <2>1, <3>0
    <3>2. listed'[k] = listed[was(k)] /\ listed'[j] = listed[was(j)]
      <4>1. CASE k < i
        BY <2>2, <4>1
      <4>2. CASE ~(k < i)
        BY <2>2, <4>2
      <4> QED
        BY <4>1, <4>2
    <3> HIDE DEF was
    <3>5. \A p, q \in 1..Len(listed) : listed[p] = listed[q] => p = q
      OBVIOUS
    <3>3. was(k) = was(j)
      <4>1. listed[was(k)] = listed[was(j)]
        BY <3>2
      <4> QED
        BY <3>1, <3>5, <4>1, Zenon
    <3> QED
      BY <3>3, <3>4
  <2> QED
    BY <2>2, <2>3, <2>4
<1>4. ASSUME NEW b \in Buffer, FreeBuffer(b) PROVE ListInv'
  <2>1. CASE UNCHANGED <<listed, live>>
    BY <2>1, <1>1
  <2>2. CASE b \notin ToSet(listed) /\ UNCHANGED listed /\ live' = live \ {b}
    BY <2>2
  <2> QED
    BY <1>3, <1>4, <2>1, <2>2 DEF FreeBuffer, Unlist
<1>5. CASE FreeAllBuffers \/ CloseOverlay
  <2>1. listed' = <<>> /\ live' = {}
    BY <1>5 DEF FreeAllBuffers, CloseOverlay
  <2> QED
    BY <2>1
<1>6. HalNext \/ LoadBitstream => UNCHANGED <<listed, live>>
  BY DEF HalNext, OpenHal, CloseHal, Execute, WriteField, WriteStart, PollFinds, PollGivesUp,
         ReadCycles, ReadError, AccessRaises, DeviceEnds, LoadBitstream, overlayVars
<1>7. UNCHANGED pynqVars => UNCHANGED <<listed, live>>
  BY DEF pynqVars, overlayVars
<1> QED
  BY <1>1, <1>2, <1>4, <1>5, <1>6, <1>7 DEF PynqNext, OverlayNext

(* execute of PYNQHAL, for any number of polls and instructions: unless a  *)
(* call has given up on a working device, the cycles of an answer that     *)
(* says OK are those of its own instruction, whole.                        *)
THEOREM AnswersAreOwn == PynqSpec => []AnswerIsOwn
<1>1. HalInv => AnswerIsOwn
  BY DEF HalInv
<1> QED
  BY <1>1, HalInit, HalStep, PTL DEF PynqSpec

(* allocate_buffer, free_buffer, free_all_buffers and close: the list of   *)
(* buffers and the memory allocated stay the same, for any buffers.        *)
THEOREM BuffersAlwaysTracked == PynqSpec => []BuffersTracked
<1>1. PynqInit => ListInv
  BY DEF PynqInit, ListInv, BuffersTracked, ToSet
<1>2. ListInv => BuffersTracked
  BY DEF ListInv
<1> QED
  BY <1>1, <1>2, ListStep, PTL DEF PynqSpec

-----------------------------------------------------------------------------
(***************************************************************************)
(* The DMA engine.                                                         *)
(***************************************************************************)
EngineState ==
    [state : {"idle", "issue", "transfer", "complete"}, done : BOOLEAN, rd : BOOLEAN,
     wr : BOOLEAN, len : {1, 16}, remaining : Nat, moved : Nat, total : Nat, bursts : Nat]

(* Full bursts have been moved until the last one.                         *)
EngineInv ==
    /\ dma \in EngineState
    /\ dma.state # "idle" => dma.moved + dma.remaining = dma.total
    /\ dma.state \in {"issue", "transfer"} =>
          /\ dma.moved = Burst * dma.bursts
          /\ dma.remaining > 0 \/ dma.bursts = 0
    /\ TransferExact

LEMMA EngineInit == DmaInit => EngineInv
BY DEF DmaInit, EngineInv, EngineState, DmaReset, TransferExact

(* One step per state of the engine, whatever the memory answers.          *)
LEMMA EngineEdge ==
    ASSUME EngineInv, NEW start \in BOOLEAN, NEW n \in ByteCount, NEW toHbm \in BOOLEAN,
           NEW ready \in BOOLEAN, NEW done \in BOOLEAN,
           DmaEdge(start, n, toHbm, ready, done)
    PROVE  EngineInv'
<1>0. dma \in EngineState /\ n \in Nat
  BY DmaAssumption DEF EngineInv
<1>1. CASE DmaIdle(start, n)
  <2>1. CASE start
    <3>1. /\ dma' \in EngineState
          /\ dma'.state = "issue" /\ dma'.moved = 0 /\ dma'.remaining = n
          /\ dma'.total = n /\ dma'.bursts = 0
      BY <1>0, <1>1, <2>1 DEF DmaIdle, EngineState
    <3> QED
      BY <1>0, <3>1 DEF EngineInv, TransferExact, Burst
  <2>2. CASE ~start
    <3>1. dma' \in EngineState /\ dma'.state = "idle"
      BY <1>0, <1>1, <2>2 DEF DmaIdle, EngineState
    <3> QED
      BY <3>1 DEF EngineInv, TransferExact
  <2> QED
    BY <2>1, <2>2
<1>2. CASE DmaIssue(toHbm, ready)
  <2> DEFINE r == ~toHbm /\ ~ready
             w == toHbm /\ ~ready
             l == IF dma.remaining > Burst THEN 16 ELSE 1
             s == IF ready THEN "transfer" ELSE "issue"
  <2>0. /\ dma' = [dma EXCEPT !.rd = r, !.wr = w, !.len = l, !.state = s]
        /\ r \in BOOLEAN /\ w \in BOOLEAN /\ l \in {1, 16} /\ s \in {"issue", "transfer"}
    BY <1>2 DEF DmaIssue
  <2> HIDE DEF r, w, l, s
  <2>1. /\ dma' \in EngineState
        /\ dma'.state \in {"issue", "transfer"} /\ dma'.moved = dma.moved
        /\ dma'.remaining = dma.remaining /\ dma'.total = dma.total
        /\ dma'.bursts = dma.bursts
    BY <1>0, <2>0 DEF EngineState
  <2>2. dma.state = "issue"
    BY <1>2 DEF DmaIssue
  <2> QED
    BY <2>1, <2>2 DEF EngineInv, TransferExact
<1>3. CASE DmaTransfer(done)
  <2> DEFINE m == IF dma.remaining > Burst THEN Burst ELSE dma.remaining
  <2>1. CASE ~done
    BY <1>3, <2>1 DEF DmaTransfer, EngineInv, TransferExact
  <2>2. CASE done
    <3>1. /\ dma' \in EngineState
          /\ dma'.state = IF dma.remaining <= Burst THEN "complete" ELSE "issue"
          /\ dma'.moved = dma.moved + m /\ dma'.remaining = dma.remaining - m
          /\ dma'.total = dma.total /\ dma'.bursts = dma.bursts + 1
      <4>1. m \in Nat /\ dma.remaining - m \in Nat
        BY <1>0 DEF EngineState, Burst
      <4> DEFINE s == IF dma.remaining <= Burst THEN "complete" ELSE "issue"
      <4>2. dma' = [dma EXCEPT !.moved = dma.moved + m, !.remaining = dma.remaining - m,
                               !.bursts = dma.bursts + 1, !.state = s]
        BY <1>3, <2>2 DEF DmaTransfer, LastBurst
      <4>3. s \in {"complete", "issue"}
        OBVIOUS
      <4> HIDE DEF m, s
      <4>4. dma.moved + m \in Nat /\ dma.bursts + 1 \in Nat
        BY <1>0, <4>1 DEF EngineState
      <4>5. dma' \in EngineState
        BY <1>0, <4>1, <4>2, <4>3, <4>4 DEF EngineState
      <4>6. /\ dma'.state = s /\ dma'.moved = dma.moved + m
            /\ dma'.remaining = dma.remaining - m
            /\ dma'.total = dma.total /\ dma'.bursts = dma.bursts + 1
        BY <1>0, <4>2 DEF EngineState
      <4> QED
        BY <4>5, <4>6 DEF s
    <3>2. /\ dma.moved + dma.remaining = dma.total /\ dma.moved = Burst * dma.bursts
          /\ dma.remaining > 0 \/ dma.bursts = 0
          /\ dma.remaining \in Nat /\ dma.moved \in Nat /\ dma.bursts \in Nat
      BY <1>0, <1>3 DEF DmaTransfer, EngineInv, EngineState
    <3>3. CASE dma.remaining <= Burst
      <4>1. /\ dma'.state = "complete" /\ dma'.remaining = 0
            /\ dma'.moved = dma'.total /\ dma'.bursts - 1 = dma.bursts
        BY <3>1, <3>2, <3>3 DEF Burst
      <4>2. dma'.total > 0 => 1024 * dma.bursts < dma'.total
        BY <3>1, <3>2, <3>3 DEF Burst
      <4>3. dma'.total = 0 => dma.bursts = 0
        BY <3>1, <3>2, <3>3 DEF Burst
      <4>4. dma'.moved + dma'.remaining = dma'.total
        BY <3>1, <3>2, <4>1
      <4> QED
        BY <3>1, <3>2, <4>1, <4>2, <4>3, <4>4 DEF EngineInv, TransferExact, Burst
    <3>4. CASE dma.remaining > Burst
      BY <3>1, <3>2, <3>4 DEF EngineInv, TransferExact, Burst
    <3> QED
      BY <3>2, <3>3, <3>4 DEF Burst
  <2> QED
    BY <2>1, <2>2
<1>4. CASE DmaComplete
  <2>1. dma' \in EngineState /\ dma'.state = "idle"
    BY <1>0, <1>4 DEF DmaComplete, EngineState
  <2> QED
    BY <2>1 DEF EngineInv, TransferExact
<1> QED
  BY <1>1, <1>2, <1>3, <1>4 DEF DmaEdge

-----------------------------------------------------------------------------
(***************************************************************************)
(* The memory controller.                                                  *)
(***************************************************************************)
Beat == [word : Nat, last : BOOLEAN]

ControllerState ==
    [state : {"idle", "read", "write"}, ready : BOOLEAN, done : BOOLEAN, beat : 0..255,
     addr : Nat, tvalid : BOOLEAN, tlast : BOOLEAN, tdata : Nat, sready : BOOLEAN,
     asked : 0..255, steady : BOOLEAN, taken : Seq(Beat)]

InOrder(s) == \A i \in 1..Len(s) : s[i].word = i - 1

Unmarked(s) == \A i \in 1..Len(s) : ~s[i].last

(* A read shows the word before the address, and has given away those      *)
(* before that one.                                                        *)
ReadInv ==
    (hbm.state = "read" /\ hbm.steady) =>
        /\ hbm.addr + hbm.beat = hbm.asked
        /\ hbm.tvalid <=> hbm.addr > 0
        /\ hbm.addr > 0 => hbm.tdata = hbm.addr - 1 /\ (hbm.tlast <=> hbm.beat = 0)
        /\ Len(hbm.taken) = IF hbm.addr > 0 THEN hbm.addr - 1 ELSE 0
        /\ InOrder(hbm.taken) /\ Unmarked(hbm.taken)

(* A write has stored as many beats as its address says.                   *)
WriteInv ==
    last = "write" =>
        /\ hbm.state \in {"write", "idle"}
        /\ InOrder(hbm.taken)
        /\ hbm.state = "write" =>
              /\ hbm.addr = Len(hbm.taken) /\ hbm.addr + hbm.beat = hbm.asked
              /\ Unmarked(hbm.taken)
        /\ hbm.state = "idle" =>
              /\ Len(hbm.taken) <= hbm.asked + 1
              /\ \A i \in 1..Len(hbm.taken) : hbm.taken[i].last => i = Len(hbm.taken)

(* At the end of a read burst nothing is missing.                          *)
ReadDone ==
    (hbm.done /\ last = "read" /\ hbm.steady) =>
        /\ Len(hbm.taken) = hbm.asked
        /\ InOrder(hbm.taken)
        /\ \A i \in 1..hbm.asked : hbm.taken[i].last <=> i = hbm.asked

(* The inductive invariant.                                                *)
ControllerInv ==
    /\ hbm \in ControllerState
    /\ hbm.done => hbm.state = "idle"
    /\ hbm.state \in {"read", "write"} => last = hbm.state
    /\ ReadInv /\ WriteInv /\ ReadDone

(* What Append does to the beats taken.                                    *)
LEMMA BeatAdded ==
    ASSUME NEW s \in Seq(Beat), NEW w \in Nat, NEW l \in BOOLEAN
    PROVE  LET t == Append(s, [word |-> w, last |-> l])
           IN  /\ t \in Seq(Beat) /\ Len(t) = Len(s) + 1
               /\ \A i \in 1..Len(s) : t[i] = s[i]
               /\ t[Len(s) + 1].word = w
               /\ t[Len(s) + 1].last <=> l
<1> DEFINE e == [word |-> w, last |-> l]
<1>1. e \in Beat /\ e.word = w /\ (e.last <=> l)
  BY DEF Beat
<1> HIDE DEF e
<1> QED
  BY <1>1 DEF e

(* The registers the arithmetic is about.                                  *)
LEMMA RegistersTyped ==
    ASSUME NEW h \in ControllerState
    PROVE  /\ h.addr \in Nat /\ h.beat \in 0..255 /\ h.beat \in Nat /\ h.asked \in Nat
           /\ h.tdata \in Nat /\ h.tlast \in BOOLEAN /\ h.taken \in Seq(Beat)
<1>1. h.addr \in Nat
  BY DEF ControllerState
<1>2. h.beat \in 0..255
  BY DEF ControllerState
<1>b. h.beat \in Nat
  BY <1>2
<1>3. h.asked \in Nat
  <2>1. h.asked \in 0..255
    BY DEF ControllerState
  <2> QED
    BY <2>1
<1>a. h.tlast \in BOOLEAN
  BY DEF ControllerState
<1>4. h.tdata \in Nat
  BY DEF ControllerState
<1>5. h.taken \in Seq(Beat)
  BY DEF ControllerState
<1> QED
  BY <1>1, <1>2, <1>a, <1>b, <1>3, <1>4, <1>5

(* The beat counter is eight bits wide.                                    *)
LEMMA CountsDown ==
    ASSUME NEW b \in 0..255
    PROVE  (b + 255) % 256 = IF b = 0 THEN 255 ELSE b - 1
<1>1. CASE b = 0
  BY <1>1
<1>2. CASE b > 0
  <2>1. b + 255 = 256 + (b - 1)
    OBVIOUS
  <2> QED
    BY <1>2, <2>1, SMTT(30)
<1> QED
  BY <1>1, <1>2

(* The invariant gives the property.                                       *)
LEMMA InvDelivers == ControllerInv => BurstDelivered
<1> SUFFICES ASSUME ControllerInv PROVE BurstDelivered
  OBVIOUS
<1>0. hbm.taken \in Seq(Beat) /\ hbm.asked \in 0..255
  BY DEF ControllerInv, ControllerState
<1>1. ASSUME hbm.done, last = "read", hbm.steady
      PROVE  /\ Len(hbm.taken) = hbm.asked
             /\ \A i \in 1..hbm.asked : /\ hbm.taken[i].word = i - 1
                                        /\ hbm.taken[i].last <=> i = hbm.asked
  BY <1>1 DEF ControllerInv, ReadDone, InOrder
<1>2. ASSUME last = "write"
      PROVE  /\ Len(hbm.taken) <= hbm.asked + 1
             /\ \A i \in DOMAIN hbm.taken :
                   /\ hbm.taken[i].word = i - 1
                   /\ hbm.taken[i].last => i = Len(hbm.taken) /\ hbm.state = "idle"
  <2>0. DOMAIN hbm.taken = 1..Len(hbm.taken)
    BY <1>0
  <2>1. InOrder(hbm.taken) /\ WriteInv /\ hbm.state \in {"write", "idle"}
    BY <1>2 DEF ControllerInv, WriteInv
  <2>2. CASE hbm.state = "write"
    <3>1. Unmarked(hbm.taken) /\ hbm.asked = Len(hbm.taken) + hbm.beat
      BY <1>2, <2>1, <2>2 DEF WriteInv
    <3>2. hbm.beat \in Nat
      <4>1. hbm \in ControllerState
        BY DEF ControllerInv
      <4> QED
        BY <4>1, RegistersTyped, Zenon
    <3>3. Len(hbm.taken) <= hbm.asked + 1
      BY <1>0, <3>1, <3>2
    <3> QED
      BY <2>0, <2>1, <3>1, <3>3 DEF InOrder, Unmarked
  <2>3. CASE hbm.state = "idle"
    BY <1>2, <2>0, <2>1, <2>3 DEF WriteInv, InOrder
  <2> QED
    BY <2>1, <2>2, <2>3
<1> QED
  BY <1>1, <1>2 DEF BurstDelivered

LEMMA ControllerReset ==
    /\ HbmReset \in ControllerState
    /\ HbmReset.state = "idle" /\ ~HbmReset.done
<1>1. <<>> \in Seq(Beat)
  OBVIOUS
<1> QED
  BY <1>1 DEF HbmReset, ControllerState

LEMMA ControllerInit == DmaInit => ControllerInv
<1>1. <<>> \in Seq(Beat) /\ Len(<<>>) = 0
  OBVIOUS
<1> SUFFICES ASSUME DmaInit PROVE ControllerInv
  OBVIOUS
<1>2. hbm \in ControllerState /\ hbm.state = "idle" /\ ~hbm.done /\ last = "none"
  BY ControllerReset DEF DmaInit
<1> QED
  BY <1>2 DEF ControllerInv, ReadInv, WriteInv, ReadDone

(* One lemma per state of the controller, for any input.                   *)
LEMMA IdleEdge ==
    ASSUME ControllerInv, NEW rd \in BOOLEAN, NEW wr \in BOOLEAN, NEW len \in 0..255,
           HbmIdle(rd, wr, len)
    PROVE  ControllerInv'
<1>0. hbm \in ControllerState /\ hbm.state = "idle"
  BY DEF ControllerInv, HbmIdle
<1>1. CASE hbm.ready /\ (rd \/ wr)
  <2> DEFINE s == IF rd THEN "read" ELSE "write"
             r == ~rd
             l == hbm.tlast
  <2>1. /\ hbm' = [state |-> s, ready |-> FALSE, done |-> FALSE, beat |-> len, addr |-> 0,
                   tvalid |-> FALSE, tlast |-> l, tdata |-> 0, sready |-> r,
                   asked |-> len, steady |-> TRUE, taken |-> <<>>]
        /\ last' = s
    BY <1>1 DEF HbmIdle, HbmReset
  <2>2. s \in {"read", "write"} /\ r \in BOOLEAN /\ l \in BOOLEAN
    BY <1>0 DEF ControllerState
  <2> HIDE DEF s, r, l
  <2>3. <<>> \in Seq(Beat) /\ Len(<<>>) = 0
    OBVIOUS
  <2>4. hbm' \in ControllerState
    BY <2>1, <2>2, <2>3 DEF ControllerState
  <2>5. /\ hbm'.state = last' /\ last' \in {"read", "write"} /\ ~hbm'.done /\ hbm'.addr = 0
        /\ hbm'.beat = len /\ hbm'.asked = len /\ ~hbm'.tvalid /\ hbm'.taken = <<>>
    <3>1. hbm'.state = last' /\ last' \in {"read", "write"} /\ ~hbm'.done
      BY <2>1, <2>2
    <3>2. hbm'.addr = 0 /\ hbm'.beat = len /\ hbm'.asked = len
      BY <2>1
    <3>3. ~hbm'.tvalid /\ hbm'.taken = <<>>
      BY <2>1
    <3> QED
      BY <3>1, <3>2, <3>3
  <2>6. ReadInv'
    <3>1. hbm'.addr + hbm'.beat = hbm'.asked /\ ~(hbm'.addr > 0)
      BY <2>5
    <3>2. hbm'.tvalid <=> hbm'.addr > 0
      BY <2>5, <3>1
    <3>3. Len(hbm'.taken) = 0 /\ InOrder(hbm'.taken) /\ Unmarked(hbm'.taken)
      BY <2>5 DEF InOrder, Unmarked
    <3> QED
      BY <3>1, <3>2, <3>3 DEF ReadInv, InOrder, Unmarked
  <2>7. WriteInv'
    BY <2>5 DEF WriteInv, InOrder, Unmarked
  <2> QED
    BY <2>4, <2>5, <2>6, <2>7 DEF ControllerInv, ReadDone
<1>2. CASE ~(hbm.ready /\ (rd \/ wr))
  <2> DEFINE t == TRUE
             f == FALSE
  <2>1. /\ hbm' = [hbm EXCEPT !.ready = t, !.done = f, !.tvalid = f, !.sready = f]
        /\ last' = last /\ t \in BOOLEAN /\ f \in BOOLEAN /\ ~f
    BY <1>2 DEF HbmIdle
  <2> HIDE DEF t, f
  <2>2. hbm' \in ControllerState
    <3>1. hbm' = [state |-> hbm.state, ready |-> t, done |-> f, beat |-> hbm.beat,
                  addr |-> hbm.addr, tvalid |-> f, tlast |-> hbm.tlast, tdata |-> hbm.tdata,
                  sready |-> f, asked |-> hbm.asked, steady |-> hbm.steady,
                  taken |-> hbm.taken]
      BY <1>0, <2>1 DEF ControllerState
    <3>2. /\ hbm.tlast \in BOOLEAN /\ hbm.steady \in BOOLEAN /\ hbm.asked \in 0..255
          /\ hbm.beat \in 0..255
      BY <1>0 DEF ControllerState
    <3>3. hbm.addr \in Nat /\ hbm.tdata \in Nat /\ hbm.taken \in Seq(Beat)
      BY <1>0 DEF ControllerState
    <3> QED
      BY <1>0, <2>1, <3>1, <3>2, <3>3 DEF ControllerState
  <2>3. /\ hbm'.state = "idle" /\ ~hbm'.done /\ hbm'.taken = hbm.taken
        /\ hbm'.asked = hbm.asked
    BY <1>0, <2>1 DEF ControllerState
  <2>4. WriteInv'
    BY <1>0, <2>1, <2>3 DEF ControllerInv, WriteInv
  <2> QED
    BY <2>2, <2>3, <2>4 DEF ControllerInv, ReadInv, ReadDone
<1> QED
  BY <1>1, <1>2

LEMMA ReadEdge ==
    ASSUME ControllerInv, NEW tready \in BOOLEAN, HbmRead(tready)
    PROVE  ControllerInv'
<1>0. hbm \in ControllerState /\ hbm.state = "read" /\ last = "read"
  BY DEF ControllerInv, HbmRead
<1>t. hbm.taken \in Seq(Beat) /\ Len(hbm.taken) \in Nat
  BY <1>0 DEF ControllerState
<1> DEFINE ends == tready /\ hbm.beat = 0
           st == IF ends THEN "idle" ELSE "read"
           tv == ~ends
           tl == (hbm.beat = 1)
           bt == IF tready THEN (hbm.beat + 255) % 256 ELSE hbm.beat
           ad == IF tready THEN hbm.addr + 1 ELSE hbm.addr
           sd == hbm.steady /\ tready
           tk == IF hbm.tvalid /\ tready
                 THEN Append(hbm.taken, [word |-> hbm.tdata, last |-> hbm.tlast])
                 ELSE hbm.taken
<1>1. /\ hbm' = [hbm EXCEPT !.tvalid = tv, !.tdata = hbm.addr, !.tlast = tl, !.beat = bt,
                            !.addr = ad, !.state = st, !.done = ends, !.steady = sd,
                            !.taken = tk]
      /\ last' = "read"
  BY <1>0 DEF HbmRead, ReadEnds
<1>2. /\ st \in {"idle", "read"} /\ tv \in BOOLEAN /\ tl \in BOOLEAN
      /\ ends \in BOOLEAN /\ sd \in BOOLEAN /\ ad \in Nat
  BY <1>0 DEF ControllerState
<1>3. bt \in 0..255
  <2>1. hbm.beat \in 0..255
    BY <1>0, RegistersTyped, Zenon
  <2>2. CASE tready
    BY <2>1, <2>2, CountsDown
  <2>3. CASE ~tready
    BY <2>1, <2>3
  <2> QED
    BY <2>2, <2>3
<1>4. tk \in Seq(Beat)
  <2>1. hbm.tdata \in Nat /\ hbm.tlast \in BOOLEAN
    BY <1>0 DEF ControllerState
  <2> QED
    BY <1>t, <2>1, BeatAdded
<1> HIDE DEF ends, st, tv, tl, bt, ad, sd, tk
<1>5. hbm' \in ControllerState
  <2>1. hbm' = [state |-> st, ready |-> hbm.ready, done |-> ends, beat |-> bt, addr |-> ad,
                tvalid |-> tv, tlast |-> tl, tdata |-> hbm.addr, sready |-> hbm.sready,
                asked |-> hbm.asked, steady |-> sd, taken |-> tk]
    BY <1>0, <1>1 DEF ControllerState
  <2>2. /\ hbm.ready \in BOOLEAN /\ hbm.sready \in BOOLEAN /\ hbm.asked \in 0..255
        /\ hbm.addr \in Nat
    BY <1>0 DEF ControllerState
  <2> QED
    BY <2>1, <2>2, <1>2, <1>3, <1>4 DEF ControllerState
<1>6. /\ hbm'.tvalid = tv /\ hbm'.tdata = hbm.addr /\ hbm'.tlast = tl /\ hbm'.beat = bt
      /\ hbm'.addr = ad /\ hbm'.state = st
  BY <1>0, <1>1 DEF ControllerState
<1>7. hbm'.done = ends /\ hbm'.steady = sd /\ hbm'.taken = tk /\ hbm'.asked = hbm.asked
  BY <1>0, <1>1 DEF ControllerState
<1>8. ASSUME sd
      PROVE  /\ Len(tk) = hbm.addr
             /\ \A i \in 1..Len(tk) : tk[i].word = i - 1
             /\ \A i \in 1..Len(tk) : tk[i].last <=> i = hbm.asked
             /\ hbm.addr + hbm.beat = hbm.asked
  <2>1. tready /\ hbm.steady
    BY <1>8 DEF sd
  <2>2. /\ hbm.addr + hbm.beat = hbm.asked
        /\ hbm.tvalid <=> hbm.addr > 0
        /\ hbm.addr > 0 => hbm.tdata = hbm.addr - 1 /\ (hbm.tlast <=> hbm.beat = 0)
        /\ Len(hbm.taken) = IF hbm.addr > 0 THEN hbm.addr - 1 ELSE 0
        /\ InOrder(hbm.taken) /\ Unmarked(hbm.taken)
    BY <1>0, <2>1 DEF ControllerInv, ReadInv
  <2>3. hbm.addr \in Nat /\ hbm.beat \in Nat /\ hbm.asked \in Nat
    BY <1>0, RegistersTyped, Zenon
  <2>4. CASE hbm.addr = 0
    <3>1. tk = hbm.taken
      BY <2>2, <2>3, <2>4 DEF tk
    <3>2. Len(tk) = 0
      BY <2>2, <2>4, <3>1
    <3> QED
      BY <2>2, <2>4, <3>2
  <2>5. CASE hbm.addr > 0
    <3>1. tk = Append(hbm.taken, [word |-> hbm.tdata, last |-> hbm.tlast])
      BY <2>1, <2>2, <2>5 DEF tk
    <3>2. hbm.tdata \in Nat /\ hbm.tlast \in BOOLEAN
      BY <1>0 DEF ControllerState
    <3>3. /\ Len(tk) = Len(hbm.taken) + 1
          /\ \A i \in 1..Len(hbm.taken) : tk[i] = hbm.taken[i]
          /\ tk[Len(hbm.taken) + 1].word = hbm.tdata
          /\ tk[Len(hbm.taken) + 1].last <=> hbm.tlast
      BY <1>t, <3>1, <3>2, BeatAdded
    <3>4. Len(hbm.taken) = hbm.addr - 1 /\ Len(tk) = hbm.addr
      BY <2>2, <2>3, <2>5, <3>3
    <3>5. ASSUME NEW i \in 1..Len(tk)
          PROVE  tk[i].word = i - 1 /\ (tk[i].last <=> i = hbm.asked)
      <4>1. CASE i = hbm.addr
        <5>1. i = Len(hbm.taken) + 1
          BY <3>4, <4>1, <2>3
        <5>2. tk[i].word = hbm.tdata /\ (tk[i].last <=> hbm.tlast)
          BY <3>3, <5>1
        <5>3. hbm.beat = 0 <=> i = hbm.asked
          BY <2>2, <2>3, <4>1
        <5> QED
          BY <2>2, <2>5, <4>1, <5>2, <5>3
      <4>2. CASE i # hbm.addr
        <5>1. i \in 1..Len(hbm.taken) /\ i # hbm.asked
          BY <2>2, <2>3, <3>4, <4>2
        <5>2. tk[i] = hbm.taken[i]
          BY <3>3, <5>1
        <5> QED
          BY <2>2, <5>1, <5>2 DEF InOrder, Unmarked
      <4> QED
        BY <4>1, <4>2
    <3> QED
      BY <2>2, <3>4, <3>5
  <2> QED
    BY <2>3, <2>4, <2>5
<1>n. hbm.addr \in Nat /\ hbm.beat \in 0..255 /\ hbm.beat \in Nat /\ hbm.asked \in Nat
  BY <1>0, RegistersTyped, Zenon
<1>9. ReadInv'
  <2>1. ASSUME st = "read", sd
        PROVE  /\ ad + bt = hbm.asked /\ tv /\ ad = hbm.addr + 1 /\ (tl <=> bt = 0)
               /\ Len(tk) = ad - 1 /\ InOrder(tk) /\ Unmarked(tk)
    <3>1. tready /\ hbm.beat > 0 /\ tv
      BY <1>n, <2>1 DEF sd, st, ends, tv
    <3>2. bt = hbm.beat - 1 /\ ad = hbm.addr + 1
      BY <1>n, <3>1, CountsDown DEF bt, ad
    <3>3. tl <=> bt = 0
      BY <1>n, <3>1, <3>2 DEF tl
    <3>4. InOrder(tk)
      BY <1>8, <2>1 DEF InOrder
    <3>5. Unmarked(tk)
      BY <1>8, <2>1, <3>1, <1>n DEF Unmarked
    <3>6. Len(tk) = hbm.addr /\ hbm.addr + hbm.beat = hbm.asked
      BY <1>8, <2>1
    <3>7. ad + bt = hbm.asked
      <4>1. (hbm.addr + 1) + (hbm.beat - 1) = hbm.addr + hbm.beat
        BY <1>n
      <4> QED
        BY <3>2, <3>6, <4>1
    <3>8. Len(tk) = ad - 1
      BY <1>n, <3>2, <3>6
    <3> QED
      BY <3>1, <3>2, <3>3, <3>4, <3>5, <3>7, <3>8
  <2>2. ASSUME hbm'.state = "read", hbm'.steady
        PROVE  /\ hbm'.addr + hbm'.beat = hbm'.asked
               /\ hbm'.tvalid <=> hbm'.addr > 0
               /\ hbm'.addr > 0 =>
                     hbm'.tdata = hbm'.addr - 1 /\ (hbm'.tlast <=> hbm'.beat = 0)
               /\ Len(hbm'.taken) = IF hbm'.addr > 0 THEN hbm'.addr - 1 ELSE 0
               /\ InOrder(hbm'.taken) /\ Unmarked(hbm'.taken)
    <3>1. st = "read" /\ sd
      BY <1>6, <1>7, <2>2
    <3> QED
      BY <1>6, <1>7, <1>n, <2>1, <3>1
  <2> QED
    BY <2>2 DEF ReadInv, InOrder, Unmarked
<1>10. ReadDone'
  <2>1. ASSUME ends, sd
        PROVE  /\ Len(tk) = hbm.asked /\ InOrder(tk)
               /\ \A i \in 1..hbm.asked : tk[i].last <=> i = hbm.asked
    <3>1. hbm.addr = hbm.asked
      BY <1>8, <1>n, <2>1 DEF ends
    <3> QED
      BY <1>8, <2>1, <3>1 DEF InOrder
  <2> QED
    BY <1>7, <2>1 DEF ReadDone, InOrder
<1>11. hbm'.done => hbm'.state = "idle"
  BY <1>6, <1>7 DEF st
<1>12. hbm'.state \in {"read", "write"} => last' = hbm'.state
  BY <1>1, <1>2, <1>6
<1> QED
  BY <1>1, <1>5, <1>9, <1>10, <1>11, <1>12 DEF ControllerInv, WriteInv

LEMMA WriteEdge ==
    ASSUME ControllerInv, NEW tvalid \in BOOLEAN, NEW tlast \in BOOLEAN,
           HbmWrite(tvalid, tlast)
    PROVE  ControllerInv'
<1>0. hbm \in ControllerState /\ hbm.state = "write" /\ last = "write"
  BY DEF ControllerInv, HbmWrite
<1>t. hbm.taken \in Seq(Beat) /\ Len(hbm.taken) \in Nat
  BY <1>0 DEF ControllerState
<1>n. hbm.addr \in Nat /\ hbm.beat \in 0..255 /\ hbm.beat \in Nat /\ hbm.asked \in Nat
  BY <1>0, RegistersTyped, Zenon
<1> DEFINE ends == tvalid /\ (tlast \/ hbm.beat = 0)
           st == IF ends THEN "idle" ELSE "write"
           sr == ~ends
           bt == IF tvalid THEN (hbm.beat + 255) % 256 ELSE hbm.beat
           ad == IF tvalid THEN hbm.addr + 1 ELSE hbm.addr
           tk == IF tvalid THEN Append(hbm.taken, [word |-> hbm.addr, last |-> tlast])
                 ELSE hbm.taken
<1>1. /\ hbm' = [hbm EXCEPT !.sready = sr, !.state = st, !.done = ends, !.beat = bt,
                            !.addr = ad, !.taken = tk]
      /\ last' = "write"
  BY <1>0 DEF HbmWrite
<1>2. /\ st \in {"idle", "write"} /\ sr \in BOOLEAN /\ ends \in BOOLEAN /\ ad \in Nat
  BY <1>n
<1>3. bt \in 0..255
  BY <1>n, CountsDown
<1>4. tk \in Seq(Beat)
  BY <1>t, <1>n, BeatAdded
<1> HIDE DEF ends, st, sr, bt, ad, tk
<1>5. hbm' \in ControllerState
  <2>1. hbm' = [state |-> st, ready |-> hbm.ready, done |-> ends, beat |-> bt, addr |-> ad,
                tvalid |-> hbm.tvalid, tlast |-> hbm.tlast, tdata |-> hbm.tdata,
                sready |-> sr, asked |-> hbm.asked, steady |-> hbm.steady, taken |-> tk]
    BY <1>0, <1>1 DEF ControllerState
  <2>2. /\ hbm.ready \in BOOLEAN /\ hbm.tvalid \in BOOLEAN /\ hbm.tlast \in BOOLEAN
        /\ hbm.steady \in BOOLEAN /\ hbm.asked \in 0..255 /\ hbm.tdata \in Nat
    BY <1>0 DEF ControllerState
  <2> QED
    BY <2>1, <2>2, <1>2, <1>3, <1>4 DEF ControllerState
<1>6. /\ hbm'.state = st /\ hbm'.done = ends /\ hbm'.beat = bt /\ hbm'.addr = ad
      /\ hbm'.taken = tk /\ hbm'.asked = hbm.asked
  BY <1>0, <1>1 DEF ControllerState
<1>7. /\ hbm.addr = Len(hbm.taken) /\ hbm.addr + hbm.beat = hbm.asked
      /\ InOrder(hbm.taken) /\ Unmarked(hbm.taken)
  BY <1>0 DEF ControllerInv, WriteInv
<1>8. CASE tvalid
  <2>1. tk = Append(hbm.taken, [word |-> hbm.addr, last |-> tlast])
    BY <1>8 DEF tk
  <2>2. /\ Len(tk) = Len(hbm.taken) + 1
        /\ \A i \in 1..Len(hbm.taken) : tk[i] = hbm.taken[i]
        /\ tk[Len(hbm.taken) + 1].word = hbm.addr
        /\ tk[Len(hbm.taken) + 1].last <=> tlast
    BY <1>t, <1>n, <2>1, BeatAdded
  <2>3. ASSUME NEW i \in 1..Len(tk)
        PROVE  tk[i].word = i - 1 /\ (tk[i].last <=> i = Len(tk) /\ tlast)
    <3>1. CASE i = Len(tk)
      <4>1. i = Len(hbm.taken) + 1 /\ i - 1 = hbm.addr
        BY <1>7, <1>t, <1>n, <2>2, <3>1
      <4> QED
        BY <2>2, <3>1, <4>1
    <3>2. CASE i # Len(tk)
      <4>1. i \in 1..Len(hbm.taken)
        BY <1>t, <2>2, <3>2
      <4>2. tk[i] = hbm.taken[i]
        BY <2>2, <4>1
      <4> QED
        BY <1>7, <3>2, <4>1, <4>2 DEF InOrder, Unmarked
    <3> QED
      BY <3>1, <3>2
  <2>4. InOrder(tk)
    BY <2>3 DEF InOrder
  <2>5. ASSUME st = "write"
        PROVE  ad = Len(tk) /\ ad + bt = hbm.asked /\ Unmarked(tk)
    <3>1. ~tlast /\ hbm.beat > 0
      BY <1>8, <1>n, <2>5 DEF st, ends
    <3>2. bt = hbm.beat - 1 /\ ad = hbm.addr + 1
      BY <1>8, <1>n, <3>1, CountsDown DEF bt, ad
    <3>3. Unmarked(tk)
      BY <2>3, <3>1 DEF Unmarked
    <3>4. ad = Len(tk)
      BY <1>7, <2>2, <3>2
    <3>5. (hbm.addr + 1) + (hbm.beat - 1) = hbm.addr + hbm.beat
      BY <1>n
    <3>6. ad + bt = hbm.asked
      BY <1>7, <3>2, <3>5
    <3> QED
      BY <3>3, <3>4, <3>6
  <2>6. /\ Len(tk) <= hbm.asked + 1
        /\ \A i \in 1..Len(tk) : tk[i].last => i = Len(tk)
    BY <1>7, <1>n, <2>2, <2>3
  <2> QED
    BY <1>2, <1>6, <2>4, <2>5, <2>6, <1>8, <1>1, <1>5
    DEF ControllerInv, ReadInv, WriteInv, ReadDone, st, InOrder, Unmarked
<1>9. CASE ~tvalid
  <2>1. st = "write" /\ ~ends /\ bt = hbm.beat /\ ad = hbm.addr /\ tk = hbm.taken
    BY <1>9 DEF st, ends, bt, ad, tk
  <2> QED
    BY <1>1, <1>5, <1>6, <1>7, <2>1
    DEF ControllerInv, ReadInv, WriteInv, ReadDone, InOrder, Unmarked
<1> QED
  BY <1>8, <1>9

LEMMA BlocksInit == DmaInit => EngineInv /\ ControllerInv
BY EngineInit, ControllerInit

(* Alone or wired: the engine sees any answer, the controller any burst.   *)
LEMMA BlocksStep == EngineInv /\ ControllerInv /\ [DmaNext]_dmaVars => EngineInv' /\ ControllerInv'
<1> SUFFICES ASSUME EngineInv, ControllerInv, [DmaNext]_dmaVars
             PROVE  EngineInv' /\ ControllerInv'
  OBVIOUS
<1>1. ASSUME dma' = dma PROVE EngineInv'
  BY <1>1 DEF EngineInv, TransferExact
<1>2. ASSUME hbm' = hbm, last' = last PROVE ControllerInv'
  BY <1>2 DEF ControllerInv, ReadInv, WriteInv, ReadDone
<1>3. CASE DmaAlone
  BY <1>2, <1>3, EngineEdge DEF DmaAlone
<1>4. CASE HbmAlone
  <2>1. PICK rd \in BOOLEAN, wr \in BOOLEAN, tready \in BOOLEAN, tvalid \in BOOLEAN,
             tlast \in BOOLEAN, len \in BurstLen :
                HbmEdge(rd, wr, len, tready, tvalid, tlast)
    BY <1>4 DEF HbmAlone
  <2>2. len \in 0..255
    BY DmaAssumption
  <2>3. ControllerInv'
    BY <2>1, <2>2, IdleEdge, ReadEdge, WriteEdge DEF HbmEdge
  <2> QED
    BY <1>1, <1>4, <2>3 DEF HbmAlone
<1>5. CASE Wired
  <2>1. hbm.ready \in BOOLEAN /\ hbm.done \in BOOLEAN
    BY DEF ControllerInv, ControllerState
  <2>2. dma.rd \in BOOLEAN /\ dma.wr \in BOOLEAN /\ dma.len \in 0..255
    BY DEF EngineInv, EngineState
  <2> DEFINE t == TRUE
  <2>3. PICK start \in BOOLEAN, toHbm \in BOOLEAN, tlast \in BOOLEAN, n \in ByteCount :
           /\ DmaEdge(start, n, toHbm, hbm.ready, hbm.done)
           /\ HbmEdge(dma.rd, dma.wr, dma.len, t, t, tlast)
    BY <1>5 DEF Wired
  <2>6. t \in BOOLEAN
    OBVIOUS
  <2> HIDE DEF t
  <2>4. EngineInv'
    BY <2>1, <2>3, EngineEdge
  <2>5. ControllerInv'
    BY <2>2, <2>3, <2>6, IdleEdge, ReadEdge, WriteEdge DEF HbmEdge
  <2> QED
    BY <2>4, <2>5
<1>6. CASE Reset
  <2>1. EngineInv'
    BY <1>6 DEF Reset, EngineInv, EngineState, DmaReset, TransferExact
  <2>2. hbm' \in ControllerState /\ hbm'.state = "idle" /\ ~hbm'.done /\ last' = "none"
    BY <1>6, ControllerReset DEF Reset
  <2>3. ControllerInv'
    BY <2>2 DEF ControllerInv, ReadInv, WriteInv, ReadDone
  <2> QED
    BY <2>1, <2>3
<1>7. CASE UNCHANGED dmaVars
  BY <1>1, <1>2, <1>7 DEF dmaVars
<1> QED
  BY <1>3, <1>4, <1>5, <1>6, <1>7 DEF DmaNext

(* graph_dma.sv, for every byte count and whatever the memory answers: a    *)
(* transfer that completes has counted every byte once, in no more bursts  *)
(* than it takes.                                                          *)
THEOREM TransfersAlwaysExact == DmaSpec => []TransferExact
<1>1. EngineInv => TransferExact
  BY DEF EngineInv
<1> QED
  BY BlocksInit, BlocksStep, <1>1, PTL DEF DmaSpec

(* hbm_controller.sv, for every burst length: a consumer that never stalls  *)
(* gets every word of a read burst once and in order, the last one marked; *)
(* a write burst is stored in consecutive words up to the marked one.      *)
THEOREM BurstsAlwaysDelivered == DmaSpec => []BurstDelivered
BY BlocksInit, BlocksStep, InvDelivers, PTL DEF DmaSpec

(***************************************************************************)
(* The NoC router.  Only the local buffer matters to LocalInOrder.         *)
(***************************************************************************)
Local == buf["local"]

(* An index goes around at the end of a buffer.                            *)
Wrap(x) == x % Depth

BufferOK(b) ==
    /\ b.slots \in [0..Depth - 1 -> Pos]
    /\ b.head \in 0..Depth - 1
    /\ b.tail \in 0..Depth - 1
    /\ b.count \in 0..Depth

(* The flits a buffer holds, oldest first.                                 *)
Contents(b) == [i \in 1..b.count |-> b.slots[Wrap(b.head + i - 1)]]

NocType ==
    /\ DOMAIN buf = Port
    /\ BufferOK(Local)
    /\ given \in Seq(Pos) /\ out \in Seq(Pos)

NocOrder ==
    "local" \notin clash =>
        /\ Local.tail = Wrap(Local.head + Local.count)
        /\ given = out \o Contents(Local)
        /\ \A i \in DOMAIN out : out[i] = Here

(* The inductive invariant.                                                *)
NocInv == NocType /\ NocOrder

-----------------------------------------------------------------------------
(* Indices wrap around once at most.                                       *)
LEMMA Wrapping ==
    ASSUME NEW x \in 0..2 * Depth - 1
    PROVE  /\ x < Depth => Wrap(x) = x
           /\ x >= Depth => Wrap(x) = x - Depth
<1>1. Depth \in {1, 2, 4, 8}
  BY NocAssumption
<1>2. CASE Depth = 1
  BY <1>2 DEF Wrap
<1>3. CASE Depth = 2
  BY <1>3 DEF Wrap
<1>4. CASE Depth = 4
  BY <1>4 DEF Wrap
<1>5. CASE Depth = 8
  BY <1>5 DEF Wrap
<1> QED
  BY <1>1, <1>2, <1>3, <1>4, <1>5

LEMMA DepthPositive == Depth \in Nat /\ Depth > 0
BY NocAssumption

LEMMA WrapsInto ==
    ASSUME NEW x \in 0..2 * Depth - 1
    PROVE  Wrap(x) \in 0..Depth - 1
BY Wrapping, DepthPositive

LEMMA WrapStays ==
    ASSUME NEW h \in 0..Depth - 1
    PROVE  Wrap(h) = h /\ Wrap(h) \in 0..Depth - 1
<1>1. h \in 0..2 * Depth - 1
  BY DepthPositive
<1> QED
  BY <1>1, Wrapping, DepthPositive

(* The slot behind n flits is none of theirs.                              *)
LEMMA WrapApart ==
    ASSUME NEW h \in 0..Depth - 1, NEW n \in 0..Depth - 1, NEW i \in 1..n
    PROVE  Wrap(h + i - 1) # Wrap(h + n)
<1>1. h + i - 1 \in 0..2 * Depth - 1 /\ h + n \in 0..2 * Depth - 1
  BY DepthPositive
<1>2. /\ h + i - 1 < Depth => Wrap(h + i - 1) = h + i - 1
      /\ h + i - 1 >= Depth => Wrap(h + i - 1) = h + i - 1 - Depth
  BY <1>1, Wrapping, DepthPositive
<1>3. /\ h + n < Depth => Wrap(h + n) = h + n
      /\ h + n >= Depth => Wrap(h + n) = h + n - Depth
  BY <1>1, Wrapping, DepthPositive
<1> QED
  BY <1>2, <1>3, DepthPositive

(* Going on from an index that went around.                                *)
LEMMA WrapAgain ==
    ASSUME NEW x \in Nat, NEW k \in Nat, x <= 2 * Depth - 1,
           Wrap(x) + k <= 2 * Depth - 1, x + k <= 2 * Depth - 1
    PROVE  Wrap(Wrap(x) + k) = Wrap(x + k)
<1>1. x \in 0..2 * Depth - 1 /\ x + k \in 0..2 * Depth - 1
  BY DepthPositive
<1>2. /\ x < Depth => Wrap(x) = x
      /\ x >= Depth => Wrap(x) = x - Depth
  BY <1>1, Wrapping, DepthPositive
<1>3. Wrap(x) + k \in 0..2 * Depth - 1
  BY <1>1, <1>2, DepthPositive
<1>4. /\ x + k < Depth => Wrap(x + k) = x + k
      /\ x + k >= Depth => Wrap(x + k) = x + k - Depth
  BY <1>1, Wrapping, DepthPositive
<1>5. /\ Wrap(x) + k < Depth => Wrap(Wrap(x) + k) = Wrap(x) + k
      /\ Wrap(x) + k >= Depth => Wrap(Wrap(x) + k) = Wrap(x) + k - Depth
  BY <1>3, Wrapping, DepthPositive
<1> QED
  BY <1>2, <1>4, <1>5, DepthPositive

(* The first element of a sequence moved to the end of the one before it.  *)
LEMMA FirstMovesOver ==
    ASSUME NEW S, NEW s \in Seq(S), NEW x \in Seq(S), NEW y \in Seq(S),
           Len(x) = Len(y) + 1,
           \A i \in 1..Len(y) : y[i] = x[i + 1]
    PROVE  Append(s, x[1]) \o y = s \o x
<1>1. x[1] \in S /\ Len(y) \in Nat
  OBVIOUS
<1> DEFINE o == <<x[1]>>
<1>2. o \in Seq(S) /\ Len(o) = 1 /\ o[1] = x[1]
  BY <1>1
<1>3. Append(s, x[1]) = s \o o
  BY <1>1, AppendIsConcat
<1> HIDE DEF o
<1>4. o \o y \in Seq(S) /\ Len(o \o y) = Len(x)
  <2>1. o \o y \in Seq(S) /\ Len(o \o y) = Len(o) + Len(y)
    BY <1>2, ConcatProperties
  <2> QED
    BY <1>1, <1>2, <2>1
<1>5. \A i \in 1..Len(o \o y) : (o \o y)[i] = x[i]
  BY <1>1, <1>2, <1>4
<1>6. o \o y = x
  BY <1>4, <1>5, SeqEqual
<1>7. (s \o o) \o y = s \o (o \o y)
  BY <1>2, ConcatAssociative
<1> QED
  BY <1>3, <1>6, <1>7

(* What a buffer holds, as a sequence of positions.                        *)
LEMMA ContentsType ==
    ASSUME NEW b, BufferOK(b)
    PROVE  /\ Contents(b) \in Seq(Pos)
           /\ Len(Contents(b)) = b.count
           /\ \A i \in 1..b.count : Contents(b)[i] = b.slots[Wrap(b.head + i - 1)]
<1>1. \A i \in 1..b.count : Wrap(b.head + i - 1) \in 0..Depth - 1
  <2> TAKE i \in 1..b.count
  <2>1. b.head + i - 1 \in 0..2 * Depth - 1
    BY DepthPositive DEF BufferOK
  <2> QED
    BY <2>1, WrapsInto
<1>2. \A i \in 1..b.count : b.slots[Wrap(b.head + i - 1)] \in Pos
  BY <1>1 DEF BufferOK
<1>3. b.count \in Nat
  BY DEF BufferOK
<1>4. Contents(b) = [i \in 1..b.count |-> b.slots[Wrap(b.head + i - 1)]]
  BY DEF Contents, Wrap
<1> QED
  BY <1>2, <1>3, <1>4

(* A write puts the flit behind the others.                                *)
LEMMA WriteAppends ==
    ASSUME NEW b, BufferOK(b), b.count < Depth, b.tail = Wrap(b.head + b.count),
           NEW flit \in Pos, NEW c, BufferOK(c),
           c.slots = [b.slots EXCEPT ![b.tail] = flit],
           c.head = b.head, c.count = b.count + 1, c.tail = Wrap(b.tail + 1)
    PROVE  /\ Contents(c) = Append(Contents(b), flit)
           /\ c.tail = Wrap(c.head + c.count)
<1> DEFINE h == b.head
           n == b.count
<1>1. /\ h \in 0..Depth - 1 /\ n \in 0..Depth - 1 /\ n + 1 \in 1..Depth
      /\ b.tail \in 0..Depth - 1 /\ b.slots \in [0..Depth - 1 -> Pos]
  BY DepthPositive DEF BufferOK
<1>2. c.head = h /\ c.count = n + 1 /\ b.tail = Wrap(h + n)
  OBVIOUS
<1>3. /\ Contents(b) \in Seq(Pos) /\ Len(Contents(b)) = n
      /\ \A i \in 1..n : Contents(b)[i] = b.slots[Wrap(h + i - 1)]
  BY ContentsType
<1>4. /\ Contents(c) \in Seq(Pos) /\ Len(Contents(c)) = n + 1
      /\ \A i \in 1..n + 1 : Contents(c)[i] = c.slots[Wrap(h + i - 1)]
  <2>1. /\ Contents(c) \in Seq(Pos) /\ Len(Contents(c)) = c.count
        /\ \A i \in 1..c.count : Contents(c)[i] = c.slots[Wrap(c.head + i - 1)]
    BY ContentsType
  <2> QED
    BY <2>1, <1>2
<1> HIDE DEF h, n
<1>5. \A i \in 1..n : Contents(c)[i] = Contents(b)[i]
  <2> TAKE i \in 1..n
  <2>1. Wrap(h + i - 1) # b.tail
    <3>1. Wrap(h + i - 1) # Wrap(h + n)
      BY <1>1, WrapApart
    <3> QED
      BY <1>2, <3>1
  <2>2. Wrap(h + i - 1) \in 0..Depth - 1
    BY <1>1, WrapsInto, DepthPositive
  <2>3. c.slots[Wrap(h + i - 1)] = b.slots[Wrap(h + i - 1)]
    BY <1>1, <2>1, <2>2
  <2> QED
    BY <1>1, <1>3, <1>4, <2>3
<1>6. Contents(c)[n + 1] = flit
  <2>1. h + (n + 1) - 1 = h + n /\ n + 1 \in 1..n + 1
    BY <1>1
  <2>2. Contents(c)[n + 1] = c.slots[b.tail]
    BY <1>2, <1>4, <2>1
  <2> QED
    BY <1>1, <2>2
<1>7. Contents(c) = Append(Contents(b), flit)
  <2> DEFINE x == Contents(b)
             y == Contents(c)
  <2>1. x \in Seq(Pos) /\ Len(x) = n /\ y \in Seq(Pos) /\ Len(y) = n + 1
    BY <1>3, <1>4
  <2>2. (\A i \in 1..n : y[i] = x[i]) /\ y[n + 1] = flit
    BY <1>5, <1>6
  <2> HIDE DEF x, y
  <2>3. Append(x, flit) \in Seq(Pos) /\ Len(Append(x, flit)) = n + 1
    BY <2>1
  <2>4. \A i \in 1..n + 1 : y[i] = Append(x, flit)[i]
    BY <1>1, <2>1, <2>2
  <2>5. y = Append(x, flit)
    BY <1>1, <2>1, <2>3, <2>4, SeqEqual
  <2> QED
    BY <2>5 DEF x, y
<1>8. Wrap(Wrap(h + n) + 1) = Wrap(h + n + 1)
  <2>1. Wrap(h + n) \in 0..Depth - 1
    BY <1>1, <1>2
  <2> QED
    BY <1>1, <2>1, WrapAgain, DepthPositive
<1>9. c.tail = Wrap(c.head + c.count)
  <2>1. h + n + 1 = h + (n + 1)
    BY <1>1
  <2> QED
    BY <1>2, <1>8, <2>1
<1> QED
  BY <1>7, <1>9

(* A read takes the first one.                                             *)
LEMMA ReadTakesFirst ==
    ASSUME NEW b, BufferOK(b), b.count > 0, b.tail = Wrap(b.head + b.count),
           NEW c, BufferOK(c),
           c.slots = b.slots, c.tail = b.tail, c.count = b.count - 1,
           c.head = Wrap(b.head + 1),
           NEW s \in Seq(Pos)
    PROVE  /\ Append(s, Oldest(b)) \o Contents(c) = s \o Contents(b)
           /\ c.tail = Wrap(c.head + c.count)
<1> DEFINE h == b.head
           n == b.count
           x == Contents(b)
           y == Contents(c)
           o == Oldest(b)
<1>1. /\ h \in 0..Depth - 1 /\ n \in 1..Depth
      /\ b.slots \in [0..Depth - 1 -> Pos]
  BY DepthPositive DEF BufferOK
<1>2. c.head = Wrap(h + 1) /\ c.count = n - 1 /\ c.tail = Wrap(h + n)
      /\ o = b.slots[h]
  BY DEF Oldest
<1>3. /\ x \in Seq(Pos) /\ Len(x) = n
      /\ \A i \in 1..n : x[i] = b.slots[Wrap(h + i - 1)]
  BY ContentsType
<1>4. /\ y \in Seq(Pos) /\ Len(y) = n - 1
      /\ \A i \in 1..n - 1 : y[i] = b.slots[Wrap(Wrap(h + 1) + i - 1)]
  BY ContentsType, <1>2
<1> HIDE DEF h, n, x, y, o
<1>5. Wrap(h + 1) \in 0..Depth - 1
  BY <1>1, WrapsInto, DepthPositive
<1>6. \A i \in 1..n - 1 : y[i] = x[i + 1]
  <2> TAKE i \in 1..n - 1
  <2>1. /\ i - 1 \in Nat /\ h + 1 + (i - 1) = h + (i + 1) - 1
        /\ Wrap(h + 1) + (i - 1) = Wrap(h + 1) + i - 1
    BY <1>1, <1>5
  <2>2. Wrap(Wrap(h + 1) + (i - 1)) = Wrap(h + 1 + (i - 1))
    BY <1>1, <1>5, WrapAgain, DepthPositive
  <2>3. i + 1 \in 1..n
    BY <1>1
  <2> QED
    BY <1>3, <1>4, <2>1, <2>2, <2>3
<1>7. o = x[1] /\ o \in Pos
  <2>1. h + 1 - 1 = h /\ 1 \in 1..n
    BY <1>1
  <2>2. Wrap(h) = h
    BY <1>1, WrapStays
  <2> QED
    BY <1>1, <1>2, <1>3, <2>1, <2>2
<1>8. Append(s, o) \o y = s \o x
  <2>1. Len(x) = Len(y) + 1 /\ \A i \in 1..Len(y) : y[i] = x[i + 1]
    BY <1>1, <1>3, <1>4, <1>6
  <2>2. Append(s, x[1]) \o y = s \o x
    BY <1>3, <1>4, <2>1, FirstMovesOver
  <2> QED
    BY <1>7, <2>2
<1>9. Wrap(h + n) = Wrap(Wrap(h + 1) + (n - 1))
  <2>1. h + 1 + (n - 1) = h + n /\ n - 1 \in Nat
    BY <1>1
  <2>2. Wrap(Wrap(h + 1) + (n - 1)) = Wrap(h + 1 + (n - 1))
    BY <1>1, <1>5, <2>1, WrapAgain, DepthPositive
  <2> QED
    BY <2>1, <2>2
<1> QED
  BY <1>2, <1>8, <1>9 DEF h, n, x, y, o

-----------------------------------------------------------------------------
LEMMA HereIsPosition == Here \in Pos /\ Here = <<Here[1], Here[2]>>
BY NocAssumption DEF Pos

(* Only a flit that is sent here leaves through the local port.            *)
LEMMA RouteLocal ==
    ASSUME NEW d \in Pos, ComputeRoute(Here, d) = "local"
    PROVE  d = Here
<1>1. d = <<d[1], d[2]>> /\ d[1] \in Int /\ d[2] \in Int
  BY NocAssumption DEF Pos
<1>2. Here = <<Here[1], Here[2]>> /\ Here[1] \in Int /\ Here[2] \in Int
  BY NocAssumption DEF Pos
<1>3. d[1] = Here[1] /\ d[2] = Here[2]
  BY <1>1, <1>2 DEF ComputeRoute
<1> QED
  BY <1>1, <1>2, <1>3

LEMMA EmptyIsOK == BufferOK(EmptyBuffer) /\ "local" \in Port
BY HereIsPosition, DepthPositive DEF BufferOK, EmptyBuffer, Port

LEMMA NocInitInv == NocInit => NocInv
<1> SUFFICES ASSUME NocInit PROVE NocInv
  OBVIOUS
<1>1. Local = EmptyBuffer /\ DOMAIN buf = Port
  BY EmptyIsOK DEF NocInit, Local
<1>2. given = <<>> /\ out = <<>> /\ given \in Seq(Pos) /\ DOMAIN out = {}
  BY DEF NocInit
<1>3. EmptyBuffer.count = 0 /\ EmptyBuffer.head = 0 /\ EmptyBuffer.tail = 0
  BY DEF EmptyBuffer
<1>4. Wrap(0) = 0
  BY WrapStays, DepthPositive
<1>5. Contents(Local) = <<>>
  BY <1>1, <1>3, ContentsType, EmptyIsOK
<1>6. NocType
  BY <1>1, <1>2, EmptyIsOK DEF NocType
<1>7. NocOrder
  BY <1>1, <1>2, <1>3, <1>4, <1>5 DEF NocOrder
<1> QED
  BY <1>6, <1>7 DEF NocInv

(* What an edge does to the local buffer.                                  *)
LEMMA LocalEdge ==
    ASSUME NocInv, NEW offered \in SUBSET Linked, NEW ready \in SUBSET Linked,
           NEW flits \in [offered -> Dest], RouterEdge(flits, ready)
    PROVE  NocInv'
<1> DEFINE b == buf["local"]
           c == buf'["local"]
           w == "local" \in Written(flits)
           r == "local" \in Consumed(ready)
           slots == IF w THEN [b.slots EXCEPT ![b.tail] = flits["local"]] ELSE b.slots
           head == IF r THEN Wrap(b.head + 1) ELSE b.head
           tail == IF w THEN Wrap(b.tail + 1) ELSE b.tail
<1>1. /\ BufferOK(b) /\ given \in Seq(Pos) /\ out \in Seq(Pos)
      /\ "local" \notin clash =>
            /\ b.tail = Wrap(b.head + b.count)
            /\ given = out \o Contents(b)
            /\ \A i \in DOMAIN out : out[i] = Here
  BY DEF NocInv, NocType, NocOrder, Local
<1>2. w => b.count < Depth /\ flits["local"] \in Pos
  BY NocAssumption DEF Written
<1>3. r => b.count > 0 /\ ComputeRoute(Here, Oldest(b)) = "local"
  BY DEF Consumed, ValidOut
<1>4. PICK up \in BOOLEAN :
         c = [slots |-> slots, head |-> head, tail |-> tail,
              count |-> Count("local", Written(flits), Consumed(ready), up)]
  BY EmptyIsOK DEF RouterEdge, Wrap
<1> DEFINE count == Count("local", Written(flits), Consumed(ready), up)
<1>5. /\ (w /\ ~r) => count = b.count + 1
      /\ (r /\ ~w) => count = b.count - 1
      /\ (~w /\ ~r) => count = b.count
      /\ (w /\ r) => count \in {b.count - 1, b.count + 1}
  BY DEF Count
<1>6. /\ DOMAIN buf' = Port
      /\ clash' = clash \cup (Written(flits) \cap Consumed(ready))
      /\ given' = IF w THEN Append(given, flits["local"]) ELSE given
      /\ out' = IF r THEN Append(out, Oldest(b)) ELSE out
  BY DEF RouterEdge
<1>7. /\ b.slots \in [0..Depth - 1 -> Pos] /\ b.head \in 0..Depth - 1
      /\ b.tail \in 0..Depth - 1 /\ b.count \in 0..Depth
  BY <1>1 DEF BufferOK
<1>8. /\ c.slots = slots /\ c.head = head /\ c.tail = tail /\ c.count = count
  BY <1>4
<1> HIDE DEF b, c, w, r, count
<1>9. BufferOK(c)
  <2>1. slots \in [0..Depth - 1 -> Pos]
    BY <1>2, <1>7
  <2>2. head \in 0..Depth - 1 /\ tail \in 0..Depth - 1
    <3>1. Wrap(b.head + 1) \in 0..Depth - 1
      BY <1>7, WrapsInto, DepthPositive
    <3>2. Wrap(b.tail + 1) \in 0..Depth - 1
      BY <1>7, WrapsInto, DepthPositive
    <3> QED
      BY <1>7, <3>1, <3>2
  <2>3. count \in 0..Depth
    BY <1>2, <1>3, <1>5, <1>7, DepthPositive
  <2> QED
    BY <1>8, <2>1, <2>2, <2>3 DEF BufferOK
<1>10. Oldest(b) \in Pos
  BY <1>7 DEF Oldest
<1>11. r => Oldest(b) = Here
  BY <1>3, <1>10, RouteLocal
<1>12. given' \in Seq(Pos) /\ out' \in Seq(Pos)
  BY <1>1, <1>2, <1>6, <1>10
<1>13. ASSUME "local" \notin clash'
       PROVE  /\ c.tail = Wrap(c.head + c.count)
              /\ given' = out' \o Contents(c)
              /\ \A i \in DOMAIN out' : out'[i] = Here
  <2>1. /\ b.tail = Wrap(b.head + b.count)
        /\ given = out \o Contents(b)
        /\ \A i \in DOMAIN out : out[i] = Here
        /\ ~(w /\ r)
    BY <1>1, <1>6, <1>13 DEF w, r
  <2>2. Contents(b) \in Seq(Pos)
    BY <1>1, ContentsType
  <2>3. CASE ~w /\ ~r
    <3>1. /\ c.slots = b.slots /\ c.head = b.head /\ c.tail = b.tail
          /\ c.count = b.count
      BY <1>5, <1>8, <2>3
    <3>2. Contents(c) = Contents(b)
      BY <3>1 DEF Contents
    <3> QED
      BY <1>6, <2>1, <2>3, <3>1, <3>2
  <2>4. CASE w /\ ~r
    <3>1. /\ c.slots = [b.slots EXCEPT ![b.tail] = flits["local"]]
          /\ c.head = b.head /\ c.count = b.count + 1 /\ c.tail = Wrap(b.tail + 1)
      BY <1>5, <1>8, <2>4
    <3>2. /\ Contents(c) = Append(Contents(b), flits["local"])
          /\ c.tail = Wrap(c.head + c.count)
      BY <1>1, <1>2, <1>9, <2>1, <2>4, <3>1, WriteAppends
    <3>3. Append(out \o Contents(b), flits["local"])
             = out \o Append(Contents(b), flits["local"])
      <4> DEFINE x == Contents(b)
                 f == flits["local"]
      <4>1. f \in Pos /\ x \in Seq(Pos) /\ out \in Seq(Pos)
        BY <1>1, <1>2, <2>2, <2>4
      <4> HIDE DEF x, f
      <4>2. out \o x \in Seq(Pos)
        BY <4>1, ConcatProperties
      <4>3. Append(out \o x, f) = (out \o x) \o <<f>>
        BY <4>1, <4>2, AppendIsConcat
      <4>4. Append(x, f) = x \o <<f>>
        BY <4>1, AppendIsConcat
      <4>5. (out \o x) \o <<f>> = out \o (x \o <<f>>)
        <5>1. <<f>> \in Seq(Pos)
          BY <4>1
        <5> QED
          BY <4>1, <5>1, ConcatAssociative
      <4> QED
        BY <4>3, <4>4, <4>5 DEF x, f
    <3> QED
      BY <1>6, <2>1, <2>4, <3>2, <3>3
  <2>5. CASE r /\ ~w
    <3>1. /\ c.slots = b.slots /\ c.tail = b.tail /\ c.count = b.count - 1
          /\ c.head = Wrap(b.head + 1)
      BY <1>5, <1>8, <2>5
    <3>2. /\ Append(out, Oldest(b)) \o Contents(c) = out \o Contents(b)
          /\ c.tail = Wrap(c.head + c.count)
      BY <1>1, <1>3, <1>9, <2>1, <2>5, <3>1, ReadTakesFirst
    <3>3. \A i \in DOMAIN out' : out'[i] = Here
      <4>1. out' = Append(out, Here)
        BY <1>6, <1>11, <2>5
      <4>2. Here \in Pos
        BY HereIsPosition
      <4> QED
        BY <1>1, <2>1, <4>1, <4>2
    <3> QED
      BY <1>6, <2>1, <2>5, <3>2, <3>3
  <2> QED
    BY <2>1, <2>3, <2>4, <2>5
<1>14. Local' = c
  BY DEF Local, c
<1>15. NocType'
  BY <1>6, <1>9, <1>12, <1>14 DEF NocType
<1>16. NocOrder'
  BY <1>13, <1>14 DEF NocOrder, Contents
<1> QED
  BY <1>15, <1>16 DEF NocInv

LEMMA ResetInv == NocInv /\ NocReset => NocInv'
<1> SUFFICES ASSUME NocInv, NocReset PROVE NocInv'
  OBVIOUS
<1> DEFINE c == [EmptyBuffer EXCEPT !.slots = Local.slots]
<1>1. Local' = c /\ DOMAIN buf' = Port
  BY EmptyIsOK DEF NocReset, Local
<1>2. c.slots = Local.slots /\ c.head = 0 /\ c.tail = 0 /\ c.count = 0
  BY DEF EmptyBuffer
<1>3. BufferOK(c)
  BY <1>2, DepthPositive DEF NocInv, NocType, BufferOK
<1>4. given' = <<>> /\ out' = <<>> /\ given' \in Seq(Pos) /\ DOMAIN out' = {}
  BY DEF NocReset
<1>5. Wrap(0) = 0
  BY WrapStays, DepthPositive
<1>6. Contents(c) = <<>>
  <2>1. Contents(c) \in Seq(Pos) /\ Len(Contents(c)) = c.count
    BY <1>3, ContentsType, Zenon
  <2> QED
    BY <1>2, <2>1
<1> HIDE DEF c
<1>7. NocType'
  BY <1>1, <1>3, <1>4 DEF NocType
<1>8. NocOrder'
  <2>1. Contents(Local)' = <<>>
    BY <1>1, <1>6 DEF Contents
  <2>2. Wrap(0 + 0) = 0
    BY <1>5
  <2>3. (Local.tail = Wrap(Local.head + Local.count))'
    BY <1>1, <1>2, <2>2
  <2>4. (given = out \o Contents(Local))'
    BY <1>4, <2>1
  <2> QED
    BY <1>4, <2>3, <2>4 DEF NocOrder
<1> QED
  BY <1>7, <1>8 DEF NocInv

LEMMA NocStepInv == NocInv /\ [NocNext]_nocVars => NocInv'
<1> SUFFICES ASSUME NocInv, [NocNext]_nocVars PROVE NocInv'
  OBVIOUS
<1>1. CASE UNCHANGED nocVars
  BY <1>1 DEF nocVars, NocInv, NocType, NocOrder, Local, Contents
<1>2. CASE NocReset
  BY <1>2, ResetInv
<1>3. ASSUME NEW offered \in SUBSET Linked, NEW ready \in SUBSET Linked,
             NEW flits \in [offered -> Dest], RouterEdge(flits, ready)
      PROVE  NocInv'
  BY <1>3, LocalEdge
<1> QED
  BY <1>1, <1>2, <1>3 DEF NocNext

(* Flits for this tile leave the router in the order in which they came,   *)
(* and no other flit leaves there, until an edge writes the count of the   *)
(* local buffer twice.                                                     *)
THEOREM FlitsAlwaysInOrder == NocSpec => []LocalInOrder
<1>1. NocInit => NocInv
  BY NocInitInv
<1>2. NocInv /\ [NocNext]_nocVars => NocInv'
  BY NocStepInv
<1>3. NocInv => LocalInOrder
  <2>1. ASSUME NocInv, "local" \notin clash
        PROVE  /\ given = out \o [i \in 1..Local.count |->
                                  Local.slots[(Local.head + i - 1) % Depth]]
               /\ \A i \in DOMAIN out : out[i] = Here
    BY <2>1 DEF NocInv, NocOrder, Contents, Wrap
  <2> QED
    BY <2>1 DEF LocalInOrder, Local
<1> QED
  BY <1>1, <1>2, <1>3, PTL DEF NocSpec

(***************************************************************************)
(* The associative cache.                                                  *)
(***************************************************************************)
EntryOK == entry \in [Entry -> [valid : BOOLEAN, key : Nat]]

ScanOK ==
    /\ scan \in [active : BOOLEAN, at : 0..Entries, best : Entry, sim : Nat]
    /\ answer \in [done : BOOLEAN, best : Entry, sim : Nat]
    /\ query \in Nat
    /\ touched \subseteq Entry

Similarity(i) == Agree(query, entry[i].key)

(* best is, with its similarity, a best match among the entries below n    *)
(* that have been left alone.                                              *)
BestBelow(n, best, sim) ==
    /\ \A i \in Entry \ touched :
          (i < n /\ entry[i].valid) =>
              /\ Similarity(i) <= sim
              /\ Similarity(i) = sim => sim = 0 \/ best <= i
    /\ sim > 0 =>
          /\ best < n
          /\ best \in touched \/ (entry[best].valid /\ Similarity(best) = sim)

(* A query that no other broke into has compared the entries before its    *)
(* index, and an answer all of them.                                       *)
ScanSoFar == (clean /\ scan.active) => BestBelow(scan.at, scan.best, scan.sim)

AnswerFinal == (clean /\ answer.done) => BestBelow(Entries, answer.best, answer.sim)

(* The inductive invariant.                                                *)
CacheInv == EntryOK /\ ScanOK /\ ScanSoFar /\ AnswerFinal

-----------------------------------------------------------------------------
LEMMA WordsAreNumbers == Key \subseteq Nat /\ Vector \subseteq Nat /\ Entries \in Nat
                         /\ Entries > 0 /\ 0 \in Entry
BY CacheAssumption DEF Entry

LEMMA AgreeType ==
    ASSUME NEW w, NEW key
    PROVE  Agree(w, key) \in Nat
<1> DEFINE B == {b \in 0..WordBits - 1 : Bit(w, b) = Bit(key, b)}
<1>1. IsFiniteSet(0..WordBits - 1)
  BY CacheAssumption, FS_Interval
<1>2. IsFiniteSet(B)
  BY <1>1, FS_Subset
<1> QED
  BY <1>2, FS_CardinalityType DEF Agree

LEMMA CacheInitInv == CacheInit => CacheInv
BY WordsAreNumbers
   DEF CacheInit, CacheInv, EntryOK, ScanOK, ScanSoFar, AnswerFinal, Invalid,
       NoAnswer, Entry, BestBelow

LEMMA ResetKeeps == CacheInv /\ CacheReset => CacheInv'
<1> SUFFICES ASSUME CacheInv, CacheReset PROVE CacheInv'
  OBVIOUS
<1>1. EntryOK'
  <2>1. \A i \in Entry : [entry[i] EXCEPT !.valid = FALSE] \in [valid : BOOLEAN, key : Nat]
    BY DEF CacheInv, EntryOK
  <2> QED
    BY <2>1 DEF CacheReset, EntryOK
<1>2. ScanOK' /\ ~scan'.active /\ ~answer'.done
  BY WordsAreNumbers DEF CacheInv, ScanOK, CacheReset, NoAnswer
<1> QED
  BY <1>1, <1>2 DEF CacheInv, ScanSoFar, AnswerFinal

(* What an edge leaves of a comparison already made.                       *)
LEMMA ComparedStays ==
    ASSUME CacheInv, NEW w, NEW d, NEW key \in Key, entry' = Stored(w, key, d),
           query' = query, touched' = touched \cup ({w, d} \cap Entry),
           NEW n \in 0..Entries, NEW best \in Entry, NEW sim \in Nat,
           BestBelow(n, best, sim)
    PROVE  BestBelow(n, best, sim)'
<1>1. \A i \in Entry \ touched' : i \in Entry \ touched /\ entry'[i] = entry[i]
  <2> TAKE i \in Entry \ touched'
  <2>1. i # w /\ i # d
    OBVIOUS
  <2>2. entry'[i] = [valid |-> entry[i].valid, key |-> entry[i].key]
    BY <2>1 DEF Stored, CacheInv, EntryOK
  <2>3. entry[i] = [valid |-> entry[i].valid, key |-> entry[i].key]
    BY DEF CacheInv, EntryOK
  <2> QED
    BY <2>2, <2>3
<1>2. \A i \in Entry \ touched' : Similarity(i)' = Similarity(i)
  BY <1>1 DEF Similarity
<1>3. ASSUME NEW i \in Entry \ touched', i < n, entry'[i].valid
      PROVE  /\ Similarity(i)' <= sim
             /\ Similarity(i)' = sim => sim = 0 \/ best <= i
  BY <1>1, <1>2, <1>3 DEF BestBelow
<1>4. ASSUME sim > 0
      PROVE  /\ best < n
             /\ best \in touched' \/ (entry'[best].valid /\ Similarity(best)' = sim)
  BY <1>1, <1>2, <1>4 DEF BestBelow
<1> QED
  BY <1>3, <1>4 DEF BestBelow

LEMMA EdgeTypes ==
    ASSUME CacheInv, NEW w, NEW d, NEW key \in Key, NEW requested \in BOOLEAN,
           NEW searched \in Nat, CacheEdge(w, key, d, requested, searched)
    PROVE  EntryOK' /\ ScanOK'
<1> USE WordsAreNumbers
<1>1. EntryOK'
  <2> DEFINE e(i) == [valid |-> i # d /\ (i = w \/ entry[i].valid),
                      key |-> IF i = w THEN key % 2 ELSE entry[i].key]
  <2>1. key % 2 \in Nat
    OBVIOUS
  <2>2. \A i \in Entry : e(i) \in [valid : BOOLEAN, key : Nat]
    BY <2>1 DEF CacheInv, EntryOK
  <2> HIDE DEF e
  <2>3. entry' = [i \in Entry |-> e(i)]
    BY DEF CacheEdge, Stored, e
  <2> QED
    BY <2>2, <2>3 DEF EntryOK
<1>2. scan \in [active : BOOLEAN, at : 0..Entries, best : Entry, sim : Nat]
  BY DEF CacheInv, ScanOK
<1>3. scan' \in [active : BOOLEAN, at : 0..Entries, best : Entry, sim : Nat]
  <2> DEFINE looks == scan.active /\ scan.at < Entries
             ends == scan.active /\ scan.at >= Entries
             found == looks /\ Better(scan.at)
             active == ~ends /\ (scan.active \/ requested)
             at == IF looks THEN scan.at + 1 ELSE IF requested THEN 0 ELSE scan.at
             best == IF found THEN scan.at ELSE IF requested THEN 0 ELSE scan.best
             sim == IF found THEN Agree(query, entry[scan.at].key)
                    ELSE IF requested THEN 0 ELSE scan.sim
  <2>1. scan' = [active |-> active, at |-> at, best |-> best, sim |-> sim]
    BY DEF CacheEdge, Scanned
  <2>2. at \in 0..Entries
    BY <1>2
  <2>3. best \in Entry
    BY <1>2 DEF Entry
  <2>4. sim \in Nat
    BY <1>2, AgreeType
  <2>5. active \in BOOLEAN
    OBVIOUS
  <2> HIDE DEF active, at, best, sim
  <2> QED
    BY <2>1, <2>2, <2>3, <2>4, <2>5
<1>4. answer' \in [done : BOOLEAN, best : Entry, sim : Nat]
  BY <1>2 DEF CacheEdge, NoAnswer
<1>5. query' \in Nat /\ touched' \subseteq Entry
  BY DEF CacheEdge, CacheInv, ScanOK
<1> QED
  BY <1>1, <1>3, <1>4, <1>5 DEF ScanOK

(* The entry the scan looks at is compared, and the index goes on.         *)
LEMMA CompareNext ==
    ASSUME CacheInv, scan.active, scan.at < Entries,
           BestBelow(scan.at, scan.best, scan.sim)
    PROVE  IF Better(scan.at)
           THEN BestBelow(scan.at + 1, scan.at, Similarity(scan.at))
           ELSE BestBelow(scan.at + 1, scan.best, scan.sim)
<1> DEFINE n == scan.at
           best == scan.best
           sim == scan.sim
<1>1. n \in Entry /\ n \in Nat /\ best \in Entry /\ best \in Nat /\ sim \in Nat
  BY WordsAreNumbers DEF CacheInv, ScanOK, Entry
<1>2. \A i \in Entry : Similarity(i) \in Nat /\ i \in Nat
  BY AgreeType DEF Similarity, Entry
<1>3. Better(n) <=> entry[n].valid /\ Similarity(n) > sim
  BY DEF Better, Similarity
<1>4. BestBelow(n, best, sim)
  OBVIOUS
<1> HIDE DEF n, best, sim
<1>5. CASE Better(n)
  <2>1. ASSUME NEW i \in Entry \ touched, i < n + 1, entry[i].valid
        PROVE  /\ Similarity(i) <= Similarity(n)
               /\ Similarity(i) = Similarity(n) => Similarity(n) = 0 \/ n <= i
    <3>1. CASE i = n
      BY <1>1, <1>2, <3>1
    <3>2. CASE i # n
      <4>1. i < n
        BY <1>1, <1>2, <2>1, <3>2
      <4>2. Similarity(i) <= sim
        BY <1>4, <2>1, <4>1 DEF BestBelow
      <4> QED
        BY <1>1, <1>2, <1>3, <1>5, <4>2
    <3> QED
      BY <3>1, <3>2
  <2>2. n < n + 1 /\ entry[n].valid
    BY <1>1, <1>3, <1>5
  <2>3. BestBelow(n + 1, n, Similarity(n))
    BY <2>1, <2>2 DEF BestBelow
  <2> QED
    BY <1>5, <2>3 DEF n
<1>6. CASE ~Better(n)
  <2>1. ASSUME NEW i \in Entry \ touched, i < n + 1, entry[i].valid
        PROVE  /\ Similarity(i) <= sim
               /\ Similarity(i) = sim => sim = 0 \/ best <= i
    <3>1. CASE i = n
      <4>1. Similarity(n) <= sim
        BY <1>1, <1>2, <1>3, <1>6, <2>1, <3>1
      <4>2. sim > 0 => best < n
        BY <1>4 DEF BestBelow
      <4> QED
        BY <1>1, <3>1, <4>1, <4>2
    <3>2. CASE i # n
      <4>1. i < n
        BY <1>1, <1>2, <2>1, <3>2
      <4> QED
        BY <1>4, <2>1, <4>1 DEF BestBelow
    <3> QED
      BY <3>1, <3>2
  <2>2. best < n => best < n + 1
    BY <1>1
  <2>3. BestBelow(n + 1, best, sim)
    BY <1>4, <2>1, <2>2 DEF BestBelow
  <2> QED
    BY <1>6, <2>3 DEF n, best, sim
<1> QED
  BY <1>5, <1>6 DEF n

(* One case for each thing the block does at an edge.                      *)
LEMMA EdgeKeeps ==
    ASSUME CacheInv, NEW w, NEW d, NEW key \in Key, NEW requested \in BOOLEAN,
           NEW searched \in Nat, CacheEdge(w, key, d, requested, searched)
    PROVE  CacheInv'
<1>1. EntryOK' /\ ScanOK'
  BY EdgeTypes
<1>2. /\ scan \in [active : BOOLEAN, at : 0..Entries, best : Entry, sim : Nat]
      /\ answer \in [done : BOOLEAN, best : Entry, sim : Nat]
  BY DEF CacheInv, ScanOK
<1>3. /\ entry' = Stored(w, key, d) /\ scan' = Scanned(requested)
      /\ answer' = IF scan.active /\ scan.at >= Entries
                   THEN [done |-> TRUE, best |-> scan.best, sim |-> scan.sim]
                   ELSE NoAnswer
      /\ requested => scan.active \/ touched' = {}
      /\ requested => (clean' <=> ~scan.active)
      /\ ~requested => query' = query /\ clean' = clean
      /\ (requested => scan.active) => touched' = touched \cup ({w, d} \cap Entry)
  BY DEF CacheEdge
<1>4. ASSUME clean', scan'.active
      PROVE  BestBelow(scan.at, scan.best, scan.sim)'
  <2>1. CASE requested
    <3>1. ~scan.active
      BY <1>3, <1>4, <2>1
    <3>2. scan'.at = 0 /\ scan'.sim = 0
      BY <1>3, <2>1, <3>1 DEF Scanned
    <3> QED
      BY <3>2 DEF BestBelow, Entry
  <2>2. CASE ~requested
    <3>1. scan.active /\ scan.at < Entries /\ clean
      <4> DEFINE active == ~(scan.active /\ scan.at >= Entries)
                           /\ (scan.active \/ requested)
      <4>1. scan'.active = active
        <5> HIDE DEF active
        <5>1. scan' = [active |-> active, at |-> scan'.at, best |-> scan'.best,
                       sim |-> scan'.sim]
          BY <1>3 DEF Scanned, active
        <5> QED
          BY <5>1
      <4>2. scan.active /\ ~(scan.at >= Entries)
        BY <1>4, <2>2, <4>1
      <4>3. scan.at \in Nat
        BY <1>2
      <4>4. clean
        BY <1>3, <1>4, <2>2, Zenon
      <4> QED
        BY <4>2, <4>3, <4>4, WordsAreNumbers
    <3>2. BestBelow(scan.at, scan.best, scan.sim)
      BY <3>1 DEF CacheInv, ScanSoFar
    <3> DEFINE best == IF Better(scan.at) THEN scan.at ELSE scan.best
               sim == IF Better(scan.at) THEN Similarity(scan.at) ELSE scan.sim
    <3>3. BestBelow(scan.at + 1, best, sim)
      BY <3>1, <3>2, CompareNext
    <3>4. scan'.at = scan.at + 1 /\ scan'.best = best /\ scan'.sim = sim
      BY <1>3, <2>2, <3>1 DEF Scanned, Similarity
    <3>5. scan.at + 1 \in 0..Entries /\ best \in Entry /\ sim \in Nat
      BY <1>2, <3>1, AgreeType, WordsAreNumbers DEF Entry, Similarity
    <3> HIDE DEF best, sim
    <3>6. ASSUME NEW n \in 0..Entries, NEW b \in Entry, NEW s \in Nat, BestBelow(n, b, s)
          PROVE  BestBelow(n, b, s)'
      BY <1>3, <2>2, <3>6, ComparedStays
    <3>7. ASSUME NEW n, NEW b, NEW s, n = scan'.at, b = scan'.best, s = scan'.sim,
                 BestBelow(n, b, s)'
          PROVE  BestBelow(scan.at, scan.best, scan.sim)'
      BY <3>7 DEF BestBelow
    <3> QED
      BY <3>3, <3>4, <3>5, <3>6, <3>7
  <2> QED
    BY <2>1, <2>2
<1>5. ASSUME clean', answer'.done
      PROVE  BestBelow(Entries, answer.best, answer.sim)'
  <2>1. scan.active /\ scan.at >= Entries /\ answer'.best = scan.best /\ answer'.sim = scan.sim
    BY <1>3, <1>5 DEF NoAnswer
  <2>2. ~requested /\ clean /\ scan.at = Entries
    <3>1. scan.at \in 0..Entries
      BY <1>2
    <3>2. scan.at = Entries
      BY <2>1, <3>1, WordsAreNumbers
    <3> QED
      BY <1>3, <1>5, <2>1, <3>2
  <2>3. BestBelow(Entries, scan.best, scan.sim)
    BY <2>1, <2>2 DEF CacheInv, ScanSoFar
  <2>4. ASSUME NEW b \in Entry, NEW s \in Nat, BestBelow(Entries, b, s)
        PROVE  BestBelow(Entries, b, s)'
    <3>1. Entries \in 0..Entries
      BY WordsAreNumbers
    <3> QED
      BY <1>3, <2>2, <2>4, <3>1, ComparedStays
  <2>5. ASSUME NEW b, NEW s, b = answer'.best, s = answer'.sim, BestBelow(Entries, b, s)'
        PROVE  BestBelow(Entries, answer.best, answer.sim)'
    BY <2>5 DEF BestBelow
  <2> QED
    BY <1>2, <2>1, <2>3, <2>4, <2>5
<1> QED
  BY <1>1, <1>4, <1>5 DEF CacheInv, ScanSoFar, AnswerFinal

LEMMA CacheStepInv == CacheInv /\ [CacheNext]_cacheVars => CacheInv'
<1> SUFFICES ASSUME CacheInv, [CacheNext]_cacheVars PROVE CacheInv'
  OBVIOUS
<1>1. CASE UNCHANGED cacheVars
  BY <1>1 DEF cacheVars, CacheInv, EntryOK, ScanOK, ScanSoFar, AnswerFinal,
              BestBelow, Similarity
<1>2. CASE CacheReset
  BY <1>2, ResetKeeps
<1>3. ASSUME NEW w, NEW d, NEW key \in Key, NEW requested \in BOOLEAN,
             NEW searched \in IF requested THEN Vector ELSE {query},
             CacheEdge(w, key, d, requested, searched)
      PROVE  CacheInv'
  <2>1. searched \in Nat
    BY WordsAreNumbers DEF CacheInv, ScanOK
  <2> QED
    BY <1>3, <2>1, EdgeKeeps
<1> QED
  BY <1>1, <1>2, <1>3 DEF CacheNext

(* The answer to a query that no other broke into is a best match among    *)
(* the entries that were left alone meanwhile, for any number of entries,  *)
(* any words and whatever is written and deleted behind or ahead of it.    *)
THEOREM AnswersAlwaysBest == CacheSpec => []BestMatchFound
<1>1. CacheInit => CacheInv
  BY CacheInitInv
<1>2. CacheInv /\ [CacheNext]_cacheVars => CacheInv'
  BY CacheStepInv
<1>3. CacheInv => BestMatchFound
  <2> SUFFICES ASSUME CacheInv, answer.done, clean
               PROVE  BestMatchFound
    BY DEF BestMatchFound
  <2>1. BestBelow(Entries, answer.best, answer.sim)
    BY DEF CacheInv, AnswerFinal
  <2>2. \A i \in Entry : i < Entries
    BY WordsAreNumbers DEF Entry
  <2>3. answer.best \in Entry
    BY DEF CacheInv, ScanOK
  <2> QED
    BY <2>1, <2>2, <2>3 DEF BestMatchFound, BestBelow, Similarity
<1> QED
  BY <1>1, <1>2, <1>3, PTL DEF CacheSpec

(***************************************************************************)
(* Sums over a finite set.                                                 *)
(***************************************************************************)
(* A set of numbers has a least one: the form in which the proofs below    *)
(* argue by induction, from a least counterexample.                        *)
LEMMA LeastNumber ==
    ASSUME NEW T \in SUBSET Nat, T # {}
    PROVE  \E n \in T : \A m \in T : n <= m
<1>1. IsWellFoundedOn(OpToRel(<, Nat), Nat)
  BY NatLessThanWellFounded
<1>2. PICK n \in T : \A m \in T : ~(<<m, n>> \in OpToRel(<, Nat))
  BY <1>1, WFMin
<1>3. \A m \in T : ~(m < n)
  BY <1>2 DEF OpToRel
<1> QED
  BY <1>3

(* Sums over a finite set.  SumOver(h, S) folds the values of h in an order*)
(* that CHOOSE gives; Summed says of g that it holds the sums of the       *)
(* subsets of S, formed in that order.                                     *)
SumOver(h, S) == MapThenSumSet(LAMBDA c : h[c], S)

Some(s) == CHOOSE x \in s : TRUE

SumFrom(h, g, s) == IF s = {} THEN 0 ELSE h[Some(s)] + g[s \ {Some(s)}]

Summed(h, S, g) == g = [s \in SUBSET S |-> SumFrom(h, g, s)]

Sums(h, S) == CHOOSE g : Summed(h, S, g)

LEMMA SumOverIsLast ==
    ASSUME NEW S, NEW h
    PROVE  SumOver(h, S) = Sums(h, S)[S]
BY DEF SumOver, MapThenSumSet, MapThenFoldSet, Sums, Summed, SumFrom, Some

(* The same for the subsets with at most n elements.                       *)
Small(S, n) == {s \in SUBSET S : Cardinality(s) <= n}

SummedTo(h, S, n, g) == g = [s \in Small(S, n) |-> SumFrom(h, g, s)]

LEMMA SubsetSizes ==
    ASSUME NEW S, IsFiniteSet(S), NEW s \in SUBSET S
    PROVE  /\ IsFiniteSet(s) /\ Cardinality(s) \in Nat
           /\ s # {} => /\ Some(s) \in s
                        /\ s \ {Some(s)} \in SUBSET S
                        /\ Cardinality(s \ {Some(s)}) = Cardinality(s) - 1
           /\ Cardinality(s) <= Cardinality(S)
<1>1. IsFiniteSet(s) /\ Cardinality(s) \in Nat /\ Cardinality(s) <= Cardinality(S)
  BY FS_Subset, FS_CardinalityType
<1>2. s # {} => Some(s) \in s
  BY DEF Some
<1>3. s # {} => Cardinality(s \ {Some(s)}) = Cardinality(s) - 1
  BY <1>1, <1>2, FS_RemoveElement
<1> QED
  BY <1>1, <1>2, <1>3

LEMMA SummedLonger ==
    ASSUME NEW S, IsFiniteSet(S), NEW h, NEW n \in Nat, n > 0,
           NEW g, SummedTo(h, S, n - 1, g)
    PROVE  \E f : SummedTo(h, S, n, f)
<1> DEFINE f == [s \in Small(S, n) |-> SumFrom(h, g, s)]
<1>1. ASSUME NEW s \in Small(S, n - 1) PROVE f[s] = g[s]
  <2>1. s \in Small(S, n)
    <3>1. s \in SUBSET S /\ Cardinality(s) <= n - 1
      BY DEF Small
    <3>2. Cardinality(s) \in Nat
      BY <3>1, SubsetSizes
    <3> QED
      BY <3>1, <3>2 DEF Small
  <2>2. g[s] = SumFrom(h, g, s)
    BY DEF SummedTo
  <2> QED
    BY <2>1, <2>2
<1>2. ASSUME NEW s \in Small(S, n) PROVE SumFrom(h, f, s) = SumFrom(h, g, s)
  <2>1. CASE s = {}
    BY <2>1 DEF SumFrom
  <2>2. CASE s # {}
    <3>1. s \in SUBSET S /\ Cardinality(s) \in Nat /\ Cardinality(s) <= n
      BY SubsetSizes DEF Small
    <3>2. s \ {Some(s)} \in SUBSET S /\ Cardinality(s \ {Some(s)}) = Cardinality(s) - 1
      BY <2>2, <3>1, SubsetSizes
    <3>3. s \ {Some(s)} \in Small(S, n - 1)
      BY <3>1, <3>2 DEF Small
    <3>4. f[s \ {Some(s)}] = g[s \ {Some(s)}]
      BY <1>1, <3>3
    <3> HIDE DEF f
    <3> QED
      BY <3>4 DEF SumFrom
  <2> QED
    BY <2>1, <2>2
<1>3. f = [s \in Small(S, n) |-> SumFrom(h, f, s)]
  <2> DEFINE e == [s \in Small(S, n) |-> SumFrom(h, f, s)]
  <2>1. \A s \in Small(S, n) : f[s] = e[s]
    BY <1>2
  <2>2. f = [s \in Small(S, n) |-> f[s]] /\ e = [s \in Small(S, n) |-> e[s]]
    OBVIOUS
  <2> HIDE DEF f, e
  <2>3. f = e
    BY <2>1, <2>2
  <2> QED
    BY <2>3 DEF e
<1> HIDE DEF f
<1> QED
  BY <1>3 DEF SummedTo

LEMMA SummedExists ==
    ASSUME NEW S, IsFiniteSet(S), NEW h
    PROVE  \E g : Summed(h, S, g)
<1> DEFINE T == {n \in Nat : ~\E g : SummedTo(h, S, n, g)}
<1>1. ASSUME NEW n \in T PROVE FALSE
  <2>1. PICK least \in T : \A m \in T : least <= m
    BY <1>1, LeastNumber
  <2>2. CASE least = 0
    <3> DEFINE g == [s \in Small(S, 0) |-> 0]
    <3>1. \A s \in Small(S, 0) : s = {}
      <4>1. ASSUME NEW s \in Small(S, 0) PROVE s = {}
        <5>1. s \in SUBSET S /\ Cardinality(s) <= 0
          BY DEF Small
        <5>2. IsFiniteSet(s) /\ Cardinality(s) \in Nat
          BY <5>1, SubsetSizes
        <5>3. Cardinality(s) = 0
          BY <5>1, <5>2
        <5> QED
          BY <5>2, <5>3, FS_EmptySet
      <4> QED
        BY <4>1
    <3>2. \A s \in Small(S, 0) : SumFrom(h, g, s) = 0
      BY <3>1 DEF SumFrom
    <3>3. g = [s \in Small(S, 0) |-> SumFrom(h, g, s)]
      BY <3>2
    <3> HIDE DEF g
    <3>4. SummedTo(h, S, 0, g)
      BY <3>3 DEF SummedTo
    <3> QED
      BY <2>1, <2>2, <3>4
  <2>3. CASE least > 0
    <3>1. least - 1 \in Nat /\ least - 1 \notin T
      BY <2>1, <2>3
    <3>2. PICK g : SummedTo(h, S, least - 1, g)
      BY <3>1
    <3> QED
      BY <2>1, <2>3, <3>2, SummedLonger
  <2> QED
    BY <2>1, <2>2, <2>3
<1>2. Cardinality(S) \in Nat
  BY FS_CardinalityType
<1>3. PICK g : SummedTo(h, S, Cardinality(S), g)
  BY <1>1, <1>2
<1>4. Small(S, Cardinality(S)) = SUBSET S
  BY SubsetSizes DEF Small
<1> QED
  BY <1>3, <1>4 DEF SummedTo, Summed

LEMMA SumsUnfold ==
    ASSUME NEW S, IsFiniteSet(S), NEW h, NEW s \in SUBSET S
    PROVE  Sums(h, S)[s] = SumFrom(h, Sums(h, S), s)
<1>1. Summed(h, S, Sums(h, S))
  BY SummedExists DEF Sums
<1> HIDE DEF Sums
<1> QED
  BY <1>1 DEF Summed

LEMMA SumsType ==
    ASSUME NEW S, IsFiniteSet(S), NEW h \in [S -> Nat], NEW s \in SUBSET S
    PROVE  Sums(h, S)[s] \in Nat
<1> DEFINE g == Sums(h, S)
           Bad == {t \in SUBSET S : g[t] \notin Nat}
           T == {Cardinality(t) : t \in Bad}
<1>1. \A t \in SUBSET S : g[t] = SumFrom(h, g, t)
  BY SumsUnfold
<1> HIDE DEF g
<1>2. ASSUME NEW b \in Bad PROVE FALSE
  <2>1. T \in SUBSET Nat /\ T # {}
    <3>1. \A t \in SUBSET S : Cardinality(t) \in Nat
      BY SubsetSizes
    <3> QED
      BY <1>2, <3>1
  <2>2. PICK least \in T : \A m \in T : least <= m
    BY <2>1, LeastNumber
  <2>3. PICK t \in Bad : Cardinality(t) = least
    BY <2>2
  <2>4. t # {}
    <3>1. t \in SUBSET S /\ g[t] \notin Nat
      BY <2>3
    <3>2. g[t] = SumFrom(h, g, t)
      BY <1>1, <3>1
    <3>3. SumFrom(h, g, {}) \in Nat
      BY DEF SumFrom
    <3> QED
      BY <3>1, <3>2, <3>3
  <2> DEFINE x == Some(t)
             r == t \ {x}
  <2>5. x \in S /\ r \in SUBSET S /\ Cardinality(r) = Cardinality(t) - 1
        /\ Cardinality(t) \in Nat
    <3>1. t \in SUBSET S
      BY <2>3
    <3> QED
      BY <2>4, <3>1, SubsetSizes
  <2>6. g[t] = h[x] + g[r]
    BY <1>1, <2>3, <2>4 DEF SumFrom
  <2> HIDE DEF x, r
  <2>7. r \notin Bad
    BY <2>2, <2>3, <2>5
  <2>8. g[r] \in Nat /\ h[x] \in Nat
    BY <2>5, <2>7
  <2> QED
    BY <2>3, <2>6, <2>8
<1> QED
  BY <1>2 DEF g

(* The order does not matter: any element may be taken first.              *)
LEMMA SumsTakeAny ==
    ASSUME NEW S, IsFiniteSet(S), NEW h \in [S -> Nat], NEW s \in SUBSET S, NEW x \in s
    PROVE  Sums(h, S)[s] = h[x] + Sums(h, S)[s \ {x}]
<1> DEFINE g == Sums(h, S)
           Fails(t) == \E y \in t : g[t] # h[y] + g[t \ {y}]
           Bad == {t \in SUBSET S : Fails(t)}
           T == {Cardinality(t) : t \in Bad}
<1>1. \A t \in SUBSET S : g[t] = SumFrom(h, g, t) /\ g[t] \in Nat
  BY SumsUnfold, SumsType
<1> HIDE DEF g
<1>2. ASSUME NEW b \in Bad PROVE FALSE
  <2>1. T \in SUBSET Nat /\ T # {}
    <3>1. \A t \in SUBSET S : Cardinality(t) \in Nat
      BY SubsetSizes
    <3> QED
      BY <1>2, <3>1
  <2>2. PICK least \in T : \A m \in T : least <= m
    BY <2>1, LeastNumber
  <2>3. PICK t \in Bad : Cardinality(t) = least
    BY <2>2
  <2>4. PICK y \in t : g[t] # h[y] + g[t \ {y}]
    BY <2>3
  <2> DEFINE z == Some(t)
             u == t \ {z}
             v == t \ {y}
             w == t \ {y, z}
  <2>5. /\ z \in t /\ z \in S /\ y \in S
        /\ u \in SUBSET S /\ v \in SUBSET S /\ w \in SUBSET S
        /\ Cardinality(u) = Cardinality(t) - 1 /\ Cardinality(t) \in Nat
    <3>1. t \in SUBSET S /\ t # {}
      BY <2>3, <2>4
    <3>2. /\ z \in t /\ u \in SUBSET S
          /\ Cardinality(u) = Cardinality(t) - 1 /\ Cardinality(t) \in Nat
      BY <3>1, SubsetSizes
    <3> QED
      BY <2>4, <3>1, <3>2
  <2>6. g[t] = h[z] + g[u]
    BY <1>1, <2>3 DEF SumFrom
  <2>7. z # y
    BY <2>4, <2>6
  <2>8. Cardinality(v) = Cardinality(t) - 1
    BY <2>3, <2>4, SubsetSizes, FS_RemoveElement
  <2>9. y \in u /\ z \in v /\ u \ {y} = w /\ v \ {z} = w
    BY <2>4, <2>5, <2>7
  <2> HIDE DEF z, u, v, w
  <2>10. u \notin Bad /\ v \notin Bad
    BY <2>2, <2>3, <2>5, <2>8
  <2>11. g[u] = h[y] + g[w] /\ g[v] = h[z] + g[w]
    BY <2>5, <2>9, <2>10
  <2>12. g[w] \in Nat /\ h[y] \in Nat /\ h[z] \in Nat
    BY <1>1, <2>5
  <2>13. g[t] = h[y] + g[v]
    BY <2>6, <2>11, <2>12
  <2> QED
    BY <2>4, <2>13 DEF v
<1>3. ~Fails(s)
  BY <1>2
<1> QED
  BY <1>3 DEF g

LEMMA SumsOfNone ==
    ASSUME NEW S, IsFiniteSet(S), NEW h
    PROVE  Sums(h, S)[{}] = 0
BY SumsUnfold DEF SumFrom

(***************************************************************************)
(* The crossbar: the first product after a reset.                          *)
(***************************************************************************)
MvmType ==
    [active : BOOLEAN, row : Nat, col : 0..TileCols, acc : Nat, busy : BOOLEAN]

BarType ==
    /\ cell \in [TileRow \X TileCol -> Conductance]
    /\ vector \in SUBSET TileCol
    /\ mvm \in MvmType
    /\ emitted \in Seq(Nat)
    /\ products \in Nat

(* The part of a row's product that the first c columns make.              *)
Partial(r, c) == Sums(Terms(r), TileCol)[0..c - 1]

(* While the first product runs, as many rows have been emitted as the row *)
(* index says, and unless something changed under it they are right, and   *)
(* so is what the accumulator has of the next one.                         *)
FirstInv ==
    /\ ~mvm.active => mvm.col = 0 /\ mvm.acc = 0
    /\ products = 0 => ~mvm.active /\ mvm.row = 0
    /\ (products = 1 /\ mvm.active) => mvm.row = Len(emitted) /\ mvm.row < TileRows
    /\ (products = 1 /\ ~mvm.active) => Len(emitted) = TileRows

SteadyInv ==
    (products = 1 /\ steady) =>
        /\ \A r \in 1..Len(emitted) : emitted[r] = RowSum(r - 1)
        /\ mvm.active => mvm.acc = Partial(mvm.row, mvm.col)

BarInv == BarType /\ FirstInv /\ SteadyInv

(* The three ways an edge can go.                                          *)
Waits(enable) ==
    /\ ~mvm.active
    /\ mvm'.active = enable
    /\ mvm'.row = mvm.row /\ mvm'.col = mvm.col /\ mvm'.acc = mvm.acc
    /\ emitted' = IF enable THEN <<>> ELSE emitted

Multiplies ==
    /\ mvm.active /\ mvm'.active
    /\ mvm.col < TileCols
    /\ mvm'.row = mvm.row /\ mvm'.col = mvm.col + 1
    /\ \E g \in Cells : mvm'.acc = IF mvm.col \in vector THEN mvm.acc + g ELSE mvm.acc
    /\ emitted' = emitted

EndsRow ==
    /\ mvm.active /\ mvm'.active = ~LastRow
    /\ mvm.col = TileCols
    /\ mvm'.row = mvm.row + 1 /\ mvm'.col = 0 /\ mvm'.acc = 0
    /\ emitted' = Append(emitted, mvm.acc)

LEMMA BarConstants ==
    /\ TileRows \in Nat /\ TileRows > 0 /\ TileCols \in Nat /\ TileCols > 0
    /\ Conductance \subseteq Nat /\ 0 \in Conductance
    /\ IsFiniteSet(TileCol)
<1>1. TileCols - 1 \in Int /\ 0 \in Int
  BY CrossbarAssumption
<1>2. IsFiniteSet(TileCol)
  BY <1>1, FS_Interval DEF TileCol
<1> QED
  BY <1>2, CrossbarAssumption

LEMMA CellsType ==
    ASSUME BarType, mvm.col < TileCols
    PROVE  /\ Cells \subseteq Nat
           /\ mvm.row < TileRows => Cells = {cell[<<mvm.row, mvm.col>>]}
<1>1. mvm.col \in TileCol /\ mvm.row \in Nat
  BY BarConstants DEF BarType, MvmType, TileCol
<1>2. mvm.row \in TileRow => cell[<<mvm.row, mvm.col>>] \in Nat
  BY <1>1, BarConstants DEF BarType
<1>3. mvm.row < TileRows <=> mvm.row \in TileRow
  BY <1>1, BarConstants DEF TileRow
<1> QED
  BY <1>2, <1>3, BarConstants DEF Cells

LEMMA EdgeCases ==
    ASSUME BarType, NEW enable \in BOOLEAN, MvmEdge(enable)
    PROVE  /\ mvm' \in MvmType /\ emitted' \in Seq(Nat)
           /\ Waits(enable) \/ Multiplies \/ EndsRow
<1>1. /\ mvm \in MvmType /\ emitted \in Seq(Nat) /\ mvm.row \in Nat
      /\ mvm.col \in 0..TileCols /\ mvm.acc \in Nat
      /\ mvm.active \in BOOLEAN /\ mvm.busy \in BOOLEAN
  BY DEF BarType, MvmType
<1> DEFINE busy == mvm.busy \/ enable
<1>2. busy \in BOOLEAN
  OBVIOUS
<1>3. CASE /\ ~mvm.active
           /\ mvm' = [mvm EXCEPT !.active = enable, !.busy = @ \/ enable]
           /\ emitted' = IF enable THEN <<>> ELSE emitted
  <2>1. mvm' = [mvm EXCEPT !.active = enable, !.busy = busy]
    BY <1>3
  <2> HIDE DEF busy
  <2>2. mvm' \in MvmType
    BY <1>1, <1>2, <2>1 DEF MvmType
  <2>3. emitted' \in Seq(Nat)
    BY <1>1, <1>3
  <2>4. mvm'.active = enable
    BY <1>1, <2>1 DEF MvmType
  <2>5. mvm'.row = mvm.row /\ mvm'.col = mvm.col /\ mvm'.acc = mvm.acc
    BY <1>1, <2>1 DEF MvmType
  <2>6. Waits(enable)
    BY <1>3, <2>4, <2>5 DEF Waits
  <2> QED
    BY <2>2, <2>3, <2>6
<1>4. CASE /\ mvm.active /\ mvm.col < TileCols
           /\ \E g \in Cells :
                 mvm' = [mvm EXCEPT !.col = @ + 1, !.busy = @ \/ enable,
                             !.acc = IF mvm.col \in vector THEN @ + g ELSE @]
           /\ UNCHANGED emitted
  <2>1. PICK g \in Cells :
           mvm' = [mvm EXCEPT !.col = mvm.col + 1, !.busy = busy,
                      !.acc = IF mvm.col \in vector THEN mvm.acc + g ELSE mvm.acc]
    BY <1>4
  <2> DEFINE sum == IF mvm.col \in vector THEN mvm.acc + g ELSE mvm.acc
  <2>2. g \in Nat
    BY <1>4, CellsType
  <2>3. sum \in Nat /\ mvm.col + 1 \in 0..TileCols
    BY <1>1, <1>4, <2>2, BarConstants
  <2>4. mvm' = [mvm EXCEPT !.col = mvm.col + 1, !.busy = busy, !.acc = sum]
    BY <2>1
  <2> HIDE DEF busy, sum
  <2>5. mvm' \in MvmType
    BY <1>1, <1>2, <2>3, <2>4 DEF MvmType
  <2>6. mvm'.row = mvm.row /\ mvm'.col = mvm.col + 1 /\ mvm'.acc = sum
    BY <1>1, <2>4 DEF MvmType
  <2>7. mvm'.active = mvm.active
    BY <1>1, <2>4 DEF MvmType
  <2>8. Multiplies
    BY <1>4, <2>6, <2>7 DEF Multiplies, sum
  <2> QED
    BY <1>1, <1>4, <2>5, <2>8
<1>5. CASE /\ mvm.active /\ mvm.col >= TileCols
           /\ mvm' = [active |-> ~LastRow, row |-> mvm.row + 1, col |-> 0,
                      acc |-> RowStart(mvm.acc),
                      busy |-> ~LastRow /\ (mvm.busy \/ enable)]
           /\ emitted' = Append(emitted, mvm.acc)
  <2> DEFINE more == ~LastRow
             still == ~LastRow /\ (mvm.busy \/ enable)
             next == mvm.row + 1
  <2>1. mvm' = [active |-> more, row |-> next, col |-> 0, acc |-> 0, busy |-> still]
    BY <1>5 DEF RowStart
  <2>2. more \in BOOLEAN /\ still \in BOOLEAN /\ next \in Nat /\ 0 \in 0..TileCols
    BY <1>1, BarConstants
  <2>3. emitted' \in Seq(Nat)
    BY <1>1, <1>5, AppendProperties
  <2> HIDE DEF more, still, next
  <2>4. mvm' \in MvmType
    BY <2>1, <2>2 DEF MvmType
  <2>5. mvm'.row = next /\ mvm'.col = 0 /\ mvm'.acc = 0
    BY <2>1
  <2>6. mvm'.active = more
    BY <2>1
  <2>7. mvm.col = TileCols
    BY <1>1, <1>5, BarConstants
  <2>8. EndsRow
    BY <1>5, <2>5, <2>6, <2>7 DEF EndsRow, more, next
  <2> QED
    BY <2>3, <2>4, <2>8
<1> QED
  BY <1>3, <1>4, <1>5 DEF MvmEdge

LEMMA TermsType ==
    ASSUME BarType, NEW r \in TileRow
    PROVE  Terms(r) \in [TileCol -> Nat]
BY BarConstants DEF BarType, Terms

(* One more column of a row, and the whole of it.                          *)
LEMMA PartialGrows ==
    ASSUME BarType, NEW r \in TileRow, NEW c \in TileCol
    PROVE  /\ Partial(r, c + 1) = Terms(r)[c] + Partial(r, c)
           /\ Partial(r, c) \in Nat
<1> DEFINE s == 0..c
<1>1. c \in s /\ s \in SUBSET TileCol /\ s \ {c} = 0..c - 1 /\ s = 0..(c + 1) - 1
  BY BarConstants DEF TileCol
<1>2. s \ {c} \in SUBSET TileCol
  BY <1>1
<1> DEFINE t == Terms(r)
<1>3. t \in [TileCol -> Nat] /\ IsFiniteSet(TileCol)
  BY TermsType, BarConstants
<1> HIDE DEF s, t
<1>4. Sums(t, TileCol)[s] = t[c] + Sums(t, TileCol)[s \ {c}]
  <2>1. s \in SUBSET TileCol /\ c \in s
    BY <1>1
  <2>2. \A x \in s : Sums(t, TileCol)[s] = t[x] + Sums(t, TileCol)[s \ {x}]
    BY <1>3, <2>1, SumsTakeAny
  <2> QED
    BY <2>1, <2>2
<1>5. Sums(t, TileCol)[s \ {c}] \in Nat
  BY <1>2, <1>3, SumsType
<1> QED
  BY <1>1, <1>4, <1>5 DEF Partial, t

LEMMA PartialEnds ==
    ASSUME BarType, NEW r \in TileRow
    PROVE  Partial(r, 0) = 0 /\ Partial(r, TileCols) = RowSum(r)
<1>1. 0..0 - 1 = {} /\ 0..TileCols - 1 = TileCol
  BY DEF TileCol
<1>2. Partial(r, 0) = 0
  BY <1>1, BarConstants, SumsOfNone DEF Partial
<1>3. RowSum(r) = SumOver(Terms(r), TileCol)
  BY DEF RowSum, SumOver
<1>4. Partial(r, TileCols) = RowSum(r)
  BY <1>1, <1>3, SumOverIsLast DEF Partial
<1> QED
  BY <1>2, <1>4

(* Begins an enable starts a product.                                      *)
Begins(enable) == enable /\ ~mvm.active

LEMMA EdgeFirst ==
    ASSUME BarInv, NEW enable \in BOOLEAN, MvmEdge(enable),
           products' = IF Begins(enable) THEN products + 1 ELSE products
    PROVE  FirstInv'
<1>1. BarType /\ FirstInv
  BY DEF BarInv
<1>2. /\ mvm.row \in Nat /\ mvm.col \in Nat /\ products \in Nat /\ Len(emitted) \in Nat
      /\ TileRows \in Nat /\ TileRows > 0 /\ mvm.active \in BOOLEAN
  BY <1>1, BarConstants, LenProperties DEF BarType, MvmType
<1>3. CASE Waits(enable)
  <2>1. CASE enable
    <3>1. /\ mvm'.active /\ mvm'.row = mvm.row /\ emitted' = <<>>
          /\ products' = products + 1
      BY <1>3, <2>1 DEF Waits, Begins
    <3>2. products' = 1 => products = 0
      BY <1>2, <3>1
    <3>3. products' # 0
      BY <1>2, <3>1
    <3>4. products = 0 => mvm.row = 0
      BY <1>1 DEF FirstInv
    <3>5. products' = 1 => mvm'.row = Len(emitted') /\ mvm'.row < TileRows
      BY <1>2, <3>1, <3>2, <3>4
    <3> QED
      BY <3>1, <3>3, <3>5 DEF FirstInv
  <2>2. CASE ~enable
    <3>1. /\ ~mvm'.active /\ mvm'.row = mvm.row /\ mvm'.col = mvm.col
          /\ mvm'.acc = mvm.acc /\ emitted' = emitted /\ products' = products
          /\ ~mvm.active
      BY <1>3, <2>2 DEF Waits, Begins
    <3> QED
      BY <1>1, <3>1 DEF FirstInv
  <2> QED
    BY <2>1, <2>2
<1>4. CASE Multiplies
  <2>1. /\ mvm.active /\ mvm'.active /\ mvm'.row = mvm.row
        /\ emitted' = emitted /\ products' = products
    BY <1>4 DEF Multiplies, Begins
  <2> QED
    BY <1>1, <2>1 DEF FirstInv
<1>5. CASE EndsRow
  <2>1. /\ mvm.active /\ mvm'.col = 0 /\ mvm'.acc = 0
        /\ mvm'.row = mvm.row + 1 /\ products' = products /\ products # 0
        /\ mvm'.active <=> ~LastRow
    BY <1>1, <1>5 DEF EndsRow, Begins, FirstInv
  <2>2. Len(emitted') = Len(emitted) + 1
    <3>1. emitted \in Seq(Nat) /\ mvm.acc \in Nat
      BY <1>1 DEF BarType, MvmType
    <3> QED
      BY <1>5, <3>1, AppendProperties DEF EndsRow
  <2>3. ASSUME products = 1
        PROVE  /\ mvm'.row = Len(emitted')
               /\ ~LastRow => mvm'.row < TileRows
               /\ LastRow => Len(emitted') = TileRows
    <3>1. mvm.row = Len(emitted) /\ mvm.row < TileRows
      BY <1>1, <2>1, <2>3 DEF FirstInv
    <3> QED
      BY <1>2, <2>1, <2>2, <3>1 DEF LastRow
  <2> QED
    BY <2>1, <2>3 DEF FirstInv
<1> QED
  BY <1>1, <1>3, <1>4, <1>5, EdgeCases

LEMMA SumsSteady ==
    ASSUME cell' = cell, vector' = vector
    PROVE  \A r : RowSum(r)' = RowSum(r) /\ Terms(r)' = Terms(r)
<1>1. ASSUME NEW r PROVE RowSum(r)' = RowSum(r) /\ Terms(r)' = Terms(r)
  <2>1. Terms(r)' = Terms(r)
    BY DEF Terms, TileCol
  <2>2. RowSum(r)' = Sums(Terms(r)', TileCol)[TileCol]
    BY DEF RowSum, TileCol, MapThenSumSet, MapThenFoldSet, Sums, Summed, SumFrom, Some
  <2>3. RowSum(r) = Sums(Terms(r), TileCol)[TileCol]
    BY DEF RowSum, MapThenSumSet, MapThenFoldSet, Sums, Summed, SumFrom, Some
  <2> QED
    BY <2>1, <2>2, <2>3
<1> QED
  BY <1>1

LEMMA EdgeSteady ==
    ASSUME BarInv, NEW enable \in BOOLEAN, MvmEdge(enable), BarType',
           products' = IF Begins(enable) THEN products + 1 ELSE products,
           steady' => \/ Begins(enable)
                      \/ steady /\ cell' = cell /\ vector' = vector
    PROVE  SteadyInv'
<1> SUFFICES ASSUME products' = 1, steady'
             PROVE  /\ \A r \in 1..Len(emitted') : emitted'[r] = RowSum(r - 1)'
                    /\ mvm'.active => mvm'.acc = Partial(mvm.row, mvm.col)'
  BY DEF SteadyInv
<1>1. BarType /\ FirstInv /\ SteadyInv
  BY DEF BarInv
<1>2. /\ mvm.row \in Nat /\ mvm.col \in 0..TileCols /\ mvm.acc \in Nat
      /\ products \in Nat /\ emitted \in Seq(Nat) /\ Len(emitted) \in Nat
  BY <1>1, LenProperties DEF BarType, MvmType
<1>3. CASE Begins(enable)
  <2>1. products = 0
    BY <1>2, <1>3
  <2>2. mvm.row = 0 /\ mvm.col = 0 /\ mvm.acc = 0 /\ ~mvm.active /\ enable
    BY <1>1, <1>3, <2>1 DEF FirstInv, Begins
  <2>3. Waits(enable)
    BY <1>1, <2>2, EdgeCases DEF Multiplies, EndsRow
  <2>4. emitted' = <<>> /\ mvm'.row = 0 /\ mvm'.col = 0 /\ mvm'.acc = 0
    BY <2>2, <2>3 DEF Waits
  <2>5. 0 \in TileRow
    BY BarConstants DEF TileRow
  <2>6. Partial(0, 0)' = 0
    <3>1. 0..0 - 1 = {}
      OBVIOUS
    <3>2. Sums(Terms(0)', TileCol)[{}] = 0
      BY BarConstants, SumsOfNone
    <3> QED
      BY <3>1, <3>2 DEF Partial, TileCol
  <2> QED
    BY <2>4, <2>6 DEF Partial
<1>4. CASE ~Begins(enable)
  <2>1. products = 1 /\ steady /\ cell' = cell /\ vector' = vector
    BY <1>4
  <2>2. /\ \A r \in 1..Len(emitted) : emitted[r] = RowSum(r - 1)
        /\ mvm.active => mvm.acc = Partial(mvm.row, mvm.col)
    BY <1>1, <2>1 DEF SteadyInv
  <2>3. \A r : RowSum(r)' = RowSum(r) /\ Terms(r)' = Terms(r)
    BY <2>1, SumsSteady
  <2>5. CASE Waits(enable)
    <3>1. ~enable
      BY <1>4, <2>5 DEF Waits, Begins
    <3>2. emitted' = emitted /\ ~mvm'.active
      BY <2>5, <3>1 DEF Waits
    <3> QED
      BY <2>2, <2>3, <3>2
  <2>6. CASE Multiplies
    <3>1. /\ mvm.active /\ mvm'.row = mvm.row /\ mvm'.col = mvm.col + 1
          /\ mvm.col < TileCols /\ emitted' = emitted
      BY <2>6 DEF Multiplies
    <3>2. mvm.row < TileRows /\ mvm.row \in TileRow /\ mvm.col \in TileCol
      BY <1>1, <1>2, <2>1, <3>1, BarConstants DEF FirstInv, TileRow, TileCol
    <3>3. PICK g \in Cells :
             mvm'.acc = IF mvm.col \in vector THEN mvm.acc + g ELSE mvm.acc
      BY <2>6 DEF Multiplies
    <3>4. g = cell[<<mvm.row, mvm.col>>] /\ g \in Nat
      BY <1>1, <3>1, <3>2, <3>3, CellsType
    <3>5. Terms(mvm.row)[mvm.col] = IF mvm.col \in vector THEN g ELSE 0
      BY <3>2, <3>4 DEF Terms
    <3>6. /\ Partial(mvm.row, mvm.col + 1)
               = Terms(mvm.row)[mvm.col] + Partial(mvm.row, mvm.col)
          /\ Partial(mvm.row, mvm.col) \in Nat
      BY <1>1, <3>2, PartialGrows
    <3>7. mvm'.acc = Partial(mvm.row, mvm.col + 1)
      BY <2>2, <3>1, <3>3, <3>4, <3>5, <3>6
    <3>8. Partial(mvm.row, mvm.col)' = Partial(mvm'.row, mvm'.col)
      BY <2>3 DEF Partial, TileCol
    <3> QED
      BY <2>2, <2>3, <3>1, <3>7, <3>8
  <2>7. CASE EndsRow
    <3>1. /\ mvm.active /\ mvm.col = TileCols /\ mvm'.col = 0 /\ mvm'.acc = 0
          /\ mvm'.row = mvm.row + 1 /\ emitted' = Append(emitted, mvm.acc)
          /\ mvm'.active <=> ~LastRow
      BY <2>7 DEF EndsRow
    <3>2. mvm.row < TileRows /\ mvm.row \in TileRow /\ mvm.row = Len(emitted)
      BY <1>1, <1>2, <2>1, <3>1, BarConstants DEF FirstInv, TileRow
    <3>3. mvm.acc = RowSum(mvm.row)
      BY <1>1, <2>2, <3>1, <3>2, PartialEnds
    <3>4. /\ Len(emitted') = Len(emitted) + 1
          /\ \A r \in 1..Len(emitted) : emitted'[r] = emitted[r]
          /\ emitted'[Len(emitted) + 1] = mvm.acc
      BY <1>2, <3>1, AppendProperties
    <3>5. \A r \in 1..Len(emitted') : emitted'[r] = RowSum(r - 1)
      <4>1. ASSUME NEW r \in 1..Len(emitted') PROVE emitted'[r] = RowSum(r - 1)
        <5>1. r \in 1..Len(emitted) \/ r = Len(emitted) + 1
          BY <1>2, <3>4
        <5>2. CASE r \in 1..Len(emitted)
          BY <2>2, <3>4, <5>2
        <5>3. CASE r = Len(emitted) + 1
          <6>1. r - 1 = mvm.row
            BY <1>2, <3>2, <5>3
          <6> QED
            BY <3>3, <3>4, <5>3, <6>1
        <5> QED
          BY <5>1, <5>2, <5>3
      <4> QED
        BY <4>1
    <3>6. ASSUME mvm'.active PROVE mvm'.acc = Partial(mvm'.row, mvm'.col)
      <4>1. mvm'.row \in TileRow
        BY <1>2, <3>1, <3>6, BarConstants DEF LastRow, TileRow
      <4> QED
        BY <1>1, <3>1, <4>1, PartialEnds
    <3>7. Partial(mvm.row, mvm.col)' = Partial(mvm'.row, mvm'.col)
      BY <2>3 DEF Partial, TileCol
    <3> QED
      BY <2>3, <3>5, <3>6, <3>7
  <2> QED
    BY <1>1, <2>5, <2>6, <2>7, EdgeCases
<1> QED
  BY <1>3, <1>4

LEMMA BarEdgeKeeps ==
    ASSUME BarInv, NEW enable \in BOOLEAN, MvmEdge(enable),
           cell' \in [TileRow \X TileCol -> Conductance],
           vector' \in SUBSET TileCol,
           products' = IF Begins(enable) THEN products + 1 ELSE products,
           steady' => \/ Begins(enable)
                      \/ steady /\ cell' = cell /\ vector' = vector
    PROVE  BarInv'
<1>1. mvm' \in MvmType /\ emitted' \in Seq(Nat)
  BY EdgeCases DEF BarInv
<1>2. products' \in Nat
  BY DEF BarInv, BarType
<1>3. BarType'
  BY <1>1, <1>2 DEF BarType, TileRow, TileCol, MvmType
<1> QED
  BY <1>3, EdgeFirst, EdgeSteady DEF BarInv

LEMMA BarStep ==
    ASSUME BarInv, [BarNext]_barVars
    PROVE  BarInv'
<1>1. BarType
  BY DEF BarInv
<1>2. CASE UNCHANGED barVars
  <2>0. /\ cell' = cell /\ vector' = vector /\ mvm' = mvm /\ emitted' = emitted
        /\ products' = products /\ steady' = steady
    BY <1>2 DEF barVars
  <2>1a. BarType'
    BY <1>1, <2>0 DEF BarType, TileRow, TileCol, MvmType
  <2>1b. FirstInv'
    BY <2>0 DEF BarInv, FirstInv
  <2>1. BarType' /\ FirstInv'
    BY <2>1a, <2>1b
  <2>2. \A r : RowSum(r)' = RowSum(r) /\ Terms(r)' = Terms(r)
    BY <2>0, SumsSteady
  <2>3. \A r, c : Partial(r, c)' = Partial(r, c)
    BY <2>2 DEF Partial, TileCol
  <2>4. SteadyInv'
    BY <1>2, <2>2, <2>3 DEF BarInv, barVars, SteadyInv
  <2> QED
    BY <2>1, <2>4 DEF BarInv
<1>3. CASE BarIdle
  <2>1. /\ MvmEdge(FALSE) /\ cell' = cell /\ vector' = vector
        /\ products' = products /\ steady' = steady
    BY <1>3 DEF BarIdle
  <2>2. ~Begins(FALSE)
    BY DEF Begins
  <2> QED
    BY <1>1, <2>1, <2>2, BarEdgeKeeps DEF BarType
<1>4. ASSUME NEW p \in TileRow \X TileCol, NEW g \in Conductance, Write(p, g)
      PROVE  BarInv'
  <2>1. /\ MvmEdge(FALSE) /\ vector' = vector /\ products' = products
        /\ cell' = [cell EXCEPT ![p] = g] /\ steady' = (steady /\ g = cell[p])
    BY <1>4 DEF Write, WriteCell
  <2>2. cell' \in [TileRow \X TileCol -> Conductance]
    BY <1>1, <2>1 DEF BarType
  <2>3. steady' => steady /\ cell' = cell
    BY <1>1, <2>1 DEF BarType
  <2>4. ~Begins(FALSE)
    BY DEF Begins
  <2> QED
    BY <1>1, <2>1, <2>2, <2>3, <2>4, BarEdgeKeeps DEF BarType
<1>5. ASSUME NEW v \in SUBSET TileCol, Enable(v)
      PROVE  BarInv'
  <2>1. /\ MvmEdge(TRUE) /\ vector' = v /\ cell' = cell
        /\ products' = IF mvm.active THEN products ELSE products + 1
        /\ steady' = (~mvm.active \/ (steady /\ v = vector))
    BY <1>5 DEF Enable
  <2>2. Begins(TRUE) <=> ~mvm.active
    BY DEF Begins
  <2>3. steady' => Begins(TRUE) \/ (steady /\ cell' = cell /\ vector' = vector)
    BY <2>1, <2>2
  <2>4. products' = IF Begins(TRUE) THEN products + 1 ELSE products
    BY <2>1, <2>2
  <2> QED
    BY <1>1, <2>1, <2>3, <2>4, BarEdgeKeeps DEF BarType
<1>6. CASE BarReset
  <2>1. /\ mvm' = MvmReset /\ emitted' = <<>> /\ products' = 0
        /\ cell' = cell /\ vector' = vector
    BY <1>6 DEF BarReset
  <2>2. MvmReset \in MvmType /\ ~MvmReset.active /\ MvmReset.row = 0
        /\ MvmReset.col = 0 /\ MvmReset.acc = 0
    BY BarConstants DEF MvmReset, MvmType
  <2>3. BarType'
    BY <1>1, <2>1, <2>2 DEF BarType, TileRow, TileCol, MvmType
  <2>4. FirstInv' /\ SteadyInv'
    BY <2>1, <2>2 DEF FirstInv, SteadyInv
  <2> QED
    BY <2>3, <2>4 DEF BarInv
<1> QED
  BY <1>2, <1>3, <1>4, <1>5, <1>6 DEF BarNext

(* The first product after a reset emits the product of every row with the *)
(* vector once, in order, and ends after the last, however large the array *)
(* and whenever it is enabled again, unless its cells or its input change  *)
(* under it.                                                               *)
THEOREM FirstProductAlwaysExact == BarSpec => []FirstProductExact
<1>1. BarInit => BarInv
  <2> SUFFICES ASSUME BarInit PROVE BarInv
    OBVIOUS
  <2>1. MvmReset \in MvmType /\ ~MvmReset.active /\ MvmReset.row = 0
        /\ MvmReset.col = 0 /\ MvmReset.acc = 0
    BY BarConstants DEF MvmReset, MvmType
  <2>2. BarType
    BY <2>1, BarConstants DEF BarInit, BarType
  <2>3. FirstInv /\ SteadyInv
    BY <2>1 DEF BarInit, FirstInv, SteadyInv
  <2> QED
    BY <2>2, <2>3 DEF BarInv
<1>2. BarInv /\ [BarNext]_barVars => BarInv'
  BY BarStep
<1>3. BarInv => FirstProductExact
  <2> SUFFICES ASSUME BarInv, products = 1, steady
               PROVE  /\ emitted = [r \in 1..Len(emitted) |-> RowSum(r - 1)]
                      /\ IF mvm.active THEN Len(emitted) < TileRows
                         ELSE Len(emitted) = TileRows
    BY DEF FirstProductExact
  <2>1. emitted \in Seq(Nat)
    BY DEF BarInv, BarType
  <2>2. emitted = [r \in 1..Len(emitted) |-> emitted[r]]
    BY <2>1
  <2>3. \A r \in 1..Len(emitted) : emitted[r] = RowSum(r - 1)
    BY DEF BarInv, SteadyInv
  <2>4. emitted = [r \in 1..Len(emitted) |-> RowSum(r - 1)]
    BY <2>2, <2>3
  <2>5. IF mvm.active THEN Len(emitted) < TileRows ELSE Len(emitted) = TileRows
    BY DEF BarInv, FirstInv
  <2> QED
    BY <2>4, <2>5
<1> QED
  BY <1>1, <1>2, <1>3, PTL DEF BarSpec
-----------------------------------------------------------------------------
(***************************************************************************)
(* The memory mapper.  Rows puts the tiles one behind the other with a     *)
(* recursive function; the first part says where each row of each tile is  *)
(* then, for any tiles, and for tiles of which only the last has free      *)
(* rows.  A number of rows is told apart into tile and row by Divided and  *)
(* Quotient.                                                               *)
(***************************************************************************)
(* f[i] is the first i tiles, one behind the other.                        *)
Flattens(ts, n, f) ==
    /\ f = [i \in 1..n |-> f[i]]
    /\ f[1] = ts[1]
    /\ \A i \in 2..n : f[i] = f[i - 1] \o ts[i]

LEMMA FlattensLonger ==
    ASSUME NEW ts, NEW n \in Nat, n > 1, NEW f, Flattens(ts, n - 1, f)
    PROVE  \E g : Flattens(ts, n, g)
<1> DEFINE g == [i \in 1..n |-> IF i = n THEN f[n - 1] \o ts[n] ELSE f[i]]
<1>1. g = [i \in 1..n |-> g[i]]
  OBVIOUS
<1>2. \A i \in 1..n - 1 : g[i] = f[i]
  OBVIOUS
<1>3. g[n] = f[n - 1] \o ts[n]
  <2>1. n \in 1..n
    OBVIOUS
  <2> QED
    BY <2>1
<1> HIDE DEF g
<1>4. f[1] = ts[1] /\ \A i \in 2..n - 1 : f[i] = f[i - 1] \o ts[i]
  BY DEF Flattens
<1>5. g[1] = ts[1]
  <2>1. 1 \in 1..n - 1
    OBVIOUS
  <2> QED
    BY <1>2, <1>4, <2>1
<1>6. ASSUME NEW i \in 2..n PROVE g[i] = g[i - 1] \o ts[i]
  <2>1. i - 1 \in 1..n - 1
    OBVIOUS
  <2>2. CASE i = n
    BY <1>2, <1>3, <2>1, <2>2
  <2>3. CASE i # n
    <3>1. i \in 1..n - 1 /\ i \in 2..n - 1
      BY <2>3
    <3>2. g[i] = f[i] /\ g[i - 1] = f[i - 1]
      BY <1>2, <2>1, <3>1
    <3> QED
      BY <1>4, <3>1, <3>2
  <2> QED
    BY <2>2, <2>3
<1>7. Flattens(ts, n, g)
  BY <1>1, <1>5, <1>6 DEF Flattens
<1> QED
  BY <1>7

LEMMA FlattensExists ==
    ASSUME NEW ts, NEW n \in Nat, n > 0
    PROVE  \E f : Flattens(ts, n, f)
<1> DEFINE T == {k \in Nat : k > 0 /\ ~\E f : Flattens(ts, k, f)}
<1>1. ASSUME NEW k \in T PROVE FALSE
  <2>1. PICK least \in T : \A m \in T : least <= m
    BY <1>1, LeastNumber
  <2>2. CASE least = 1
    <3>1. Flattens(ts, 1, [i \in 1..1 |-> ts[i]])
      BY DEF Flattens
    <3> QED
      BY <2>1, <2>2, <3>1
  <2>3. CASE least > 1
    <3>1. least - 1 \in Nat /\ least - 1 > 0 /\ least - 1 \notin T
      BY <2>1, <2>3
    <3>2. PICK f : Flattens(ts, least - 1, f)
      BY <3>1
    <3> QED
      BY <2>1, <2>3, <3>2, FlattensLonger
  <2> QED
    BY <2>1, <2>2, <2>3
<1> QED
  BY <1>1

(* The function inside FlattenSeq exists, and has the values it is given.  *)
LEMMA FlattenUnfolds ==
    ASSUME NEW S, NEW ts \in Seq(S), Len(ts) > 0
    PROVE  \E f : Flattens(ts, Len(ts), f) /\ Rows(ts) = f[Len(ts)]
<1> DEFINE Unfolded(g) ==
              g = [i \in 1..Len(ts) |->
                      IF i = 1 THEN ts[i] ELSE g[i - 1] \o ts[i]]
           c == CHOOSE g : Unfolded(g)
<1>1. Len(ts) \in Nat
  OBVIOUS
<1>2. PICK f : Flattens(ts, Len(ts), f)
  BY <1>1, FlattensExists
<1>3. Unfolded(f)
  <2>1. f = [i \in 1..Len(ts) |-> f[i]]
    BY <1>2 DEF Flattens
  <2>2. ASSUME NEW i \in 1..Len(ts)
        PROVE  f[i] = IF i = 1 THEN ts[i] ELSE f[i - 1] \o ts[i]
    <3>1. i # 1 => i \in 2..Len(ts)
      BY <1>1
    <3> QED
      BY <1>2, <3>1 DEF Flattens
  <2> QED
    BY <2>1, <2>2
<1>4. Unfolded(c)
  <2> HIDE DEF Unfolded
  <2> QED
    BY <1>3
<1>5. Rows(ts) = c[Len(ts)]
  BY DEF Rows, FlattenSeq
<1> HIDE DEF c
<1>6. Flattens(ts, Len(ts), c)
  <2>1. \A i \in 1..Len(ts) : c[i] = IF i = 1 THEN ts[i] ELSE c[i - 1] \o ts[i]
    <3>1. ASSUME NEW i \in 1..Len(ts)
          PROVE  c[i] = IF i = 1 THEN ts[i] ELSE c[i - 1] \o ts[i]
      BY <1>4, Zenon
    <3> QED
      BY <3>1
  <2>2. c = [i \in 1..Len(ts) |-> c[i]]
    BY <1>4
  <2>3. c[1] = ts[1]
    <3>1. 1 \in 1..Len(ts)
      BY <1>1
    <3> QED
      BY <2>1, <3>1
  <2>4. ASSUME NEW i \in 2..Len(ts) PROVE c[i] = c[i - 1] \o ts[i]
    <3>1. i \in 1..Len(ts) /\ i # 1
      BY <1>1
    <3> QED
      BY <2>1, <3>1
  <2> QED
    BY <2>2, <2>3, <2>4 DEF Flattens
<1> QED
  BY <1>5, <1>6

(* start[t] rows come before tile t.                                       *)
Starts(ts, start) ==
    /\ start \in [1..Len(ts) + 1 -> Nat]
    /\ start[1] = 0
    /\ \A t \in 1..Len(ts) : start[t + 1] = start[t] + Len(ts[t])

(* The first n tiles fill w.                                               *)
Laid(S, ts, start, n, w) ==
    /\ w \in Seq(S) /\ Len(w) = start[n + 1]
    /\ \A t \in 1..n : \A r \in 1..Len(ts[t]) :
          start[t] + r \in 1..Len(w) /\ w[start[t] + r] = ts[t][r]

LEMMA LaidLonger ==
    ASSUME NEW S, NEW ts \in Seq(Seq(S)), NEW start, Starts(ts, start),
           NEW n \in 1..Len(ts), n > 1, NEW w, Laid(S, ts, start, n - 1, w)
    PROVE  Laid(S, ts, start, n, w \o ts[n])
<1> DEFINE v == w \o ts[n]
<1>1. /\ ts[n] \in Seq(S) /\ w \in Seq(S) /\ Len(w) = start[n] /\ Len(w) \in Nat
      /\ Len(ts[n]) \in Nat
  BY DEF Laid
<1>2. v \in Seq(S) /\ Len(v) = Len(w) + Len(ts[n])
  BY <1>1
<1>3. \A i \in 1..Len(v) : v[i] = IF i <= Len(w) THEN w[i] ELSE ts[n][i - Len(w)]
  BY <1>1
<1> HIDE DEF v
<1>4. start[n + 1] = start[n] + Len(ts[n])
  BY DEF Starts
<1>5. ASSUME NEW t \in 1..n, NEW r \in 1..Len(ts[t])
      PROVE  start[t] + r \in 1..Len(v) /\ v[start[t] + r] = ts[t][r]
  <2>1. CASE t = n
    <3>1. start[t] + r \in 1..Len(v) /\ ~(start[t] + r <= Len(w))
          /\ (start[t] + r) - Len(w) = r
      BY <1>1, <1>2, <2>1
    <3> QED
      BY <1>3, <2>1, <3>1
  <2>2. CASE t # n
    <3>1. t \in 1..n - 1
      BY <2>2
    <3>2. start[t] + r \in 1..Len(w) /\ w[start[t] + r] = ts[t][r]
      BY <3>1 DEF Laid
    <3>3. start[t] + r \in 1..Len(v) /\ start[t] + r <= Len(w)
      BY <1>1, <1>2, <3>2
    <3> QED
      BY <1>3, <3>2, <3>3
  <2> QED
    BY <2>1, <2>2
<1>6. Laid(S, ts, start, n, v)
  BY <1>1, <1>2, <1>4, <1>5 DEF Laid
<1> QED
  BY <1>6 DEF v

(* Where every row of the tiles is when they are put one behind the other. *)
LEMMA RowsLaid ==
    ASSUME NEW S, NEW ts \in Seq(Seq(S)), NEW start, Starts(ts, start)
    PROVE  Laid(S, ts, start, Len(ts), Rows(ts))
<1>1. CASE Len(ts) = 0
  <2>1. Rows(ts) = ts /\ ts = <<>>
    BY <1>1 DEF Rows, FlattenSeq
  <2>2. start[1] = 0
    BY DEF Starts
  <2> QED
    BY <1>1, <2>1, <2>2 DEF Laid
<1>2. CASE Len(ts) > 0
  <2>1. PICK f : Flattens(ts, Len(ts), f) /\ Rows(ts) = f[Len(ts)]
    BY <1>2, FlattenUnfolds
  <2>2. f[1] = ts[1] /\ \A i \in 2..Len(ts) : f[i] = f[i - 1] \o ts[i]
    BY <2>1 DEF Flattens
  <2>0. Len(ts) \in Nat
    OBVIOUS
  <2> DEFINE T == {k \in Nat : k \in 1..Len(ts) /\ ~Laid(S, ts, start, k, f[k])}
  <2>3. ASSUME NEW k \in T PROVE FALSE
    <3>1. PICK least \in T : \A m \in T : least <= m
      BY <2>3, LeastNumber
    <3>2. CASE least = 1
      <4>1. f[1] = ts[1] /\ ts[1] \in Seq(S)
        BY <1>2, <2>0, <2>2
      <4>2. start[1] = 0 /\ start[2] = start[1] + Len(ts[1]) /\ Len(ts[1]) \in Nat
        <5>1. 1 \in 1..Len(ts) /\ 1 + 1 = 2
          BY <1>2, <2>0
        <5> QED
          BY <4>1, <5>1 DEF Starts
      <4>3. Laid(S, ts, start, 1, f[1])
        BY <4>1, <4>2 DEF Laid
      <4> QED
        BY <3>1, <3>2, <4>3
    <3>3. CASE least > 1
      <4>1. least - 1 \in 1..Len(ts) /\ least - 1 \in Nat /\ least - 1 \notin T
        BY <3>1, <3>3
      <4>2. Laid(S, ts, start, least - 1, f[least - 1])
        BY <4>1
      <4>3. f[least] = f[least - 1] \o ts[least]
        <5>1. least \in 2..Len(ts)
          BY <2>0, <3>1, <3>3
        <5> QED
          BY <2>2, <5>1
      <4>4. Laid(S, ts, start, least, f[least])
        BY <3>1, <3>3, <4>2, <4>3, LaidLonger
      <4> QED
        BY <3>1, <4>4
    <3> QED
      BY <3>1, <3>2, <3>3
  <2>4. Len(ts) \in Nat /\ Len(ts) \notin T
    BY <2>0, <2>3
  <2> QED
    BY <1>2, <2>1, <2>4
<1> QED
  BY <1>1, <1>2

LEMMA StartsExist ==
    ASSUME NEW S, NEW ts \in Seq(Seq(S))
    PROVE  \E start : Starts(ts, start)
<1>1. CASE Len(ts) = 0
  <2>1. Starts(ts, [t \in 1..1 |-> 0])
    BY <1>1 DEF Starts
  <2> QED
    BY <2>1
<1>2. CASE Len(ts) > 0
  <2>1. PICK f : Flattens(ts, Len(ts), f)
    <3>1. Len(ts) \in Nat
      OBVIOUS
    <3> QED
      BY <1>2, <3>1, FlattensExists
  <2>2. f[1] = ts[1] /\ \A i \in 2..Len(ts) : f[i] = f[i - 1] \o ts[i]
    BY <2>1 DEF Flattens
  <2>0. Len(ts) \in Nat
    OBVIOUS
  <2> DEFINE T == {k \in Nat : k \in 1..Len(ts) /\ f[k] \notin Seq(S)}
  <2>3. ASSUME NEW k \in T PROVE FALSE
    <3>1. PICK least \in T : \A m \in T : least <= m
      BY <2>3, LeastNumber
    <3>2. CASE least = 1
      <4>1. 1 \in 1..Len(ts) /\ ts[1] \in Seq(S)
        BY <1>2, <2>0
      <4> QED
        BY <3>1, <3>2, <2>2, <4>1
    <3>3. CASE least > 1
      <4>1. least - 1 \in 1..Len(ts) /\ least - 1 \in Nat /\ least - 1 \notin T
        BY <3>1, <3>3
      <4>2. f[least - 1] \in Seq(S) /\ ts[least] \in Seq(S)
        BY <3>1, <4>1
      <4>3. f[least] = f[least - 1] \o ts[least]
        <5>1. least \in 2..Len(ts)
          BY <2>0, <3>1, <3>3
        <5> QED
          BY <2>2, <5>1
      <4>4. f[least] \in Seq(S)
        BY <4>2, <4>3
      <4> QED
        BY <3>1, <4>4
    <3> QED
      BY <3>1, <3>2, <3>3
  <2>4. \A k \in 1..Len(ts) : k \in Nat /\ f[k] \in Seq(S) /\ Len(f[k]) \in Nat
    BY <2>0, <2>3
  <2> DEFINE start == [t \in 1..Len(ts) + 1 |-> IF t = 1 THEN 0 ELSE Len(f[t - 1])]
  <2>5. start \in [1..Len(ts) + 1 -> Nat] /\ start[1] = 0
    <3>1. ASSUME NEW t \in 1..Len(ts) + 1, t # 1 PROVE Len(f[t - 1]) \in Nat
      <4>1. t - 1 \in 1..Len(ts)
        BY <2>0, <3>1
      <4> QED
        BY <4>1, <2>4
    <3> QED
      BY <2>0, <3>1
  <2>6. ASSUME NEW t \in 1..Len(ts) PROVE start[t + 1] = start[t] + Len(ts[t])
    <3>1. start[t + 1] = Len(f[t]) /\ ts[t] \in Seq(S)
      BY <2>0
    <3>2. CASE t = 1
      <4>1. f[t] = ts[t] /\ Len(ts[t]) \in Nat
        BY <3>2, <3>1, <2>2
      <4> QED
        BY <3>1, <3>2, <4>1, <2>5
    <3>3. CASE t # 1
      <4>1. t - 1 \in 1..Len(ts) /\ f[t] = f[t - 1] \o ts[t]
        <5>1. t - 1 \in 1..Len(ts) /\ t \in 2..Len(ts)
          BY <3>3, <2>0
        <5> QED
          BY <5>1, <2>2
      <4>2. f[t - 1] \in Seq(S)
        BY <4>1, <2>4
      <4>3. start[t] = Len(f[t - 1])
        BY <3>3, <2>0
      <4>4. Len(f[t]) = Len(f[t - 1]) + Len(ts[t])
        BY <4>1, <4>2, <3>1
      <4> QED
        BY <3>1, <4>3, <4>4
    <3> QED
      BY <3>2, <3>3
  <2>7. Starts(ts, start)
    <3> HIDE DEF start
    <3> QED
      BY <2>5, <2>6 DEF Starts
  <2> QED
    BY <2>7
<1> QED
  BY <1>1, <1>2

LEMMA Divided ==
    ASSUME NEW a \in Nat, NEW T \in Nat \ {0}
    PROVE  \E q \in Nat, r \in Nat : r < T /\ a = q * T + r
<1> DEFINE R == {k \in Nat : ~\E q \in Nat, r \in Nat : r < T /\ k = q * T + r}
<1>1. ASSUME NEW k \in R PROVE FALSE
  <2>1. PICK least \in R : \A m \in R : least <= m
    BY <1>1, LeastNumber
  <2>2. CASE least < T
    <3>1. least = 0 * T + least /\ 0 \in Nat /\ least \in Nat
      OBVIOUS
    <3> QED
      BY <2>2, <3>1
  <2>3. CASE least >= T
    <3>1. least - T \in Nat /\ least - T \notin R
      BY <2>1, <2>3
    <3>2. PICK q \in Nat, r \in Nat : r < T /\ least - T = q * T + r
      BY <3>1
    <3>3. least = (q + 1) * T + r /\ q + 1 \in Nat
      BY <3>2
    <3> QED
      BY <3>2, <3>3
  <2> QED
    BY <2>2, <2>3
<1> QED
  BY <1>1

LEMMA Quotient ==
    ASSUME NEW q \in Nat, NEW r \in Nat, NEW T \in Nat \ {0}, r < T
    PROVE  (q * T + r) \div T = q /\ (q * T + r) % T = r
  OBVIOUS

LEMMA RowsLength ==
    ASSUME NEW S, NEW ts \in Seq(Seq(S)), NEW start, Starts(ts, start)
    PROVE  Rows(ts) \in Seq(S) /\ Len(Rows(ts)) = start[Len(ts) + 1]
BY RowsLaid DEF Laid

LEMMA RowsType ==
    ASSUME NEW S, NEW ts \in Seq(Seq(S))
    PROVE  Rows(ts) \in Seq(S) /\ Len(Rows(ts)) \in Nat
<1>1. PICK start : Starts(ts, start)
  BY StartsExist
<1>2. Rows(ts) \in Seq(S)
  BY <1>1, RowsLength
<1> QED
  BY <1>2

(* Every row is a row of a tile.                                           *)
LEMMA RowsCovered ==
    ASSUME NEW S, NEW ts \in Seq(Seq(S)), NEW i \in 1..Len(Rows(ts))
    PROVE  \E t \in 1..Len(ts) : \E r \in 1..Len(ts[t]) : Rows(ts)[i] = ts[t][r]
<1>1. PICK start : Starts(ts, start)
  BY StartsExist
<1>2. Len(Rows(ts)) = start[Len(ts) + 1] /\ Len(ts) \in Nat /\ i \in Nat
  BY <1>1, RowsLength, RowsType
<1>3. Len(ts) # 0
  <2>1. start[1] = 0
    BY <1>1 DEF Starts
  <2> QED
    BY <1>2, <2>1
<1> DEFINE T == {t \in Nat : t \in 1..Len(ts) /\ i <= start[t + 1]}
<1>4. Len(ts) \in T
  BY <1>2, <1>3
<1>5. PICK t \in T : \A m \in T : t <= m
  BY <1>4, LeastNumber
<1>6. start[t] \in Nat /\ start[t + 1] = start[t] + Len(ts[t]) /\ ts[t] \in Seq(S)
  <2>1. t \in 1..Len(ts) /\ t \in 1..Len(ts) + 1
    BY <1>2, <1>5
  <2> QED
    BY <1>1, <2>1 DEF Starts
<1>7. start[t] < i
  <2>1. CASE t = 1
    BY <1>1, <1>2, <2>1 DEF Starts
  <2>2. CASE t # 1
    <3>0. t \in Nat /\ t \in 1..Len(ts)
      BY <1>5
    <3>1. t - 1 \in Nat /\ t - 1 \in 1..Len(ts) /\ t - 1 < t /\ (t - 1) + 1 = t
      BY <1>2, <2>2, <3>0
    <3>4. t - 1 \notin T
      <4>1. t - 1 \in T => t <= t - 1
        BY <1>5, Zenon
      <4> QED
        BY <3>0, <4>1
    <3>2. ~(i <= start[(t - 1) + 1])
      BY <3>1, <3>4
    <3>3. ~(i <= start[t])
      BY <3>1, <3>2
    <3> QED
      BY <1>2, <1>6, <3>3
  <2> QED
    BY <2>1, <2>2
<1>8. i - start[t] \in 1..Len(ts[t]) /\ start[t] + (i - start[t]) = i
  BY <1>2, <1>5, <1>6, <1>7
<1>9. Laid(S, ts, start, Len(ts), Rows(ts))
  BY <1>1, RowsLaid
<1>10. Rows(ts)[start[t] + (i - start[t])] = ts[t][i - start[t]]
  BY <1>5, <1>8, <1>9 DEF Laid
<1>11. Rows(ts)[i] = ts[t][i - start[t]]
  BY <1>8, <1>10
<1> QED
  BY <1>5, <1>8, <1>11

LEMMA RowsAppended ==
    ASSUME NEW S, NEW ts \in Seq(Seq(S)), NEW tile \in Seq(S)
    PROVE  /\ Append(ts, tile) \in Seq(Seq(S))
           /\ Len(Rows(Append(ts, tile))) = Len(Rows(ts)) + Len(tile)
<1> DEFINE us == Append(ts, tile)
           n == Len(ts)
<1>1. PICK start : Starts(ts, start)
  BY StartsExist
<1>2. /\ us \in Seq(Seq(S)) /\ Len(us) = n + 1 /\ n \in Nat /\ us[n + 1] = tile
      /\ \A t \in 1..n : us[t] = ts[t]
  OBVIOUS
<1> HIDE DEF us
<1>3. /\ start \in [1..n + 1 -> Nat] /\ start[1] = 0 /\ Len(tile) \in Nat
      /\ \A t \in 1..n : start[t + 1] = start[t] + Len(ts[t])
  BY <1>1 DEF Starts
<1> DEFINE next == [t \in 1..n + 2 |->
                       IF t = n + 2 THEN start[n + 1] + Len(tile) ELSE start[t]]
<1>4. next \in [1..n + 2 -> Nat] /\ \A t \in 1..n + 1 : next[t] = start[t]
  <2>1. start[n + 1] \in Nat
    <3>1. n + 1 \in 1..n + 1
      BY <1>2
    <3> QED
      BY <1>3, <3>1
  <2>2. \A t \in 1..n + 2 : t # n + 2 => t \in 1..n + 1
    BY <1>2
  <2>3. next \in [1..n + 2 -> Nat]
    BY <1>3, <2>1, <2>2
  <2>4. \A t \in 1..n + 1 : t \in 1..n + 2 /\ t # n + 2
    BY <1>2
  <2> QED
    BY <2>3, <2>4
<1>5. next[n + 2] = start[n + 1] + Len(tile)
  BY <1>2
<1> HIDE DEF next
<1>6. ASSUME NEW t \in 1..n + 1 PROVE next[t + 1] = next[t] + Len(us[t])
  <2>1. CASE t = n + 1
    <3>1. t + 1 = n + 2
      BY <1>2, <2>1
    <3> QED
      BY <1>2, <1>4, <1>5, <2>1, <3>1
  <2>2. CASE t # n + 1
    <3>1. t \in 1..n /\ t + 1 \in 1..n + 1
      BY <1>2, <2>2
    <3> QED
      BY <1>2, <1>3, <1>4, <3>1
  <2> QED
    BY <2>1, <2>2
<1>7. Starts(us, next)
  <2>1. Len(us) + 1 = n + 2 /\ 1 \in 1..n + 1
    BY <1>2
  <2> QED
    BY <1>2, <1>3, <1>4, <1>6, <2>1 DEF Starts
<1>8. Len(Rows(us)) = next[Len(us) + 1] /\ Len(Rows(ts)) = start[n + 1]
  BY <1>1, <1>2, <1>7, RowsLength
<1>9. Len(us) + 1 = n + 2
  BY <1>2
<1> QED
  BY <1>2, <1>5, <1>8, <1>9 DEF us

Added(ts, k, x) == [ts EXCEPT ![k] = Append(@, x)]

LEMMA RowsAdded ==
    ASSUME NEW S, NEW ts \in Seq(Seq(S)), NEW k \in 1..Len(ts), NEW x \in S
    PROVE  /\ Added(ts, k, x) \in Seq(Seq(S))
           /\ Len(Rows(Added(ts, k, x))) = Len(Rows(ts)) + 1
<1> DEFINE us == [ts EXCEPT ![k] = Append(@, x)]
           n == Len(ts)
<1>1. PICK start : Starts(ts, start)
  BY StartsExist
<1>2. /\ us \in Seq(Seq(S)) /\ Len(us) = n /\ n \in Nat
      /\ Len(us[k]) = Len(ts[k]) + 1
      /\ \A t \in 1..n : ts[t] \in Seq(S) /\ (t # k => us[t] = ts[t])
  <2>1. ts[k] \in Seq(S)
    OBVIOUS
  <2>2. Append(ts[k], x) \in Seq(S) /\ Len(Append(ts[k], x)) = Len(ts[k]) + 1
    BY <2>1
  <2>3. us = [ts EXCEPT ![k] = Append(ts[k], x)]
    OBVIOUS
  <2>4. us \in Seq(Seq(S)) /\ Len(us) = n /\ n \in Nat
    BY <2>2, <2>3, ExceptSeq
  <2>5. \A t \in 1..n : ts[t] \in Seq(S) /\ (t # k => us[t] = ts[t])
    OBVIOUS
  <2>6. us[k] = Append(ts[k], x)
    OBVIOUS
  <2> HIDE DEF us
  <2> QED
    BY <2>2, <2>4, <2>5, <2>6
<1> HIDE DEF us
<1>3. /\ start \in [1..n + 1 -> Nat] /\ start[1] = 0
      /\ \A t \in 1..n : start[t + 1] = start[t] + Len(ts[t])
  BY <1>1 DEF Starts
<1>4. \A t \in 1..n + 1 : start[t] \in Nat
  BY <1>3
<1> DEFINE next == [t \in 1..n + 1 |-> IF t > k THEN start[t] + 1 ELSE start[t]]
<1>5. /\ next \in [1..n + 1 -> Nat]
      /\ \A t \in 1..n + 1 : next[t] = IF t > k THEN start[t] + 1 ELSE start[t]
  BY <1>4
<1> HIDE DEF next
<1>10. ASSUME NEW t \in 1..n PROVE next[t + 1] = next[t] + Len(us[t])
  <2>1. t \in 1..n + 1 /\ t + 1 \in 1..n + 1 /\ k \in Nat /\ t \in Nat
    BY <1>2
  <2>2. /\ t = k => Len(us[t]) = Len(ts[t]) + 1
        /\ t # k => us[t] = ts[t]
        /\ ts[t] \in Seq(S)
    BY <1>2
  <2>3. start[t] \in Nat /\ Len(ts[t]) \in Nat
    BY <1>4, <2>1, <2>2
  <2>4. start[t + 1] = start[t] + Len(ts[t])
    BY <1>3
  <2>5. /\ next[t] = IF t > k THEN start[t] + 1 ELSE start[t]
        /\ next[t + 1] = IF t + 1 > k THEN start[t + 1] + 1 ELSE start[t + 1]
    BY <1>5, <2>1
  <2>6. CASE t < k
    BY <2>1, <2>2, <2>3, <2>4, <2>5, <2>6
  <2>7. CASE t = k
    BY <2>1, <2>2, <2>3, <2>4, <2>5, <2>7
  <2>8. CASE t > k
    <3>1. t # k /\ t + 1 > k
      BY <2>1, <2>8
    <3>2. next[t] = start[t] + 1 /\ next[t + 1] = start[t + 1] + 1
      BY <2>5, <2>8, <3>1
    <3>3. us[t] = ts[t]
      BY <2>2, <3>1
    <3> QED
      BY <2>3, <2>4, <3>2, <3>3
  <2> QED
    BY <2>1, <2>6, <2>7, <2>8
<1>6. Starts(us, next)
  <2>1. 1 \in 1..n + 1
    BY <1>2
  <2>2. next[1] = 0
    BY <1>3, <1>5, <2>1
  <2> QED
    BY <1>2, <1>5, <1>10, <2>2 DEF Starts
<1>7. Len(Rows(us)) = next[n + 1] /\ Len(Rows(ts)) = start[n + 1]
  BY <1>1, <1>2, <1>6, RowsLength
<1>8. next[n + 1] = start[n + 1] + 1
  <2>1. n + 1 \in 1..n + 1 /\ n + 1 > k
    BY <1>2
  <2> QED
    BY <1>5, <2>1
<1> QED
  BY <1>2, <1>7, <1>8 DEF us, Added

LEMMA RowsRotated ==
    ASSUME NEW S, NEW ts \in Seq(Seq(S)), ts # <<>>
    PROVE  /\ Append(Tail(ts), ts[1]) \in Seq(Seq(S))
           /\ Len(Append(Tail(ts), ts[1])) = Len(ts)
           /\ Len(Rows(Append(Tail(ts), ts[1]))) = Len(Rows(ts))
           /\ \A t \in 1..Len(ts) : \E k \in 1..Len(ts) :
                 Append(Tail(ts), ts[1])[t] = ts[k]
<1> DEFINE us == Append(Tail(ts), ts[1])
           n == Len(ts)
<1>1. PICK start : Starts(ts, start)
  BY StartsExist
<1>2. n \in Nat /\ n > 0 /\ ts[1] \in Seq(S)
  OBVIOUS
<1>3. /\ Tail(ts) \in Seq(Seq(S)) /\ Len(Tail(ts)) = n - 1
      /\ \A t \in 1..n - 1 : Tail(ts)[t] = ts[t + 1]
  BY <1>2
<1>4. /\ us \in Seq(Seq(S)) /\ Len(us) = n /\ us[n] = ts[1]
      /\ \A t \in 1..n - 1 : us[t] = ts[t + 1]
  BY <1>2, <1>3
<1> HIDE DEF us
<1>5. /\ start \in [1..n + 1 -> Nat] /\ start[1] = 0
      /\ \A t \in 1..n : start[t + 1] = start[t] + Len(ts[t])
  BY <1>1 DEF Starts
<1>6. start[2] = Len(ts[1]) /\ Len(ts[1]) \in Nat
  <2>1. 1 \in 1..n /\ 1 + 1 = 2
    BY <1>2
  <2> QED
    BY <1>2, <1>5, <2>1
<1>0. \A t \in 1..n + 1 : start[t] \in Nat
  BY <1>5
<1>7. ASSUME NEW t \in 1..n + 1, t > 1 PROVE start[t] >= start[2]
  <2> DEFINE T == {k \in Nat : k \in 2..n + 1 /\ ~(start[k] >= start[2])}
  <2>1. ASSUME NEW m \in T PROVE FALSE
    <3>1. PICK k \in T : \A j \in T : k <= j
      BY <2>1, LeastNumber
    <3>2. k # 2
      BY <1>6, <3>1
    <3>3. /\ k - 1 \in Nat /\ k - 1 \in 2..n + 1 /\ (k - 1) + 1 = k
          /\ k - 1 \in 1..n /\ k - 1 \in 1..n + 1 /\ k - 1 < k
      BY <1>2, <3>1, <3>2
    <3>4. start[k - 1] >= start[2]
      BY <3>1, <3>3
    <3>5. start[k] = start[k - 1] + Len(ts[k - 1])
      BY <1>5, <3>3
    <3>6. Len(ts[k - 1]) \in Nat /\ start[k - 1] \in Nat
      BY <1>0, <3>3
    <3>7. start[k] >= start[2]
      BY <1>6, <3>4, <3>5, <3>6
    <3> QED
      BY <3>1, <3>7
  <2>2. t \in Nat /\ t \in 2..n + 1
    BY <1>2, <1>7
  <2> QED
    BY <2>1, <2>2
<1> DEFINE next == [t \in 1..n + 1 |->
                       IF t = n + 1 THEN start[n + 1] ELSE start[t + 1] - start[2]]
<1>8. next \in [1..n + 1 -> Nat]
  <2>1. ASSUME NEW t \in 1..n + 1, t # n + 1 PROVE start[t + 1] - start[2] \in Nat
    <3>1. t + 1 \in 1..n + 1 /\ t + 1 > 1
      BY <1>2, <2>1
    <3>2. start[t + 1] >= start[2] /\ start[t + 1] \in Nat
      BY <1>0, <1>7, <3>1
    <3> QED
      BY <1>6, <3>2
  <2>2. start[n + 1] \in Nat
    <3>1. n + 1 \in 1..n + 1
      BY <1>2
    <3> QED
      BY <1>0, <3>1
  <2> QED
    BY <2>1, <2>2
<1>9. next[n + 1] = start[n + 1] /\ \A t \in 1..n : next[t] = start[t + 1] - start[2]
  BY <1>2
<1> HIDE DEF next
<1>10. ASSUME NEW t \in 1..n PROVE next[t + 1] = next[t] + Len(us[t])
  <2>1. next[t] = start[t + 1] - start[2] /\ start[t + 1] \in Nat
    <3>1. t + 1 \in 1..n + 1
      BY <1>2
    <3> QED
      BY <1>0, <1>9, <3>1
  <2>2. CASE t = n
    BY <1>2, <1>4, <1>6, <1>9, <2>1, <2>2
  <2>3. CASE t # n
    <3>1. t + 1 \in 1..n /\ t \in 1..n - 1
      BY <1>2, <2>3
    <3>2. start[t + 2] = start[t + 1] + Len(ts[t + 1])
      <4>1. (t + 1) + 1 = t + 2
        OBVIOUS
      <4> QED
        BY <1>5, <3>1, <4>1
    <3>3. next[t + 1] = start[t + 2] - start[2]
      <4>1. (t + 1) + 1 = t + 2
        OBVIOUS
      <4> QED
        BY <1>9, <3>1, <4>1
    <3>4. us[t] = ts[t + 1] /\ Len(ts[t + 1]) \in Nat
      BY <1>4, <3>1
    <3> QED
      BY <1>6, <2>1, <3>2, <3>3, <3>4
  <2> QED
    BY <2>2, <2>3
<1>11. Starts(us, next)
  <2>1. next[1] = 0
    BY <1>2, <1>6, <1>9
  <2> QED
    BY <1>4, <1>8, <1>10, <2>1 DEF Starts
<1>12. Len(Rows(us)) = next[n + 1] /\ Len(Rows(ts)) = start[n + 1]
  BY <1>1, <1>4, <1>11, RowsLength
<1>13. ASSUME NEW t \in 1..n PROVE \E k \in 1..n : us[t] = ts[k]
  <2>1. CASE t = n
    BY <1>2, <1>4, <2>1
  <2>2. CASE t # n
    <3>1. t \in 1..n - 1 /\ t + 1 \in 1..n
      BY <1>2, <2>2
    <3> QED
      BY <1>4, <3>1
  <2> QED
    BY <2>1, <2>2
<1> QED
  BY <1>4, <1>9, <1>12, <1>13 DEF us

(* What defragmenting makes of the tiles: all full but for the last, none  *)
(* empty, with the rows in the order they had.                             *)
LEMMA RowsCut ==
    ASSUME NEW S, NEW ts \in Seq(Seq(S))
    PROVE  LET ds == Defragmented(ts) IN
           /\ ds \in Seq(Seq(S))
           /\ Compact(ds)
           /\ \A t \in 1..Len(ds) : ds[t] # <<>> /\ Len(ds[t]) <= TileSize
           /\ \A t \in 1..Len(ds) : \A r \in 1..Len(ds[t]) :
                 /\ (t - 1) * TileSize + r \in 1..Len(Rows(ts))
                 /\ ds[t][r] = Rows(ts)[(t - 1) * TileSize + r]
           /\ Len(Rows(ds)) = Len(Rows(ts))
<1> DEFINE all == Rows(ts)
           L == Len(all)
           n == (L + TileSize - 1) \div TileSize
           from(t) == (t - 1) * TileSize + 1
           to(t) == IF t * TileSize <= L THEN t * TileSize ELSE L
           ds == [t \in 1..n |-> SubSeq(all, from(t), to(t))]
<1>1. all \in Seq(S) /\ L \in Nat /\ TileSize \in Nat \ {0}
  BY RowsType, MapperAssumption
<1>2. Defragmented(ts) = ds
  BY DEF Defragmented
<1> HIDE DEF all, L
<1>3. /\ n \in Nat /\ L <= n * TileSize
      /\ n = 0 => L = 0
      /\ n > 0 => (n - 1) * TileSize < L
  <2>1. L + TileSize - 1 \in Nat
    BY <1>1
  <2>2. PICK q \in Nat, r \in Nat : r < TileSize /\ L + TileSize - 1 = q * TileSize + r
    BY <1>1, <2>1, Divided
  <2>3. n = q
    BY <1>1, <2>2, Quotient
  <2>4. (q - 1) * TileSize = q * TileSize - TileSize
    BY <1>1, <2>2
  <2>5. q * TileSize \in Nat
    BY <1>1, <2>2
  <2>6. q = 0 => q * TileSize = 0
    BY <1>1, <2>2
  <2> HIDE DEF n
  <2> DEFINE x == q * TileSize
             y == (q - 1) * TileSize
  <2>7. y = x - TileSize /\ x \in Nat /\ (q = 0 => x = 0) /\ L + TileSize - 1 = x + r
    BY <2>2, <2>4, <2>5, <2>6
  <2> HIDE DEF x, y
  <2>8. (q = 0 => L = 0) /\ y < L /\ L <= x
    BY <1>1, <2>2, <2>7
  <2> QED
    BY <2>2, <2>3, <2>8 DEF x, y
<1> HIDE DEF n
<1>4. ASSUME NEW t \in 1..n
      PROVE  /\ t * TileSize \in Nat /\ (t - 1) * TileSize \in Nat
             /\ (t - 1) * TileSize = t * TileSize - TileSize
             /\ (t - 1) * TileSize < L
             /\ t # n => t * TileSize < L
             /\ t = n => L <= t * TileSize
  <2>1. t \in Nat /\ t - 1 \in Nat /\ t <= n
    BY <1>3
  <2>2. t * TileSize \in Nat /\ (t - 1) * TileSize \in Nat
    BY <1>1, <2>1
  <2>3. (t - 1) * TileSize = t * TileSize - TileSize
    BY <1>1, <2>1
  <2>4. (n - 1) * TileSize < L
    BY <1>3, <2>1
  <2>5. CASE t = n
    BY <1>3, <2>2, <2>3, <2>4, <2>5
  <2>6. CASE t # n
    <3>1. PICK d \in Nat : n - 1 = t + d
      <4>1. n - 1 - t \in Nat /\ n - 1 = t + (n - 1 - t)
        BY <1>3, <2>1, <2>6
      <4> QED
        BY <4>1
    <3>2. (n - 1) * TileSize = t * TileSize + d * TileSize /\ d * TileSize \in Nat
      <4>1. (t + d) * TileSize = t * TileSize + d * TileSize
        BY <1>1, <2>1
      <4>2. d * TileSize \in Nat
        BY <1>1
      <4> QED
        BY <3>1, <4>1, <4>2
    <3> DEFINE x == t * TileSize
               y == (t - 1) * TileSize
               z == (n - 1) * TileSize
               w == d * TileSize
    <3>3. /\ x \in Nat /\ y \in Nat /\ y = x - TileSize
          /\ z < L /\ z = x + w /\ w \in Nat
      BY <2>2, <2>3, <2>4, <3>2
    <3> HIDE DEF x, y, z, w
    <3>4. x \in Nat /\ y \in Nat /\ y = x - TileSize /\ y < L /\ x < L
      BY <1>1, <3>3
    <3> QED
      BY <2>6, <3>4 DEF x, y
  <2> QED
    BY <2>5, <2>6
<1>5. ASSUME NEW t \in 1..n
      PROVE  /\ ds[t] = SubSeq(all, from(t), to(t))
             /\ from(t) \in 1..L /\ to(t) \in 1..L /\ from(t) <= to(t)
             /\ to(t) - from(t) + 1 = to(t) - (t - 1) * TileSize
             /\ t # n => to(t) = t * TileSize
             /\ t = n => to(t) = L
             /\ to(t) - (t - 1) * TileSize \in 1..TileSize
  <2> DEFINE x == t * TileSize
             y == (t - 1) * TileSize
  <2>1. /\ x \in Nat /\ y \in Nat /\ y = x - TileSize /\ y < L
        /\ t # n => x < L
        /\ t = n => L <= x
    BY <1>4
  <2>2. ds[t] = SubSeq(all, from(t), to(t))
    OBVIOUS
  <2>3. from(t) = y + 1 /\ to(t) = IF x <= L THEN x ELSE L
    OBVIOUS
  <2> HIDE DEF x, y, from, to, ds
  <2>4. /\ from(t) \in 1..L /\ to(t) \in 1..L /\ from(t) <= to(t)
        /\ to(t) - from(t) + 1 = to(t) - y
        /\ t # n => to(t) = x
        /\ t = n => to(t) = L
        /\ to(t) - y \in 1..TileSize
    BY <1>1, <2>1, <2>3
  <2> QED
    BY <2>2, <2>4 DEF x, y
<1> HIDE DEF from, to, ds
<1>6. ASSUME NEW t \in 1..n
      PROVE  /\ ds[t] \in Seq(S)
             /\ Len(ds[t]) = to(t) - (t - 1) * TileSize
             /\ \A r \in 1..Len(ds[t]) :
                   /\ (t - 1) * TileSize + r \in 1..L
                   /\ ds[t][r] = all[(t - 1) * TileSize + r]
  <2>1. from(t) \in 1..Len(all) /\ to(t) \in 1..Len(all) /\ from(t) <= to(t)
    BY <1>5 DEF L
  <2>2. /\ SubSeq(all, from(t), to(t)) \in Seq(S)
        /\ Len(SubSeq(all, from(t), to(t))) = to(t) - from(t) + 1
        /\ \A r \in 1..to(t) - from(t) + 1 :
              SubSeq(all, from(t), to(t))[r] = all[from(t) + r - 1]
    BY <1>1, <2>1
  <2>3. from(t) = (t - 1) * TileSize + 1 /\ (t - 1) * TileSize \in Nat
    BY <1>4 DEF from
  <2>4. ds[t] \in Seq(S) /\ Len(ds[t]) = to(t) - (t - 1) * TileSize
    BY <1>5, <2>2
  <2>5. ASSUME NEW r \in 1..Len(ds[t])
        PROVE  /\ (t - 1) * TileSize + r \in 1..L
               /\ ds[t][r] = all[(t - 1) * TileSize + r]
    <3> DEFINE y == (t - 1) * TileSize
    <3>1. y \in Nat /\ from(t) = y + 1 /\ r \in 1..to(t) - y /\ to(t) \in 1..L
      BY <1>5, <2>3, <2>4
    <3> HIDE DEF y
    <3>2. y + r \in 1..L /\ from(t) + r - 1 = y + r /\ r \in 1..to(t) - from(t) + 1
      BY <1>1, <3>1
    <3>3. ds[t][r] = all[from(t) + r - 1]
      BY <1>5, <2>2, <3>2
    <3>4. ds[t][r] = all[y + r]
      BY <3>2, <3>3
    <3> QED
      BY <3>2, <3>4 DEF y
  <2> QED
    BY <2>4, <2>5
<1>7. ds \in Seq(Seq(S)) /\ Len(ds) = n
  <2>1. ds = [t \in 1..n |-> SubSeq(all, from(t), to(t))]
    BY DEF ds
  <2>2. \A t \in 1..n : SubSeq(all, from(t), to(t)) \in Seq(S)
    BY <1>5, <1>6
  <2>3. ds \in [1..n -> Seq(S)]
    BY <2>1, <2>2
  <2> QED
    BY <1>3, <2>3
<1>8. Compact(ds)
  <2>1. ASSUME NEW t \in 1..n - 1 PROVE Len(ds[t]) = TileSize
    <3>1. t \in 1..n /\ t # n
      BY <1>3
    <3>2. Len(ds[t]) = t * TileSize - (t - 1) * TileSize
      BY <1>5, <1>6, <3>1
    <3>3. /\ (t - 1) * TileSize = t * TileSize - TileSize
          /\ t * TileSize \in Nat
      BY <1>4, <3>1
    <3> QED
      BY <1>1, <3>2, <3>3
  <2> QED
    BY <1>7, <2>1 DEF Compact
<1>9. ASSUME NEW t \in 1..Len(ds) PROVE ds[t] # <<>> /\ Len(ds[t]) <= TileSize
  <2>1. t \in 1..n
    BY <1>7
  <2>2. Len(ds[t]) \in 1..TileSize
    BY <1>5, <1>6, <2>1
  <2> QED
    BY <1>1, <2>2
<1> DEFINE start == [t \in 1..n + 1 |-> IF t = n + 1 THEN L ELSE (t - 1) * TileSize]
<1>10. /\ start \in [1..n + 1 -> Nat] /\ start[n + 1] = L
       /\ \A t \in 1..n : start[t] = (t - 1) * TileSize
  <2>1. ASSUME NEW t \in 1..n + 1, t # n + 1 PROVE (t - 1) * TileSize \in Nat
    <3>1. t \in 1..n
      BY <1>3, <2>1
    <3> QED
      BY <1>4, <3>1
  <2>2. n + 1 \in 1..n + 1 /\ \A t \in 1..n : t \in 1..n + 1 /\ t # n + 1
    BY <1>3
  <2> QED
    BY <1>1, <2>1, <2>2
<1> HIDE DEF start
<1>11. ASSUME NEW t \in 1..n PROVE start[t + 1] = start[t] + Len(ds[t])
  <2>1. start[t] = (t - 1) * TileSize /\ (t - 1) * TileSize \in Nat
    BY <1>4, <1>10
  <2>2. Len(ds[t]) = to(t) - (t - 1) * TileSize /\ to(t) \in 1..L
    BY <1>5, <1>6
  <2>3. start[t + 1] = to(t)
    <3>1. CASE t = n
      BY <1>5, <1>10, <3>1
    <3>2. CASE t # n
      <4>1. t + 1 \in 1..n /\ (t + 1) - 1 = t
        BY <1>3, <3>2
      <4> QED
        BY <1>5, <1>10, <3>2, <4>1
    <3> QED
      BY <3>1, <3>2
  <2> QED
    BY <1>1, <2>1, <2>2, <2>3
<1>12. start[1] = 0
  <2>1. CASE n = 0
    BY <1>3, <1>10, <2>1
  <2>2. CASE n # 0
    <3>1. 1 \in 1..n
      BY <1>3, <2>2
    <3>2. start[1] = (1 - 1) * TileSize
      BY <1>10, <3>1
    <3> QED
      BY <1>1, <3>2
  <2> QED
    BY <2>1, <2>2
<1>13. Starts(ds, start)
  BY <1>7, <1>10, <1>11, <1>12 DEF Starts
<1>14. Len(Rows(ds)) = L
  BY <1>7, <1>10, <1>13, RowsLength
<1>15. \A t \in 1..Len(ds) : \A r \in 1..Len(ds[t]) :
          /\ (t - 1) * TileSize + r \in 1..Len(all)
          /\ ds[t][r] = all[(t - 1) * TileSize + r]
  BY <1>6, <1>7 DEF L
<1> QED
  BY <1>2, <1>7, <1>8, <1>9, <1>14, <1>15 DEF all, L

(* Tiles of which only the last may have free rows: where their rows are.  *)
LEMMA CompactRows ==
    ASSUME NEW S, NEW ts \in Seq(Seq(S)), Compact(ts), Len(ts) > 0
    PROVE  /\ Len(Rows(ts)) = (Len(ts) - 1) * TileSize + Len(ts[Len(ts)])
           /\ \A t \in 1..Len(ts) : \A r \in 1..Len(ts[t]) :
                 Rows(ts)[(t - 1) * TileSize + r] = ts[t][r]
<1> DEFINE n == Len(ts)
           end == (n - 1) * TileSize + Len(ts[n])
           start == [t \in 1..n + 1 |-> IF t = n + 1 THEN end ELSE (t - 1) * TileSize]
<1>1. n \in Nat /\ n > 0 /\ TileSize \in Nat /\ ts[n] \in Seq(S) /\ Len(ts[n]) \in Nat
  BY MapperAssumption
<1>2. \A t \in 1..n - 1 : Len(ts[t]) = TileSize
  BY DEF Compact
<1>3. \A t \in 1..n : t - 1 \in Nat
  BY <1>1
<1>4. \A t \in 1..n : (t - 1) * TileSize \in Nat
  BY <1>1, <1>3
<1>5. end \in Nat
  <2>1. n \in 1..n
    BY <1>1
  <2> DEFINE y == (n - 1) * TileSize
  <2>2. y \in Nat
    BY <1>4, <2>1
  <2>3. Len(ts[n]) \in Nat /\ end = y + Len(ts[n])
    BY <1>1
  <2> HIDE DEF y, end, n
  <2> QED
    BY <2>2, <2>3
<1> HIDE DEF n, end
<1>6. /\ start \in [1..n + 1 -> Nat] /\ start[n + 1] = end
      /\ \A t \in 1..n : start[t] = (t - 1) * TileSize
  <2>1. ASSUME NEW t \in 1..n + 1, t # n + 1 PROVE (t - 1) * TileSize \in Nat
    <3>1. t \in 1..n
      BY <1>1, <2>1
    <3> QED
      BY <1>4, <3>1
  <2>2. n + 1 \in 1..n + 1 /\ \A t \in 1..n : t \in 1..n + 1 /\ t # n + 1
    BY <1>1
  <2> QED
    BY <1>5, <2>1, <2>2
<1> HIDE DEF start
<1>7. ASSUME NEW t \in 1..n PROVE start[t + 1] = start[t] + Len(ts[t])
  <2>1. CASE t = n
    BY <1>6, <2>1 DEF end
  <2>2. CASE t # n
    <3>1. t + 1 \in 1..n /\ (t + 1) - 1 = t /\ t \in 1..n - 1
      BY <1>1, <2>2
    <3>2. start[t + 1] = t * TileSize /\ start[t] = (t - 1) * TileSize
      BY <1>6, <3>1
    <3>3. t * TileSize = (t - 1) * TileSize + TileSize
      BY <1>1
    <3> QED
      BY <1>2, <3>1, <3>2, <3>3
  <2> QED
    BY <2>1, <2>2
<1>8. start[1] = 0
  <2>1. 1 \in 1..n
    BY <1>1
  <2>2. start[1] = (1 - 1) * TileSize
    BY <1>6, <2>1
  <2> QED
    BY <1>1, <2>2
<1>9. Starts(ts, start)
  BY <1>6, <1>7, <1>8 DEF Starts, n
<1>10. Laid(S, ts, start, n, Rows(ts))
  BY <1>9, RowsLaid DEF n
<1>11. Len(Rows(ts)) = end
  BY <1>6, <1>10 DEF Laid
<1>12. ASSUME NEW t \in 1..n, NEW r \in 1..Len(ts[t])
       PROVE  Rows(ts)[(t - 1) * TileSize + r] = ts[t][r]
  <2>1. Rows(ts)[start[t] + r] = ts[t][r]
    BY <1>10 DEF Laid
  <2> QED
    BY <1>6, <2>1
<1> QED
  BY <1>11, <1>12 DEF end, n
-----------------------------------------------------------------------------
(* Tiles as the mapper keeps them: none is empty, and there are enough for *)
(* their rows, though a rotation may lead to one that is longer than a     *)
(* tile can be.                                                            *)
TilesOK(ts) ==
    /\ ts \in Seq(Seq(Id))
    /\ Len(Rows(ts)) <= Len(ts) * TileSize
    /\ \A t \in 1..Len(ts) : ts[t] # <<>>

(* The next address is the number of rows in use.                          *)
MapperInv == TilesOK(tiles) /\ nextAddr = Len(Rows(tiles))

LEMMA NoRows == Rows(<<>>) = <<>>
BY DEF Rows, FlattenSeq

LEMMA CutOK ==
    ASSUME NEW ts \in Seq(Seq(Id))
    PROVE  TilesOK(Defragmented(ts))
<1> DEFINE ds == Defragmented(ts)
           n == Len(ds)
<1>1. /\ ds \in Seq(Seq(Id)) /\ Compact(ds)
      /\ \A t \in 1..n : ds[t] # <<>> /\ Len(ds[t]) <= TileSize
  BY RowsCut, Zenon
<1>2. TileSize \in Nat \ {0}
  BY MapperAssumption
<1> HIDE DEF ds
<1>3. Len(Rows(ds)) <= n * TileSize
  <2>1. CASE n = 0
    <3>1. ds = <<>>
      BY <1>1, <2>1
    <3> QED
      BY <1>2, <2>1, <3>1, NoRows
  <2>2. CASE n # 0
    <3>1. n \in Nat /\ n > 0 /\ n \in 1..n
      BY <1>1, <2>2
    <3>2. Len(Rows(ds)) = (n - 1) * TileSize + Len(ds[n])
      BY <1>1, <3>1, CompactRows
    <3>3. Len(ds[n]) <= TileSize /\ ds[n] \in Seq(Id) /\ Len(ds[n]) \in Nat
      BY <1>1, <3>1
    <3>4. (n - 1) * TileSize = n * TileSize - TileSize /\ n * TileSize \in Nat
      BY <1>2, <3>1
    <3> DEFINE x == n * TileSize
               y == (n - 1) * TileSize
    <3>5. Len(Rows(ds)) = y + Len(ds[n]) /\ y = x - TileSize /\ x \in Nat
      BY <3>2, <3>4
    <3> HIDE DEF x, y
    <3>6. Len(Rows(ds)) <= x
      BY <1>2, <3>3, <3>5
    <3> QED
      BY <3>6 DEF x
  <2> QED
    BY <2>1, <2>2
<1>4. TilesOK(ds)
  BY <1>1, <1>3 DEF TilesOK
<1> QED
  BY <1>4 DEF ds

LEMMA LayoutRows ==
    ASSUME MapperInv
    PROVE  /\ Layout.next = Len(Rows(tiles)) /\ Len(Rows(tiles)) \in Nat
           /\ TilesOK(Layout.tiles)
           /\ Len(Rows(Layout.tiles)) = Len(Rows(tiles))
           /\ Layout.tiles = IF Full THEN Defragmented(tiles) ELSE tiles
<1>1. tiles \in Seq(Seq(Id)) /\ nextAddr = Len(Rows(tiles)) /\ TilesOK(tiles)
  BY DEF MapperInv, TilesOK
<1>2. Len(Rows(tiles)) \in Nat
  BY <1>1, RowsType
<1>3. Layout.next = Len(Rows(tiles))
      /\ Layout.tiles = IF Full THEN Defragmented(tiles) ELSE tiles
  BY <1>1 DEF Layout
<1>4. TilesOK(Defragmented(tiles)) /\ Len(Rows(Defragmented(tiles))) = Len(Rows(tiles))
  BY <1>1, CutOK, RowsCut, Zenon
<1> QED
  BY <1>1, <1>2, <1>3, <1>4

(* A row more, in a tile that is there or in a new one.                    *)
WithRow(ts, id) ==
    LET tile == Len(Rows(ts)) \div TileSize
    IN  IF tile < Len(ts) THEN [ts EXCEPT ![tile + 1] = Append(@, id)]
        ELSE Append(ts, <<id>>)

LEMMA WithRowOK ==
    ASSUME NEW ts, TilesOK(ts), NEW id \in Id
    PROVE  TilesOK(WithRow(ts, id)) /\ Len(Rows(WithRow(ts, id))) = Len(Rows(ts)) + 1
<1> DEFINE L == Len(Rows(ts))
           n == Len(ts)
           tile == L \div TileSize
           us == WithRow(ts, id)
<1>1. ts \in Seq(Seq(Id)) /\ L <= n * TileSize /\ \A t \in 1..n : ts[t] # <<>>
  BY DEF TilesOK
<1>2. L \in Nat /\ n \in Nat /\ TileSize \in Nat \ {0}
  BY <1>1, RowsType, MapperAssumption
<1>3. PICK q \in Nat, r \in Nat : r < TileSize /\ L = q * TileSize + r
  BY <1>2, Divided
<1>4. tile = q
  BY <1>2, <1>3, Quotient
<1>7. us = IF tile < n THEN [ts EXCEPT ![tile + 1] = Append(@, id)]
           ELSE Append(ts, <<id>>)
  BY DEF WithRow
<1> HIDE DEF L, tile, us
<1>5. CASE q < n
  <2>1. q + 1 \in 1..n /\ us = [ts EXCEPT ![q + 1] = Append(@, id)]
    BY <1>2, <1>4, <1>5, <1>7
  <2> DEFINE k == q + 1
             es == [ts EXCEPT ![k] = Append(@, id)]
  <2>7. us = es /\ es = Added(ts, k, id) /\ k \in 1..Len(ts)
    BY <2>1 DEF Added
  <2> HIDE DEF k
  <2>2. us \in Seq(Seq(Id)) /\ Len(Rows(us)) = L + 1
    <3> HIDE DEF es
    <3>1. ts \in Seq(Seq(Id)) /\ k \in 1..Len(ts)
      BY <1>1, <2>7
    <3>2. /\ Added(ts, k, id) \in Seq(Seq(Id))
          /\ Len(Rows(Added(ts, k, id))) = Len(Rows(ts)) + 1
      BY <3>1, RowsAdded
    <3> QED
      BY <2>7, <3>2 DEF L
  <2>3. Len(us) = n /\ \A t \in 1..n : us[t] # <<>>
    <3>1. ts[k] \in Seq(Id)
      BY <1>1, <2>7
    <3>2. Append(ts[k], id) \in Seq(Id) /\ Append(ts[k], id) # <<>>
      BY <3>1
    <3>3. /\ Len(es) = Len(ts)
          /\ \A t \in 1..Len(ts) : es[t] = IF t = k THEN Append(ts[k], id) ELSE ts[t]
      BY <1>1, <2>7
    <3> HIDE DEF es
    <3> QED
      BY <1>1, <2>7, <3>2, <3>3
  <2>4. L + 1 <= n * TileSize
    <3>1. PICK d \in Nat : n = q + 1 + d
      <4>1. n - q - 1 \in Nat /\ n = q + 1 + (n - q - 1)
        BY <1>2, <1>5
      <4> QED
        BY <4>1
    <3>2. (q + 1 + d) * TileSize = q * TileSize + TileSize + d * TileSize
      BY <1>2
    <3>3. d * TileSize \in Nat /\ q * TileSize \in Nat
      BY <1>2
    <3> DEFINE x == n * TileSize
               y == q * TileSize
               w == d * TileSize
    <3>4. x = y + TileSize + w /\ y \in Nat /\ w \in Nat /\ L = y + r
      BY <1>3, <3>1, <3>2, <3>3
    <3> HIDE DEF x, y, w
    <3>5. L + 1 <= x
      BY <1>2, <1>3, <3>4
    <3> QED
      BY <3>5 DEF x
  <2>5. TilesOK(us)
    BY <2>2, <2>3, <2>4 DEF TilesOK
  <2> QED
    BY <2>2, <2>5 DEF us, L
<1>6. CASE ~(q < n)
  <2>1. us = Append(ts, <<id>>)
    BY <1>4, <1>6, <1>7
  <2>2. <<id>> \in Seq(Id) /\ Len(<<id>>) = 1
    OBVIOUS
  <2>3. us \in Seq(Seq(Id)) /\ Len(Rows(us)) = L + 1
    BY <1>1, <2>1, <2>2, RowsAppended DEF L
  <2>4. Len(us) = n + 1 /\ us[n + 1] = <<id>> /\ \A t \in 1..n : us[t] = ts[t]
    BY <1>1, <2>1, <2>2
  <2>5. \A t \in 1..n + 1 : us[t] # <<>>
    <3>1. \A t \in 1..n + 1 : t \in 1..n \/ t = n + 1
      BY <1>2
    <3>2. <<id>> # <<>>
      OBVIOUS
    <3> QED
      BY <1>1, <2>4, <3>1, <3>2
  <2>6. L + 1 <= (n + 1) * TileSize
    <3>1. (n + 1) * TileSize = n * TileSize + TileSize /\ n * TileSize \in Nat
      BY <1>2
    <3> QED
      BY <1>1, <1>2, <3>1
  <2>7. TilesOK(us)
    BY <2>3, <2>4, <2>5, <2>6 DEF TilesOK
  <2> QED
    BY <2>3, <2>7 DEF us, L
<1> QED
  BY <1>5, <1>6

LEMMA AllocateKeeps ==
    ASSUME MapperInv, NEW id \in Id, AllocateNode(id)
    PROVE  MapperInv' /\ tiles' = WithRow(Layout.tiles, id)
<1>1. /\ Layout.next = Len(Rows(tiles)) /\ Len(Rows(tiles)) \in Nat
      /\ TilesOK(Layout.tiles) /\ Len(Rows(Layout.tiles)) = Len(Rows(tiles))
  BY LayoutRows
<1>2. nextAddr' = Layout.next + 1
  BY DEF AllocateNode
<1>3. tiles' = WithRow(Layout.tiles, id)
  <2>1. Layout.next = Len(Rows(Layout.tiles))
    BY <1>1
  <2>2. tiles' = IF Layout.next \div TileSize < Len(Layout.tiles)
                 THEN [Layout.tiles EXCEPT
                          ![Layout.next \div TileSize + 1] = Append(@, id)]
                 ELSE Append(Layout.tiles, <<id>>)
    BY DEF AllocateNode
  <2> QED
    BY <2>1, <2>2 DEF WithRow
<1>4. TilesOK(tiles') /\ Len(Rows(tiles')) = Len(Rows(tiles)) + 1
  BY <1>1, <1>3, WithRowOK
<1> QED
  BY <1>1, <1>2, <1>3, <1>4 DEF MapperInv, TilesOK, Rows

LEMMA RotateKeeps ==
    ASSUME MapperInv, WearLevel
    PROVE  MapperInv'
<1>1. /\ tiles # <<>> /\ tiles' = Append(Tail(tiles), tiles[1])
      /\ nextAddr' = Len(Rows(tiles))
  BY DEF WearLevel
<1>2. /\ tiles \in Seq(Seq(Id)) /\ Len(Rows(tiles)) <= Len(tiles) * TileSize
      /\ \A t \in 1..Len(tiles) : tiles[t] # <<>>
  BY DEF MapperInv, TilesOK
<1>3. /\ tiles' \in Seq(Seq(Id)) /\ Len(tiles') = Len(tiles)
      /\ Len(Rows(tiles')) = Len(Rows(tiles))
      /\ \A t \in 1..Len(tiles) : \E k \in 1..Len(tiles) : tiles'[t] = tiles[k]
  BY <1>1, <1>2, RowsRotated
<1>4. TilesOK(tiles')
  BY <1>2, <1>3 DEF TilesOK
<1> QED
  BY <1>1, <1>3, <1>4 DEF MapperInv, TilesOK, Rows

LEMMA MapperStart == MapperInit => MapperInv
<1>1. TilesOK(<<>>) /\ Len(Rows(<<>>)) = 0
  BY NoRows, MapperAssumption DEF TilesOK
<1> QED
  BY <1>1 DEF MapperInit, MapperInv

LEMMA MapperStep == MapperInv /\ [MapperNext]_mapperVars => MapperInv'
<1> SUFFICES ASSUME MapperInv, [MapperNext]_mapperVars PROVE MapperInv'
  OBVIOUS
<1>1. CASE UNCHANGED mapperVars
  BY <1>1 DEF mapperVars, MapperInv, TilesOK, Rows
<1>2. ASSUME NEW id \in Id, AllocateNode(id) PROVE MapperInv'
  BY <1>2, AllocateKeeps
<1>3. CASE WearLevel
  BY <1>3, RotateKeeps
<1> QED
  BY <1>1, <1>2, <1>3 DEF MapperNext

(* The places of an id are rows of tiles.                                  *)
LEMMA HoldsPlaces ==
    ASSUME NEW S, NEW ts \in Seq(Seq(S)), NEW id, NEW p
    PROVE  p \in Holds(ts, id) <=>
               \E t \in 1..Len(ts) : \E r \in 1..Len(ts[t]) :
                   p = <<t, r>> /\ ts[t][r] = id
<1>1. PICK start : Starts(ts, start)
  BY StartsExist
<1>2. ASSUME NEW t \in 1..Len(ts), NEW r \in 1..Len(ts[t])
      PROVE  r \in 1..Len(Rows(ts))
  <2>1. start[t] + r \in 1..Len(Rows(ts))
    BY <1>1, RowsLaid DEF Laid
  <2>2. start[t] \in Nat /\ Len(Rows(ts)) \in Nat
    <3>1. t \in 1..Len(ts) + 1
      OBVIOUS
    <3> QED
      BY <1>1, <3>1, RowsType DEF Starts
  <2> QED
    BY <2>1, <2>2
<1>3. ASSUME p \in Holds(ts, id)
      PROVE  \E t \in 1..Len(ts) : \E r \in 1..Len(ts[t]) :
                 p = <<t, r>> /\ ts[t][r] = id
  <2>1. /\ p \in (1..Len(ts)) \X (1..Len(Rows(ts)))
        /\ p[2] <= Len(ts[p[1]]) /\ ts[p[1]][p[2]] = id
    BY <1>3 DEF Holds
  <2>2. p = <<p[1], p[2]>> /\ p[1] \in 1..Len(ts) /\ p[2] \in Nat /\ p[2] >= 1
    BY <2>1
  <2>3. ts[p[1]] \in Seq(S)
    BY <2>2
  <2>4. p[2] \in 1..Len(ts[p[1]])
    BY <2>1, <2>2, <2>3
  <2> QED
    BY <2>1, <2>2, <2>4
<1>4. ASSUME NEW t \in 1..Len(ts), NEW r \in 1..Len(ts[t]), p = <<t, r>>, ts[t][r] = id
      PROVE  p \in Holds(ts, id)
  <2>1. p[1] = t /\ p[2] = r /\ ts[t] \in Seq(S)
    BY <1>4
  <2>2. p \in (1..Len(ts)) \X (1..Len(Rows(ts)))
    BY <1>2, <1>4
  <2>3. p[2] <= Len(ts[p[1]]) /\ ts[p[1]][p[2]] = id
    BY <1>4, <2>1
  <2> QED
    BY <2>2, <2>3 DEF Holds
<1> QED
  BY <1>3, <1>4

LEMMA OnlyPlace ==
    ASSUME NEW ts, NEW id, NEW t \in Nat, NEW r \in Nat, Holds(ts, id) = {<<t, r>>}
    PROVE  GetAddress(ts, id) = <<t - 1, r - 1>>
<1> DEFINE IsFirst(p) == \A q \in Holds(ts, id) :
                              p[1] < q[1] \/ (p[1] = q[1] /\ p[2] <= q[2])
           first == CHOOSE p \in Holds(ts, id) : IsFirst(p)
<1>1. IsFirst(<<t, r>>)
  OBVIOUS
<1>2. \E p \in Holds(ts, id) : IsFirst(p)
  BY <1>1
<1>3. first \in Holds(ts, id)
  <2> HIDE DEF IsFirst
  <2> QED
    BY <1>2
<1>4. GetAddress(ts, id) = <<first[1] - 1, first[2] - 1>>
  BY DEF GetAddress
<1> HIDE DEF first
<1>5. first = <<t, r>>
  BY <1>3
<1> QED
  BY <1>4, <1>5

LEMMA NoPlace ==
    ASSUME NEW ts, NEW id, GetAddress(ts, id) = NoAddress
    PROVE  Holds(ts, id) = {}
BY DEF GetAddress, NoAddress

(* A row more is a place more for its id, and changes no other place.      *)
LEMMA AddedPlaces ==
    ASSUME NEW S, NEW ts \in Seq(Seq(S)), NEW k \in 1..Len(ts), NEW id \in S
    PROVE  /\ Holds(Added(ts, k, id), id) = Holds(ts, id) \cup {<<k, Len(ts[k]) + 1>>}
           /\ \A o : o # id => Holds(Added(ts, k, id), o) = Holds(ts, o)
<1> DEFINE us == Added(ts, k, id)
<1>1. us \in Seq(Seq(S))
  BY RowsAdded
<1>2. /\ Len(us) = Len(ts) /\ \A t \in 1..Len(ts) : t # k => us[t] = ts[t]
      /\ us[k] = Append(ts[k], id)
  BY DEF Added
<1>3. ts[k] \in Seq(S) /\ Len(ts[k]) \in Nat
  OBVIOUS
<1>4. /\ Len(us[k]) = Len(ts[k]) + 1 /\ us[k][Len(ts[k]) + 1] = id
      /\ \A r \in 1..Len(ts[k]) : us[k][r] = ts[k][r]
  BY <1>2, <1>3
<1> HIDE DEF us
<1>5. ASSUME NEW o, NEW p, p \in Holds(us, o)
      PROVE  p \in Holds(ts, o) \/ (o = id /\ p = <<k, Len(ts[k]) + 1>>)
  <2>1. PICK t \in 1..Len(us) : \E r \in 1..Len(us[t]) : p = <<t, r>> /\ us[t][r] = o
    BY <1>1, <1>5, HoldsPlaces
  <2>2. PICK r \in 1..Len(us[t]) : p = <<t, r>> /\ us[t][r] = o
    BY <2>1
  <2>3. CASE t # k
    <3>1. t \in 1..Len(ts) /\ r \in 1..Len(ts[t]) /\ ts[t][r] = o
      BY <1>2, <2>1, <2>2, <2>3
    <3> QED
      BY <2>2, <3>1, HoldsPlaces
  <2>4. CASE t = k /\ r = Len(ts[k]) + 1
    BY <1>4, <2>2, <2>4
  <2>5. CASE t = k /\ r # Len(ts[k]) + 1
    <3>1. r \in 1..Len(ts[k])
      BY <1>3, <1>4, <2>2, <2>5
    <3>2. ts[k][r] = o /\ p = <<k, r>>
      BY <1>4, <2>2, <2>5, <3>1
    <3> QED
      BY <3>1, <3>2, HoldsPlaces
  <2> QED
    BY <2>3, <2>4, <2>5
<1>6. ASSUME NEW o, NEW p, p \in Holds(ts, o) PROVE p \in Holds(us, o)
  <2>1. PICK t \in 1..Len(ts) : \E r \in 1..Len(ts[t]) : p = <<t, r>> /\ ts[t][r] = o
    BY <1>6, HoldsPlaces
  <2>2. PICK r \in 1..Len(ts[t]) : p = <<t, r>> /\ ts[t][r] = o
    BY <2>1
  <2>3. r \in 1..Len(us[t]) /\ us[t][r] = o
    <3>1. CASE t = k
      BY <1>3, <1>4, <2>2, <3>1
    <3>2. CASE t # k
      BY <1>2, <2>2, <3>2
    <3> QED
      BY <3>1, <3>2
  <2>4. t \in 1..Len(us)
    BY <1>2
  <2> QED
    BY <1>1, <2>2, <2>3, <2>4, HoldsPlaces
<1>7. <<k, Len(ts[k]) + 1>> \in Holds(us, id)
  <2>1. k \in 1..Len(us) /\ Len(ts[k]) + 1 \in 1..Len(us[k])
    BY <1>2, <1>3, <1>4
  <2> QED
    BY <1>1, <1>4, <2>1, HoldsPlaces
<1>8. Holds(us, id) = Holds(ts, id) \cup {<<k, Len(ts[k]) + 1>>}
  BY <1>5, <1>6, <1>7
<1>9. ASSUME NEW o, o # id PROVE Holds(us, o) = Holds(ts, o)
  <2>1. \A p : p \in Holds(us, o) => p \in Holds(ts, o)
    BY <1>5, <1>9
  <2>2. \A p : p \in Holds(ts, o) => p \in Holds(us, o)
    BY <1>6
  <2> QED
    BY <2>1, <2>2
<1> QED
  BY <1>8, <1>9 DEF us

LEMMA AppendedPlaces ==
    ASSUME NEW S, NEW ts \in Seq(Seq(S)), NEW id \in S
    PROVE  /\ Holds(Append(ts, <<id>>), id) = Holds(ts, id) \cup {<<Len(ts) + 1, 1>>}
           /\ \A o : o # id => Holds(Append(ts, <<id>>), o) = Holds(ts, o)
<1> DEFINE us == Append(ts, <<id>>)
           n == Len(ts)
<1>1. <<id>> \in Seq(S) /\ Len(<<id>>) = 1 /\ <<id>>[1] = id /\ n \in Nat
  OBVIOUS
<1>2. /\ us \in Seq(Seq(S)) /\ Len(us) = n + 1 /\ us[n + 1] = <<id>>
      /\ \A t \in 1..n : us[t] = ts[t]
  BY <1>1
<1> HIDE DEF us, n
<1>3. ASSUME NEW o, NEW p, p \in Holds(us, o)
      PROVE  p \in Holds(ts, o) \/ (o = id /\ p = <<n + 1, 1>>)
  <2>1. PICK t \in 1..Len(us) : \E r \in 1..Len(us[t]) : p = <<t, r>> /\ us[t][r] = o
    BY <1>2, <1>3, HoldsPlaces
  <2>2. PICK r \in 1..Len(us[t]) : p = <<t, r>> /\ us[t][r] = o
    BY <2>1
  <2>3. CASE t \in 1..n
    <3>1. t \in 1..Len(ts) /\ r \in 1..Len(ts[t]) /\ ts[t][r] = o
      BY <1>2, <2>2, <2>3 DEF n
    <3> QED
      BY <2>2, <3>1, HoldsPlaces
  <2>4. CASE t = n + 1
    <3>1. us[t] = <<id>> /\ r \in 1..1
      BY <1>1, <1>2, <2>2, <2>4
    <3>2. r = 1
      BY <3>1
    <3> QED
      BY <1>1, <2>2, <2>4, <3>1, <3>2
  <2> QED
    BY <1>1, <1>2, <2>3, <2>4
<1>4. ASSUME NEW o, NEW p, p \in Holds(ts, o) PROVE p \in Holds(us, o)
  <2>1. PICK t \in 1..Len(ts) : \E r \in 1..Len(ts[t]) : p = <<t, r>> /\ ts[t][r] = o
    BY <1>4, HoldsPlaces
  <2>2. PICK r \in 1..Len(ts[t]) : p = <<t, r>> /\ ts[t][r] = o
    BY <2>1
  <2>3. t \in 1..Len(us) /\ us[t] = ts[t]
    BY <1>1, <1>2 DEF n
  <2>4. r \in 1..Len(us[t]) /\ us[t][r] = o
    BY <2>2, <2>3
  <2> QED
    BY <1>2, <2>2, <2>3, <2>4, HoldsPlaces
<1>5. <<n + 1, 1>> \in Holds(us, id)
  <2>1. n + 1 \in 1..Len(us) /\ 1 \in 1..Len(us[n + 1]) /\ us[n + 1][1] = id
    BY <1>1, <1>2
  <2> QED
    BY <1>2, <2>1, HoldsPlaces
<1>6. Holds(us, id) = Holds(ts, id) \cup {<<n + 1, 1>>}
  BY <1>3, <1>4, <1>5
<1>7. ASSUME NEW o, o # id PROVE Holds(us, o) = Holds(ts, o)
  <2>1. \A p : p \in Holds(us, o) => p \in Holds(ts, o)
    BY <1>3, <1>7
  <2>2. \A p : p \in Holds(ts, o) => p \in Holds(us, o)
    BY <1>4
  <2> QED
    BY <2>1, <2>2
<1> QED
  BY <1>6, <1>7 DEF us, n

(* Where the next row is, when only the last tile has free rows.           *)
LEMMA NextRow ==
    ASSUME NEW ts, TilesOK(ts), Compact(ts)
    PROVE  LET tile == Len(Rows(ts)) \div TileSize
               row  == Len(Rows(ts)) % TileSize
           IN  \/ /\ Len(ts) > 0 /\ tile = Len(ts) - 1 /\ row = Len(ts[Len(ts)])
               \/ tile = Len(ts) /\ row = 0
<1> DEFINE n == Len(ts)
           L == Len(Rows(ts))
<1>1. ts \in Seq(Seq(Id)) /\ L <= n * TileSize /\ \A t \in 1..n : ts[t] # <<>>
  BY DEF TilesOK
<1>2. n \in Nat /\ TileSize \in Nat \ {0}
  BY <1>1, MapperAssumption
<1>3. CASE n = 0
  <2>1. ts = <<>>
    BY <1>1, <1>3
  <2>2. L = 0
    BY <2>1, NoRows
  <2>3. 0 = 0 * TileSize + 0 /\ 0 \in Nat /\ 0 < TileSize
    BY <1>2
  <2>4. 0 \div TileSize = 0 /\ 0 % TileSize = 0
    BY <1>2, <2>3, Quotient
  <2> HIDE DEF L, n
  <2>5. L \div TileSize = n /\ L % TileSize = 0
    BY <1>3, <2>2, <2>4
  <2> QED
    BY <2>5 DEF L, n
<1>4. CASE n > 0
  <2>1. L = (n - 1) * TileSize + Len(ts[n])
    BY <1>1, <1>4, CompactRows
  <2>2. n \in 1..n
    BY <1>2, <1>4
  <2>3. ts[n] \in Seq(Id) /\ ts[n] # <<>> /\ Len(ts[n]) \in Nat
    BY <1>1, <2>2
  <2>4. Len(ts[n]) > 0
    BY <2>3
  <2> DEFINE l == Len(ts[n])
             x == n * TileSize
             y == (n - 1) * TileSize
  <2>5. y = x - TileSize /\ x \in Nat /\ L <= x /\ L = y + l /\ l \in Nat /\ n - 1 \in Nat
    <3>1. L <= x /\ L = y + l /\ l \in Nat
      BY <1>1, <2>1, <2>3
    <3> HIDE DEF L, l, n
    <3>2. y = x - TileSize
      BY <1>2
    <3>3. x \in Nat
      BY <1>2
    <3> QED
      BY <1>2, <1>4, <3>1, <3>2, <3>3
  <2> HIDE DEF l, L, n
  <2>6. l <= TileSize
    <3> HIDE DEF x, y
    <3> QED
      BY <1>2, <2>5
  <2>7. CASE l < TileSize
    <3>1. ((n - 1) * TileSize + l) \div TileSize = n - 1
          /\ ((n - 1) * TileSize + l) % TileSize = l
      BY <1>2, <2>5, <2>7, Quotient
    <3>2. L \div TileSize = n - 1 /\ L % TileSize = l
      BY <2>5, <3>1
    <3> QED
      BY <1>4, <3>2 DEF L, n, l
  <2>8. CASE l = TileSize
    <3>1. 0 \in Nat /\ 0 < TileSize
      BY <1>2
    <3>2. (n * TileSize + 0) \div TileSize = n /\ (n * TileSize + 0) % TileSize = 0
      BY <1>2, <3>1, Quotient
    <3>3. L = n * TileSize + 0
      BY <1>2, <2>5, <2>8
    <3>4. L \div TileSize = n /\ L % TileSize = 0
      BY <3>2, <3>3
    <3> QED
      BY <3>4 DEF L, n
  <2> QED
    BY <1>2, <2>5, <2>6, <2>7, <2>8
<1> QED
  BY <1>2, <1>3, <1>4

(* Making tiles compact that are compact already changes nothing.          *)
LEMMA CutSame ==
    ASSUME NEW ts, TilesOK(ts), Compact(ts)
    PROVE  Defragmented(ts) = ts
<1> DEFINE ds == Defragmented(ts)
           L == Len(Rows(ts))
<1>1. ts \in Seq(Seq(Id)) /\ L <= Len(ts) * TileSize /\ \A t \in 1..Len(ts) : ts[t] # <<>>
  BY DEF TilesOK
<1>2. /\ ds \in Seq(Seq(Id)) /\ Compact(ds) /\ Len(Rows(ds)) = L
      /\ \A t \in 1..Len(ds) : \A r \in 1..Len(ds[t]) :
            ds[t][r] = Rows(ts)[(t - 1) * TileSize + r]
  BY <1>1, RowsCut, Zenon
<1>3. TilesOK(ds)
  BY <1>1, CutOK
<1>4. Len(ts) \in Nat /\ Len(ds) \in Nat
  BY <1>1, <1>2
<1> HIDE DEF ds
<1>5. Len(ds) = Len(ts) /\ (Len(ts) > 0 => Len(ds[Len(ds)]) = Len(ts[Len(ts)]))
  <2>1. \/ /\ Len(ts) > 0 /\ L \div TileSize = Len(ts) - 1
           /\ L % TileSize = Len(ts[Len(ts)])
        \/ L \div TileSize = Len(ts) /\ L % TileSize = 0
    BY NextRow
  <2>2. \/ /\ Len(ds) > 0 /\ L \div TileSize = Len(ds) - 1
           /\ L % TileSize = Len(ds[Len(ds)])
        \/ L \div TileSize = Len(ds) /\ L % TileSize = 0
    BY <1>2, <1>3, NextRow
  <2>3. Len(ts) > 0 => L = (Len(ts) - 1) * TileSize + Len(ts[Len(ts)])
    BY <1>1, CompactRows
  <2>4. Len(ds) > 0 => L = (Len(ds) - 1) * TileSize + Len(ds[Len(ds)])
    BY <1>2, CompactRows
  <2>5. Len(ts) > 0 => ts[Len(ts)] \in Seq(Id) /\ Len(ts[Len(ts)]) \in Nat \ {0}
    <3>1. ASSUME Len(ts) > 0 PROVE ts[Len(ts)] \in Seq(Id) /\ ts[Len(ts)] # <<>>
      BY <1>1, <1>4, <3>1
    <3> QED
      BY <3>1
  <2>6. Len(ds) > 0 => ds[Len(ds)] \in Seq(Id) /\ Len(ds[Len(ds)]) \in Nat \ {0}
    <3>1. ASSUME Len(ds) > 0 PROVE ds[Len(ds)] \in Seq(Id) /\ ds[Len(ds)] # <<>>
      BY <1>2, <1>3, <1>4, <3>1 DEF TilesOK
    <3> QED
      BY <3>1
  <2> DEFINE q == L \div TileSize
             r == L % TileSize
  <2> HIDE DEF q, r
  <2>7. Len(ds) = Len(ts)
    BY <1>4, <2>1, <2>2, <2>5, <2>6 DEF q, r
  <2>8. ASSUME Len(ts) > 0 PROVE Len(ds[Len(ds)]) = Len(ts[Len(ts)])
    <3> DEFINE y == (Len(ts) - 1) * TileSize
    <3>1. y \in Nat
      <4>1. Len(ts) - 1 \in Nat /\ TileSize \in Nat
        BY <1>4, <2>8, MapperAssumption
      <4> QED
        BY <4>1
    <3>2. L = y + Len(ts[Len(ts)]) /\ L = y + Len(ds[Len(ds)])
      BY <2>3, <2>4, <2>7, <2>8
    <3>3. Len(ts[Len(ts)]) \in Nat /\ Len(ds[Len(ds)]) \in Nat
      BY <2>5, <2>6, <2>7, <2>8
    <3> HIDE DEF y, L
    <3> QED
      BY <3>1, <3>2, <3>3
  <2> QED
    BY <2>7, <2>8
<1>6. ASSUME NEW t \in 1..Len(ts) PROVE ds[t] = ts[t]
  <2>1. Len(ds[t]) = Len(ts[t])
    <3>1. CASE t = Len(ts)
      BY <1>4, <1>5, <3>1
    <3>2. CASE t # Len(ts)
      <4>1. t \in 1..Len(ts) - 1 /\ t \in 1..Len(ds) - 1
        BY <1>4, <1>5, <3>2
      <4> QED
        BY <1>2, <4>1 DEF Compact
    <3> QED
      BY <3>1, <3>2
  <2>2. t \in 1..Len(ds) /\ ds[t] \in Seq(Id) /\ ts[t] \in Seq(Id) /\ Len(ts) > 0
    BY <1>1, <1>2, <1>4, <1>5
  <2>3. ASSUME NEW r \in 1..Len(ts[t]) PROVE ds[t][r] = ts[t][r]
    <3>1. ds[t][r] = Rows(ts)[(t - 1) * TileSize + r]
      BY <1>2, <2>1, <2>2
    <3>2. Rows(ts)[(t - 1) * TileSize + r] = ts[t][r]
      BY <1>1, <2>2, CompactRows
    <3> QED
      BY <3>1, <3>2
  <2> QED
    BY <2>1, <2>2, <2>3, SeqEqual
<1>7. ds = ts
  BY <1>1, <1>2, <1>5, <1>6, SeqEqual
<1> QED
  BY <1>7 DEF ds

(* Defragmenting brings no id into the tiles.                              *)
LEMMA CutPlaces ==
    ASSUME NEW ts \in Seq(Seq(Id)), NEW id, Holds(ts, id) = {}
    PROVE  Holds(Defragmented(ts), id) = {}
<1> DEFINE ds == Defragmented(ts)
<1>1. /\ ds \in Seq(Seq(Id))
      /\ \A t \in 1..Len(ds) : \A r \in 1..Len(ds[t]) :
            /\ (t - 1) * TileSize + r \in 1..Len(Rows(ts))
            /\ ds[t][r] = Rows(ts)[(t - 1) * TileSize + r]
  BY RowsCut, Zenon
<1> HIDE DEF ds
<1>2. ASSUME NEW p, p \in Holds(ds, id) PROVE FALSE
  <2>1. PICK t \in 1..Len(ds) : \E r \in 1..Len(ds[t]) : p = <<t, r>> /\ ds[t][r] = id
    BY <1>1, <1>2, HoldsPlaces
  <2>2. PICK r \in 1..Len(ds[t]) : p = <<t, r>> /\ ds[t][r] = id
    BY <2>1
  <2> DEFINE i == (t - 1) * TileSize + r
  <2>3. i \in 1..Len(Rows(ts)) /\ Rows(ts)[i] = id
    BY <1>1, <2>2
  <2> HIDE DEF i
  <2>4. PICK k \in 1..Len(ts) : \E j \in 1..Len(ts[k]) : Rows(ts)[i] = ts[k][j]
    BY <2>3, RowsCovered
  <2>5. PICK j \in 1..Len(ts[k]) : Rows(ts)[i] = ts[k][j]
    BY <2>4
  <2>6. <<k, j>> \in Holds(ts, id)
    BY <2>3, <2>4, <2>5, HoldsPlaces
  <2> QED
    BY <2>6
<1>3. Holds(ds, id) = {}
  BY <1>2
<1> QED
  BY <1>3 DEF ds

(* Where the row of a fresh id is, in tiles of which only the last may     *)
(* have free rows.                                                         *)
LEMMA WithRowPlace ==
    ASSUME NEW ts, TilesOK(ts), Compact(ts), NEW id \in Id, Holds(ts, id) = {}
    PROVE  /\ GetAddress(WithRow(ts, id), id) =
                  <<Len(Rows(ts)) \div TileSize, Len(Rows(ts)) % TileSize>>
           /\ \A o : o # id => Holds(WithRow(ts, id), o) = Holds(ts, o)
<1> DEFINE tile == Len(Rows(ts)) \div TileSize
           row  == Len(Rows(ts)) % TileSize
           n == Len(ts)
<1>1. ts \in Seq(Seq(Id)) /\ n \in Nat
  BY DEF TilesOK
<1>2. WithRow(ts, id) = IF tile < n THEN Added(ts, tile + 1, id)
                        ELSE Append(ts, <<id>>)
  BY DEF WithRow, Added
<1>3. \/ n > 0 /\ tile = n - 1 /\ row = Len(ts[n])
      \/ tile = n /\ row = 0
  BY NextRow
<1> HIDE DEF tile, row
<1>4. CASE n > 0 /\ tile = n - 1 /\ row = Len(ts[n])
  <2>1. WithRow(ts, id) = Added(ts, n, id) /\ n \in 1..n
    <3> HIDE DEF n
    <3>1. tile < n /\ tile + 1 = n /\ n \in 1..n
      BY <1>1, <1>4
    <3> QED
      BY <1>2, <3>1
  <2>2. ts[n] \in Seq(Id) /\ Len(ts[n]) \in Nat
    BY <1>1, <2>1
  <2>3. /\ Holds(Added(ts, n, id), id) = {<<n, Len(ts[n]) + 1>>}
        /\ \A o : o # id => Holds(Added(ts, n, id), o) = Holds(ts, o)
    BY <1>1, <2>1, AddedPlaces
  <2>4. GetAddress(Added(ts, n, id), id) = <<n - 1, (Len(ts[n]) + 1) - 1>>
    <3>1. n \in Nat /\ Len(ts[n]) + 1 \in Nat
      BY <1>1, <2>2
    <3> QED
      BY <2>3, <3>1, OnlyPlace
  <2>5. (Len(ts[n]) + 1) - 1 = Len(ts[n])
    BY <2>2
  <2> HIDE DEF n
  <2> QED
    BY <1>4, <2>1, <2>3, <2>4, <2>5 DEF tile, row
<1>5. CASE tile = n /\ row = 0
  <2>1. WithRow(ts, id) = Append(ts, <<id>>)
    BY <1>1, <1>2, <1>5
  <2>2. /\ Holds(Append(ts, <<id>>), id) = {<<n + 1, 1>>}
        /\ \A o : o # id => Holds(Append(ts, <<id>>), o) = Holds(ts, o)
    BY <1>1, AppendedPlaces
  <2>3. GetAddress(Append(ts, <<id>>), id) = <<(n + 1) - 1, 1 - 1>>
    BY <1>1, <2>2, OnlyPlace
  <2>4. (n + 1) - 1 = n /\ 1 - 1 = 0
    BY <1>1
  <2> HIDE DEF n
  <2> QED
    BY <1>5, <2>1, <2>2, <2>3, <2>4 DEF tile, row
<1> QED
  BY <1>3, <1>4, <1>5

LEMMA FreshFound ==
    ASSUME MapperInv, NEW id \in Id, AllocateNode(id), GetAddress(tiles, id) = NoAddress
    PROVE  /\ Compact(tiles) \/ Full => GetAddress(tiles', id) = handed'
           /\ Compact(tiles) => \A other \in Id \ {id} :
                  GetAddress(tiles', other) = GetAddress(tiles, other)
<1> DEFINE ts == Layout.tiles
           L == Len(Rows(tiles))
<1>1. /\ Layout.next = L /\ TilesOK(ts) /\ Len(Rows(ts)) = L
      /\ ts = IF Full THEN Defragmented(tiles) ELSE tiles
  BY LayoutRows
<1>2. tiles' = WithRow(ts, id)
  BY AllocateKeeps
<1>3. handed' = <<L \div TileSize, L % TileSize>>
  BY <1>1 DEF AllocateNode
<1>4. TilesOK(tiles) /\ tiles \in Seq(Seq(Id))
  BY DEF MapperInv, TilesOK
<1>5. Holds(tiles, id) = {}
  BY NoPlace
<1>6. Holds(ts, id) = {}
  BY <1>1, <1>4, <1>5, CutPlaces
<1>7. Compact(tiles) => ts = tiles
  BY <1>1, <1>4, CutSame
<1>8. ASSUME Compact(tiles) \/ Full PROVE Compact(ts)
  <2>1. Compact(Defragmented(tiles))
    BY <1>4, RowsCut, Zenon
  <2> QED
    BY <1>1, <1>7, <1>8, <2>1
<1> HIDE DEF ts, L
<1>9. ASSUME Compact(tiles) \/ Full PROVE GetAddress(tiles', id) = handed'
  BY <1>1, <1>2, <1>3, <1>6, <1>8, <1>9, WithRowPlace
<1>10. ASSUME Compact(tiles), NEW other \in Id \ {id}
       PROVE  GetAddress(tiles', other) = GetAddress(tiles, other)
  <2>1. Holds(WithRow(ts, id), other) = Holds(ts, other)
    BY <1>1, <1>6, <1>8, <1>10, WithRowPlace
  <2>2. Holds(tiles', other) = Holds(tiles, other)
    BY <1>2, <1>7, <1>10, <2>1
  <2>3. \A us, vs : Holds(us, other) = Holds(vs, other) =>
                        GetAddress(us, other) = GetAddress(vs, other)
    BY DEF GetAddress
  <2> QED
    BY <2>2, <2>3
<1> QED
  BY <1>9, <1>10

THEOREM AddressesCount == MapperSpec => []MapperInv
<1>1. MapperSpec => []MapperInv
  BY MapperStart, MapperStep, PTL DEF MapperSpec
<1> QED
  BY <1>1

(* A fresh id is found under the address its allocation has told, and no   *)
(* other id moves, in the cases the property names.                        *)
THEOREM FreshAlwaysFound == MapperSpec => FreshAddressFound
<1>1. MapperInv /\ [MapperNext]_mapperVars =>
          [\A id \in Id :
              (AllocateNode(id) /\ GetAddress(tiles, id) = NoAddress) =>
                  /\ Compact(tiles) \/ Full => GetAddress(tiles', id) = handed'
                  /\ Compact(tiles) => \A other \in Id \ {id} :
                         GetAddress(tiles', other) = GetAddress(tiles, other)]_mapperVars
  BY FreshFound
<1> QED
  BY <1>1, AddressesCount, PTL DEF MapperSpec, FreshAddressFound
=============================================================================

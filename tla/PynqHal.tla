------------------------------- MODULE PynqHal -------------------------------
(***************************************************************************)
(* The PYNQ host code.  PYNQHAL (hardware/sw/pynq/smgp_pynq_hal.py) writes *)
(* an instruction register by register, polls for its end for as long as   *)
(* ten seconds, and then reads the result; every access may raise.         *)
(* SMGPOverlay (hardware/sw/pynq/smgp_overlay.py) keeps a list of the DMA  *)
(* buffers it has allocated.                                               *)
(*                                                                         *)
(* The device behind the registers is not in the repository: a start makes *)
(* it take down done and begin what the registers hold; a start while it   *)
(* works is ignored or begins anew.  Buffers have more than one element:   *)
(* for one element == compares contents.                                   *)
(***************************************************************************)
EXTENDS Naturals, Sequences, SequencesExt

CONSTANTS
    Instr,       \* instructions: opcode, sub-opcode, operand and flags
    MaxPolls,    \* polls before a time-out (10000)
    Buffer,      \* buffers the allocator may give
    Size,        \* Size[b]: the shape of b
    NoInstr

ASSUME HalAssumption ==
    /\ NoInstr \notin Instr
    /\ MaxPolls \in Nat

VARIABLES
    hal,         \* "open", "bare" (no register interface) or "closed"
    call,        \* the call of execute under way: its instruction and next step
    regs,        \* registers 0x00, 0x04 and 0x08: whose fields they hold
    device,      \* "idle", "working" or "done"
    job, result, \* the fields it works on, and those of the last job done
    reply,       \* what the last call returned
    late,        \* the device may still be at a job nobody waits for (history)
    listed,      \* _buffers of the overlay
    live,        \* buffers whose memory has not been released
    loaded       \* the overlay has its DMA engine

deviceVars == <<regs, device, job, result>>
halVars == <<hal, call, deviceVars, reply, late>>
overlayVars == <<listed, live, loaded>>
pynqVars == <<halVars, overlayVars>>

Fields(i) == [k \in 1..3 |-> i]

CallAt(i, step, polls, cycles) ==
    [instr |-> i, step |-> step, polls |-> polls, cycles |-> cycles]

NoCall == CallAt(NoInstr, "none", 0, Fields(NoInstr))

ReplyOf(i, status, cycles) == [instr |-> i, status |-> status, cycles |-> cycles]

NoReply == ReplyOf(NoInstr, "none", Fields(NoInstr))

PynqInit ==
    /\ hal = "closed" /\ call = NoCall /\ reply = NoReply /\ late = FALSE
    /\ device = "idle"
    /\ regs = Fields(NoInstr) /\ job = Fields(NoInstr) /\ result = Fields(NoInstr)
    /\ listed = <<>> /\ live = {} /\ loaded = FALSE

(* The constructor loads the overlay, which resets the device.             *)
OpenHal ==
    /\ hal = "closed"
    /\ hal' \in {"open", "bare"}
    /\ device' = "idle"
    /\ regs' = Fields(NoInstr) /\ job' = Fields(NoInstr) /\ result' = Fields(NoInstr)
    /\ reply' = NoReply
    /\ late' = FALSE
    /\ UNCHANGED <<call, overlayVars>>

CloseHal ==
    /\ hal # "closed" /\ call = NoCall
    /\ hal' = "closed"
    /\ UNCHANGED <<call, deviceVars, reply, late, overlayVars>>

Returns(status, cycles) ==
    /\ reply' = ReplyOf(call.instr, status, cycles)
    /\ call' = NoCall

-----------------------------------------------------------------------------
(* execute, one access of the registers per step.                          *)
Execute(i) ==
    /\ hal # "closed" /\ call = NoCall
    /\ IF hal = "open"
       THEN call' = CallAt(i, "opcode", 0, Fields(NoInstr)) /\ UNCHANGED reply
       ELSE reply' = ReplyOf(i, "EMULATED", Fields(NoInstr)) /\ UNCHANGED call
    /\ UNCHANGED <<hal, deviceVars, late, overlayVars>>

(* Mutant: the start is written before the operand.                        *)
NextStepStartFirst(s) ==
    IF s = "opcode" THEN "sub" ELSE IF s = "sub" THEN "start"
    ELSE IF s = "start" THEN "operand" ELSE "poll"

NextStep(s) ==
    IF s = "opcode" THEN "sub" ELSE IF s = "sub" THEN "operand"
    ELSE IF s = "operand" THEN "start" ELSE "poll"

Register(s) == IF s = "opcode" THEN 1 ELSE IF s = "sub" THEN 2 ELSE 3

WriteField ==
    /\ call.step \in {"opcode", "sub", "operand"}
    /\ regs' = [regs EXCEPT ![Register(call.step)] = call.instr]
    /\ call' = CallAt(call.instr, NextStep(call.step), call.polls, call.cycles)
    /\ UNCHANGED <<hal, device, job, result, reply, late, overlayVars>>

WriteStart ==
    /\ call.step = "start"
    /\ \/ device' = "working" /\ job' = regs
       \/ device = "working" /\ UNCHANGED <<device, job>>
    /\ call' = CallAt(call.instr, NextStep(call.step), call.polls, call.cycles)
    /\ UNCHANGED <<hal, regs, result, reply, late, overlayVars>>

(* A poll that finds nothing sleeps; after the last one the call gives up. *)
PollFinds ==
    /\ call.step = "poll" /\ call.polls < MaxPolls
    /\ IF device = "done"
       THEN call' = CallAt(call.instr, "cycles", call.polls, call.cycles)
       ELSE call' = CallAt(call.instr, "poll", call.polls + 1, call.cycles)
    /\ UNCHANGED <<hal, deviceVars, reply, late, overlayVars>>

PollGivesUp ==
    /\ call.step = "poll" /\ call.polls = MaxPolls
    /\ Returns("TIMEOUT", call.cycles)
    /\ late' = TRUE
    /\ UNCHANGED <<hal, deviceVars, overlayVars>>

ReadCycles ==
    /\ call.step = "cycles"
    /\ call' = CallAt(call.instr, "error", call.polls, result)
    /\ UNCHANGED <<hal, deviceVars, reply, late, overlayVars>>

ReadError ==
    /\ call.step = "error"
    /\ \E status \in {"OK", "ERROR"} : Returns(status, call.cycles)
    /\ UNCHANGED <<hal, deviceVars, late, overlayVars>>

(* Any access may raise; what was read before is in the answer.            *)
AccessRaises ==
    /\ call # NoCall
    /\ Returns("ERROR", call.cycles)
    /\ late' = (late \/ device = "working")
    /\ UNCHANGED <<hal, deviceVars, overlayVars>>

DeviceEnds ==
    /\ device = "working"
    /\ device' = "done"
    /\ result' = job
    /\ UNCHANGED <<hal, call, regs, job, reply, late, overlayVars>>

-----------------------------------------------------------------------------
(* The overlay.                                                            *)
LoadBitstream ==
    /\ loaded' \in BOOLEAN
    /\ loaded => loaded'
    /\ UNCHANGED <<listed, live, halVars>>

AllocateBuffer(b) ==
    /\ loaded /\ b \notin live /\ b \notin ToSet(listed)
    /\ listed' = Append(listed, b)
    /\ live' = live \cup {b}
    /\ UNCHANGED <<loaded, halVars>>

(* buffer in _buffers asks every buffer before it whether it is equal: for *)
(* one of the same shape that raises, for others it depends on the version *)
(* of numpy.                                                               *)
MayPass(x, b) == Size[x] # Size[b]

Before(b) ==
    {listed[i] : i \in {j \in DOMAIN listed : \A k \in 1..j : listed[k] # b}}

Unlist(b) ==
    \/ \E i \in DOMAIN listed : listed[i] = b /\ listed' = RemoveAt(listed, i)
    \/ b \notin ToSet(listed) /\ UNCHANGED listed

(* Mutant: the memory is released before the list is looked at.            *)
FreeBufferReleasing(b) ==
    /\ \/ (\A x \in Before(b) : MayPass(x, b)) /\ Unlist(b)
       \/ Before(b) # {} /\ UNCHANGED listed
    /\ live' = live \ {b}
    /\ UNCHANGED <<loaded, halVars>>

FreeBuffer(b) ==
    /\ \/ /\ \A x \in Before(b) : MayPass(x, b)
          /\ Unlist(b)
          /\ live' = live \ {b}
       \/ Before(b) # {} /\ UNCHANGED <<listed, live>>
    /\ UNCHANGED <<loaded, halVars>>

(* free_all_buffers frees a copy of the list from its front.               *)
FreeAllBuffers ==
    /\ live' = live \ ToSet(listed)
    /\ listed' = <<>>
    /\ UNCHANGED <<loaded, halVars>>

CloseOverlay ==
    /\ live' = live \ ToSet(listed)
    /\ listed' = <<>>
    /\ loaded' = FALSE
    /\ UNCHANGED halVars

HalNext ==
    \/ OpenHal \/ CloseHal
    \/ \E i \in Instr : Execute(i)
    \/ WriteField \/ WriteStart \/ PollFinds \/ PollGivesUp
    \/ ReadCycles \/ ReadError \/ AccessRaises \/ DeviceEnds

OverlayNext ==
    \/ LoadBitstream
    \/ \E b \in Buffer : AllocateBuffer(b) \/ FreeBuffer(b)
    \/ FreeAllBuffers \/ CloseOverlay

PynqNext == HalNext \/ OverlayNext

PynqSpec == PynqInit /\ [][PynqNext]_pynqVars

-----------------------------------------------------------------------------
(* An answer is the one to its own instruction, whole: whatever calls have *)
(* broken off between two registers, and however often the device was      *)
(* asked before.  Only once a call has given up on a job the device was at *)
(* may a later one take the end of that job for its own.                   *)
AnswerIsOwn ==
    (reply.status = "OK" /\ ~late) => reply.cycles = Fields(reply.instr)

(* A buffer is in the list just as long as its memory is allocated, also   *)
(* when freeing one raises half way; so closing the overlay releases all.  *)
BuffersTracked ==
    /\ ToSet(listed) = live
    /\ \A i, j \in DOMAIN listed : listed[i] = listed[j] => i = j
=============================================================================

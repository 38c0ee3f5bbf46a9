------------------------------ MODULE GraphDma ------------------------------
(***************************************************************************)
(* The DMA engine (hardware/rtl/interconnect/graph_dma.sv) and the memory  *)
(* controller (hardware/rtl/memory/hbm_controller.sv): one step is a clock *)
(* edge.  Nothing in the repository instantiates the two, so each is       *)
(* modelled with free inputs, and both wired to each other by the ports    *)
(* that have the same names.  Addresses are kept as offsets, in bytes in   *)
(* the engine and in beats in the controller; ids and data are left out.   *)
(***************************************************************************)
EXTENDS Naturals, Sequences

CONSTANTS
    ByteCount,   \* byte counts the host asks for
    BurstLen     \* burst lengths a requester of the controller asks for

ASSUME DmaAssumption == ByteCount \subseteq Nat /\ BurstLen \subseteq 0..255

VARIABLES
    wiring,      \* "dma" or "hbm" alone, or "both"
    dma,         \* registers of the engine; total and bursts are history
    hbm,         \* registers of the controller; asked, steady, taken are history
    last         \* "read", "write" or "none": kind of the latest burst (history)

dmaVars == <<wiring, dma, hbm, last>>

Burst == 1024

DmaReset ==
    [state |-> "idle", done |-> FALSE, rd |-> FALSE, wr |-> FALSE, len |-> 16,
     remaining |-> 0, moved |-> 0, total |-> 0, bursts |-> 0]

HbmReset ==
    [state |-> "idle", ready |-> TRUE, done |-> FALSE, beat |-> 0, addr |-> 0,
     tvalid |-> FALSE, tlast |-> FALSE, tdata |-> 0, sready |-> FALSE,
     asked |-> 0, steady |-> TRUE, taken |-> <<>>]

DmaInit ==
    /\ wiring \in {"dma", "hbm", "both"}
    /\ dma = DmaReset
    /\ hbm = HbmReset
    /\ last = "none"

-----------------------------------------------------------------------------
(* The engine.  A start is seen in the idle state only.                    *)
DmaIdle(start, bytes) ==
    /\ dma.state = "idle"
    /\ dma' = IF start
              THEN [dma EXCEPT !.state = "issue", !.done = FALSE, !.moved = 0,
                        !.remaining = bytes, !.total = bytes, !.bursts = 0]
              ELSE [dma EXCEPT !.done = FALSE]

(* The request is taken back at the edge that finds the memory ready.  The *)
(* type is read from the port, not from a register.                        *)
DmaIssue(writes, ready) ==
    /\ dma.state = "issue"
    /\ dma' = [dma EXCEPT !.rd = ~writes /\ ~ready, !.wr = writes /\ ~ready,
                          !.len = IF dma.remaining > Burst THEN 16 ELSE 1,
                          !.state = IF ready THEN "transfer" ELSE "issue"]

(* Mutant: a transfer that ends with a full burst asks for one more.       *)
LastBurstStrict(n) == n < Burst

LastBurst(n) == n <= Burst

DmaTransfer(done) ==
    LET n == IF dma.remaining > Burst THEN Burst ELSE dma.remaining
    IN  /\ dma.state = "transfer"
        /\ dma' = IF done
                  THEN [dma EXCEPT !.moved = @ + n, !.remaining = @ - n,
                            !.bursts = @ + 1,
                            !.state = IF LastBurst(dma.remaining)
                                      THEN "complete" ELSE "issue"]
                  ELSE dma

DmaComplete ==
    /\ dma.state = "complete"
    /\ dma' = [dma EXCEPT !.state = "idle", !.done = TRUE]

DmaEdge(start, bytes, writes, ready, done) ==
    \/ DmaIdle(start, bytes)
    \/ DmaIssue(writes, ready)
    \/ DmaTransfer(done)
    \/ DmaComplete

-----------------------------------------------------------------------------
(* The controller: a request is accepted only when ready is up, one edge   *)
(* after the idle state is reached.                                        *)
HbmIdle(rd, wr, len) ==
    LET accepted == hbm.ready /\ (rd \/ wr)
    IN  /\ hbm.state = "idle"
        /\ hbm' = IF accepted
                  THEN [HbmReset EXCEPT !.state = IF rd THEN "read" ELSE "write",
                            !.ready = FALSE, !.beat = len, !.asked = len,
                            !.sready = ~rd, !.tlast = hbm.tlast]
                  ELSE [hbm EXCEPT !.ready = TRUE, !.done = FALSE,
                                   !.tvalid = FALSE, !.sready = FALSE]
        /\ last' = IF accepted THEN (IF rd THEN "read" ELSE "write") ELSE last

(* Mutant: the last beat is given up with the one before it.               *)
ReadEndsEarly(beat) == beat <= 1

ReadEnds(beat) == beat = 0

(* The output registers show the word of the address before this edge.     *)
HbmRead(tready) ==
    LET ends == tready /\ ReadEnds(hbm.beat)
    IN  /\ hbm.state = "read"
        /\ hbm' = [hbm EXCEPT
               !.tvalid = ~ends, !.tdata = hbm.addr, !.tlast = (hbm.beat = 1),
               !.beat = IF tready THEN (@ + 255) % 256 ELSE @,
               !.addr = IF tready THEN @ + 1 ELSE @,
               !.state = IF ends THEN "idle" ELSE "read", !.done = ends,
               !.steady = @ /\ tready,
               !.taken = IF hbm.tvalid /\ tready
                         THEN Append(@, [word |-> hbm.tdata, last |-> hbm.tlast])
                         ELSE @]
        /\ UNCHANGED last

HbmWrite(tvalid, tlast) ==
    LET ends == tvalid /\ (tlast \/ hbm.beat = 0)
    IN  /\ hbm.state = "write"
        /\ hbm' = [hbm EXCEPT
               !.sready = ~ends, !.state = IF ends THEN "idle" ELSE "write",
               !.done = ends,
               !.beat = IF tvalid THEN (@ + 255) % 256 ELSE @,
               !.addr = IF tvalid THEN @ + 1 ELSE @,
               !.taken = IF tvalid
                         THEN Append(@, [word |-> hbm.addr, last |-> tlast])
                         ELSE @]
        /\ UNCHANGED last

HbmEdge(rd, wr, len, tready, tvalid, tlast) ==
    \/ HbmIdle(rd, wr, len)
    \/ HbmRead(tready)
    \/ HbmWrite(tvalid, tlast)

-----------------------------------------------------------------------------
DmaAlone ==
    /\ wiring = "dma"
    /\ \E start, writes, ready, done \in BOOLEAN, n \in ByteCount :
          DmaEdge(start, n, writes, ready, done)
    /\ UNCHANGED <<wiring, hbm, last>>

HbmAlone ==
    /\ wiring = "hbm"
    /\ \E rd, wr, tready, tvalid, tlast \in BOOLEAN, len \in BurstLen :
          HbmEdge(rd, wr, len, tready, tvalid, tlast)
    /\ UNCHANGED <<wiring, dma>>

Wired ==
    /\ wiring = "both"
    /\ \E start, writes, tlast \in BOOLEAN, n \in ByteCount :
          /\ DmaEdge(start, n, writes, hbm.ready, hbm.done)
          /\ HbmEdge(dma.rd, dma.wr, dma.len, TRUE, TRUE, tlast)
    /\ UNCHANGED wiring

Reset ==
    /\ dma' = DmaReset
    /\ hbm' = HbmReset
    /\ last' = "none"
    /\ UNCHANGED wiring

DmaNext ==
    \/ DmaAlone
    \/ HbmAlone
    \/ Wired
    \/ Reset

DmaSpec == DmaInit /\ [][DmaNext]_dmaVars

-----------------------------------------------------------------------------
(* Whatever the memory does, with stray and late done pulses: a transfer   *)
(* that completes has counted every byte once, in bursts of 1024 and a     *)
(* last one of what is left, and no burst more than that takes.            *)
TransferExact ==
    /\ dma.state # "idle" => dma.moved + dma.remaining = dma.total
    /\ dma.state = "complete" =>
         /\ dma.moved = dma.total
         /\ dma.total > 0 => Burst * (dma.bursts - 1) < dma.total
         /\ dma.total = 0 => dma.bursts = 1

(* A consumer that never stalls gets the words of a read burst, each once, *)
(* in order, as many as it asked for and the last of them marked, although *)
(* the controller counts beats before it shows them.  A write burst stores *)
(* its beats in consecutive words, stops at the one that is marked, and    *)
(* takes at most one beat more than it asked for.                          *)
BurstDelivered ==
    /\ (hbm.done /\ last = "read" /\ hbm.steady) =>
         /\ Len(hbm.taken) = hbm.asked
         /\ \A i \in 1..hbm.asked :
                /\ hbm.taken[i].word = i - 1
                /\ hbm.taken[i].last <=> i = hbm.asked
    /\ last = "write" =>
         /\ Len(hbm.taken) <= hbm.asked + 1
         /\ \A i \in DOMAIN hbm.taken :
                /\ hbm.taken[i].word = i - 1
                /\ hbm.taken[i].last => i = Len(hbm.taken) /\ hbm.state = "idle"

(* "The engine issues AXI4-Stream transactions to the HBM controller": a   *)
(* transfer that has been started on the two blocks ends.                  *)
TransfersEnd == (dma.state = "issue") ~> (dma.state # "issue" /\ dma.state # "transfer")
=============================================================================

------------------------------ MODULE NocRouter ------------------------------
(***************************************************************************)
(* The mesh router (hardware/rtl/interconnect/noc_router.sv), at position  *)
(* Here; one step is a clock edge.  A flit is the position it is sent to.  *)
(* Only the local buffer is looked at by the switch.  A slot that was      *)
(* never written holds anything; the model never reads one.                *)
(*                                                                         *)
(* Two always_ff blocks drive head and count.  An edge at which both of    *)
(* them write one count may leave either value; clash records the ports    *)
(* that this has happened to.                                              *)
(***************************************************************************)
EXTENDS Integers, Sequences

CONSTANTS
    Width,       \* positions of the mesh in each direction
    Here,        \* <<X_POS, Y_POS>>
    Depth,       \* BUFFER_DEPTH, a power of two
    Linked,      \* ports with a neighbour: the others get no flits
    Dest,        \* destinations of flits
    MaxFlits     \* bound on the flits given to a router

Pos == (0..Width - 1) \X (0..Width - 1)

Port == {"north", "south", "east", "west", "local"}

ASSUME NocAssumption ==
    /\ Width \in 1..16 /\ Here \in Pos
    /\ Depth \in {1, 2, 4, 8} /\ MaxFlits \in Nat
    /\ Linked \subseteq Port /\ Dest \subseteq Pos

VARIABLES
    buf,         \* the five input buffers
    clash,       \* ports whose count two blocks have written at once
    given,       \* flits accepted at the local port, in order (history)
    out          \* flits that left through the local port (history)

nocVars == <<buf, clash, given, out>>

EmptyBuffer == [slots |-> [i \in 0..Depth - 1 |-> Here],
                head |-> 0, tail |-> 0, count |-> 0]

NocInit ==
    /\ buf = [p \in Port |-> EmptyBuffer]
    /\ clash = {}
    /\ given = <<>> /\ out = <<>>

(* compute_route: first along x, then along y.                             *)
ComputeRoute(at, dest) ==
    IF dest[1] > at[1] THEN "east"
    ELSE IF dest[1] < at[1] THEN "west"
    ELSE IF dest[2] > at[2] THEN "north"
    ELSE IF dest[2] < at[2] THEN "south"
    ELSE "local"

-----------------------------------------------------------------------------
Oldest(b) == b.slots[b.head]

(* The output that is valid: that of the oldest flit of the local buffer.  *)
ValidOut ==
    IF buf["local"].count = 0 THEN {}
    ELSE {ComputeRoute(Here, Oldest(buf["local"]))}

Written(flits) == {p \in DOMAIN flits : buf[p].count < Depth}

(* Mutant: a flit that goes elsewhere is consumed like one for this tile.  *)
ConsumedByAnyPort(ready) ==
    {p \in ready : buf[p].count > 0 /\ ValidOut # {}}

(* The buffer that is consumed is the one named like the output.           *)
Consumed(ready) == {p \in ready : buf[p].count > 0 /\ p \in ValidOut}

(* up: which block wins when both write the count.                         *)
Count(p, W, R, up) ==
    IF p \in W /\ (p \notin R \/ up) THEN buf[p].count + 1
    ELSE IF p \in R THEN buf[p].count - 1
    ELSE buf[p].count

(* One edge: flits maps the ports whose valid input is up to their flits,  *)
(* ready is the set of outputs whose neighbour is ready.                   *)
RouterEdge(flits, ready) ==
    LET W == Written(flits)
        R == Consumed(ready)
    IN  /\ \E up \in BOOLEAN :
              buf' = [p \in Port |->
                  [slots |-> IF p \in W
                             THEN [buf[p].slots EXCEPT ![buf[p].tail] = flits[p]]
                             ELSE buf[p].slots,
                   head |-> IF p \in R THEN (buf[p].head + 1) % Depth ELSE buf[p].head,
                   tail |-> IF p \in W THEN (buf[p].tail + 1) % Depth ELSE buf[p].tail,
                   count |-> Count(p, W, R, up)]]
        /\ clash' = clash \cup (W \cap R)
        /\ given' = IF "local" \in W THEN Append(given, flits["local"]) ELSE given
        /\ out' = IF "local" \in R THEN Append(out, Oldest(buf["local"])) ELSE out

NocReset ==
    /\ buf' = [p \in Port |-> [EmptyBuffer EXCEPT !.slots = buf[p].slots]]
    /\ clash' = {}
    /\ given' = <<>> /\ out' = <<>>

NocNext ==
    \/ \E offered, ready \in SUBSET Linked :
          \E flits \in [offered -> Dest] :
             Len(given) < MaxFlits /\ RouterEdge(flits, ready)
    \/ NocReset

NocSpec == NocInit /\ [][NocNext]_nocVars

-----------------------------------------------------------------------------
(* A router that follows compute_route sends a flit towards its            *)
(* destination: from every position of the mesh to every other the hops    *)
(* end there, as many as the two are apart, and no route turns from a      *)
(* column into a row, so that no routes can wait for each other in a ring. *)
Moved(at, d) ==
    CASE d = "east"  -> <<at[1] + 1, at[2]>>
      [] d = "west"  -> <<at[1] - 1, at[2]>>
      [] d = "north" -> <<at[1], at[2] + 1>>
      [] d = "south" -> <<at[1], at[2] - 1>>
      [] d = "local" -> at

Hops(from, dest) ==
    LET at[i \in 0..2 * Width] ==
            IF i = 0 THEN from ELSE Moved(at[i - 1], ComputeRoute(at[i - 1], dest))
    IN  at

Apart(a, b) == IF a >= b THEN a - b ELSE b - a

RouteReaches ==
    \A from, dest \in Pos :
        LET at == Hops(from, dest)
            n == Apart(from[1], dest[1]) + Apart(from[2], dest[2])
            dir(i) == ComputeRoute(at[i], dest)
        IN  /\ at[n] = dest
            /\ \A i \in 0..n - 1 : at[i] # dest /\ at[i + 1] \in Pos
            /\ \A i \in 0..2 * Width - 1 :
                   dir(i) \in {"north", "south"} => dir(i + 1) \notin {"east", "west"}

(* Flits for this tile leave in the order in which they came, each once,   *)
(* and no flit for another tile gets ahead of one: what left and what the  *)
(* local buffer holds are what it was given, until an edge writes its      *)
(* count twice.                                                            *)
LocalInOrder ==
    "local" \notin clash =>
        LET b == buf["local"]
        IN  /\ given = out \o [i \in 1..b.count |-> b.slots[(b.head + i - 1) % Depth]]
            /\ \A i \in DOMAIN out : out[i] = Here
=============================================================================

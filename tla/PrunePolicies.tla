--------------------------- MODULE PrunePolicies ---------------------------
(***************************************************************************)
(* EnhancedMemoryLifecycle (src/smgp/memory/enhanced_lifecycle.py) with    *)
(* one of the policies of src/smgp/memory/prune_policies.py.  A prune      *)
(* returns a new graph and the lifecycle keeps the old one: the caller     *)
(* goes on with the new graph, and makes a new lifecycle for it or not.    *)
(* The policy keeps its records by node id, whatever happens to the node.  *)
(***************************************************************************)
EXTENDS Naturals, Sequences, FiniteSets, SequencesExt, SequenceFilter

CONSTANTS
    Memory,      \* node ids
    Policy,      \* among "lru", "ttl" and "count"
    Ttl,         \* ttl_seconds
    MinAccesses, \* min_accesses
    Uptime,      \* the monotonic clock when the program starts
    MaxClock,    \* bound on the clock
    MaxTouches,  \* bound on counted accesses
    Pair         \* pairs of nodes that may be joined

ASSUME PruneAssumption ==
    /\ Policy \subseteq {"lru", "ttl", "count"}
    /\ {Ttl, MinAccesses, Uptime, MaxClock, MaxTouches} \subseteq Nat
    /\ Pair \subseteq Memory \X Memory

VARIABLES
    policy,      \* the policy of the lifecycle
    record,      \* _access_times or _access_counts; no record reads as 0
    clock,       \* time.monotonic()
    live,        \* the graph the caller uses
    old          \* the graph of the lifecycle, when it is another one

pruneVars == <<policy, record, clock, live, old>>

(* A graph: its nodes, oldest first, and the pairs its edges join.         *)
NoGraph == [nodes |-> <<>>, links |-> {}]

PruneInit ==
    /\ policy \in Policy
    /\ record = [n \in Memory |-> 0]
    /\ clock = Uptime
    /\ live = NoGraph
    /\ old = {}

ClockTicks ==
    /\ clock < MaxClock
    /\ clock' = clock + 1
    /\ UNCHANGED <<policy, record, live, old>>

(* touch: the time of the access, or one access more.                      *)
Touch(n) ==
    /\ policy = "count" => record[n] < MaxTouches
    /\ record' = [record EXCEPT ![n] = IF policy = "count" THEN @ + 1 ELSE clock]
    /\ UNCHANGED <<policy, clock, live, old>>

Remember(n) ==
    /\ n \notin ToSet(live.nodes)
    /\ live' = [live EXCEPT !.nodes = Append(@, n)]
    /\ UNCHANGED <<policy, record, clock, old>>

Join(p) ==
    /\ {p[1], p[2]} \subseteq ToSet(live.nodes)
    /\ live' = [live EXCEPT !.links = @ \cup {p}]
    /\ UNCHANGED <<policy, record, clock, old>>

(* The graph of the lifecycle.                                             *)
Held == IF old = {} THEN live ELSE CHOOSE g \in old : TRUE

Eligible(g) ==
    {n \in ToSet(g.nodes) :
        /\ policy = "ttl" => clock - record[n] > Ttl
        /\ policy = "count" => record[n] < MinAccesses}

Place(g, n) == CHOOSE i \in DOMAIN g.nodes : g.nodes[i] = n

(* Mutant: the records are sorted the other way round.                     *)
BeforeReversed(g, n, m) ==
    \/ record[n] > record[m]
    \/ record[n] = record[m] /\ Place(g, n) < Place(g, m)

(* The sort by record keeps the order of the graph among equals.           *)
Before(g, n, m) ==
    \/ record[n] < record[m]
    \/ record[n] = record[m] /\ Place(g, n) < Place(g, m)

SelectNodesToPrune(g, count) ==
    {n \in Eligible(g) :
        Cardinality({m \in Eligible(g) : Before(g, m, n)}) < count}

Pruned(g, gone) ==
    [nodes |-> Leaving(g.nodes, gone),
     links |-> {l \in g.links : l[1] \notin gone /\ l[2] \notin gone}]

(* prune, and the caller takes the graph it returns; renewed says whether  *)
(* a new lifecycle is made for it, as the API does.                        *)
Prune(count, renewed) ==
    /\ live' = Pruned(Held, SelectNodesToPrune(Held, count))
    /\ old' = IF renewed THEN {} ELSE {Held}
    /\ UNCHANGED <<policy, record, clock>>

PruneNext ==
    \/ ClockTicks
    \/ \E n \in Memory : Touch(n) \/ Remember(n)
    \/ \E p \in Pair : Join(p)
    \/ \E count \in 0..Cardinality(Memory), r \in BOOLEAN : Prune(count, r)

PruneSpec == PruneInit /\ [][PruneNext]_pruneVars

-----------------------------------------------------------------------------
(* What a prune by a lifecycle of the live graph may take: no more than    *)
(* count nodes; by time, none used within the time to live; by count, none *)
(* used often enough; and never a node while one that went unused for      *)
(* longer, or was used less, stays.  Fewer than count are taken only when  *)
(* no other could be.  Links between nodes that stay stay.                 *)
TakesLeastUsed(count) ==
    LET gone == ToSet(live.nodes) \ ToSet(live'.nodes)
        stay == ToSet(live'.nodes)
        due(n) == /\ policy = "ttl" => clock > record[n] + Ttl
                  /\ policy = "count" => record[n] < MinAccesses
    IN  /\ Cardinality(gone) <= count
        /\ \A n \in gone : due(n) /\ \A m \in stay : record[n] <= record[m]
        /\ Cardinality(gone) < count => ~\E m \in stay : due(m)
        /\ live'.links = live.links \cap (stay \X stay)

PruneTakesLeastUsed ==
    [][\A count \in 0..Cardinality(Memory), r \in BOOLEAN :
          (Prune(count, r) /\ old = {}) => TakesLeastUsed(count)]_pruneVars
=============================================================================

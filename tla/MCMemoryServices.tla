-------------------------- MODULE MCMemoryServices --------------------------
(***************************************************************************)
(* The parts that work on a graph or a store by themselves, one scenario   *)
(* each, so that their states add up and do not multiply.  Federators and  *)
(* syncer share a graph, in two scenarios: all federators on a graph that  *)
(* is not synced, and one of them, with SQLite sources only, beside a      *)
(* syncer, which names its source in every query.  The verifier works on   *)
(* every small graph, and on those that two more edges of one relation     *)
(* make of Roads: it takes five nodes to meet a longer path before a       *)
(* shorter one.                                                            *)
(***************************************************************************)
EXTENDS GraphServices, ClaimVerifier, PrunePolicies, MemoryStores,
        StreamingAttention

CONSTANTS
    First,      \* the federator beside the syncer
    Few,        \* the nodes of the graphs the verifier sees from the start
    FewFacts,   \* and how many edges they have
    Roads       \* the edges of a graph of all nodes that it finds

VARIABLE scenario

MCRoads ==
    LET road(s, d) == [src |-> s, dst |-> d, rel |-> Is]
    IN  CHOOSE r \in {<<road(p[1], p[2]), road(p[1], p[3]), road(p[2], p[4])>> :
                         p \in {q \in [1..4 -> Thing] : IsInjective(q)}} : TRUE

MCPair == {p \in Memory \X Memory : p = CHOOSE q \in Memory \X Memory : q[1] # q[2]}

Idle(part) ==
    /\ part # "graph" => UNCHANGED vars
    /\ part # "verifier" => UNCHANGED verifierVars
    /\ part # "prune" => UNCHANGED pruneVars
    /\ part # "stores" => UNCHANGED storeVars
    /\ part # "stream" => UNCHANGED streamVars
    /\ UNCHANGED scenario

MCInit ==
    /\ Init /\ PruneInit /\ StoresInit /\ StreamInit
    /\ scenario \in {"federators", "syncer", "verifier", "roads", "prune",
                     "stores", "stream"}
    /\ IF scenario = "roads" THEN things = Thing /\ facts = Roads ELSE VerifierInit
    /\ scenario # "syncer" => backend = CHOOSE b \in Backend : TRUE
    /\ scenario # "prune" => policy = CHOOSE p \in Policy : TRUE

(* The second scenario: only First does anything.                          *)
Alone ==
    /\ \A f \in Fed : f # First => UNCHANGED <<sources[f], ephemeral[f]>>
    /\ \A i \in DOMAIN sources'[First] : sources'[First][i].scheme = "sqlite"
    /\ \A id \in ephemeral'[First] : id[1] # Default

MCNext ==
    \/ scenario = "federators" /\ Next /\ UNCHANGED store /\ Idle("graph")
    \/ scenario = "syncer" /\ Next /\ Alone /\ Idle("graph")
    \/ /\ scenario = "verifier" /\ VerifierNext /\ Idle("verifier")
       /\ things' \subseteq Few /\ Len(facts') <= FewFacts
    \/ /\ scenario = "roads" /\ VerifierNext /\ Idle("verifier")
       /\ Last(facts').rel = Is
    \/ scenario = "prune" /\ PruneNext /\ Idle("prune")
    \/ scenario = "stores" /\ StoresNext /\ Idle("stores")
    \/ scenario = "stream" /\ StreamNext /\ Idle("stream")

MCSpec ==
    MCInit /\ [][MCNext]_<<vars, verifierVars, pruneVars, storeVars, streamVars, scenario>>
=============================================================================

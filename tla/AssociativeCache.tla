--------------------------- MODULE AssociativeCache ---------------------------
(***************************************************************************)
(* The associative cache (hardware/rtl/memory/associative_cache.sv): one   *)
(* step is a clock edge.  A query looks at one entry per edge, while       *)
(* entries may be written and deleted.  Vectors are one word long; of a    *)
(* key's word the arrays keep the lowest bit only, as they are declared.   *)
(* Values and the read port, which only copies them, are left out.         *)
(***************************************************************************)
EXTENDS Naturals, FiniteSets

CONSTANTS
    Entries,     \* NUM_ENTRIES
    WordBits,    \* DATA_WIDTH
    Key,         \* words that are written as keys
    Vector       \* words that are asked for

ASSUME CacheAssumption ==
    /\ Entries \in 1..65535 /\ WordBits \in Nat \ {0}
    /\ Key \cup Vector \subseteq 0..2 ^ WordBits - 1

VARIABLES
    entry,       \* keys and valid
    scan,        \* query_pipeline > 0, query_idx, best_idx and best_sim
    answer,      \* the registers of the result while query_done is up
    query,       \* the input query_vector, held by the host during a query
    clean,       \* no query was requested while this one ran (history)
    touched      \* entries written or deleted since the query began (history)

cacheVars == <<entry, scan, answer, query, clean, touched>>

Entry == 0..Entries - 1
Invalid == [valid |-> FALSE, key |-> 0]
None == Entries          \* no write, or no delete, at this edge
NoAnswer == [done |-> FALSE, best |-> 0, sim |-> 0]

Bit(w, b) == (w \div 2 ^ b) % 2

(* $countones(~(query ^ key)): the bits in which they agree.               *)
Agree(w, key) == Cardinality({b \in 0..WordBits - 1 : Bit(w, b) = Bit(key, b)})

CacheInit ==
    /\ entry = [i \in Entry |-> Invalid]
    /\ scan = [active |-> FALSE, at |-> 0, best |-> 0, sim |-> 0]
    /\ answer = NoAnswer
    /\ query \in Vector
    /\ clean = TRUE
    /\ touched = {}

(* A delete at the edge of a write to the same entry wins.                 *)
Stored(w, key, d) ==
    [i \in Entry |->
        [valid |-> i # d /\ (i = w \/ entry[i].valid),
         key |-> IF i = w THEN key % 2 ELSE entry[i].key]]

(* Mutant: a later entry with the same similarity takes over.              *)
BetterOrEqual(i) == entry[i].valid /\ Agree(query, entry[i].key) >= scan.sim

Better(i) == entry[i].valid /\ Agree(query, entry[i].key) > scan.sim

(* The scan comes after the start in the same block, so what it assigns    *)
(* wins: a query requested while another runs does not begin at entry 0,   *)
(* and one requested at the edge that ends another is lost.                *)
Scanned(requested) ==
    LET looks == scan.active /\ scan.at < Entries
        ends == scan.active /\ scan.at >= Entries
        found == looks /\ Better(scan.at)
    IN  [active |-> ~ends /\ (scan.active \/ requested),
         at |-> IF looks THEN scan.at + 1 ELSE IF requested THEN 0 ELSE scan.at,
         best |-> IF found THEN scan.at ELSE IF requested THEN 0 ELSE scan.best,
         sim |-> IF found THEN Agree(query, entry[scan.at].key)
                 ELSE IF requested THEN 0 ELSE scan.sim]

CacheEdge(w, key, d, requested, vector) ==
    /\ entry' = Stored(w, key, d)
    /\ scan' = Scanned(requested)
    /\ answer' = IF scan.active /\ scan.at >= Entries
                 THEN [done |-> TRUE, best |-> scan.best, sim |-> scan.sim]
                 ELSE NoAnswer
    /\ query' = IF requested THEN vector ELSE query
    /\ clean' = IF requested THEN ~scan.active ELSE clean
    /\ touched' = IF requested /\ ~scan.active THEN {}
                  ELSE touched \cup ({w, d} \cap Entry)

CacheReset ==
    /\ entry' = [i \in Entry |-> [entry[i] EXCEPT !.valid = FALSE]]
    /\ scan' = [active |-> FALSE, at |-> 0, best |-> 0, sim |-> 0]
    /\ answer' = NoAnswer
    /\ clean' = TRUE
    /\ touched' = {}
    /\ UNCHANGED query

CacheNext ==
    \/ \E w, d \in Entry \cup {None}, key \in Key, requested \in BOOLEAN :
          \E vector \in IF requested THEN Vector ELSE {query} :
              CacheEdge(w, key, d, requested, vector)
    \/ CacheReset

CacheSpec == CacheInit /\ [][CacheNext]_cacheVars

-----------------------------------------------------------------------------
(* The answer to a query that began while no other ran, and that no other  *)
(* broke into, is a best match: no entry that was left alone meanwhile is  *)
(* nearer to the query, none as near comes before it, and the similarity   *)
(* is the one of the entry that is named; whatever happened to the entries *)
(* that were written or deleted behind or ahead of the scan.               *)
BestMatchFound ==
    (answer.done /\ clean) =>
        LET left == {i \in Entry \ touched : entry[i].valid}
            sim(i) == Agree(query, entry[i].key)
        IN  /\ \A i \in left : /\ sim(i) <= answer.sim
                               /\ sim(i) = answer.sim => sim(i) = 0 \/ answer.best <= i
            /\ answer.sim > 0 =>
                 \/ answer.best \in touched
                 \/ answer.best \in left /\ sim(answer.best) = answer.sim
=============================================================================

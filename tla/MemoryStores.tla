---------------------------- MODULE MemoryStores ----------------------------
(***************************************************************************)
(* The two vector stores of src/smgp/memory: MemoryStore (store.py), a     *)
(* simulated crossbar with numbered slots, and AssociativeMemory           *)
(* (associative.py), a dictionary with a capacity.  Random vectors of a    *)
(* high dimension are either the same key or far below the similarity of   *)
(* 0.3 that update and delete ask for, so a key is a model value and the   *)
(* nearest slot one of its own slots, if it has any.  A value is the set   *)
(* of the vectors bundled in it.                                           *)
(***************************************************************************)
EXTENDS Naturals, FiniteSets, FiniteSetsExt

CONSTANTS
    Key,         \* key vectors
    Datum,       \* value vectors
    Capacity,    \* slots of the store, and entries of the dictionary
    Free         \* a slot that is not occupied

ASSUME StoresAssumption ==
    /\ Capacity \in Nat \ {0}
    /\ Free \notin [key : Key, val : SUBSET Datum]

VARIABLES
    slot,        \* keys, values and occupied of the MemoryStore
    size,        \* its _size
    assoc        \* _keys and _values of the AssociativeMemory

storeVars == <<slot, size, assoc>>

Slot == 0..Capacity - 1

StoresInit ==
    /\ slot = [i \in Slot |-> Free]
    /\ size = 0
    /\ assoc = [k \in Key |-> Free]

Occupied == {i \in Slot : slot[i] # Free}

(* A full store gives up slot 0, whatever it holds and however old it is.  *)
SlotForWrite == IF Occupied = Slot THEN 0 ELSE Min(Slot \ Occupied)

(* Mutant: the entry that is overwritten is still counted.                 *)
WriteCountsTwice(k, v) ==
    /\ slot' = [slot EXCEPT ![SlotForWrite] = [key |-> k, val |-> {v}]]
    /\ size' = size + 1
    /\ UNCHANGED assoc

Write(k, v) ==
    /\ slot' = [slot EXCEPT ![SlotForWrite] = [key |-> k, val |-> {v}]]
    /\ size' = (IF Occupied = Slot THEN size - 1 ELSE size) + 1
    /\ UNCHANGED assoc

(* Slots whose key is similar enough; which of several is left open.       *)
Similar(k) == {i \in Occupied : slot[i].key = k}

(* What read may answer: the value of the most similar key, similar or not.*)
Read(k) ==
    {slot[i].val : i \in IF Similar(k) # {} THEN Similar(k) ELSE Occupied}

Update(k, v) ==
    /\ size # 0
    /\ \E i \in Similar(k) :
          slot' = [slot EXCEPT ![i] = [key |-> k, val |-> slot[i].val \cup {v}]]
    /\ UNCHANGED <<size, assoc>>

Delete(k) ==
    /\ size # 0
    /\ \E i \in Similar(k) : slot' = [slot EXCEPT ![i] = Free]
    /\ size' = size - 1
    /\ UNCHANGED assoc

(* store raises at capacity, also for a key that is there already.         *)
Store(k, v) ==
    /\ Cardinality({q \in Key : assoc[q] # Free}) < Capacity
    /\ assoc' = [assoc EXCEPT ![k] = v]
    /\ UNCHANGED <<slot, size>>

StoresNext ==
    \/ \E k \in Key, v \in Datum : Write(k, v) \/ Update(k, v) \/ Store(k, v)
    \/ \E k \in Key : Delete(k)

StoresSpec == StoresInit /\ [][StoresNext]_storeVars

-----------------------------------------------------------------------------
(* The count of entries is the number of occupied slots at all times:      *)
(* through writes to a full store, keys stored twice and their deletes.    *)
(* read, update and delete trust it before they look at the slots: a key   *)
(* in a slot is always found, and found with a value once stored under it. *)
StoredIsFound ==
    /\ size = Cardinality(Occupied)
    /\ \A i \in Occupied : size # 0 /\ slot[i].val \in Read(slot[i].key)
=============================================================================

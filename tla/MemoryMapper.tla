----------------------------- MODULE MemoryMapper -----------------------------
(***************************************************************************)
(* MemoryMapper (hardware/sw/smgp_hal/memory_mapper.py): rows of crossbar  *)
(* tiles for nodes and edges.  An id stands for its hash; edges get theirs *)
(* through allocate_node.  Nothing is ever given back, and an id that is   *)
(* allocated again gets another row.                                       *)
(***************************************************************************)
EXTENDS Naturals, Sequences, SequencesExt

CONSTANTS
    Id,          \* ids of nodes and edges
    TileSize,    \* tile_size
    NumTiles,    \* num_tiles
    MaxRows      \* bound on allocations

ASSUME MapperAssumption ==
    /\ TileSize \in Nat \ {0} /\ NumTiles \in Nat \ {0} /\ MaxRows \in Nat

VARIABLES
    tiles,       \* tile_usage
    nextAddr,    \* _next_addr
    writes,      \* write_counts
    handed       \* the address of the latest allocation, or NoAddress

mapperVars == <<tiles, nextAddr, writes, handed>>

NoAddress == <<>>

MapperInit ==
    /\ tiles = <<>>
    /\ nextAddr = 0
    /\ writes = [t \in 0..MaxRows |-> 0]
    /\ handed = NoAddress

Rows(ts) == FlattenSeq(ts)

(* _defragment: all entries, in order, cut into full tiles.                *)
Defragmented(ts) ==
    LET all == Rows(ts)
    IN  [t \in 1..(Len(all) + TileSize - 1) \div TileSize |->
            SubSeq(all, (t - 1) * TileSize + 1,
                   IF t * TileSize <= Len(all) THEN t * TileSize ELSE Len(all))]

Full == nextAddr \div TileSize >= NumTiles

(* Mutant: the address is the one before the tiles are made compact.       *)
LayoutStale == [tiles |-> IF Full THEN Defragmented(tiles) ELSE tiles,
                next |-> nextAddr + (IF Full THEN 1 ELSE 0)]

(* The tiles and the next address an allocation goes by.  Full tiles are   *)
(* made compact, which frees no row: the next tile is used all the same.   *)
Layout == [tiles |-> IF Full THEN Defragmented(tiles) ELSE tiles,
           next |-> IF Full THEN Len(Rows(tiles)) ELSE nextAddr]

AllocateNode(id) ==
    LET base == Layout
        tile == base.next \div TileSize
    IN  /\ Len(Rows(tiles)) < MaxRows
        /\ tiles' = IF tile < Len(base.tiles)
                    THEN [base.tiles EXCEPT ![tile + 1] = Append(@, id)]
                    ELSE Append(base.tiles, <<id>>)
        /\ nextAddr' = base.next + 1
        /\ writes' = [writes EXCEPT ![tile] = @ + 1]
        /\ handed' = <<tile, base.next % TileSize>>

WearLevel ==
    /\ tiles # <<>>
    /\ tiles' = Append(Tail(tiles), tiles[1])
    /\ nextAddr' = Len(Rows(tiles))
    /\ UNCHANGED <<writes, handed>>

(* get_address: the first row that holds the id.                           *)
Holds(ts, id) == {p \in (1..Len(ts)) \X (1..Len(Rows(ts))) :
                      p[2] <= Len(ts[p[1]]) /\ ts[p[1]][p[2]] = id}

GetAddress(ts, id) ==
    IF Holds(ts, id) = {} THEN NoAddress
    ELSE LET first == CHOOSE p \in Holds(ts, id) : \A q \in Holds(ts, id) :
                          p[1] < q[1] \/ (p[1] = q[1] /\ p[2] <= q[2])
         IN  <<first[1] - 1, first[2] - 1>>

MapperNext ==
    \/ \E id \in Id : AllocateNode(id)
    \/ WearLevel

MapperSpec == MapperInit /\ [][MapperNext]_mapperVars

-----------------------------------------------------------------------------
(* Only the last tile has free rows: true until a rotation puts a tile     *)
(* that is not full before another.                                        *)
Compact(ts) == \A t \in 1..Len(ts) - 1 : Len(ts[t]) = TileSize

(* While only the last tile has free rows, an allocation tells the address *)
(* under which get_address will find the id, and moves no other id; so it  *)
(* does when the next address is beyond the last tile, however rotations   *)
(* have left the tiles.                                                    *)
FreshAddressFound ==
    [][\A id \in Id :
          (AllocateNode(id) /\ GetAddress(tiles, id) = NoAddress) =>
              /\ Compact(tiles) \/ Full => GetAddress(tiles', id) = handed'
              /\ Compact(tiles) => \A other \in Id \ {id} :
                     GetAddress(tiles', other) = GetAddress(tiles, other)]_mapperVars
=============================================================================

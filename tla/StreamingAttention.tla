-------------------------- MODULE StreamingAttention --------------------------
(***************************************************************************)
(* StreamingSpectralAttention (src/smgp/attention/streaming_attention.py): *)
(* forward cuts a sequence of rows into overlapping chunks, one step per   *)
(* round of its loop.  Attention maps the rows of a chunk to as many rows; *)
(* a row of the output is named by the input row it stands for, and a node *)
(* of the accumulated graph by its place in the chunk it came from.        *)
(***************************************************************************)
EXTENDS Naturals, Sequences, SequencesExt

CONSTANTS
    ChunkSize,   \* chunk_size of the constructor
    Overlap,     \* rows shared by consecutive chunks
    Override,    \* values of the chunk_size argument of forward, 0 for None
    MaxTokens    \* bound on the rows of a sequence

(* With an overlap as large as the chunk the loop never gets on.           *)
ASSUME StreamAssumption ==
    /\ {ChunkSize, Overlap, MaxTokens} \cup Override \subseteq Nat
    /\ Overlap < ChunkSize
    /\ \A c \in Override : c = 0 \/ Overlap < c

VARIABLES
    total,       \* rows of the sequence of this call
    chunk,       \* cs
    start,       \* first row of the next chunk
    output,      \* output_chunks, concatenated
    stream,      \* nodes of _stream_graph, oldest first
    stage        \* "idle", "running" or "done"

streamVars == <<total, chunk, start, output, stream, stage>>

StreamInit ==
    /\ total = 0 /\ chunk = 0 /\ start = 0
    /\ output = <<>> /\ stream = <<>>
    /\ stage = "idle"

(* A call resets the stream, also when it is given an earlier state.       *)
Forward(n, c) ==
    /\ stage # "running"
    /\ total' = n
    /\ chunk' = IF c = 0 THEN ChunkSize ELSE c
    /\ start' = 0
    /\ output' = <<>>
    /\ stream' = <<>>
    /\ stage' = "running"

Stride == chunk - Overlap

End == IF start + chunk <= total THEN start + chunk ELSE total

IsLast == End >= total

(* Mutant: the overlap is not trimmed.                                     *)
KeptRowsAll == End - start

KeptRows == IF ~IsLast /\ End - start > Stride THEN Stride ELSE End - start

Rows(first, n) == [i \in 1..n |-> first + i - 1]

(* _incremental_update: nodes are named by their place in the chunk, so a  *)
(* later chunk adds only places that are not there; the first is not cut.  *)
Merged(n) ==
    LET new(i) == i \notin ToSet(stream)
        all == stream \o SelectSeq(Rows(0, n), new)
        most == ChunkSize + Overlap * 2
    IN  IF stream = <<>> THEN Rows(0, n)
        ELSE IF Len(all) > most THEN SubSeq(all, Len(all) - most + 1, Len(all))
        ELSE all

NextChunk ==
    /\ stage = "running"
    /\ output' = output \o Rows(start, KeptRows)
    /\ stream' = IF End - start < 2 THEN stream ELSE Merged(End - start)
    /\ IF IsLast
       THEN stage' = "done" /\ UNCHANGED start
       ELSE start' = start + Stride /\ UNCHANGED stage
    /\ UNCHANGED <<total, chunk>>

StreamNext ==
    \/ \E n \in 1..MaxTokens, c \in Override : Forward(n, c)
    \/ NextChunk

StreamSpec == StreamInit /\ [][StreamNext]_streamVars

-----------------------------------------------------------------------------
(* Whatever the length, the chunk and the overlap, the concatenated chunks *)
(* are the rows of the input, each once and in order, and no chunk is      *)
(* empty or starts beyond the end.                                         *)
RowsExactlyOnce ==
    /\ output = Rows(0, Len(output))
    /\ stage = "done" => Len(output) = total
    /\ stage = "running" => start < total /\ Len(output) = start

(* What the comment on _incremental_update says of the accumulated graph.  *)
StreamWithinWindow == Len(stream) <= ChunkSize + Overlap
===============================================================================

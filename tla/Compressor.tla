----------------------------- MODULE Compressor -----------------------------
(***************************************************************************)
(* The loops around zlib (gzip_compressor.cpp) and how a value passes      *)
(* through them into an entry and out of it (kvs.cpp).  Both loops ask     *)
(* zlib for CHUNK_SIZE bytes at a time, and double their buffer when the   *)
(* next chunk might not fit.                                               *)
(*                                                                         *)
(* zlib is what it promises: the stream of a text is n bytes, from which   *)
(* the text can be had, and from no other bytes.  n is left open.  Bytes   *)
(* that are no stream are an error of inflate(); a stream without its end, *)
(* on which the loop of Decompress() would never finish, is among them, as *)
(* none is ever stored.                                                    *)
(***************************************************************************)
EXTENDS Loops, Integers, Sequences

CONSTANTS CHUNK_SIZE, MIN_SIZE_TO_COMPRESS

ASSUME ChunkAssumption == CHUNK_SIZE \in Nat \ {0} /\ MIN_SIZE_TO_COMPRESS \in Nat

\* The result with a nullptr, for an invalid input and for an error of zlib.
Failed == [data |-> <<>>, size |-> 0, ok |-> FALSE]

gzip(text, n) == [i \in 1..n |-> <<text, i, n>>]
IsGzip(data) == data # <<>> /\ data = gzip(data[1][1], data[1][3])
\* What one call of deflate() or inflate() writes of the rest of its output.
Chunk(rest) == SubSeq(rest, 1, IF Len(rest) < CHUNK_SIZE THEN Len(rest) ELSE CHUNK_SIZE)

\* Seeded fault: the buffer grows only when it is over-full.
RoomLate(size, total) == IF total > size THEN size * 2 ELSE size
Room(size, total) == IF total + CHUNK_SIZE > size THEN size * 2 ELSE size
\* The first size bytes of a buffer, or all it has.
First(bytes, size) == IF Len(bytes) <= size THEN bytes ELSE SubSeq(bytes, 1, size)
\* A chunk written behind the output; bytes past the buffer's end are lost.
Written(output, chunk, size) == First(output \o chunk, size)

\* The variables of a loop that puts out data, and whether it has ended.
Outputs(data) == [end : BOOLEAN, output : Seq({data[i] : i \in DOMAIN data}), total : Nat, size : Nat]
NoOutput == [end |-> FALSE, output |-> <<>>, total |-> 0, size |-> CHUNK_SIZE]
Remaining(data, s) == SubSeq(data, s.total + 1, Len(data))
Filled(s, chunk, end) ==
    LET room == Room(s.size, s.total)
    IN  [end |-> end, output |-> Written(s.output, chunk, room),
         total |-> s.total + Len(chunk), size |-> room]
Result(s) == [data |-> s.output, size |-> s.total, ok |-> TRUE]

\* The loop of Compress(): until deflate() leaves room in a chunk.
Deflating(data) ==
    [s \in Outputs(data) |->
        LET chunk == Chunk(Remaining(data, s))
        IN  IF s.end THEN s ELSE Filled(s, chunk, Len(chunk) < CHUNK_SIZE)]
Deflated(data) == Result(Repeat(Deflating(data), NoOutput, Len(data) + 1))

\* The loop of Decompress(): until inflate() reports the end, with the last
\* byte, or when that filled the chunk perhaps only at the next call (late).
Inflating(data, late) ==
    [s \in Outputs(data) |->
        LET rest  == Remaining(data, s)
            chunk == Chunk(rest)
        IN  IF s.end THEN s
            ELSE Filled(s, chunk, Len(chunk) = Len(rest) /\ (late => Len(chunk) < CHUNK_SIZE))]
Inflated(data, late) == Result(Repeat(Inflating(data, late), NoOutput, Len(data) + 1))

\* works: deflateInit2() finds the memory it needs.
Compress(input, n, works) ==
    IF input = <<>> \/ ~works THEN Failed
    ELSE Deflated(gzip(input, n))

\* input holds input_size bytes; works: inflateInit2() finds its memory.
Decompress(input, late, works) ==
    IF ~IsGzip(input) \/ ~works THEN Failed
    ELSE Inflated(input[1][1], late)

\* The value of the entry insertEntry() makes; vSize counts the final NUL.
insertEntry(value, compressionEnabled, n, works) ==
    LET compressed == Compress(value, n, works)
        vSize      == Len(value) + 1
    IN  IF compressionEnabled /\ vSize >= MIN_SIZE_TO_COMPRESS /\ compressed.ok
        THEN [value |-> compressed.data, vSize |-> compressed.size, compressed |-> TRUE]
        ELSE [value |-> value, vSize |-> vSize, compressed |-> FALSE]

\* What get() returns of an entry it found; ok is FALSE for the nullptr.
getEntry(entry, late, works) ==
    IF entry.compressed
    THEN LET decompressed == Decompress(First(entry.value, entry.vSize), late, works)
         IN  [value |-> First(decompressed.data, decompressed.size), ok |-> decompressed.ok]
    ELSE [value |-> entry.value, ok |-> TRUE]
=============================================================================

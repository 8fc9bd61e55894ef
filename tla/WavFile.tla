------------------------------- MODULE WavFile -------------------------------
(***************************************************************************)
(* modules/ir/wav_io.cpp: the walk over the chunks of a WAV file.  A file  *)
(* is a list of chunks, laid out behind a header of 12 bytes with a pad    *)
(* byte after each of odd size, of which the last bytes may be missing.  A *)
(* format is [code, channels, rate, bits]; samples are only counted.       *)
(***************************************************************************)
EXTENDS Integers, Sequences

NoFormat == [code |-> 0, channels |-> 0, rate |-> 0, bits |-> 0]
Junk == [id |-> "junk", size |-> 0, format |-> NoFormat]

\* Where each chunk of the file begins, and where the last one ends.
Begins(chunks) ==
  LET begin[i \in 1 .. Len(chunks) + 1] ==
        IF i = 1 THEN 12
        ELSE begin[i - 1] + 8 + chunks[i - 1].size + (chunks[i - 1].size % 2)
  IN begin
File(chunks, cut) ==
  [chunks |-> chunks, begins |-> Begins(chunks), size |-> Begins(chunks)[Len(chunks) + 1] - cut]

ChunkAt(file, offset) ==
  LET here == {i \in DOMAIN file.chunks : file.begins[i] = offset}
  IN IF here = {} THEN Junk ELSE file.chunks[CHOOSE i \in here : TRUE]

BytesPerSample(format) == format.bits \div 8
Readable(format) ==
  /\ format.code \in {1, 3} /\ format.channels \in {1, 2} /\ format.rate # 0
  /\ format.bits \in IF format.code = 3 THEN {32, 64} ELSE {16, 24, 32}

Rejected == [ok |-> FALSE, frames |-> 0, rate |-> 0]
Data(size, format) ==
  IF Readable(format)
  THEN [ok |-> TRUE, frames |-> size \div (BytesPerSample(format) * format.channels),
        rate |-> format.rate]
  ELSE Rejected

NextOffsetUnaligned(body, size) == body + size     \* deviation: forgets the pad byte
NextOffset(body, size) == body + size + (size % 2)

\* One round of the loop: it ends at the end of the file, at a chunk that is cut and at
\* the first data; a format is kept for the data to come.
Ended(walk, wav) == [walk EXCEPT !.done = TRUE, !.wav = wav]
Round(file, walk) ==
  LET chunk == ChunkAt(file, walk.offset)
      body  == walk.offset + 8
  IN IF walk.done THEN walk
     ELSE IF body > file.size \/ body + chunk.size > file.size THEN Ended(walk, Rejected)
     ELSE IF chunk.id = "data" THEN Ended(walk, Data(chunk.size, walk.format))
     ELSE [walk EXCEPT !.offset = NextOffset(body, chunk.size),
                       !.format = IF chunk.id = "fmt" /\ chunk.size >= 16 THEN chunk.format
                                  ELSE @]
\* Each round moves by 8 bytes or more.
Walk(file) ==
  LET after[n \in 0 .. file.size] ==
        IF n = 0 THEN [offset |-> 12, format |-> NoFormat, done |-> FALSE, wav |-> Rejected]
        ELSE Round(file, after[n - 1])
  IN after
ParseWav(file) == IF file.size < 44 THEN Rejected ELSE Walk(file)[file.size].wav
=============================================================================

--------------------------- MODULE MCKeyedWrites ---------------------------
(* Model-checking instances of KeyedWrites; each .cfg bounds a different    *)
(* part of the behaviour.                                                   *)
EXTENDS KeyedWrites

CONSTANTS d0, d1

NoTtl == {Absent}

Put(len, close, stream_seq, valid) ==
    [len |-> len, close |-> close, stream_seq |-> stream_seq, valid |-> valid]

\* Empty creates and plain appends of one byte.
OneByte == {Put(0, FALSE, Absent, TRUE), Put(1, FALSE, Absent, TRUE)}

\* The same, and closes with a byte and a Stream-Seq.
Closing == OneByte \cup {Put(1, TRUE, 1, TRUE)}

\* The same, and refused content.
Mixed == Closing \cup {Put(1, FALSE, Absent, FALSE)}
============================================================================

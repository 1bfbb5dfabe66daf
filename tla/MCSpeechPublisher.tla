--------------------------- MODULE MCSpeechPublisher ---------------------------
(* Instances of SpeechPublisher for TLC. *)
EXTENDS SpeechPublisher

(* Every sentence is spoken in two pieces ... *)
MCPieces == [o \in 0..(N - 1) |-> 2]

(* ... of which those of the first sentence are the smaller ones. *)
MCChunkBytes == [o \in 0..(N - 1) |-> {o + 1}]
===============================================================================

--------------------------- MODULE MCTextStreams ----------------------------
(* Model-checking instance of TextStreams: outputs of ends of lines, the letter of the
   marker, continuation bytes on both sides of the limits for a second byte and leading
   bytes of two, three and four; and longer ones, in which a marker follows a flush. *)
EXTENDS TextStreams

MCOutputs == BoundedSeq({10, 13, 65, 143, 160, 195, 237, 240}, 5)
                 \cup BoundedSeq({10, 13, 65}, 7)
MCMarker == <<65, 65>>
=============================================================================

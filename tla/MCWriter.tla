------------------------------ MODULE MCWriter ------------------------------
(* Small instances of the Writer: a buffer of the minimal 18 bytes, and    *)
(* calls that fit it, fill it, straddle it and exceed it.                  *)
EXTENDS Writer

C == INSTANCE WriterCalls

MCOps ==
  { C!WriteNil, C!WriteFloat64, C!WriteComplex128, C!WriteString(4),
    C!WriteString(20), C!WriteBytes(19), C!WriteExtension(4),
    C!WriteExtension(20), C!Flush,
    C!Encode(C!structAsMap(<< <<3, C!WriteMapStrStr(<< <<3, 19>> >>)>>,
                              <<15, C!WriteUint64(3)>> >>)),
    C!writeSlice(<<C!WriteTime, C!ErrUnsupported>>) }

\* A generated struct encoder, its one field having a name of 20 bytes.
MCLongName == { C!WriteNil, C!structAsMap(<< <<20, C!WriteNil>> >>) }

\* What the theorems assume of the calls, CallsFit, is true of these: Size is
\* raised to MinBuffer.
ASSUME MCCallsFit ==
  \A c \in MCOps : \A i \in 1..Len(c) : WellSized(c[i], MinBuffer)
=============================================================================

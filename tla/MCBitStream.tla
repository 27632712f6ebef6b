----------------------------- MODULE MCBitStream -----------------------------
(* BitStream for TLC, with bytes of four bits.  The compressed items have    *)
(* bytes that are left out, halves that are, and ones that look like either. *)
EXTENDS BitStream

B(a, b, c, d) == [i \in 0..3 |-> <<a, b, c, d>>[i + 1]]
Zeros == B(0, 0, 0, 0)
Ones == B(1, 1, 1, 1)
Some == B(1, 1, 0, 1)
Few == B(0, 0, 1, 0)
I(kind, value) == [kind |-> kind, value |-> value, bits |-> Len(value) * ByteSize]

Items ==
  {[kind |-> "bit", value |-> <<b>>, bits |-> 1] : b \in {Zeros, B(0, 0, 0, 1)}}
  \cup {[kind |-> "bits", value |-> <<Low(Some, n)>>, bits |-> n] : n \in 2..3}
  \cup {I("bytes", <<Some>>), I("bytes", <<Few, Some>>), I("aligned", <<Ones>>), I("stream", <<Some>>)}
  \cup {I("unsigned", <<Some, Zeros>>), I("unsigned", <<Few, Zeros>>), I("unsigned", <<Zeros, Few>>)}
  \cup {I("signed", <<Few, Ones>>), I("signed", <<Some, Ones>>), I("signed", <<Ones, Some>>)}
=============================================================================

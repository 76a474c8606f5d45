------------------------------- MODULE Base64 -------------------------------
(***************************************************************************)
(* base64_encode and base64_decode (src/src/provider_common.cpp), which    *)
(* carry images, audio and files.  A byte is 0..255; a character is the    *)
(* number 0..63 it stands for in the alphabet, or Pad, Blank (one of the   *)
(* six ASCII spaces) or Other.                                             *)
(***************************************************************************)
EXTENDS Naturals, Sequences, SequencesExt

Pad == 64
Blank == 65
Other == 66
Characters == 0..66

IsDigit(c) == c < 64

\* std::nullopt.
NoBytes == <<256>>

(***************************************************************************)
(* Encoding: three bytes are four characters.                              *)
(***************************************************************************)
Quantum(b) ==
    CASE Len(b) = 3 -> <<b[1] \div 4, (b[1] % 4) * 16 + b[2] \div 16,
                         (b[2] % 16) * 4 + b[3] \div 64, b[3] % 64>>
      [] Len(b) = 2 -> <<b[1] \div 4, (b[1] % 4) * 16 + b[2] \div 16,
                         (b[2] % 16) * 4, Pad>>
      [] Len(b) = 1 -> <<b[1] \div 4, (b[1] % 4) * 16, Pad, Pad>>

\* s cut into pieces of n; the last one may be shorter.
Pieces(s, n) ==
    [k \in 1..((Len(s) + n - 1) \div n) |->
        SubSeq(s, (k - 1) * n + 1, IF k * n < Len(s) THEN k * n ELSE Len(s))]

Encode(bytes) == FlattenSeq([k \in DOMAIN Pieces(bytes, 3) |-> Quantum(Pieces(bytes, 3)[k])])

(***************************************************************************)
(* Decoding.                                                               *)
(***************************************************************************)
Compact(text) ==
    FlattenSeq([k \in DOMAIN text |-> IF text[k] = Blank THEN <<>> ELSE <<text[k]>>])

\* Faulty: bits that no byte takes are not looked at.
GroupIsPadded(g, last) ==
    /\ IsDigit(g[1]) /\ IsDigit(g[2])
    /\ IsDigit(g[3]) \/ (g[3] = Pad /\ g[4] = Pad)
    /\ IsDigit(g[4]) \/ g[4] = Pad
    /\ Pad \in {g[3], g[4]} => last

\* Padding comes at the end only, and the bits it cuts off are zero.
GroupOK(g, last) ==
    /\ IsDigit(g[1]) /\ IsDigit(g[2])
    /\ IsDigit(g[3]) \/ (g[3] = Pad /\ g[4] = Pad)
    /\ IsDigit(g[4]) \/ g[4] = Pad
    /\ Pad \in {g[3], g[4]} => last
    /\ g[3] = Pad => g[2] % 16 = 0
    /\ g[4] = Pad /\ g[3] # Pad => g[3] % 4 = 0

GroupBytes(g) ==
    <<g[1] * 4 + g[2] \div 16>>
    \o (IF g[3] = Pad THEN <<>> ELSE <<(g[2] % 16) * 16 + g[3] \div 4>>)
    \o (IF g[4] = Pad THEN <<>> ELSE <<(g[3] % 4) * 64 + g[4]>>)

Decode(text) ==
    LET compact == Compact(text)
        groups == Pieces(compact, 4)
    IN  IF \/ compact = <<>> \/ Len(compact) % 4 # 0
           \/ \E k \in DOMAIN groups : ~GroupOK(groups[k], k = Len(groups))
        THEN NoBytes
        ELSE FlattenSeq([k \in DOMAIN groups |-> GroupBytes(groups[k])])

\* What was encoded is decoded, and a text is decoded only if it is, but for
\* blanks, what the encoding of its bytes gives: no other text stands for them.
\* No text stands for no bytes.
Base64IsExact(bytes, text) ==
    /\ Decode(Encode(bytes)) = (IF bytes = <<>> THEN NoBytes ELSE bytes)
    /\ Decode(text) # NoBytes =>
          /\ \A k \in DOMAIN Decode(text) : Decode(text)[k] \in 0..255
          /\ Encode(Decode(text)) = Compact(text)
=============================================================================

----------------------------- MODULE Reconstruct -----------------------------
(***************************************************************************)
(* reconstruct_received_message of spread_util.py. The Python wrapper of   *)
(* Spread writes a string with its terminating NUL byte, and its read      *)
(* returns a C string: it stops at the first NUL. The loop glues the       *)
(* pieces of a received message together again and strips the terminator.  *)
(***************************************************************************)
EXTENDS Integers, Sequences

Bytes == 0..255
Nul == 0
Messages == Seq(Bytes)    \* the strings that may be sent

VARIABLES
  msg,              \* the string that was given to send
  wire,             \* the bytes of the Spread message
  incMsg,           \* inc_msg
  bytesRead,        \* bytes_read, which is also where seek has put the reader
  bytesRemaining,   \* bytes_remaining
  result            \* the value returned, or <<>> before: see returned
VARIABLE returned

vars == <<msg, wire, incMsg, bytesRead, bytesRemaining, result, returned>>

\* Message.write of the wrapper: the string and its terminator.
Written(m) == Append(m, Nul)

Init ==
  /\ msg \in Messages
  /\ wire = Written(msg)
  /\ incMsg = <<>>
  /\ bytesRead = 0
  /\ bytesRemaining = Len(wire)
  /\ result = <<>>
  /\ returned = FALSE

\* Message.read(n) at offset off: n bytes, or those left, up to the first NUL.
Available(off, n) == IF off + n <= Len(wire) THEN n ELSE Len(wire) - off
IsReadLength(off, n, k) ==
  /\ k \in 0..Available(off, n)
  /\ \A i \in (off + 1)..(off + k) : wire[i] # Nul
  /\ k < Available(off, n) => wire[off + k + 1] = Nul

\* One pass of the loop: read a piece, append it with a NUL, seek behind it.
ReadPiece ==
  /\ bytesRemaining > 0
  /\ \E k \in 0..bytesRemaining :
       /\ IsReadLength(bytesRead, bytesRemaining, k)
       /\ incMsg' = incMsg \o SubSeq(wire, bytesRead + 1, bytesRead + k)
                           \o <<Nul>>
       /\ bytesRead' = bytesRead + k + 1
       /\ bytesRemaining' = bytesRemaining - (k + 1)
  /\ UNCHANGED <<msg, wire, result, returned>>

\* inc_msg[:-1]
Stripped(s) == SubSeq(s, 1, Len(s) - 1)

Return ==
  /\ bytesRemaining <= 0
  /\ ~returned
  /\ result' = Stripped(incMsg)
  /\ returned' = TRUE
  /\ UNCHANGED <<msg, wire, incMsg, bytesRead, bytesRemaining>>

Next == ReadPiece \/ Return

Spec == Init /\ [][Next]_vars

-----------------------------------------------------------------------------
\* RoundTrip: recv returns exactly the string that was sent, wherever it has
\* NUL bytes: none, in front, in a row, at the end.
RoundTrip == returned => result = msg

\* PiecesFit: what has been glued together is what was read off the wire, and
\* the loop never reads past the end. Strengthening of RoundTrip.
PiecesFit ==
  /\ msg \in Messages
  /\ wire = Written(msg)
  /\ bytesRead \in 0..Len(wire)
  /\ bytesRemaining = Len(wire) - bytesRead
  /\ incMsg \in Seq(Bytes)
  /\ incMsg = SubSeq(wire, 1, bytesRead)
  /\ returned \in BOOLEAN
  /\ returned => result = msg
=============================================================================

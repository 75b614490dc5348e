----------------------------- MODULE Connection -----------------------------
(***************************************************************************)
(* Connection (crates/hio-transport/src/netpoll/connection.rs): a           *)
(* non-blocking TcpStream and the bytes that its owner has written and the  *)
(* socket has not taken yet.  The stream and the peer at its other end are  *)
(* the environment.  Each byte is known by its place in its direction, and  *)
(* every system call is an action of its own, between which the peer acts.  *)
(***************************************************************************)
EXTENDS Naturals, Sequences

CONSTANTS
  Total,  \* bound: the bytes each end writes
  Room,   \* the bytes a direction of the stream holds
  Chunk   \* bound: the bytes given to write_buf, or asked of try_read, at once

ASSUME ConnectionAssumption == Total \in Nat /\ Room \in Nat \ {0} /\ Chunk \in Nat \ {0}

VARIABLES
  write_buf,  \* the VecDeque
  written,    \* the number of bytes given to write_buf
  out, in,    \* the bytes under way to the peer, and from it
  got,        \* what the peer has read
  taken,      \* what try_read has returned
  peer,       \* "open", "finished" (it writes no more) or "reset"
  sent,       \* the number of bytes the peer has written
  pc,         \* "idle", or "flush" inside flush_buf
  answer,     \* of the last flush_buf: "clear", "pending", "error";
              \* "owed" when more has been written since
  ended       \* try_read has returned Eof

outgoing == <<write_buf, out, got>>
incoming == <<in, taken, ended>>
vars == <<outgoing, written, incoming, peer, sent, pc, answer>>

Init ==
  /\ write_buf = <<>> /\ written = 0
  /\ out = <<>> /\ in = <<>> /\ got = <<>> /\ taken = <<>>
  /\ peer = "open" /\ sent = 0
  /\ pc = "idle" /\ answer = "clear" /\ ended = FALSE

Before(n, s) == SubSeq(s, 1, n)
After(n, s) == SubSeq(s, n + 1, Len(s))

-----------------------------------------------------------------------------
(* The owner's calls *)

\* Mutant: the bytes are taken from the second on.
WriteBufShifted ==
  /\ pc = "idle"
  /\ \E n \in 1 .. Chunk :
       /\ written + n <= Total
       /\ written' = written + n
       /\ write_buf' = write_buf \o [i \in 1 .. n |-> written + i + 1]
  /\ answer' = "owed"
  /\ UNCHANGED <<out, got, incoming, peer, sent, pc>>

WriteBuf ==
  /\ pc = "idle"
  /\ \E n \in 1 .. Chunk :
       /\ written + n <= Total
       /\ written' = written + n
       /\ write_buf' = write_buf \o [i \in 1 .. n |-> written + i]
  /\ answer' = "owed"
  /\ UNCHANGED <<out, got, incoming, peer, sent, pc>>

FlushBuf ==
  /\ pc = "idle" /\ pc' = "flush"
  /\ UNCHANGED <<outgoing, written, incoming, peer, sent, answer>>

\* flush_buf returns.
Answer(a) ==
  /\ pc' = "idle" /\ answer' = a
  /\ UNCHANGED <<outgoing, written, incoming, peer, sent>>

\* Mutant: one write is taken for the whole of the buffer.
FlushedOnce ==
  /\ pc = "flush"
  /\ write_buf = <<>> \/ out # <<>>
  /\ Answer("clear")

Flushed == pc = "flush" /\ write_buf = <<>> /\ Answer("clear")

Writing == pc = "flush" /\ write_buf # <<>>

\* Mutant: the whole slice is drained, whatever the stream took of it.
WriteDrainingSlice ==
  /\ Writing /\ peer # "reset"
  /\ \E slice \in 1 .. Len(write_buf), n \in 1 .. Room - Len(out) :
       /\ n <= slice
       /\ out' = out \o Before(n, write_buf)
       /\ write_buf' = After(slice, write_buf)
  /\ UNCHANGED <<written, got, incoming, peer, sent, pc, answer>>

\* The stream takes some of the first slice of the ring buffer, which may be
\* any part of what the buffer holds, and that much is drained.
Write ==
  /\ Writing /\ peer # "reset"
  /\ \E slice \in 1 .. Len(write_buf), n \in 1 .. Room - Len(out) :
       /\ n <= slice
       /\ out' = out \o Before(n, write_buf)
       /\ write_buf' = After(n, write_buf)
  /\ UNCHANGED <<written, got, incoming, peer, sent, pc, answer>>

WouldBlock == Writing /\ peer # "reset" /\ Len(out) = Room /\ Answer("pending")

\* Interrupted: the loop goes round.
Interrupted == Writing /\ UNCHANGED vars

WriteFails == Writing /\ peer = "reset" /\ Answer("error")

\* Mutant: would-block is reported as the end.
TryReadIdleIsEof ==
  /\ pc = "idle"
  /\ \/ \E n \in 1 .. Chunk :
          /\ n <= Len(in)
          /\ taken' = taken \o Before(n, in) /\ in' = After(n, in)
          /\ UNCHANGED ended
     \/ /\ in = <<>> /\ ended' = TRUE
        /\ UNCHANGED <<in, taken>>
  /\ UNCHANGED <<outgoing, written, peer, sent, pc, answer>>

\* try_read with room for at least one byte.  WouldBlock and Interrupted are
\* Idle and change nothing; zero bytes and any other error are Eof.
TryRead ==
  /\ pc = "idle"
  /\ \/ \E n \in 1 .. Chunk :
          /\ n <= Len(in)
          /\ taken' = taken \o Before(n, in) /\ in' = After(n, in)
          /\ UNCHANGED ended
     \/ /\ in = <<>> /\ peer # "open" /\ ended' = TRUE
        /\ UNCHANGED <<in, taken>>
  /\ UNCHANGED <<outgoing, written, peer, sent, pc, answer>>

-----------------------------------------------------------------------------
(* The peer *)

PeerReads ==
  /\ peer # "reset" /\ out # <<>>
  /\ got' = Append(got, Head(out)) /\ out' = Tail(out)
  /\ UNCHANGED <<write_buf, written, incoming, peer, sent, pc, answer>>

PeerWrites ==
  /\ peer = "open" /\ sent < Total /\ Len(in) < Room
  /\ sent' = sent + 1 /\ in' = Append(in, sent')
  /\ UNCHANGED <<outgoing, written, taken, ended, peer, pc, answer>>

PeerFinishes ==
  /\ peer = "open" /\ peer' = "finished"
  /\ UNCHANGED <<outgoing, written, incoming, sent, pc, answer>>

\* What is under way to the peer is lost; what has arrived from it may be.
PeerResets ==
  /\ peer # "reset" /\ peer' = "reset"
  /\ out' = <<>> /\ in' \in {in, <<>>}
  /\ UNCHANGED <<write_buf, written, got, taken, ended, sent, pc, answer>>

-----------------------------------------------------------------------------

FlushStep == Flushed \/ Write \/ WouldBlock \/ Interrupted \/ WriteFails

Next ==
  \/ WriteBuf \/ FlushBuf \/ FlushStep \/ TryRead
  \/ PeerReads \/ PeerWrites \/ PeerFinishes \/ PeerResets

Spec == Init /\ [][Next]_vars

\* flush_buf runs to its end, the owner flushes what it wrote and then only
\* as long as it is told that bytes remain, and the peer reads.
FairSpec ==
  /\ Spec
  /\ WF_vars(FlushStep)
  /\ WF_vars(FlushBuf /\ answer \in {"owed", "pending"})
  /\ WF_vars(PeerReads)

-----------------------------------------------------------------------------
(* Properties *)

Stream(n) == [i \in 1 .. n |-> i]
Bytes == Seq(1 .. Total)

\* Every variable has its type, and nothing exceeds the room of the stream.
TypeOK ==
  /\ write_buf \in Bytes /\ got \in Bytes /\ taken \in Bytes
  /\ out \in Bytes /\ Len(out) <= Room
  /\ in \in Bytes /\ Len(in) <= Room
  /\ written \in 0 .. Total /\ sent \in 0 .. Total
  /\ peer \in {"open", "finished", "reset"}
  /\ pc \in {"idle", "flush"}
  /\ answer \in {"clear", "owed", "pending", "error"}
  /\ ended \in BOOLEAN

\* Bytes leave once and in order: flush_buf drains exactly what each write
\* took of the first slice, so what the peer has read, what is under way and
\* what waits in write_buf are the bytes written, with no gap unless the
\* stream was reset.
BytesInOrder ==
  /\ got \o out = Stream(Len(got) + Len(out))
  /\ write_buf = After(written - Len(write_buf), Stream(written))
  /\ Len(got) + Len(out) + Len(write_buf) <= written
  /\ peer # "reset" => Len(got) + Len(out) + Len(write_buf) = written

\* Eof is the end: once try_read has returned it nothing more comes, and a
\* peer that finished in order has been read to its last byte.
EofIsTheEnd ==
  ended => /\ in = <<>> /\ peer # "open"
           /\ peer = "finished" => taken = Stream(sent)

\* The answer of flush_buf can be relied on: an owner that flushes again only
\* while it is told that bytes remain gets every byte to the peer, unless the
\* stream is reset.
Delivered ==
  \A n \in 1 .. Total : written >= n ~> Len(got) >= n \/ peer = "reset"
=============================================================================

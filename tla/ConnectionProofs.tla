-------------------------- MODULE ConnectionProofs --------------------------
(***************************************************************************)
(* Theorems about Connection, for any number of bytes, any room in the      *)
(* stream and any size of the owner's buffers.  Every sequence of bytes in  *)
(* the system is a run of consecutive numbers, and the invariant says where *)
(* each begins.                                                             *)
(***************************************************************************)
EXTENDS Connection, SequenceTheorems, TLAPS

\* The bytes that follow the first from, in order.
Run(from, s) == s \in Bytes /\ \A i \in 1 .. Len(s) : s[i] = from + i

Scalars ==
  /\ written \in 0 .. Total /\ sent \in 0 .. Total
  /\ peer \in {"open", "finished", "reset"}
  /\ pc \in {"idle", "flush"}
  /\ answer \in {"clear", "owed", "pending", "error"}
  /\ ended \in BOOLEAN

\* What the peer has read, what is under way and what waits follow on one
\* another, with a gap only where the stream was reset.
OutInv ==
  /\ Run(0, got) /\ Run(Len(got), out)
  /\ Run(written - Len(write_buf), write_buf)
  /\ Len(out) <= Room
  /\ Len(got) + Len(out) + Len(write_buf) <= written
  /\ peer # "reset" => Len(got) + Len(out) + Len(write_buf) = written

\* The same for what comes in.
InInv ==
  /\ Run(0, taken) /\ Run(Len(taken), in)
  /\ Len(in) <= Room
  /\ Len(taken) + Len(in) <= sent
  /\ peer # "reset" => Len(taken) + Len(in) = sent

\* Nothing is left when the end is reported, and nothing can come.
EndInv == ended => in = <<>> /\ peer # "open"

IInv == Scalars /\ OutInv /\ InInv /\ EndInv

-----------------------------------------------------------------------------
(* Runs of bytes *)

LEMMA RunType ==
  ASSUME NEW from, NEW s, Run(from, s)
  PROVE  s \in Seq(1 .. Total) /\ Len(s) \in Nat
BY LenProperties DEF Run, Bytes

\* A run that follows another can be appended to it.
LEMMA RunConcat ==
  ASSUME NEW from \in Nat, NEW s, NEW t, Run(from, s), Run(from + Len(s), t)
  PROVE  Run(from, s \o t) /\ Len(s \o t) = Len(s) + Len(t)
<1>1. /\ s \in Seq(1 .. Total) /\ t \in Seq(1 .. Total)
      /\ Len(s) \in Nat /\ Len(t) \in Nat
  BY RunType
<1>2. /\ s \o t \in Seq(1 .. Total)
      /\ Len(s \o t) = Len(s) + Len(t)
      /\ \A i \in 1 .. Len(s) + Len(t) :
           (s \o t)[i] = IF i <= Len(s) THEN s[i] ELSE t[i - Len(s)]
  BY <1>1, ConcatProperties
<1>3. ASSUME NEW i \in 1 .. Len(s \o t) PROVE (s \o t)[i] = from + i
  <2>1. CASE i <= Len(s) BY <1>1, <1>2, <2>1 DEF Run
  <2>2. CASE i > Len(s)
    <3>1. i - Len(s) \in 1 .. Len(t) BY <1>1, <1>2, <2>2
    <3>2. t[i - Len(s)] = from + Len(s) + (i - Len(s)) BY <3>1 DEF Run
    <3> QED BY <1>1, <1>2, <2>2, <3>1, <3>2
  <2> QED BY <1>1, <2>1, <2>2
<1> QED BY <1>2, <1>3 DEF Run, Bytes

\* A run can be cut in two.
LEMMA RunCut ==
  ASSUME NEW from \in Nat, NEW s, Run(from, s), NEW n \in 0 .. Len(s)
  PROVE  /\ Run(from, Before(n, s)) /\ Len(Before(n, s)) = n
         /\ Run(from + n, After(n, s)) /\ Len(After(n, s)) = Len(s) - n
<1>1. s \in Seq(1 .. Total) /\ Len(s) \in Nat /\ n \in Nat BY RunType
<1>2. \A i \in 1 .. Len(s) : s[i] \in 1 .. Total BY <1>1, ElementOfSeq
<1>3. \A i \in 1 .. n : s[i] \in 1 .. Total BY <1>1, <1>2
<1>4. \A i \in n + 1 .. Len(s) : s[i] \in 1 .. Total BY <1>1, <1>2
<1>5. /\ Before(n, s) \in Seq(1 .. Total)
      /\ Len(Before(n, s)) = n
      /\ \A i \in 1 .. n : Before(n, s)[i] = s[i]
  <2>1. /\ SubSeq(s, 1, n) \in Seq(1 .. Total)
        /\ Len(SubSeq(s, 1, n)) = IF 1 <= n THEN n - 1 + 1 ELSE 0
        /\ \A i \in 1 .. n - 1 + 1 : SubSeq(s, 1, n)[i] = s[1 + i - 1]
    BY <1>1, <1>3, SubSeqProperties
  <2> QED BY <1>1, <2>1 DEF Before
<1>6. /\ After(n, s) \in Seq(1 .. Total)
      /\ Len(After(n, s)) = Len(s) - n
      /\ \A i \in 1 .. Len(s) - n : After(n, s)[i] = s[n + i]
  <2>1. /\ SubSeq(s, n + 1, Len(s)) \in Seq(1 .. Total)
        /\ Len(SubSeq(s, n + 1, Len(s))) =
             IF n + 1 <= Len(s) THEN Len(s) - (n + 1) + 1 ELSE 0
        /\ \A i \in 1 .. Len(s) - (n + 1) + 1 :
             SubSeq(s, n + 1, Len(s))[i] = s[n + 1 + i - 1]
    BY <1>1, <1>4, SubSeqProperties
  <2> QED BY <1>1, <2>1 DEF After
<1>7. ASSUME NEW i \in 1 .. Len(Before(n, s)) PROVE Before(n, s)[i] = from + i
  <2>1. i \in 1 .. n /\ i \in 1 .. Len(s) BY <1>1, <1>5
  <2> QED BY <1>5, <2>1 DEF Run
<1>8. ASSUME NEW i \in 1 .. Len(After(n, s)) PROVE After(n, s)[i] = from + n + i
  <2>1. n + i \in 1 .. Len(s) BY <1>1, <1>6
  <2> QED BY <1>1, <1>6, <2>1 DEF Run
<1> QED BY <1>5, <1>6, <1>7, <1>8 DEF Run, Bytes

\* The next bytes of a stream, as write_buf and the peer's writes make them.
LEMMA RunNext ==
  ASSUME NEW from \in Nat, NEW n \in Nat, from + n <= Total, Total \in Nat
  PROVE  /\ Run(from, [i \in 1 .. n |-> from + i])
         /\ Len([i \in 1 .. n |-> from + i]) = n
<1>1. [i \in 1 .. n |-> from + i] \in [1 .. n -> 1 .. Total] OBVIOUS
<1>2. [i \in 1 .. n |-> from + i] \in Seq(1 .. Total) BY <1>1
<1>3. Len([i \in 1 .. n |-> from + i]) = n BY <1>2
<1> QED BY <1>2, <1>3 DEF Run, Bytes

LEMMA RunOne ==
  ASSUME NEW from \in Nat, NEW b, b = from + 1, b <= Total, Total \in Nat
  PROVE  Run(from, <<b>>) /\ Len(<<b>>) = 1
BY DEF Run, Bytes

LEMMA RunEmpty ==
  ASSUME NEW from
  PROVE  Run(from, <<>>) /\ Len(<<>>) = 0
BY EmptySeq DEF Run, Bytes

\* A run is what it should be.
LEMMA RunIsStream ==
  ASSUME NEW s, Run(0, s)
  PROVE  s = Stream(Len(s))
<1>1. s \in [1 .. Len(s) -> 1 .. Total] /\ Len(s) \in Nat BY RunType, LenProperties
<1> QED BY <1>1 DEF Run, Stream
-----------------------------------------------------------------------------
(* The two directions *)

\* What leaves write_buf goes to the end of the stream, in order.
LEMMA OutStep ==
  ASSUME IInv, Next
  PROVE  OutInv'
<1> USE ConnectionAssumption DEF ConnectionAssumption, outgoing, incoming
<1>0. /\ Scalars /\ OutInv
      /\ Len(got) \in Nat /\ Len(out) \in Nat /\ Len(write_buf) \in Nat
      /\ written - Len(write_buf) \in Nat
  BY RunType DEF IInv, OutInv, Scalars
<1>1. ASSUME WriteBuf PROVE OutInv'
  <2>1. PICK n \in 1 .. Chunk :
          /\ written + n <= Total
          /\ written' = written + n
          /\ write_buf' = write_buf \o [i \in 1 .. n |-> written + i]
    BY <1>1 DEF WriteBuf
  <2>2. /\ Run(written, [i \in 1 .. n |-> written + i])
        /\ Len([i \in 1 .. n |-> written + i]) = n
    BY <1>0, <2>1, RunNext DEF Scalars
  <2>3. (written - Len(write_buf)) + Len(write_buf) = written BY <1>0 DEF Scalars
  <2>4. /\ Run(written - Len(write_buf), write_buf')
        /\ Len(write_buf') = Len(write_buf) + n
    BY <1>0, <2>1, <2>2, <2>3, RunConcat DEF OutInv
  <2>5. written' - Len(write_buf') = written - Len(write_buf)
    BY <1>0, <2>1, <2>4 DEF Scalars
  <2>6. Run(written' - Len(write_buf'), write_buf') BY <2>4, <2>5
  <2>7. got' = got /\ out' = out /\ peer' = peer BY <1>1 DEF WriteBuf
  <2>8. Run(0, got') /\ Run(Len(got'), out') BY <1>0, <2>7 DEF OutInv
  <2>9. /\ Len(got') + Len(out') + Len(write_buf') <= written'
        /\ peer' # "reset" => Len(got') + Len(out') + Len(write_buf') = written'
    <3>1. /\ n \in Nat /\ written \in Nat
          /\ written' = written + n /\ Len(write_buf') = Len(write_buf) + n
      BY <1>0, <2>1, <2>4 DEF Scalars
    <3>2. /\ Len(got) + Len(out) + Len(write_buf) <= written
          /\ peer # "reset" => Len(got) + Len(out) + Len(write_buf) = written
      BY <1>0 DEF OutInv
    <3> QED BY <1>0, <2>7, <3>1, <3>2
  <2>10. Len(out') <= Room BY <1>0, <2>7 DEF OutInv
  <2> QED BY <2>6, <2>8, <2>9, <2>10 DEF OutInv, Run, Bytes
<1>2. ASSUME Write PROVE OutInv'
  <2>1. PICK slice \in 1 .. Len(write_buf), n \in 1 .. Room - Len(out) :
          /\ n <= slice
          /\ out' = out \o Before(n, write_buf)
          /\ write_buf' = After(n, write_buf)
    BY <1>2 DEF Write
  <2>2. n \in 0 .. Len(write_buf) /\ n \in Nat BY <1>0, <2>1
  <2>3. /\ written' = written /\ got' = got /\ peer' = peer /\ peer # "reset"
    BY <1>2 DEF Write
  <2>4. written - Len(write_buf) = Len(got) + Len(out)
    BY <1>0, <2>3 DEF OutInv, Scalars
  <2>5. /\ Run(Len(got) + Len(out), Before(n, write_buf))
        /\ Len(Before(n, write_buf)) = n
        /\ Run(Len(got) + Len(out) + n, write_buf')
        /\ Len(write_buf') = Len(write_buf) - n
    <3>1. Run(Len(got) + Len(out), write_buf) /\ Len(got) + Len(out) \in Nat
      BY <1>0, <2>4 DEF OutInv
    <3> QED BY <2>1, <2>2, <3>1, RunCut
  <2>6. Run(Len(got), out') /\ Len(out') = Len(out) + n
    <3>1. Run(Len(got), out) BY <1>0 DEF OutInv
    <3>2. /\ Run(Len(got), out \o Before(n, write_buf))
          /\ Len(out \o Before(n, write_buf)) = Len(out) + Len(Before(n, write_buf))
      BY <1>0, <2>5, <3>1, RunConcat
    <3> QED BY <2>1, <2>5, <3>2
  <2>7. written' - Len(write_buf') = Len(got) + Len(out) + n
    BY <1>0, <2>2, <2>3, <2>4, <2>5 DEF Scalars
  <2>8. Len(out') <= Room BY <1>0, <2>1, <2>6
  <2>9. Len(got') + Len(out') + Len(write_buf') = written'
    BY <1>0, <2>2, <2>3, <2>4, <2>5, <2>6 DEF Scalars
  <2>10. Run(written' - Len(write_buf'), write_buf') BY <2>5, <2>7
  <2>11. Run(0, got') /\ Run(Len(got'), out') BY <1>0, <2>3, <2>6 DEF OutInv
  <2>12. Len(got') + Len(out') + Len(write_buf') <= written'
    BY <1>0, <2>3, <2>9 DEF Scalars
  <2> QED BY <2>8, <2>9, <2>10, <2>11, <2>12 DEF OutInv, Run, Bytes
<1>3. ASSUME PeerReads PROVE OutInv'
  <2>1. /\ out # <<>> /\ got' = Append(got, Head(out)) /\ out' = Tail(out)
        /\ write_buf' = write_buf /\ written' = written /\ peer' = peer
    BY <1>3 DEF PeerReads
  <2>2. /\ got \in Seq(1 .. Total) /\ out \in Seq(1 .. Total)
        /\ write_buf \in Seq(1 .. Total)
    BY <1>0, RunType DEF OutInv
  <2>3. Len(out) > 0 BY <2>1, <2>2, EmptySeq
  <2>4. 1 \in 0 .. Len(out) BY <1>0, <2>3
  <2>5. Head(out) = Len(got) + 1 /\ Head(out) \in 1 .. Total
    BY <1>0, <2>1, <2>2, <2>3, HeadTailProperties DEF OutInv, Run
  <2>6. Run(Len(got), <<Head(out)>>) /\ Len(<<Head(out)>>) = 1
    <3>1. Head(out) <= Total BY <2>5
    <3> QED BY <1>0, <2>5, <3>1, RunOne
  <2>7. got' = got \o <<Head(out)>> BY <2>1, <2>2, <2>5
  <2>8. Run(0, got') /\ Len(got') = Len(got) + 1
    BY <1>0, <2>6, <2>7, RunConcat DEF OutInv
  <2>9. out' = After(1, out) BY <2>1, <2>2, TailIsSubSeq DEF After
  <2>10. Run(Len(got) + 1, out') /\ Len(out') = Len(out) - 1
    BY <1>0, <2>4, <2>9, RunCut DEF OutInv
  <2>11. Run(Len(got'), out') BY <2>8, <2>10
  <2>12. Len(got') + Len(out') + Len(write_buf') = Len(got) + Len(out) + Len(write_buf)
    BY <1>0, <2>1, <2>8, <2>10
  <2>13. Len(out') <= Room BY <1>0, <2>10 DEF OutInv
  <2> QED BY <1>0, <2>1, <2>8, <2>11, <2>12, <2>13 DEF OutInv, Run, Bytes
<1>4. ASSUME PeerResets PROVE OutInv'
  <2>1. /\ out' = <<>> /\ got' = got /\ write_buf' = write_buf /\ written' = written
        /\ peer' = "reset"
    BY <1>4 DEF PeerResets
  <2>2. Run(Len(got'), out') /\ Len(out') = 0 BY <2>1, RunEmpty
  <2>3. Len(got') + Len(out') + Len(write_buf') <= written'
    BY <1>0, <2>1, <2>2 DEF OutInv, Scalars
  <2>4. Len(out') <= Room BY <2>2
  <2> QED BY <1>0, <2>1, <2>2, <2>3, <2>4 DEF OutInv, Run, Bytes
<1>5. ASSUME UNCHANGED <<outgoing, written>>, peer' = peer \/ peer # "reset" PROVE OutInv'
  BY <1>0, <1>5 DEF OutInv, Run, Bytes
<1>6. CASE FlushBuf \/ Flushed \/ WouldBlock \/ Interrupted \/ WriteFails
  BY <1>5, <1>6 DEF FlushBuf, Flushed, WouldBlock, Interrupted, WriteFails, Answer, vars
<1>7. CASE TryRead \/ PeerWrites \/ PeerFinishes
  BY <1>5, <1>7 DEF TryRead, PeerWrites, PeerFinishes
<1> QED BY <1>1, <1>2, <1>3, <1>4, <1>6, <1>7 DEF Next, FlushStep

\* try_read takes from the front what the peer has put at the end, and says
\* that there is no more when there cannot be.
LEMMA InStep ==
  ASSUME IInv, Next
  PROVE  InInv' /\ EndInv'
<1> USE ConnectionAssumption DEF ConnectionAssumption, outgoing, incoming
<1>0. /\ Scalars /\ InInv /\ EndInv
      /\ Len(taken) \in Nat /\ Len(in) \in Nat /\ sent \in Nat
  BY RunType DEF IInv, InInv, Scalars
<1>1. ASSUME TryRead PROVE InInv' /\ EndInv'
  <2>1. sent' = sent /\ peer' = peer BY <1>1 DEF TryRead
  <2>2. CASE in = <<>> /\ peer # "open" /\ in' = in /\ taken' = taken
    BY <1>0, <2>1, <2>2 DEF InInv, EndInv, Run, Bytes
  <2>3. ASSUME NEW n \in 1 .. Chunk, n <= Len(in), taken' = taken \o Before(n, in),
               in' = After(n, in), ended' = ended
        PROVE  InInv' /\ EndInv'
    <3>1. n \in 0 .. Len(in) /\ n \in Nat /\ n > 0 BY <1>0, <2>3
    <3>2. Run(0, taken) /\ Run(Len(taken), in) BY <1>0 DEF InInv
    <3>3. /\ Run(Len(taken), Before(n, in)) /\ Len(Before(n, in)) = n
          /\ Run(Len(taken) + n, in') /\ Len(in') = Len(in) - n
      BY <1>0, <2>3, <3>1, <3>2, RunCut
    <3>4. Run(0, taken') /\ Len(taken') = Len(taken) + n
      <4>1. Run(0 + Len(taken), Before(n, in)) BY <1>0, <3>3
      <4>2. /\ Run(0, taken \o Before(n, in))
            /\ Len(taken \o Before(n, in)) = Len(taken) + Len(Before(n, in))
        BY <3>2, <4>1, RunConcat
      <4> QED BY <2>3, <3>3, <4>2
    <3>5. Run(Len(taken'), in') BY <3>3, <3>4
    <3>6. Len(taken') + Len(in') = Len(taken) + Len(in) /\ Len(in') <= Len(in)
      BY <1>0, <3>1, <3>3, <3>4
    <3>7. /\ Len(in') <= Room
          /\ Len(taken') + Len(in') <= sent'
          /\ peer' # "reset" => Len(taken') + Len(in') = sent'
      BY <1>0, <2>1, <3>3, <3>6 DEF InInv
    <3>8. InInv' BY <3>4, <3>5, <3>7 DEF InInv, Run, Bytes
    <3>9. in # <<>> BY <2>3, <3>1, EmptySeq
    <3> QED BY <1>0, <2>3, <3>8, <3>9 DEF EndInv
  <2> QED BY <1>1, <2>2, <2>3 DEF TryRead
<1>2. ASSUME PeerWrites PROVE InInv' /\ EndInv'
  <2>1. /\ peer = "open" /\ peer' = peer /\ sent < Total /\ Len(in) < Room
        /\ sent' = sent + 1 /\ in' = Append(in, sent') /\ taken' = taken
        /\ ended' = ended
    BY <1>2 DEF PeerWrites
  <2>2. Run(0, taken) /\ Run(Len(taken), in) /\ Len(taken) + Len(in) = sent
    BY <1>0, <2>1 DEF InInv
  <2>3. in \in Seq(1 .. Total) /\ sent' \in 1 .. Total /\ sent' <= Total
    BY <1>0, <2>1, <2>2, RunType DEF Scalars
  <2>4. Run(sent, <<sent'>>) /\ Len(<<sent'>>) = 1 BY <1>0, <2>1, <2>3, RunOne
  <2>5. in' = in \o <<sent'>> BY <2>1, <2>3
  <2>6. Run(Len(taken), in') /\ Len(in') = Len(in) + 1
    <3>1. Run(Len(taken) + Len(in), <<sent'>>) BY <2>2, <2>4
    <3> QED BY <1>0, <2>2, <2>4, <2>5, <3>1, RunConcat
  <2>7. /\ Len(in') <= Room /\ Len(taken') + Len(in') = sent'
        /\ Len(taken') + Len(in') <= sent'
    BY <1>0, <2>1, <2>2, <2>6
  <2>8. Run(0, taken') /\ Run(Len(taken'), in') BY <2>1, <2>2, <2>6
  <2>9. InInv' BY <2>7, <2>8 DEF InInv, Run, Bytes
  <2> QED BY <1>0, <2>1, <2>9 DEF EndInv
<1>3. ASSUME PeerResets PROVE InInv' /\ EndInv'
  <2>1. /\ peer' = "reset" /\ in' \in {in, <<>>} /\ sent' = sent /\ taken' = taken
        /\ ended' = ended
    BY <1>3 DEF PeerResets
  <2>2. Run(0, taken) /\ Run(Len(taken), in) BY <1>0 DEF InInv
  <2>3. Run(Len(taken'), in') /\ Len(in') \in Nat /\ Len(in') <= Len(in)
    BY <1>0, <2>1, <2>2, RunEmpty
  <2>4. Run(0, taken') /\ Len(in') <= Room /\ Len(taken') + Len(in') <= sent'
    BY <1>0, <2>1, <2>2, <2>3 DEF InInv
  <2>5. InInv' BY <2>1, <2>3, <2>4 DEF InInv, Run, Bytes
  <2> QED BY <1>0, <2>1, <2>5 DEF EndInv
<1>4. ASSUME in' = in, taken' = taken, sent' = sent, ended' = ended,
             peer' # peer => peer = "open" /\ peer' = "finished"
      PROVE  InInv' /\ EndInv'
  BY <1>0, <1>4 DEF InInv, EndInv, Run, Bytes
<1>5. CASE WriteBuf \/ FlushBuf \/ Write \/ PeerReads
  <2>1. peer' = peer /\ sent' = sent /\ in' = in /\ taken' = taken /\ ended' = ended
    BY <1>5 DEF WriteBuf, FlushBuf, Write, PeerReads
  <2> QED BY <1>4, <2>1
<1>6. CASE Flushed \/ WouldBlock \/ Interrupted \/ WriteFails
  <2>1. peer' = peer /\ sent' = sent /\ in' = in /\ taken' = taken /\ ended' = ended
    BY <1>6 DEF Flushed, WouldBlock, Interrupted, WriteFails, Answer, vars
  <2> QED BY <1>4, <2>1
<1>7. CASE PeerFinishes BY <1>4, <1>7 DEF PeerFinishes
<1> QED BY <1>1, <1>2, <1>3, <1>5, <1>6, <1>7 DEF Next, FlushStep

LEMMA ScalarStep ==
  ASSUME IInv, Next
  PROVE  Scalars'
<1> USE ConnectionAssumption DEF ConnectionAssumption, outgoing, incoming
<1>0. Scalars BY DEF IInv
<1>1. CASE WriteBuf BY <1>0, <1>1 DEF WriteBuf, Scalars
<1>2. CASE PeerWrites BY <1>0, <1>2 DEF PeerWrites, Scalars
<1>3. CASE FlushBuf \/ Write \/ TryRead \/ PeerReads \/ PeerFinishes \/ PeerResets
  BY <1>0, <1>3 DEF FlushBuf, Write, TryRead, PeerReads, PeerFinishes, PeerResets, Scalars
<1>4. CASE Flushed \/ WouldBlock \/ Interrupted \/ WriteFails
  BY <1>0, <1>4 DEF Flushed, WouldBlock, Interrupted, WriteFails, Answer, vars, Scalars
<1> QED BY <1>1, <1>2, <1>3, <1>4 DEF Next, FlushStep

-----------------------------------------------------------------------------
(* The theorems *)

LEMMA InitIInv == Init => IInv
<1> SUFFICES ASSUME Init PROVE IInv OBVIOUS
<1> USE ConnectionAssumption DEF ConnectionAssumption, Init
<1>1. Scalars
  <2>1. 0 \in 0 .. Total OBVIOUS
  <2> QED BY <2>1 DEF Scalars
<1>2. Run(0, <<>>) /\ Len(<<>>) = 0 BY RunEmpty
<1>3. OutInv BY <1>2 DEF OutInv
<1>4. InInv /\ EndInv BY <1>2 DEF InInv, EndInv
<1> QED BY <1>1, <1>3, <1>4 DEF IInv

\* The invariant holds throughout.
THEOREM Invariance == Spec => []IInv
<1>1. IInv /\ [Next]_vars => IInv'
  <2> SUFFICES ASSUME IInv, [Next]_vars PROVE IInv' OBVIOUS
  <2>1. CASE Next BY <2>1, OutStep, InStep, ScalarStep DEF IInv
  <2>2. CASE UNCHANGED vars
    BY <2>2 DEF vars, outgoing, incoming, IInv, Scalars, OutInv, InInv, EndInv, Run, Bytes
  <2> QED BY <2>1, <2>2
<1> QED BY InitIInv, <1>1, PTL DEF Spec

\* Every variable keeps its type, and neither direction of the stream ever
\* holds more than it has room for.
THEOREM TypeCorrect == Spec => []TypeOK
<1>1. IInv => TypeOK BY DEF IInv, Scalars, OutInv, InInv, Run, TypeOK
<1> QED BY Invariance, <1>1, PTL

\* Bytes leave once and in order, however little each write takes of the
\* first slice of the ring buffer and wherever flush_buf stops.
THEOREM ByteOrder == Spec => []BytesInOrder
<1>1. IInv => BytesInOrder
  <2> SUFFICES ASSUME IInv PROVE BytesInOrder OBVIOUS
  <2>0. /\ OutInv /\ Scalars /\ written \in Nat
        /\ Len(got) \in Nat /\ Len(out) \in Nat /\ Len(write_buf) \in Nat
    BY RunType DEF IInv, OutInv, Scalars
  <2>1. got \o out = Stream(Len(got) + Len(out))
    <3>1. Run(0, got) /\ Run(0 + Len(got), out) BY <2>0 DEF OutInv
    <3>2. Run(0, got \o out) /\ Len(got \o out) = Len(got) + Len(out)
      BY <3>1, RunConcat
    <3> QED BY <3>2, RunIsStream
  <2>2. write_buf = After(written - Len(write_buf), Stream(written))
    <3> DEFINE first == written - Len(write_buf)
    <3>1. /\ Run(first, write_buf) /\ first \in Nat /\ first <= written
          /\ written - first = Len(write_buf)
      BY <2>0 DEF OutInv
    <3>2. Run(0, Stream(written)) /\ Len(Stream(written)) = written
      <4>1. /\ Run(0, [i \in 1 .. written |-> 0 + i])
            /\ Len([i \in 1 .. written |-> 0 + i]) = written
        <5>1. 0 + written <= Total /\ Total \in Nat /\ 0 \in Nat
          BY <2>0, ConnectionAssumption DEF Scalars, ConnectionAssumption
        <5> QED BY <2>0, <5>1, RunNext
      <4>2. [i \in 1 .. written |-> 0 + i] = Stream(written) BY <2>0 DEF Stream
      <4> QED BY <4>1, <4>2
    <3>3. first \in 0 .. Len(Stream(written)) BY <2>0, <3>1, <3>2
    <3>4. /\ Run(0 + first, After(first, Stream(written)))
          /\ Len(After(first, Stream(written))) = Len(write_buf)
      BY <3>1, <3>2, <3>3, RunCut
    <3>5. Run(first, After(first, Stream(written))) BY <3>1, <3>4
    <3> HIDE DEF first
    <3>6. write_buf = After(first, Stream(written))
      BY <3>1, <3>4, <3>5, SeqEqual DEF Run, Bytes
    <3> QED BY <3>6 DEF first
  <2> QED BY <2>0, <2>1, <2>2 DEF BytesInOrder, OutInv
<1> QED BY Invariance, <1>1, PTL

\* Eof is the end: a peer that finished in order has been read to its last
\* byte when try_read says so.
THEOREM EofIsLast == Spec => []EofIsTheEnd
<1>1. IInv => EofIsTheEnd
  <2> SUFFICES ASSUME IInv, ended = TRUE
               PROVE  /\ in = <<>> /\ peer # "open"
                      /\ peer = "finished" => taken = Stream(sent)
    BY DEF EofIsTheEnd, IInv, Scalars
  <2>1. in = <<>> /\ peer # "open" BY DEF IInv, EndInv
  <2>2. Run(0, taken) /\ taken = Stream(Len(taken)) /\ Len(taken) \in Nat
    BY RunIsStream, RunType DEF IInv, InInv
  <2>3. peer = "finished" => Len(taken) + Len(in) = sent BY DEF IInv, InInv
  <2>4. Len(in) = 0 BY <2>1
  <2> QED BY <2>1, <2>2, <2>3, <2>4
<1> QED BY Invariance, <1>1, PTL
=============================================================================

---------------------------- MODULE TunnelProofs ----------------------------
(***************************************************************************)
(* Proofs about the CONNECT tunnel, for every idle timeout, linger bound   *)
(* and socket buffer and any number of chunks: an ordinary half-close      *)
(* loses nothing, and deadlines only tighten.                              *)
(***************************************************************************)
EXTENDS Tunnel, TLAPS

Places == {"refresh", "read", "write", "closewrite", "arm", "done"}
Times == 0 .. NoDeadline

TunnelTypeOK ==
    /\ readIn \in [Conns -> Times] /\ writeIn \in [Conns -> Times]
    /\ idleIn \in [Conns -> Times] /\ lingerIn \in Times /\ armed \in BOOLEAN
    /\ sent \in [Conns -> Nat] /\ taken \in [Conns -> Nat]
    /\ read \in [Conns -> Nat] /\ written \in [Conns -> Nat]
    /\ ending \in [Conns -> {"open", "fin", "reset"}]
    /\ last \in [Conns -> BOOLEAN] /\ clean \in [Conns -> BOOLEAN]
    /\ half \in [Conns -> Places]

\* What the goroutine that reads c has copied: between two chunks everything it
\* has read is written; while it holds a chunk, all but that one. A source that
\* is known to be at its end (an EOF that came with a chunk, or alone) can send
\* no more.
Copied(c) ==
    /\ half[c] \in {"refresh", "read"} => written[Other(c)] = read[c] /\ ~clean[c]
    /\ half[c] = "write" =>
           /\ written[Other(c)] + 1 = read[c] /\ ~clean[c]
           /\ last[c] => ending[c] # "open" /\ read[c] = sent[c]
    /\ clean[c] => ending[c] # "open" /\ written[Other(c)] = sent[c]

\* Until the linger bound is armed, the recorded idle deadline is the one set
\* on the connection; once it is, no read deadline lies beyond it.
Deadlined(c) ==
    /\ ~armed => readIn[c] = idleIn[c]
    /\ armed => lingerIn <= Linger /\ readIn[c] <= lingerIn

TunnelInv ==
    /\ TunnelTypeOK
    /\ \A c \in Conns : Copied(c)
    /\ \A c \in Conns : Deadlined(c)

-----------------------------------------------------------------------------
\* Each of the two connections is the other's other.
LEMMA OtherConn ==
    \A c \in Conns : /\ Other(c) \in Conns /\ Other(c) # c /\ Other(Other(c)) = c
                     /\ \A d \in Conns : d = c \/ d = Other(c)
BY DEF Other, Conns

\* Time passing keeps deadlines in range and in order.
LEMMA PassedKeeps ==
    ASSUME NEW s \in Times, NEW t \in Times
    PROVE  /\ Passed(s) \in Times
           /\ s <= t /\ t <= Linger => Passed(s) <= Passed(t) /\ Passed(t) <= Linger
BY TunnelAssumption DEF Passed, Times, NoDeadline

\* A Read that returns bytes: the chunk is the last one or not.
LEMMA ReadLast ==
    ASSUME NEW c \in Conns, ReadChunk(c), TunnelTypeOK
    PROVE  /\ last' \in [Conns -> BOOLEAN]
           /\ last'[c] => ending[c] = "fin" /\ read[c] + 1 = sent[c]
           /\ \A d \in Conns : d # c => last'[d] = last[d]
           /\ half[c] = "read" /\ Readable(c) /\ GotoHalf(c, "write")
           /\ read' = [read EXCEPT ![c] = @ + 1]
           /\ UNCHANGED <<deadlines, peers, written, shut, clean, open>>
<1> DEFINE atEnd == ending[c] = "fin" /\ read[c] + 1 = sent[c]
<1>1. PICK eof \in {FALSE, atEnd} : last' = [last EXCEPT ![c] = eof]
  BY Zenon DEF ReadChunk
<1>2. last \in [Conns -> BOOLEAN]
  BY DEF TunnelTypeOK
<1>3. eof \in BOOLEAN /\ (eof => atEnd)
  BY <1>1, Zenon
<1> HIDE DEF atEnd
<1>4. /\ last' \in [Conns -> BOOLEAN] /\ last'[c] = eof
      /\ \A d \in Conns : d # c => last'[d] = last[d]
  BY <1>1, <1>2, <1>3, Zenon
<1>5. last'[c] => atEnd
  BY <1>3, <1>4, Zenon
<1>6. /\ half[c] = "read" /\ Readable(c) /\ GotoHalf(c, "write")
      /\ read' = [read EXCEPT ![c] = @ + 1]
      /\ UNCHANGED <<deadlines, peers, written, shut, clean, open>>
  BY Zenon DEF ReadChunk
<1>7. QED  BY <1>4, <1>5, <1>6, Zenon DEF atEnd

LEMMA TunnelInitInv == TunnelInit => TunnelInv
<1> SUFFICES ASSUME TunnelInit PROVE TunnelInv
  OBVIOUS
<1>1. NoDeadline \in Times
  BY TunnelAssumption DEF Times, NoDeadline
<1>2. TunnelTypeOK
  BY <1>1 DEF TunnelInit, TunnelTypeOK, Places
<1>3. \A c \in Conns : Copied(c) /\ Deadlined(c)
  BY OtherConn DEF TunnelInit, Copied, Deadlined
<1>4. QED  BY <1>2, <1>3 DEF TunnelInv

\* The type invariant, one action at a time.
LEMMA TunnelTyped == TunnelTypeOK /\ [TunnelNext]_tvars => TunnelTypeOK'
<1> SUFFICES ASSUME TunnelTypeOK, [TunnelNext]_tvars
             PROVE  TunnelTypeOK'
  OBVIOUS
<1> USE TunnelAssumption
<1>1. CASE Peers
  BY <1>1 DEF Peers, PeerSend, PeerTakes, PeerEnds, TunnelTypeOK, deadlines
<1>2. CASE Tick
  BY <1>2, PassedKeeps DEF Tick, TunnelTypeOK, peers
<1>3. CASE Finish
  BY <1>3 DEF Finish, TunnelTypeOK, peers, deadlines
<1>4. ASSUME NEW c \in Conns, Copy(c)
      PROVE  TunnelTypeOK'
  <2>1. CASE RefreshIdle(c)
    BY <2>1 DEF RefreshIdle, TunnelTypeOK, peers, GotoHalf, Earlier, Times, NoDeadline, Places
  <2>2. CASE ReadChunk(c)
    BY <2>2, ReadLast DEF TunnelTypeOK, peers, deadlines, GotoHalf, Places
  <2>3. CASE ReadEnds(c)
    BY <2>3 DEF ReadEnds, TunnelTypeOK, peers, deadlines, GotoHalf, Places
  <2>4. CASE WriteChunk(c)
    BY <2>4, OtherConn DEF WriteChunk, TunnelTypeOK, peers, deadlines, GotoHalf, Places
  <2>5. CASE WriteFails(c)
    BY <2>5 DEF WriteFails, TunnelTypeOK, peers, deadlines, GotoHalf, Places
  <2>6. CASE CloseWrite(c)
    BY <2>6 DEF CloseWrite, TunnelTypeOK, peers, deadlines, GotoHalf, Places
  <2>7. CASE Arm(c)
    <3>1. \A x \in Conns : Earlier(Linger, idleIn[x]) \in Times
      BY DEF TunnelTypeOK, Earlier, Times, NoDeadline
    <3>2. Linger \in Times
      BY DEF Times, NoDeadline
    <3>3. QED  BY <2>7, <3>1, <3>2 DEF Arm, TunnelTypeOK, peers, deadlines, GotoHalf, Places
  <2>8. QED  BY <1>4, <2>1, <2>2, <2>3, <2>4, <2>5, <2>6, <2>7 DEF Copy
<1>5. CASE UNCHANGED tvars
  BY <1>5 DEF tvars, TunnelTypeOK, peers, deadlines
<1>6. QED  BY <1>1, <1>2, <1>3, <1>4, <1>5 DEF TunnelNext

\* What has been copied, one action at a time. A step of one goroutine leaves
\* what the other one has copied alone.
LEMMA CopiedKept ==
    ASSUME TunnelTypeOK, \A c \in Conns : Copied(c), [TunnelNext]_tvars
    PROVE  \A c \in Conns : Copied(c)'
<1> SUFFICES ASSUME NEW d \in Conns PROVE Copied(d)'
  OBVIOUS
<1> USE OtherConn
<1>1. CASE Peers
  BY <1>1 DEF Peers, PeerSend, PeerTakes, PeerEnds, TunnelTypeOK, Copied
<1>2. CASE Tick \/ Finish \/ UNCHANGED tvars
  BY <1>2 DEF Tick, Finish, tvars, peers, Copied
<1>3. ASSUME NEW c \in Conns, Copy(c)
      PROVE  Copied(d)'
  <2>1. CASE RefreshIdle(c)
    BY <2>1 DEF RefreshIdle, TunnelTypeOK, peers, GotoHalf, Copied, Places
  <2>2. CASE ReadChunk(c)
    BY <2>2, ReadLast DEF TunnelTypeOK, peers, GotoHalf, Copied, Places
  <2>3. CASE ReadEnds(c)
    BY <2>3 DEF ReadEnds, TunnelTypeOK, peers, GotoHalf, Copied, Places
  <2>4. CASE WriteChunk(c)
    BY <2>4 DEF WriteChunk, TunnelTypeOK, peers, GotoHalf, Copied, Places
  <2>5. CASE WriteFails(c)
    BY <2>5 DEF WriteFails, TunnelTypeOK, peers, GotoHalf, Copied, Places
  <2>6. CASE CloseWrite(c)
    BY <2>6 DEF CloseWrite, TunnelTypeOK, peers, GotoHalf, Copied, Places
  <2>7. CASE Arm(c)
    BY <2>7 DEF Arm, TunnelTypeOK, peers, GotoHalf, Copied, Places
  <2>8. QED  BY <1>3, <2>1, <2>2, <2>3, <2>4, <2>5, <2>6, <2>7 DEF Copy
<1>4. QED  BY <1>1, <1>2, <1>3 DEF TunnelNext

\* The deadlines, one action at a time: only a refresh, arming and time touch
\* them.
LEMMA DeadlinedKept ==
    ASSUME TunnelTypeOK, \A c \in Conns : Deadlined(c), [TunnelNext]_tvars
    PROVE  /\ \A c \in Conns : Deadlined(c)'
           /\ \A c \in Conns : ~armed /\ armed' => readIn'[c] <= readIn[c]
<1> SUFFICES ASSUME NEW d \in Conns
             PROVE  Deadlined(d)' /\ (~armed /\ armed' => readIn'[d] <= readIn[d])
  OBVIOUS
<1> USE TunnelAssumption
<1>1. CASE UNCHANGED deadlines
  BY <1>1 DEF deadlines, Deadlined
<1>2. CASE Tick
  BY <1>2, PassedKeeps DEF Tick, TunnelTypeOK, Deadlined
<1>3. ASSUME NEW c \in Conns, RefreshIdle(c)
      PROVE  Deadlined(d)' /\ (~armed /\ armed' => readIn'[d] <= readIn[d])
  BY <1>3 DEF RefreshIdle, TunnelTypeOK, Deadlined, Earlier, Times, NoDeadline
<1>4. ASSUME NEW c \in Conns, Arm(c)
      PROVE  Deadlined(d)' /\ (~armed /\ armed' => readIn'[d] <= readIn[d])
  BY <1>1, <1>4 DEF Arm, TunnelTypeOK, Deadlined, Earlier, Times, NoDeadline
<1>5. QED
  BY <1>1, <1>2, <1>3, <1>4
     DEF TunnelNext, Copy, Peers, PeerSend, PeerTakes, PeerEnds, Finish, ReadChunk, ReadEnds,
         WriteChunk, WriteFails, CloseWrite, tvars

\* The inductive invariant of the tunnel: its types, what each goroutine has
\* copied, and how the deadlines stand to each other.
THEOREM TunnelInvariant == TunnelSpec => []TunnelInv
<1>1. TunnelInv /\ [TunnelNext]_tvars => TunnelInv'
  BY TunnelTyped, CopiedKept, DeadlinedKept DEF TunnelInv
<1>2. QED  BY TunnelInitInv, <1>1, PTL DEF TunnelSpec

\* copyTunnelHalf and handleConnect: a direction that ended because its source
\* closed has delivered everything the source sent.
THEOREM HalfCloseLosesNothing == TunnelSpec => []HalfCloseIsComplete
<1>1. TunnelInv => HalfCloseIsComplete
  BY DEF TunnelInv, Copied, HalfCloseIsComplete
<1>2. QED  BY TunnelInvariant, <1>1, PTL

\* tunnelDeadlines: arming never hands a connection more time than it had, and
\* once armed no refresh reaches beyond the linger bound.
THEOREM TunnelDeadlinesTighten == TunnelSpec => DeadlinesOnlyTighten
<1>1. TunnelInv /\ [TunnelNext]_tvars =>
          [\A c \in Conns : /\ ~armed /\ armed' => readIn'[c] <= readIn[c]
                            /\ armed' => readIn'[c] <= lingerIn']_tvars
  BY DeadlinedKept DEF TunnelInv, Deadlined
<1>2. QED  BY TunnelInvariant, <1>1, PTL DEF TunnelSpec, DeadlinesOnlyTighten
=============================================================================

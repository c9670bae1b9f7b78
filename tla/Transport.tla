----------------------------- MODULE Transport ------------------------------
(***************************************************************************)
(* One connection a client of the channel opens, of each of the four kinds *)
(* the repository has:                                                     *)
(*    connect  ClientProxy: TLS to the gateway, a CONNECT whose answer is  *)
(*             read through a bufio.Reader, then two io.Copy halves;       *)
(*    socks5   dialSOCKS5: two replies read to the byte;                   *)
(*    sse      StreamSSE: dialSOCKS5, then HTTP headers read by the block; *)
(*    aes      AESBridge: TLS to the gateway with WrapConn on top.         *)
(* Whatever the kind, what its user reads from the far end is a Stream.    *)
(*                                                                         *)
(* The far end and the network are external: it answers, refuses or stays  *)
(* silent, and what it sends after its last answer may arrive together     *)
(* with it. Outside "aes" a cell is one byte of an answer (pos 0) or of    *)
(* the tunnelled data.                                                     *)
(***************************************************************************)
EXTENDS WrapConn

CONSTANTS
    Kinds,       \* the kinds of connection
    ReplyLen     \* cells of an answer of the far end

ASSUME TransportAssumption ==
    /\ Kinds \subseteq {"connect", "socks5", "sse", "aes"}
    /\ ReplyLen \in Nat \ {0}

VARIABLES
    kind,
    pc,         \* where the dialling function or the handler is
    conn,       \* none, open or closed
    step,       \* the answer being waited for
    answered,   \* answers the far end has sent
    got,        \* cells of the current answer read so far
    agent,      \* the agent's connection: open or gone
    halves      \* the io.Copy goroutines still running

dvars == <<kind, pc, conn, step, answered, got, agent, halves>>
tvars == <<wvars, dvars>>

\* How each answer of the handshake is read: by io.ReadFull, or by a reader
\* that takes whatever has arrived.
Replies(k) ==
    CASE k = "connect" -> <<"loose">>
      [] k = "socks5" -> <<"exact", "exact">>
      [] k = "sse" -> <<"exact", "exact", "loose">>
      [] k = "aes" -> <<>>

\* A connection of kind k, about to be dialled or, with label "absent", none.
TransportInit(k, label) ==
    /\ WrapInit
    /\ kind = k
    /\ pc = label /\ conn = "none" /\ step = 1 /\ answered = 0 /\ got = 0
    /\ agent = "open" /\ halves = {}

Byte(b) == [rec |-> 0, pos |-> b, intact |-> TRUE]
Answer == [i \in 1..ReplyLen |-> Byte(0)]
Payload(cells) == [i \in 1 .. Len(cells) |-> cells[i].pos]

Goto(label) == pc' = label

-----------------------------------------------------------------------------
\* The far end. After its last answer it sends, closes, or does neither.
FarAnswers ==
    /\ pc = "reply" /\ answered < step
    /\ wire' = wire \o Answer
    /\ answered' = answered + 1
    /\ UNCHANGED <<sending, delivered, status, framing, readBuf, want, tamperCount, fault,
                   kind, pc, conn, step, got, agent, halves>>

HasAnswered == kind # "aes" /\ answered = Len(Replies(kind))

FarSends ==
    /\ HasAnswered /\ conn = "open" /\ ~closed /\ Len(offered) < MaxBytes
    /\ LET b == Len(offered) + 1 IN
           /\ offered' = Append(offered, b)
           /\ wire' = Append(wire, Byte(b))
    /\ accepted' = accepted + 1
    /\ UNCHANGED <<closed, delivered, status, pending, writer, records, framing, readBuf,
                   want, tamperCount, fault, dvars>>

FarCloses ==
    /\ HasAnswered /\ conn = "open" /\ ~closed
    /\ closed' = TRUE
    /\ UNCHANGED <<offered, accepted, delivered, status, pending, writer, records, wire,
                   framing, readBuf, want, tamperCount, fault, dvars>>

AgentLeaves ==
    /\ kind = "connect" /\ agent = "open" /\ pc # "done"
    /\ agent' = "gone"
    /\ UNCHANGED <<wvars, kind, pc, conn, step, answered, got, halves>>

-----------------------------------------------------------------------------
\* Dialling, and the TLS handshake of the two kinds that have one. From here on
\* every return closes the connection itself; those of StreamSSE and of handle
\* leave it to a deferred Close, tls.DialWithDialer to the library.
Dial ==
    /\ pc = "dial"
    /\ \/ /\ conn' = "open"
          /\ Goto(IF kind \in {"connect", "aes"} THEN "tls" ELSE "request")
       \/ pc' = "done" /\ UNCHANGED conn
    /\ UNCHANGED <<wvars, kind, step, answered, got, agent, halves>>

Handshake ==
    /\ pc = "tls"
    /\ \/ pc' = "done" /\ conn' = "closed"
       \/ Goto(IF kind = "aes" THEN "use" ELSE "request") /\ UNCHANGED conn
    /\ UNCHANGED <<wvars, kind, step, answered, got, agent, halves>>

SendRequest ==
    /\ pc = "request"
    /\ \/ pc' = "done" /\ conn' = "closed"
       \/ Goto("reply") /\ UNCHANGED conn
    /\ UNCHANGED <<wvars, kind, step, answered, got, agent, halves>>

\* Faulty variant: what came along with the answer is thrown away.
OverreadDropped(cells) == <<>>

\* The cells a reader took beyond the answer are kept for the first Read:
\* pending of prefixedConn, bodyBuf of streamBodyLines.
Overread(cells) == Payload(cells)

ReadReply ==
    /\ pc = "reply" /\ got < ReplyLen /\ wire # <<>>
    /\ LET missing == ReplyLen - got
           most == IF Replies(kind)[step] = "exact" THEN missing ELSE Len(wire) IN
           \E n \in 1 .. Len(wire) :
               /\ n <= most
               /\ got' = IF n < missing THEN got + n ELSE ReplyLen
               /\ readBuf' = IF n > missing THEN Overread(SubSeq(wire, missing + 1, n)) ELSE readBuf
               /\ wire' = Rest(wire, n)
    /\ UNCHANGED <<sending, delivered, status, framing, want, tamperCount, fault,
                   kind, pc, conn, step, answered, agent, halves>>

\* Faulty variant: one return, that of a refused second answer, forgets Close.
ReplyReadLeaks ==
    /\ pc = "reply" /\ got = ReplyLen
    /\ got' = 0
    /\ \/ pc' = "done" /\ conn' = (IF step = 2 THEN conn ELSE "closed") /\ UNCHANGED step
       \/ /\ step' = step + 1
          /\ Goto(IF step < Len(Replies(kind)) THEN "request"
                  ELSE IF kind = "connect" THEN "hijack" ELSE "use")
          /\ UNCHANGED conn
    /\ UNCHANGED <<wvars, kind, answered, agent, halves>>

\* A whole answer: a refusal, or on to the next request.
ReplyRead ==
    /\ pc = "reply" /\ got = ReplyLen
    /\ got' = 0
    /\ \/ pc' = "done" /\ conn' = "closed" /\ UNCHANGED step
       \/ /\ step' = step + 1
          /\ Goto(IF step < Len(Replies(kind)) THEN "request"
                  ELSE IF kind = "connect" THEN "hijack" ELSE "use")
          /\ UNCHANGED conn
    /\ UNCHANGED <<wvars, kind, answered, agent, halves>>

\* The connection fails before the answer, or the handshake deadline passes.
ReplyFails ==
    /\ pc = "reply" /\ got < ReplyLen
    /\ pc' = "done" /\ conn' = "closed"
    /\ UNCHANGED <<wvars, kind, step, answered, got, agent, halves>>

\* handle: take over the agent's connection and tell it the tunnel is up.
Hijack ==
    /\ pc = "hijack"
    /\ \/ pc' = "done" /\ conn' = "closed" /\ UNCHANGED halves
       \/ Goto("relay") /\ halves' = {"up", "down"} /\ UNCHANGED conn
    /\ UNCHANGED <<wvars, kind, step, answered, got, agent>>

-----------------------------------------------------------------------------
Reading ==
    \/ pc = "use" /\ kind \in {"socks5", "sse"}
    \/ "down" \in halves

\* One Read of the user: the kept bytes first, then the connection.
ReadPlain(n) ==
    /\ Reading /\ status = "open"
    /\ IF readBuf # <<>>
         THEN /\ delivered' = delivered \o First(readBuf, n)
              /\ readBuf' = Rest(readBuf, n)
              /\ UNCHANGED wire
         ELSE /\ wire # <<>>
              /\ delivered' = delivered \o Payload(First(wire, n))
              /\ wire' = Rest(wire, n)
              /\ UNCHANGED readBuf
    /\ UNCHANGED <<sending, status, framing, want, tamperCount, fault, dvars>>

\* The reading side is over: the handler's half ends, another user closes.
ReadingOver(how) ==
    /\ Reading /\ status = "open" /\ status' = how
    /\ IF pc = "use" THEN pc' = "done" /\ conn' = "closed" /\ UNCHANGED halves
       ELSE halves' = halves \ {"down"} /\ UNCHANGED <<pc, conn>>
    /\ UNCHANGED <<sending, delivered, wire, framing, readBuf, want, tamperCount, fault,
                   kind, step, answered, got, agent>>

ReadPlainEOF == readBuf = <<>> /\ wire = <<>> /\ closed /\ ReadingOver("ended")

\* The connection breaks, the write to the agent fails, or the user of a
\* stream has seen [DONE].
ReadPlainStops == ReadingOver("broken")

\* The other copy ends when the agent closes. Nothing is passed on: neither
\* copy half-closes its destination.
UpEOF ==
    /\ "up" \in halves /\ agent = "gone"
    /\ halves' = halves \ {"up"}
    /\ UNCHANGED <<wvars, kind, pc, conn, step, answered, got, agent>>

\* It also ends when the agent writes to a tunnel that is gone.
UpFails ==
    /\ "up" \in halves /\ (status # "open" \/ closed)
    /\ halves' = halves \ {"up"}
    /\ UNCHANGED <<wvars, kind, pc, conn, step, answered, got, agent>>

RelayEnds ==
    /\ pc = "relay" /\ halves = {}
    /\ pc' = "done" /\ conn' = "closed"
    /\ UNCHANGED <<wvars, kind, step, answered, got, agent, halves>>

\* The AES leg: records both ways; a stream that is over is closed.
OnAESLeg == pc = "use" /\ kind = "aes"

OnLeg(A) == OnAESLeg /\ A /\ UNCHANGED dvars

WrapStep == OnLeg(WrapNext)

WrapEnds ==
    /\ OnAESLeg /\ status # "open"
    /\ pc' = "done" /\ conn' = "closed"
    /\ UNCHANGED <<wvars, kind, step, answered, got, agent, halves>>

Far == FarAnswers \/ FarSends \/ FarCloses \/ AgentLeaves
User == Dial \/ Handshake \/ SendRequest \/ ReadReply \/ ReplyRead \/ ReplyFails \/ Hijack
        \/ (\E n \in BufferSizes : ReadPlain(n)) \/ ReadPlainEOF \/ ReadPlainStops
        \/ UpEOF \/ UpFails \/ RelayEnds \/ WrapEnds

TransportNext == Far \/ User \/ WrapStep

\* Goroutines that can go on do. On the AES leg a Write that began goes on,
\* the reader calls again after a timeout, and a deadline does not beat the
\* bytes that are there every time.
TransportFairness ==
    /\ WF_tvars((\E n \in BufferSizes : ReadPlain(n)) \/ ReadPlainEOF)
    /\ WF_tvars(RelayEnds \/ WrapEnds)
    /\ WF_tvars(OnLeg(WriteRecord))
    /\ WF_tvars(OnLeg((\E n \in BufferSizes : CallRead(n)) \/ ParseLength \/ Open))
    /\ SF_tvars(OnLeg(ReadPrefix \/ ReadBody \/ EndOfStream))

-----------------------------------------------------------------------------
\* Read of every kind of connection gives its user the far end's bytes in
\* order: records cut and reassembled, timeouts in the middle of one, small
\* buffers, and bytes that came along with a handshake's answer lose, repeat
\* and reorder nothing, and an end is seen only after all that was written.
S == INSTANCE Stream WITH offered <- offered, accepted <- accepted, closed <- closed,
                          delivered <- delivered, status <- status
ImplementsStream == S!StreamSpec

\* What Write reported as written reaches the other side of the encrypted leg,
\* unless a fault intervenes, whatever the sizes of the payload, of the
\* records and of the reader's buffer, and however often a deadline passes.
AcceptedArrives ==
    \A n \in 1..MaxBytes :
        (kind = "aes" /\ accepted >= n) ~> (Len(delivered) >= n \/ fault)

\* No dialling function and no handler returns with the connection it opened
\* still open, wherever the handshake, the takeover or the copying failed.
ConnsReleased == pc = "done" => conn # "open"
=============================================================================

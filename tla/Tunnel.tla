------------------------------- MODULE Tunnel -------------------------------
(***************************************************************************)
(* One established CONNECT tunnel of the gateway (server.go handleConnect  *)
(* after the 200, copyTunnelHalf, tunnelDeadlines): two goroutines, each   *)
(* copying from one connection into the other, the deadlines they share,   *)
(* the half-close each passes on, and the deferred closes when both are    *)
(* done. A half is named by the connection it reads.                       *)
(*                                                                         *)
(* The peers send, stop, reset, or stop reading whenever they like. A      *)
(* socket takes SocketBuffer chunks before a Write blocks. Every deadline  *)
(* is kept as the time left until it, so no clock is needed; a Read or a   *)
(* Write whose deadline has passed fails even if it could proceed, as it   *)
(* does in package net.                                                    *)
(***************************************************************************)
EXTENDS Integers

CONSTANTS
    Idle,          \* connect.idle_timeout
    Linger,        \* connectLinger
    MaxChunks,     \* bound: chunks each peer sends
    SocketBuffer   \* chunks a socket holds before a Write to it blocks

ASSUME TunnelAssumption ==
    /\ Idle \in Nat \ {0} /\ Linger \in Nat \ {0}
    /\ MaxChunks \in Nat /\ SocketBuffer \in Nat \ {0}

Conns == {"client", "upstream"}
Other(c) == IF c = "client" THEN "upstream" ELSE "client"

\* No deadline set: later than any deadline there is.
NoDeadline == Idle + Linger + 1
Earlier(s, t) == IF s < t THEN s ELSE t

VARIABLES
    readIn,    \* connection -> time left to its read deadline
    writeIn,   \* connection -> time left to its write deadline
    idleIn,    \* connection -> time left to clientIdleAt or upstreamIdleAt
    armed,     \* tunnelDeadlines.armed
    lingerIn,  \* time left to tunnelDeadlines.lingerAt
    sent,      \* connection -> chunks its peer has sent
    ending,    \* connection -> its peer's sending side: open, fin or reset
    taken,     \* connection -> chunks its peer has read
    read,      \* connection -> chunks the gateway has read from it
    written,   \* connection -> chunks the gateway has written to it
    shut,      \* connections the gateway has sent a FIN to (CloseWrite)
    last,      \* half -> the chunk in its buffer came together with EOF
    clean,     \* half -> it ended because its source did (EOF)
    half,      \* half -> where its goroutine is
    open       \* the handler has not returned, so its slot is taken

deadlines == <<readIn, writeIn, idleIn, armed, lingerIn>>
peers == <<sent, ending, taken>>
tvars == <<deadlines, peers, read, written, shut, last, clean, half, open>>

TunnelInit ==
    /\ readIn = [c \in Conns |-> NoDeadline]
    /\ writeIn = [c \in Conns |-> NoDeadline]
    /\ idleIn = [c \in Conns |-> NoDeadline]
    /\ armed = FALSE /\ lingerIn = NoDeadline
    /\ sent = [c \in Conns |-> 0]
    /\ ending = [c \in Conns |-> "open"]
    /\ taken = [c \in Conns |-> 0]
    /\ read = [c \in Conns |-> 0]
    /\ written = [c \in Conns |-> 0]
    /\ shut = {}
    /\ last = [c \in Conns |-> FALSE]
    /\ clean = [c \in Conns |-> FALSE]
    /\ half = [c \in Conns |-> "refresh"]
    /\ open = TRUE

GotoHalf(c, label) == half' = [half EXCEPT ![c] = label]

-----------------------------------------------------------------------------
\* What the peer of connection c does.
PeerSend(c) ==
    /\ open /\ ending[c] = "open" /\ sent[c] < MaxChunks
    /\ sent' = [sent EXCEPT ![c] = @ + 1]
    /\ UNCHANGED <<deadlines, ending, taken, read, written, shut, last, clean, half, open>>

PeerEnds(c, how) ==
    /\ open /\ ending[c] # "reset" /\ ending[c] # how
    /\ ending' = [ending EXCEPT ![c] = how]
    /\ UNCHANGED <<deadlines, sent, taken, read, written, shut, last, clean, half, open>>

PeerTakes(c) ==
    /\ open /\ taken[c] < written[c]
    /\ taken' = [taken EXCEPT ![c] = @ + 1]
    /\ UNCHANGED <<deadlines, sent, ending, read, written, shut, last, clean, half, open>>

Peers == \E c \in Conns : \/ PeerSend(c) \/ PeerTakes(c)
                          \/ \E how \in {"fin", "reset"} : PeerEnds(c, how)

\* One unit of time passes; a deadline that has passed stays so.
Passed(t) == IF t = NoDeadline \/ t = 0 THEN t ELSE t - 1
Tick ==
    /\ open
    /\ readIn' = [c \in Conns |-> Passed(readIn[c])]
    /\ writeIn' = [c \in Conns |-> Passed(writeIn[c])]
    /\ idleIn' = [c \in Conns |-> Passed(idleIn[c])]
    /\ lingerIn' = Passed(lingerIn)
    /\ UNCHANGED <<armed, peers, read, written, shut, last, clean, half, open>>

-----------------------------------------------------------------------------
\* Faulty variant: a refresh after arming pushes the deadline out again.
RefreshUnclamped(c) ==
    /\ half[c] = "refresh"
    /\ idleIn' = [idleIn EXCEPT ![c] = Idle]
    /\ readIn' = [readIn EXCEPT ![c] = Idle]
    /\ GotoHalf(c, "read")
    /\ UNCHANGED <<writeIn, armed, lingerIn, peers, read, written, shut, last, clean, open>>

\* Faulty variant: the deadline is only recorded, never set on the connection.
RefreshOnlyRecords(c) ==
    /\ half[c] = "refresh"
    /\ idleIn' = [idleIn EXCEPT ![c] = IF armed THEN Earlier(Idle, lingerIn) ELSE Idle]
    /\ GotoHalf(c, "read")
    /\ UNCHANGED <<readIn, writeIn, armed, lingerIn, peers, read, written, shut, last, clean, open>>

\* refreshIdle, before every Read.
RefreshIdle(c) ==
    /\ half[c] = "refresh"
    /\ LET at == IF armed THEN Earlier(Idle, lingerIn) ELSE Idle IN
           /\ idleIn' = [idleIn EXCEPT ![c] = at]
           /\ readIn' = [readIn EXCEPT ![c] = at]
    /\ GotoHalf(c, "read")
    /\ UNCHANGED <<writeIn, armed, lingerIn, peers, read, written, shut, last, clean, open>>

Readable(c) == readIn[c] > 0 /\ ending[c] # "reset" /\ read[c] < sent[c]

\* A Read that returns bytes; a TLS connection may return the last ones
\* together with EOF.
ReadChunk(c) ==
    /\ half[c] = "read" /\ Readable(c)
    /\ read' = [read EXCEPT ![c] = @ + 1]
    /\ \E eof \in {FALSE, ending[c] = "fin" /\ read[c] + 1 = sent[c]} :
           last' = [last EXCEPT ![c] = eof]
    /\ GotoHalf(c, "write")
    /\ UNCHANGED <<deadlines, peers, written, shut, clean, open>>

\* A Read that returns nothing: EOF, a reset peer, or the deadline.
ReadEnds(c) ==
    /\ half[c] = "read"
    /\ \/ readIn[c] = 0
       \/ ending[c] = "reset"
       \/ ending[c] = "fin" /\ read[c] = sent[c]
    /\ clean' = [clean EXCEPT ![c] = readIn[c] > 0 /\ ending[c] = "fin"]
    /\ GotoHalf(c, "closewrite")
    /\ UNCHANGED <<deadlines, peers, read, written, shut, last, open>>

\* Faulty variant: the error is looked at before the bytes that came with it.
WriteChunkErrorFirst(c) ==
    /\ half[c] = "write" /\ writeIn[Other(c)] > 0 /\ ending[Other(c)] # "reset"
    /\ written[Other(c)] - taken[Other(c)] < SocketBuffer
    /\ written' = IF last[c] THEN written ELSE [written EXCEPT ![Other(c)] = @ + 1]
    /\ clean' = [clean EXCEPT ![c] = last[c]]
    /\ GotoHalf(c, IF last[c] THEN "closewrite" ELSE "refresh")
    /\ UNCHANGED <<deadlines, peers, read, shut, last, open>>

WriteChunk(c) ==
    /\ half[c] = "write" /\ writeIn[Other(c)] > 0 /\ ending[Other(c)] # "reset"
    /\ written[Other(c)] - taken[Other(c)] < SocketBuffer
    /\ written' = [written EXCEPT ![Other(c)] = @ + 1]
    /\ clean' = [clean EXCEPT ![c] = last[c]]
    /\ GotoHalf(c, IF last[c] THEN "closewrite" ELSE "refresh")
    /\ UNCHANGED <<deadlines, peers, read, shut, last, open>>

WriteFails(c) ==
    /\ half[c] = "write" /\ (writeIn[Other(c)] = 0 \/ ending[Other(c)] = "reset")
    /\ GotoHalf(c, "closewrite")
    /\ UNCHANGED <<deadlines, peers, read, written, shut, last, clean, open>>

\* The half has ended: the other side is told with a FIN.
CloseWrite(c) ==
    /\ half[c] = "closewrite"
    /\ shut' = shut \cup {Other(c)}
    /\ GotoHalf(c, "arm")
    /\ UNCHANGED <<deadlines, peers, read, written, last, clean, open>>

\* arm and tightenLocked: once, on both connections, reads and writes alike.
Arm(c) ==
    /\ half[c] = "arm"
    /\ IF armed THEN UNCHANGED deadlines
       ELSE /\ armed' = TRUE /\ lingerIn' = Linger
            /\ readIn' = [x \in Conns |-> Earlier(Linger, idleIn[x])]
            /\ writeIn' = [x \in Conns |-> Earlier(Linger, idleIn[x])]
            /\ UNCHANGED idleIn
    /\ GotoHalf(c, "done")
    /\ UNCHANGED <<peers, read, written, shut, last, clean, open>>

\* wg.Wait returns: both connections are closed and the slot is given back.
Finish ==
    /\ open /\ \A c \in Conns : half[c] = "done"
    /\ open' = FALSE
    /\ UNCHANGED <<deadlines, peers, read, written, shut, last, clean, half>>

Copy(c) == \/ RefreshIdle(c) \/ ReadChunk(c) \/ ReadEnds(c) \/ WriteChunk(c)
           \/ WriteFails(c) \/ CloseWrite(c) \/ Arm(c)

TunnelNext == Peers \/ Tick \/ Finish \/ \E c \in Conns : Copy(c)

\* Goroutines that can run do, and time passes. Nothing is asked of the peers.
TunnelSpec ==
    /\ TunnelInit /\ [][TunnelNext]_tvars
    /\ WF_tvars(Tick) /\ WF_tvars(Finish) /\ \A c \in Conns : WF_tvars(Copy(c))

-----------------------------------------------------------------------------
\* An ordinary half-close loses nothing: when a direction ended because its
\* source closed, everything the source sent was written to the other side
\* before that side was sent the FIN (copyTunnelHalf, handleConnect).
HalfCloseIsComplete ==
    \A c \in Conns : clean[c] => written[Other(c)] = sent[c]

\* The two bounds never fight: arming never hands a connection more time than
\* it had, and once the linger bound is armed no read deadline of either
\* connection lies beyond it, whichever goroutine refreshes when.
DeadlinesOnlyTighten ==
    [][\A c \in Conns : /\ ~armed /\ armed' => readIn'[c] <= readIn[c]
                        /\ armed' => readIn'[c] <= lingerIn']_tvars

BothWritesBlocked == \A c \in Conns : half[c] = "write" /\ ~ENABLED WriteChunk(c)

\* A tunnel both of whose peers fall silent is reaped. So is one that is half
\* over, whether its other peer ignores the FIN, keeps sending or stops reading:
\* a half that is done is not in Write. The exception is real: no deadline
\* bounds a Write before the first direction is over, so two peers that both
\* stop reading keep the slot.
SilentTunnelEnds == <>~open \/ <>[]BothWritesBlocked
=============================================================================

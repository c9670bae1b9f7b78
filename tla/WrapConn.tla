------------------------------ MODULE WrapConn ------------------------------
(***************************************************************************)
(* One direction of an encrypted connection (crypto/wrap.go): the writer   *)
(* cuts a payload into records of at most MaxFrame bytes, each behind a    *)
(* length prefix; the reader gathers a record across any number of Read    *)
(* calls, checks it, and hands it out in pieces the caller's buffer takes. *)
(*                                                                         *)
(* The wire is a sequence of cells. Cells 1..Prefix of a record are its    *)
(* length prefix, the others its sealed body: Sealing cells of nonce and   *)
(* tag, and one per byte of plaintext. The seal opens exactly for an       *)
(* undamaged whole body. Reads of several cells are several steps of one.  *)
(*                                                                         *)
(* Faults: a read deadline may pass at any time, a Write may fail after    *)
(* any part of a record, the connection may be reset, and a cell may be    *)
(* damaged on the way. As every caller in the repository does, the reader  *)
(* reads on after a timeout and closes after any other error, and the      *)
(* writer closes after an error.                                           *)
(***************************************************************************)
EXTENDS Naturals, Sequences, SequencesExt

CONSTANTS
    MaxFrame,     \* maxFrame: plaintext bytes per record
    Prefix,       \* cells of the length prefix
    Sealing,      \* cells nonce and tag add to a record
    WriteSizes,   \* payload sizes of a Write
    BufferSizes,  \* buffer sizes of a Read
    MaxBytes,     \* bound: bytes written in all
    MaxRecords    \* bound: records written in all

ASSUME WrapConnAssumption ==
    /\ MaxFrame \in Nat \ {0} /\ Prefix \in Nat \ {0} /\ Sealing \in Nat \ {0}
    /\ WriteSizes \subseteq Nat /\ BufferSizes \subseteq Nat \ {0}
    /\ MaxBytes \in Nat /\ MaxRecords \in Nat

MaxRecord == Sealing + MaxFrame

VARIABLES
    offered, accepted, closed, delivered, status,   \* as in Stream
    pending,    \* the rest of the payload Write is working on
    writer,     \* idle, writing or failed
    records,    \* the plaintext of every record begun, in order
    wire,       \* cells on their way
    hdr,        \* prefix cells read so far (hdr, hdrN)
    frameLen,   \* length of the record being assembled, 0 while frame is nil
    frame,      \* its cells so far (frame, frameN)
    readBuf,    \* plaintext of a record that did not fit the caller's buffer
    want,       \* buffer size of the Read in progress, 0 outside one
    tamperCount,
    fault       \* a cell was damaged, a write failed or the connection reset

wvars == <<offered, accepted, closed, delivered, status, pending, writer, records,
           wire, hdr, frameLen, frame, readBuf, want, tamperCount, fault>>
sending == <<offered, accepted, closed, pending, writer, records>>
framing == <<hdr, frameLen, frame>>

WrapInit ==
    /\ offered = <<>> /\ accepted = 0 /\ closed = FALSE
    /\ delivered = <<>> /\ status = "open"
    /\ pending = <<>> /\ writer = "idle" /\ records = <<>>
    /\ wire = <<>> /\ hdr = <<>> /\ frameLen = 0 /\ frame = <<>>
    /\ readBuf = <<>> /\ want = 0 /\ tamperCount = 0 /\ fault = FALSE

First(s, n) == SubSeq(s, 1, IF n < Len(s) THEN n ELSE Len(s))
Rest(s, n) == SubSeq(s, n + 1, Len(s))

-----------------------------------------------------------------------------
\* Write(p): the next n bytes.
BeginWrite(n) ==
    /\ writer = "idle" /\ ~closed
    /\ Len(offered) + n <= MaxBytes /\ Len(records) < MaxRecords
    /\ LET p == [i \in 1..n |-> Len(offered) + i] IN
           /\ pending' = p
           /\ offered' = offered \o p
    /\ writer' = "writing"
    /\ UNCHANGED <<accepted, closed, delivered, status, records, wire, framing,
                   readBuf, want, tamperCount, fault>>

\* The part of a payload that goes into the next record.
Chunk(p) == First(p, MaxFrame)

\* The cells of record number r with the given plaintext.
Sealed(r, chunk) ==
    [i \in 1 .. Prefix + Sealing + Len(chunk) |-> [rec |-> r, pos |-> i, intact |-> TRUE]]

\* writeRecord, and the end of Write when it was the last chunk.
WriteRecord ==
    /\ writer = "writing"
    /\ LET chunk == Chunk(pending)
           rest == Rest(pending, Len(chunk)) IN
           /\ records' = Append(records, chunk)
           /\ wire' = wire \o Sealed(Len(records) + 1, chunk)
           /\ pending' = rest
           /\ writer' = IF rest = <<>> THEN "idle" ELSE "writing"
           /\ accepted' = IF rest = <<>> THEN Len(offered) ELSE accepted
    /\ UNCHANGED <<offered, closed, delivered, status, framing, readBuf, want,
                   tamperCount, fault>>

\* The underlying Write fails after part of the record: the records before it
\* are reported as written, and the caller closes.
WriteFails ==
    /\ writer = "writing"
    /\ LET chunk == Chunk(pending)
           cells == Sealed(Len(records) + 1, chunk) IN
           /\ records' = Append(records, chunk)
           /\ \E n \in 0 .. Len(cells) - 1 : wire' = wire \o First(cells, n)
    /\ accepted' = Len(offered) - Len(pending)
    /\ pending' = <<>> /\ writer' = "failed" /\ fault' = TRUE
    /\ UNCHANGED <<offered, closed, delivered, status, framing, readBuf, want, tamperCount>>

WriterCloses ==
    /\ writer \in {"idle", "failed"} /\ ~closed
    /\ closed' = TRUE
    /\ UNCHANGED <<offered, accepted, delivered, status, pending, writer, records, wire,
                   framing, readBuf, want, tamperCount, fault>>

-----------------------------------------------------------------------------
\* Read(p) with a buffer of n bytes: what is left of the last record first.
CallRead(n) ==
    /\ status = "open" /\ want = 0
    /\ IF readBuf # <<>>
         THEN /\ delivered' = delivered \o First(readBuf, n)
              /\ readBuf' = Rest(readBuf, n)
              /\ UNCHANGED want
         ELSE /\ want' = n
              /\ UNCHANGED <<delivered, readBuf>>
    /\ UNCHANGED <<sending, status, wire, framing, tamperCount, fault>>

ReadingPrefix == want > 0 /\ Len(hdr) < Prefix
ReadingBody == want > 0 /\ frameLen > 0 /\ Len(frame) < frameLen

ReadPrefix ==
    /\ ReadingPrefix /\ wire # <<>>
    /\ hdr' = Append(hdr, Head(wire)) /\ wire' = Tail(wire)
    /\ UNCHANGED <<sending, delivered, status, frameLen, frame, readBuf, want, tamperCount, fault>>

\* What the prefix says: the record's length, or anything if it is damaged or
\* not a prefix at all.
IsPrefixOf(r, cells) == cells = [i \in 1..Prefix |-> [rec |-> r, pos |-> i, intact |-> TRUE]]
Lengths(cells) ==
    LET genuine == {r \in DOMAIN records : IsPrefixOf(r, cells)} IN
    IF genuine # {} THEN {Sealing + Len(records[r]) : r \in genuine} ELSE 0 .. MaxRecord + 1

resetFraming == hdr' = <<>> /\ frameLen' = 0 /\ frame' = <<>>

\* The reader gets an error that is not a timeout, and gives the stream up.
Fail(how, counted) ==
    /\ resetFraming
    /\ status' = how /\ want' = 0
    /\ tamperCount' = tamperCount + counted
    /\ UNCHANGED <<sending, delivered, readBuf, fault>>

LengthInBounds(n) == n >= Sealing /\ n <= MaxRecord

ParseLength ==
    /\ want > 0 /\ Len(hdr) = Prefix /\ frameLen = 0
    /\ UNCHANGED wire
    /\ \E n \in Lengths(hdr) :
           \/ /\ LengthInBounds(n)
              /\ frameLen' = n /\ frame' = <<>>
              /\ UNCHANGED <<sending, delivered, status, hdr, readBuf, want, tamperCount, fault>>
           \/ /\ ~LengthInBounds(n)
              /\ Fail("broken", 1)

ReadBody ==
    /\ ReadingBody /\ wire # <<>>
    /\ frame' = Append(frame, Head(wire)) /\ wire' = Tail(wire)
    /\ UNCHANGED <<sending, delivered, status, hdr, frameLen, readBuf, want, tamperCount, fault>>

\* The records whose sealed body the assembled cells are.
Openable(cells) ==
    {r \in DOMAIN records :
        cells = [i \in 1 .. Sealing + Len(records[r]) |->
                    [rec |-> r, pos |-> Prefix + i, intact |-> TRUE]]}

\* The whole record is here: open it, return what fits and keep the rest.
Open ==
    /\ want > 0 /\ frameLen > 0 /\ Len(frame) = frameLen
    /\ UNCHANGED wire
    /\ IF Openable(frame) = {} THEN Fail("broken", 1)
       ELSE \E r \in Openable(frame) :
                /\ delivered' = delivered \o First(records[r], want)
                /\ readBuf' = Rest(records[r], want)
                /\ resetFraming
                /\ want' = 0
                /\ UNCHANGED <<sending, status, tamperCount, fault>>

\* Faulty variant: a timeout starts the record afresh.
TimeoutResets ==
    /\ ReadingPrefix \/ ReadingBody
    /\ want' = 0 /\ resetFraming
    /\ UNCHANGED <<sending, delivered, status, wire, readBuf, tamperCount, fault>>

\* A read deadline passes: the framing stays where it is for the next call.
\* The caller makes it, or gives the connection up, as net/http does when a
\* request's headers are late.
Timeout ==
    /\ ReadingPrefix \/ ReadingBody
    /\ want' = 0
    /\ \/ UNCHANGED <<status, fault>>
       \/ status' = "broken" /\ fault' = TRUE
    /\ UNCHANGED <<sending, delivered, wire, framing, readBuf, tamperCount>>

\* The writer's side has ended. Between records or inside a prefix the error
\* wraps io.EOF: an end to a caller that uses errors.Is, a failure to one that
\* compares. Inside a body it is a short frame, counted as tampering.
EndOfStream ==
    /\ ReadingPrefix \/ ReadingBody
    /\ wire = <<>> /\ closed
    /\ \/ ReadingPrefix /\ \E how \in {"ended", "broken"} : Fail(how, 0)
       \/ ReadingBody /\ Fail("broken", 1)
    /\ UNCHANGED wire

-----------------------------------------------------------------------------
\* The network damages a cell, once.
Damage ==
    /\ ~fault
    /\ \E i \in DOMAIN wire : wire' = [wire EXCEPT ![i].intact = FALSE]
    /\ fault' = TRUE
    /\ UNCHANGED <<sending, delivered, status, framing, readBuf, want, tamperCount>>

\* The connection is reset: the Read in progress fails and what was on the way
\* is lost. It counts as tampering inside a body only.
Reset ==
    /\ ReadingPrefix \/ ReadingBody
    /\ hdr' = <<>> /\ frameLen' = 0 /\ frame' = <<>>
    /\ wire' = <<>> /\ status' = "broken" /\ want' = 0 /\ fault' = TRUE
    /\ tamperCount' = tamperCount + (IF ReadingBody THEN 1 ELSE 0)
    /\ UNCHANGED <<sending, delivered, readBuf>>

Write == (\E n \in WriteSizes : BeginWrite(n)) \/ WriteRecord
Read == (\E n \in BufferSizes : CallRead(n)) \/ ReadPrefix \/ ParseLength
        \/ ReadBody \/ Open \/ EndOfStream

WrapNext == Write \/ Read \/ WriteFails \/ WriterCloses \/ Timeout \/ Damage \/ Reset
=============================================================================

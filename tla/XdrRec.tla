------------------------------- MODULE XdrRec -------------------------------
(***************************************************************************)
(* Record marking for RPC over TCP: librpc/xdr_rec.c, between the writing  *)
(* side of a connection (clnttcp_call with batched calls) and the reading  *)
(* loop of the server (svc_tcp.c, svc_getreqset), or a client that keeps   *)
(* using its handle after a timeout.                                       *)
(*                                                                         *)
(* A byte on the wire is <<"d", rec, i>>, the i-th data byte of a record,  *)
(* or <<"h", len, last, rec, from, i>>, the i-th byte of the header of a   *)
(* fragment that begins with byte from of a record; the code has len and   *)
(* last of it.  A header is Unit bytes long, as is everything xdr encodes. *)
(***************************************************************************)
EXTENDS Integers, Sequences, SequencesExt

CONSTANTS Unit,         \* BYTES_PER_XDR_UNIT
          SendSize, RecvSize,
          MaxRecord,    \* bound: records written
          MaxLen,       \* bound: the data bytes of one
          Fatal         \* a failed read closes the connection, as in the server

ASSUME XdrRecAssumption ==
  /\ Unit \in Nat \ {0} /\ MaxRecord \in Nat /\ MaxLen \in Nat /\ Fatal \in BOOLEAN
  /\ \A size \in {SendSize, RecvSize} : size \in Nat /\ size >= 3 * Unit /\ size % Unit = 0

VARIABLES w,      \* the writer: its buffer, the place of the fragment header, the record
          wire,   \* written and not yet read
          r,      \* the reader's buffer and what it is doing
          sizes,  \* the data bytes of each record ended so far
          shipped \* the records whose last fragment has been written

xvars == <<w, wire, r, sizes, shipped>>

XInit ==
  /\ w = [out |-> <<>>, frag |-> 0, frag_sent |-> FALSE, len |-> 0]
  /\ wire = <<>> /\ sizes = <<>> /\ shipped = 0
  /\ r = [buf |-> <<>>, align |-> 0, fbtbc |-> 0, last_frag |-> TRUE, header |-> <<>>,
          op |-> "idle", phase |-> "top", left |-> 0, size |-> 0, piece |-> 0,
          rec |-> 0, got |-> 0, failed |-> FALSE, sync |-> TRUE]

-----------------------------------------------------------------------------
(* The writer.  out is the buffer up to out_finger without the header of   *)
(* the current fragment, which belongs before out[frag + 1].               *)

Finger(x) == Len(x.out) + Unit

(* The data bytes of the current fragment. *)
FragLen(x) == Len(x.out) - x.frag

Header(x, last) ==
  [i \in 1 .. Unit |-> <<"h", FragLen(x), last, Len(sizes) + 1, x.len - FragLen(x) + 1, i>>]

(* The buffer with the header filled in. *)
Marked(x, last) ==
  SubSeq(x.out, 1, x.frag) \o Header(x, last) \o SubSeq(x.out, x.frag + 1, Len(x.out))

Flushed(x) == [x EXCEPT !.out = <<>>, !.frag = 0]

Put(x, n) == [x EXCEPT !.out = @ \o [i \in 1 .. n |-> <<"d", Len(sizes) + 1, x.len + i>>],
                       !.len = @ + n]

(* Mutant: a full buffer is taken for the end of the record. *)
PutBytesEnd(n) ==
  /\ w.len + n <= MaxLen /\ Len(sizes) < MaxRecord
  /\ LET fits == IF n < SendSize - Finger(w) THEN n ELSE SendSize - Finger(w)
         full == Put(w, fits)
     IN  IF Finger(full) < SendSize THEN w' = full /\ UNCHANGED wire
         ELSE /\ wire' = wire \o Marked(full, TRUE)
              /\ w' = [Put(Flushed(full), n - fits) EXCEPT !.frag_sent = TRUE]
  /\ UNCHANGED <<r, sizes, shipped>>

(* xdrrec_putbytes, of less than a buffer: a full buffer goes out as a     *)
(* fragment that is not the last.                                          *)
PutBytes(n) ==
  /\ w.len + n <= MaxLen /\ Len(sizes) < MaxRecord
  /\ LET fits == IF n < SendSize - Finger(w) THEN n ELSE SendSize - Finger(w)
         full == Put(w, fits)
     IN  IF Finger(full) < SendSize THEN w' = full /\ UNCHANGED wire
         ELSE /\ wire' = wire \o Marked(full, FALSE)
              /\ w' = [Put(Flushed(full), n - fits) EXCEPT !.frag_sent = TRUE]
  /\ UNCHANGED <<r, sizes, shipped>>

(* xdrrec_putlong *)
PutLong ==
  /\ w.len + Unit <= MaxLen /\ Len(sizes) < MaxRecord
  /\ IF Finger(w) + Unit <= SendSize THEN w' = Put(w, Unit) /\ UNCHANGED wire
     ELSE /\ wire' = wire \o Marked(w, FALSE)
          /\ w' = [Put(Flushed(w), Unit) EXCEPT !.frag_sent = TRUE]
  /\ UNCHANGED <<r, sizes, shipped>>

(* Mutant: no room is kept for the header of the next record. *)
EndOfRecordFull(sendnow) ==
  /\ w.len > 0 /\ w.len % Unit = 0
  /\ sizes' = Append(sizes, w.len)
  /\ IF sendnow \/ w.frag_sent
     THEN /\ wire' = wire \o Marked(w, TRUE)
          /\ w' = [Flushed(w) EXCEPT !.frag_sent = FALSE, !.len = 0]
          /\ shipped' = Len(sizes')
     ELSE /\ w' = [w EXCEPT !.out = Marked(w, TRUE), !.frag = Len(w.out) + Unit, !.len = 0]
          /\ UNCHANGED <<wire, shipped>>
  /\ UNCHANGED r

(* xdrrec_endofrecord: send, or begin the next record in the same buffer. *)
EndOfRecord(sendnow) ==
  /\ w.len > 0 /\ w.len % Unit = 0
  /\ sizes' = Append(sizes, w.len)
  /\ IF sendnow \/ w.frag_sent \/ Finger(w) + Unit >= SendSize
     THEN /\ wire' = wire \o Marked(w, TRUE)
          /\ w' = [Flushed(w) EXCEPT !.frag_sent = FALSE, !.len = 0]
          /\ shipped' = Len(sizes')
     ELSE /\ w' = [w EXCEPT !.out = Marked(w, TRUE), !.frag = Len(w.out) + Unit, !.len = 0]
          /\ UNCHANGED <<wire, shipped>>
  /\ UNCHANGED r

-----------------------------------------------------------------------------
(* The reader.  op is the function that is running: skip (skiprecord, by   *)
(* svctcp_recv), get (getbytes or getlong), eof (by svctcp_stat); ready is *)
(* the code that decodes.  phase is where its loop is; left what get still *)
(* wants, size the piece of the fragment that it is reading or skipping    *)
(* and piece what is missing of that, header the header read so far.       *)

Skipping == r.op \in {"skip", "eof"}

Reader(next) == r' = next /\ UNCHANGED <<w, wire, sizes, shipped>>

(* fill_input_buf: the bytes go behind the odd ones of the last buffer. *)
Fill ==
  /\ r.buf = <<>> /\ r.phase # "top" /\ wire # <<>>
  /\ \E n \in 1 .. (IF Len(wire) < RecvSize - r.align THEN Len(wire) ELSE RecvSize - r.align) :
       /\ r' = [r EXCEPT !.buf = SubSeq(wire, 1, n), !.align = (@ + n) % Unit]
       /\ wire' = SubSeq(wire, n + 1, Len(wire))
  /\ UNCHANGED <<w, sizes, shipped>>

(* readtcp fails: the server's connection is dead; a client returns from   *)
(* the call and may make another.                                          *)
ReadFails ==
  /\ r.buf = <<>> /\ r.phase # "top"
  /\ Reader([r EXCEPT !.op = IF Fatal THEN "dead" ELSE "idle", !.phase = "top", !.header = <<>>])

(* get_input_bytes or skip_input_bytes take what the buffer has of the     *)
(* piece; fbtbc is brought up to date when all of the piece was had.       *)
Piece ==
  /\ r.phase = "piece" /\ r.buf # <<>>
  /\ LET n    == IF r.piece < Len(r.buf) THEN r.piece ELSE Len(r.buf)
         done == n = r.piece
     IN  Reader([r EXCEPT !.buf = SubSeq(@, n + 1, Len(@)), !.piece = @ - n,
                   !.fbtbc = IF done THEN @ - r.size ELSE @,
                   !.left = IF done /\ ~Skipping THEN @ - r.size ELSE @,
                   !.phase = IF done THEN "top" ELSE "piece",
                   !.got = IF Skipping THEN @ ELSE @ + n,
                   !.sync = @ /\ \A i \in 1 .. n :
                     /\ r.buf[i][1] = "d" /\ r.buf[i][2] = r.rec
                     /\ Skipping \/ r.buf[i][3] = r.got + i])

(* set_input_fragment reads the header; 0 is refused. *)
ReadHeader ==
  /\ r.phase = "header" /\ r.buf # <<>>
  /\ LET n == IF Unit - Len(r.header) < Len(r.buf) THEN Unit - Len(r.header) ELSE Len(r.buf)
         h == r.header \o SubSeq(r.buf, 1, n)
         t == [r EXCEPT !.buf = SubSeq(@, n + 1, Len(@)), !.header = h]
     IN  \/ Len(h) < Unit /\ Reader(t)
         \/ /\ Len(h) = Unit /\ \A i \in 1 .. Unit : h[i][1] = "h" /\ h[i][6] = i
            /\ IF h[1][2] = 0 /\ ~h[1][3]
               THEN Reader([t EXCEPT !.header = <<>>, !.last_frag = FALSE, !.phase = "top",
                              !.op = "dead"])
               ELSE Reader([t EXCEPT !.header = <<>>, !.phase = "top", !.fbtbc = h[1][2],
                              !.last_frag = h[1][3]])
         \/ /\ Len(h) = Unit /\ \E i \in 1 .. Unit : h[i][1] # "h" \/ h[i][6] # i
            /\ Reader([t EXCEPT !.sync = FALSE, !.op = "dead"])

Begin(size) == [r EXCEPT !.phase = "piece", !.size = size, !.piece = size]

(* The loop of xdrrec_getbytes. *)
GetLoop ==
  /\ r.op = "get" /\ r.phase = "top"
  /\ Reader(IF r.left = 0 THEN [r EXCEPT !.op = "ready"]
            ELSE IF r.fbtbc > 0 THEN Begin(IF r.left < r.fbtbc THEN r.left ELSE r.fbtbc)
            ELSE IF r.last_frag THEN [r EXCEPT !.op = "eof", !.failed = TRUE]
            ELSE [r EXCEPT !.phase = "header"])

(* Mutant: the end of a fragment is taken for the end of the record. *)
SkipLoopShort ==
  /\ Skipping /\ r.phase = "top"
  /\ Reader(IF r.fbtbc > 0 THEN Begin(r.fbtbc)
            ELSE IF r.op = "skip"
            THEN [r EXCEPT !.op = "ready", !.last_frag = FALSE, !.rec = @ + 1, !.got = 0, !.failed = FALSE]
            ELSE [r EXCEPT !.op = IF r.buf = <<>> THEN "idle" ELSE "skip"])

(* Mutant: what is in the buffer is left there until more comes. *)
SkipLoopIdle ==
  /\ Skipping /\ r.phase = "top"
  /\ Reader(IF r.fbtbc > 0 THEN Begin(r.fbtbc)
            ELSE IF ~r.last_frag THEN [r EXCEPT !.phase = "header"]
            ELSE IF r.op = "skip"
            THEN [r EXCEPT !.op = "ready", !.last_frag = FALSE, !.rec = @ + 1, !.got = 0, !.failed = FALSE]
            ELSE [r EXCEPT !.op = "idle"])

(* The loop of xdrrec_skiprecord and xdrrec_eof to the end of the record.  *)
(* Then the next one may be read; or the server looks whether the buffer   *)
(* holds more, in which case it receives again.                            *)
SkipLoop ==
  /\ Skipping /\ r.phase = "top"
  /\ Reader(IF r.fbtbc > 0 THEN Begin(r.fbtbc)
            ELSE IF ~r.last_frag THEN [r EXCEPT !.phase = "header"]
            ELSE IF r.op = "skip"
            THEN [r EXCEPT !.op = "ready", !.last_frag = FALSE, !.rec = @ + 1, !.got = 0, !.failed = FALSE]
            ELSE [r EXCEPT !.op = IF r.buf = <<>> THEN "idle" ELSE "skip"])

(* The socket is readable, or the client makes its next call. *)
Readable ==
  /\ r.op = "idle" /\ wire # <<>>
  /\ Reader([r EXCEPT !.op = "skip"])

(* The decoding asks for n bytes, or is content. *)
Get(n) == r.op = "ready" /\ Reader([r EXCEPT !.op = "get", !.left = n])
DecodingDone == r.op = "ready" /\ Reader([r EXCEPT !.op = "eof"])

-----------------------------------------------------------------------------
Reading == Fill \/ Piece \/ ReadHeader \/ GetLoop \/ SkipLoop \/ Readable

XNext ==
  \/ PutLong \/ \E n \in 1 .. Unit + 1 : PutBytes(n)
  \/ \E sendnow \in BOOLEAN : EndOfRecord(sendnow)
  \/ Reading \/ ReadFails \/ DecodingDone \/ \E n \in {1, Unit + 1} : Get(n)

(* The server's loop runs, and no dispatch routine decodes for ever. *)
XFairness == WF_xvars(Reading) /\ SF_xvars(DecodingDone)

XSpec == XInit /\ [][XNext]_xvars /\ XFairness

-----------------------------------------------------------------------------
(* Properties.                                                             *)

XTypeOK ==
  /\ Finger(w) <= SendSize /\ w.frag <= Len(w.out) /\ w.len \in 0 .. MaxLen
  /\ r.op \in {"idle", "ready", "get", "skip", "eof", "dead"}
  /\ r.phase \in {"top", "piece", "header"}
  /\ r.align \in 0 .. Unit - 1 /\ Len(r.buf) <= RecvSize /\ r.fbtbc \in 0 .. SendSize
  /\ r.piece \in 0 .. r.size /\ Len(r.header) \in 0 .. Unit /\ shipped <= Len(sizes)

(* The bytes decoded are those of the record that is being read, in order, *)
(* whatever the fragments, the batches and the short reads: a header is    *)
(* never taken for data or data for a header.                              *)
(* xdr_rec.c:508 "one should always call this procedure to guarantee       *)
(* proper record alignment".                                               *)
RecordAligned == r.sync

(* xdrrec_getbytes runs out of data only at the end of the record. *)
FailsAtEnd == r.failed => r.rec <= Len(sizes) /\ r.got = sizes[r.rec]

(* The writer never makes an empty fragment that is not the last, which    *)
(* set_input_fragment would refuse.                                        *)
FragmentsTaken == \A i \in 1 .. Len(wire) : wire[i][1] = "h" /\ wire[i][2] = 0 => wire[i][3]

(* No request that has been sent is forgotten in the server's buffer, when *)
(* its select reports only what is still in the socket.                    *)
RecordsServed ==
  \A k \in 1 .. MaxRecord : shipped >= k ~> (r.rec >= k \/ r.op = "dead")

(* However the stream is cut, the reader gets the records that were        *)
(* written.                                                                *)
RecordsRight == XTypeOK /\ RecordAligned /\ FailsAtEnd /\ FragmentsTaken
=============================================================================

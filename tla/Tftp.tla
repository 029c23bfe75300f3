-------------------------------- MODULE Tftp --------------------------------
(* The TFTP client of the PXE file system: tftp_open and tftp_get_packet of  *)
(* core/fs/pxe/tftp.c, pxe_getfssec, pxe_searchdir and pxe_close_file of     *)
(* core/fs/pxe/pxe.c, called by pmapi_read_file of core/fs/fs.c, over the    *)
(* UDP sockets of core/fs/pxe/core.c.  The network loses, repeats and        *)
(* reorders packets.  The server is external: it answers a request from a    *)
(* port of its own (a transfer id), sends the next block when the last one   *)
(* is acknowledged and sends the last one again when it likes.               *)
(*                                                                           *)
(* A byte of the file is its place in it, and a "block" of sizes below is    *)
(* counted in such bytes: TFTP_BLOCKSIZE bytes without options, OackBlksize  *)
(* with them.                                                                *)
EXTENDS Integers, Sequences, SequencesExt, FiniteSetsExt

CONSTANTS
    FileLens,        \* lengths of the file on the server
    Answers,         \* how a server answers: "oack", "padded", "data", "error"
    TFTP_BLOCKSIZE,  \* 512
    OackBlksize,     \* 1408
    SerialMod,       \* block numbers are modulo 2^16
    Retries,         \* entries of TimeoutTable before its 0
    PXERetry,        \* times pxe_searchdir tries again
    Reads,           \* sectors asked for in one read
    Tids,            \* the server's ports
    Cap              \* packets under way in each direction, and in the mailbox

ASSUME TftpAssumption ==
    /\ FileLens \subseteq Nat /\ Answers \subseteq {"oack", "padded", "data", "error"}
    /\ {TFTP_BLOCKSIZE, OackBlksize, Retries, Cap} \subseteq Nat \ {0}
    /\ SerialMod \in Nat \ {0, 1} /\ PXERetry \in Nat
    /\ Reads \subseteq Nat \ {0} /\ Tids \subseteq Nat \ {0}

VARIABLES
    file,     \* the file the server has: <<1, 2, ...>>
    sess,     \* the server's transfers, by transfer id
    toS, toC, \* packets under way to the server and to the client
    mbox,     \* packets received for the client's socket
    phase,    \* where the client is
    attempt,  \* rounds of pxe_searchdir used, also the client's port
    conn,     \* the socket: NoConn, AnyTid or the transfer id it is connected to
    tries,    \* position in TimeoutTable
    inode,    \* struct inode and struct pxe_pvt_inode
    count,    \* bytes pxe_getfssec has still to copy
    back,     \* where tftp_get_packet returns to in pxe_getfssec
    out       \* bytes the reader has been given

client == <<phase, attempt, conn, tries, inode, count, back, out>>
vars == <<file, sess, toS, toC, mbox, client>>

NoConn == -1
AnyTid == 0

\* inode->size = -1: above any length
UNKNOWN == Max(FileLens) + TFTP_BLOCKSIZE + OackBlksize

Noinode == [size |-> 0, filepos |-> 0, blksize |-> 0, lastpkt |-> 0,
            left |-> <<>>, goteof |-> FALSE, pktbuf |-> 0]

(***************************************************************************)
(* Packets and the network                                                 *)
(***************************************************************************)

Blocks(bs) == Len(file) \div bs + 1

Block(b, bs) == SubSeq(file, (b - 1) * bs + 1, Min({b * bs, Len(file)}))

\* what does not fit is lost
PutAll(q, ms) == SubSeq(q \o ms, 1, Min({Cap, Len(q \o ms)}))
Put(q, m) == PutAll(q, <<m>>)

\* core_udp_send and core_udp_sendto: a packet that cannot be sent is lost
Send(m) == toS' = Put(toS, m)

Ack(n) == [op |-> "ack", tid |-> conn, serial |-> n, port |-> attempt]

Error == [op |-> "error", tid |-> conn, serial |-> 0, port |-> attempt]

Request == [op |-> "rrq", tid |-> 0, serial |-> 0, port |-> attempt]

\* the packet leaves the network, or a copy of it stays behind
Taken(q, i) == {q, RemoveAt(q, i)}

LoseToServer ==
    /\ \E i \in DOMAIN toS : toS' = RemoveAt(toS, i)
    /\ UNCHANGED <<file, sess, toC, mbox, client>>

LoseToClient ==
    /\ \E i \in DOMAIN toC : toC' = RemoveAt(toC, i)
    /\ UNCHANGED <<file, sess, toS, mbox, client>>

\* udp_input: a packet is for the socket that is bound to its port, and for a
\* connected socket only if it comes from the other end
ForSocket(m) == m.port = attempt /\ conn # NoConn /\ conn \in {AnyTid, m.tid}

\* recv_udp posts it; a packet that does not fit is dropped
Arrive ==
    /\ \E i \in DOMAIN toC :
        /\ toC' \in Taken(toC, i)
        /\ mbox' = IF ForSocket(toC[i]) THEN Put(mbox, toC[i]) ELSE mbox
    /\ UNCHANGED <<file, sess, toS, client>>

(***************************************************************************)
(* The server                                                              *)
(***************************************************************************)

Idle == [st |-> "free", blk |-> 0, bs |-> 0, how |-> "error", port |-> 0]

\* what a transfer has to send until it is acknowledged
Outstanding(t, r) ==
    CASE r.how = "error" -> [op |-> "error", tid |-> t, port |-> r.port]
      [] r.how # "error" /\ r.blk = 0 ->
            [op |-> "oack", tid |-> t, port |-> r.port, tsize |-> Len(file),
             blksize |-> OackBlksize, padded |-> r.how = "padded"]
      [] r.blk > 0 ->
            [op |-> "data", tid |-> t, port |-> r.port,
             serial |-> r.blk % SerialMod, bytes |-> Block(r.blk, r.bs)]

\* a server that takes options takes them in a repeated request too
ServerRequest ==
    /\ \E i \in DOMAIN toS, t \in Tids, how \in Answers :
        /\ toS[i].op = "rrq" /\ sess[t].st = "free"
        /\ \A v \in Tids : sess[v].st = "free" => t <= v
        /\ \A v \in Tids : v < t => "error" \in {how, sess[v].how} \/ how = sess[v].how
        /\ toS' \in Taken(toS, i)
        /\ sess' = [sess EXCEPT ![t] =
                [st |-> IF how = "error" THEN "over" ELSE "on", port |-> toS[i].port,
                 blk |-> IF how = "data" THEN 1 ELSE 0, how |-> how,
                 bs |-> IF how = "data" THEN TFTP_BLOCKSIZE ELSE OackBlksize]]
        /\ toC' = Put(toC, Outstanding(t, sess'[t]))
    /\ UNCHANGED <<file, mbox, client>>

ServerAck ==
    /\ \E i \in DOMAIN toS : LET m == toS[i] t == m.tid IN
        /\ m.op = "ack" /\ sess[t].st = "on"
        /\ m.serial = sess[t].blk % SerialMod
        /\ toS' \in Taken(toS, i)
        /\ IF sess[t].blk = Blocks(sess[t].bs)
           THEN sess' = [sess EXCEPT ![t].st = "over"] /\ UNCHANGED toC
           ELSE /\ sess' = [sess EXCEPT ![t].blk = @ + 1]
                /\ toC' = Put(toC, Outstanding(t, sess'[t]))
    /\ UNCHANGED <<file, mbox, client>>

ServerError ==
    /\ \E i \in DOMAIN toS :
        /\ toS[i].op = "error" /\ sess[toS[i].tid].st = "on"
        /\ toS' \in Taken(toS, i)
        /\ sess' = [sess EXCEPT ![toS[i].tid].st = "over"]
    /\ UNCHANGED <<file, toC, mbox, client>>

ServerResend ==
    /\ \E t \in Tids : sess[t].st = "on" /\ toC' = Put(toC, Outstanding(t, sess[t]))
    /\ UNCHANGED <<file, sess, toS, mbox, client>>


(***************************************************************************)
(* Opening: pxe_searchdir, __pxe_searchdir and tftp_open                   *)
(***************************************************************************)

\* the inode has no size: it is freed, and pxe_searchdir may try again
Fail(c) ==
    /\ phase' = IF attempt <= PXERetry THEN "search" ELSE "failed"
    /\ attempt' = IF attempt <= PXERetry THEN attempt + 1 ELSE attempt
    /\ inode' = Noinode /\ conn' = IF attempt <= PXERetry THEN NoConn ELSE c

Open ==
    /\ phase = "search"
    /\ phase' = "request" /\ conn' = AnyTid /\ tries' = 1 /\ mbox' = <<>>
    /\ Send(Request)
    /\ UNCHANGED <<file, sess, toC, attempt, inode, count, back, out>>

\* netconn_new fails, or netconn_bind does and the socket stays
OpenFails ==
    /\ phase = "search"
    /\ \E c \in {NoConn, AnyTid} : Fail(c)
    /\ UNCHANGED <<file, sess, toS, toC, mbox, tries, count, back, out>>

\* done: the reader gets the file, or there is none and the socket is closed
\* (after a timeout it is not, and c is what it is left as)
Found(s, c, closed) ==
    IF s.size = 0
    THEN Fail(closed)
    ELSE phase' = "open" /\ inode' = s /\ conn' = c /\ UNCHANGED attempt

\* core_udp_recv gave up, and the time of this entry of TimeoutTable has passed
RequestTimeout ==
    /\ phase = "request" /\ mbox = <<>>
    /\ IF tries < Retries
       THEN Send(Request) /\ tries' = tries + 1 /\ UNCHANGED <<phase, attempt, conn, inode>>
       ELSE Found(inode, conn, conn) /\ UNCHANGED <<toS, tries>>
    /\ UNCHANGED <<file, sess, toC, mbox, count, back, out>>

\* mutant: a buffer only where the server asked for smaller blocks
OptionsUnbuffered(m) ==
    [Noinode EXCEPT !.size = m.tsize, !.blksize = m.blksize,
                    !.pktbuf = IF m.blksize < TFTP_BLOCKSIZE THEN m.blksize ELSE 0]

\* the options of an OACK; padding after them ends the parsing early, before the
\* buffer is allocated
Options(m) ==
    LET s == [Noinode EXCEPT !.size = m.tsize, !.blksize = m.blksize]
    IN  IF m.padded THEN s ELSE [s EXCEPT !.pktbuf = m.blksize]

\* the first block came at once: the server knows no options
FirstBlock(m) ==
    LET short == Len(m.bytes) < TFTP_BLOCKSIZE
    IN  [Noinode EXCEPT !.size = IF short THEN Len(m.bytes) ELSE UNKNOWN,
                        !.blksize = TFTP_BLOCKSIZE, !.pktbuf = TFTP_BLOCKSIZE,
                        !.lastpkt = m.serial, !.goteof = short, !.left = m.bytes]

\* another block first: it is dropped, but the socket is connected by now
Stray(c) ==
    /\ inode' = [inode EXCEPT !.size = UNKNOWN, !.blksize = TFTP_BLOCKSIZE]
    /\ conn' = c /\ UNCHANGED <<phase, attempt>>

RequestRecv ==
    /\ phase = "request" /\ mbox # <<>>
    /\ LET m == Head(mbox) answer == [op |-> "ack", tid |-> m.tid, port |-> attempt,
                                      serial |-> 1 % SerialMod]
       IN  \/ m.op = "error" /\ Fail(NoConn) /\ UNCHANGED <<toS, tries>>
           \/ m.op = "oack" /\ Found(Options(m), m.tid, NoConn) /\ UNCHANGED <<toS, tries>>
           \/ /\ m.op = "data"
              /\ IF m.serial = 1 % SerialMod
                 THEN Found(FirstBlock(m), m.tid, NoConn) ELSE Stray(m.tid)
              /\ IF m.serial = 1 % SerialMod /\ FirstBlock(m).goteof
                 THEN Send(answer) ELSE UNCHANGED toS
              /\ UNCHANGED tries
           \* no memory for the buffer: tell the server and give up
           \/ /\ m.op \in {"oack", "data"} /\ (m.op = "oack" => ~m.padded)
              /\ Fail(NoConn)
              /\ Send([op |-> "error", tid |-> m.tid, port |-> attempt, serial |-> 0])
              /\ UNCHANGED tries
    /\ mbox' = Tail(mbox)
    /\ UNCHANGED <<file, sess, toC, count, back, out>>

(***************************************************************************)
(* Reading: pmapi_read_file, pxe_getfssec and tftp_get_packet              *)
(***************************************************************************)

\* mutant: the block that is waited for is acknowledged
GetPacketEager(s, w) ==
    /\ phase' = "get" /\ tries' = 1 /\ back' = w
    /\ inode' = s /\ Send(Ack((s.lastpkt + 1) % SerialMod)) /\ UNCHANGED conn

\* tftp_get_packet begins, or tries again, by acknowledging the last block
GetPacket(s, w) ==
    /\ phase' = "get" /\ tries' = 1 /\ back' = w
    /\ inode' = s /\ Send(Ack(s.lastpkt)) /\ UNCHANGED conn

\* pxe_getfssec returns and pmapi_read_file closes the file unless there is more
Return(s, c, more, m) ==
    /\ UNCHANGED <<tries, back>>
    /\ IF more
       THEN phase' = "open" /\ inode' = s /\ conn' = c /\ toS' = PutAll(toS, m)
       ELSE /\ phase' = "eof" /\ inode' = Noinode
            /\ conn' = IF s.goteof THEN c ELSE NoConn
            /\ toS' = PutAll(toS, IF s.goteof THEN m ELSE Append(m, Error))

\* mutant: what is left in the buffer is forgotten
RestEager(s, c, m) ==
    IF s.filepos < s.size
    THEN IF s.left = <<>> /\ ~s.goteof THEN GetPacket(s, "rest") ELSE Return(s, c, TRUE, m)
    ELSE \E more \in (IF s.goteof THEN {FALSE} ELSE BOOLEAN) : Return(s, c, more, m)

\* after the loop: is there more, and if so is the next block here?
Rest(s, c, m) ==
    IF s.left # <<>> \/ s.filepos < s.size
    THEN IF s.left = <<>> /\ ~s.goteof THEN GetPacket(s, "rest") ELSE Return(s, c, TRUE, m)
    \* *have_more keeps what the caller's stack held
    ELSE \E more \in (IF s.goteof THEN {FALSE} ELSE BOOLEAN) : Return(s, c, more, m)

\* the loop, from a point where the buffer has been filled if it can be
Copy(s, c, n, m) ==
    LET chunk == Min({n, Len(s.left)})
        r == [s EXCEPT !.left = SubSeq(@, chunk + 1, Len(@))]
    IN  /\ out' = out \o SubSeq(s.left, 1, chunk)
        /\ count' = n - chunk
        /\ IF chunk < n /\ ~s.goteof THEN GetPacket(r, "loop") ELSE Rest(r, c, m)

\* pmapi_read_file
Read ==
    /\ phase = "open"
    /\ \E n \in Reads : Copy(inode, conn, n * TFTP_BLOCKSIZE, <<>>)
    /\ UNCHANGED <<file, sess, toC, mbox, attempt>>

\* the block that was waited for
Accept(m) ==
    LET pos == inode.filepos + Len(m.bytes)
        last == Len(m.bytes) < inode.blksize
    IN  [inode EXCEPT !.lastpkt = m.serial, !.left = m.bytes, !.filepos = pos,
                      !.size = IF last THEN pos ELSE @, !.goteof = last]

\* mutant: the block number is not compared
WantedAny(m) == m.op = "data"

Wanted(m) == m.op = "data" /\ m.serial = (inode.lastpkt + 1) % SerialMod

\* a short block is acknowledged at once and the socket closed; then
\* pxe_getfssec goes on
GetRecv ==
    /\ phase = "get" /\ mbox # <<>> /\ Wanted(Head(mbox))
    /\ LET s == Accept(Head(mbox))
           c == IF s.goteof THEN NoConn ELSE conn
           m == IF s.goteof THEN <<Ack(s.lastpkt)>> ELSE <<>>
       IN  IF back = "loop" THEN Copy(s, c, count, m)
           ELSE Return(s, c, TRUE, m) /\ UNCHANGED <<count, out>>
    /\ mbox' = Tail(mbox)
    /\ UNCHANGED <<file, sess, toC, attempt>>

\* the buffer was never allocated: what is received goes to address 0, which
\* may also stop the machine
GetNowhere ==
    /\ phase = "get" /\ mbox # <<>> /\ inode.pktbuf = 0
    /\ phase' = "dead" /\ mbox' = Tail(mbox)
    /\ UNCHANGED <<file, sess, toS, toC, attempt, conn, tries, inode, count, back, out>>

\* not a block, or another one: the latter is answered with the last ACK
GetOther ==
    /\ phase = "get" /\ mbox # <<>> /\ ~Wanted(Head(mbox))
    /\ IF Head(mbox).op = "data" THEN Send(Ack(inode.lastpkt)) ELSE UNCHANGED toS
    /\ mbox' = Tail(mbox)
    /\ UNCHANGED <<file, sess, toC, client>>

\* mutant: the position in TimeoutTable is not advanced
GetTimeoutForever ==
    /\ phase = "get" /\ mbox = <<>>
    /\ IF tries < Retries
       THEN Send(Ack(inode.lastpkt)) /\ UNCHANGED <<tries, phase>>
       ELSE phase' = "dead" /\ UNCHANGED <<toS, tries>>
    /\ UNCHANGED <<file, sess, toC, mbox, attempt, conn, inode, count, back, out>>

\* the last entry of TimeoutTable ends in kaboom()
GetTimeout ==
    /\ phase = "get" /\ mbox = <<>>
    /\ IF tries < Retries
       THEN Send(Ack(inode.lastpkt)) /\ tries' = tries + 1 /\ UNCHANGED phase
       ELSE phase' = "dead" /\ UNCHANGED <<toS, tries>>
    /\ UNCHANGED <<file, sess, toC, mbox, attempt, conn, inode, count, back, out>>

\* the reader closes the file: pxe_close_file
CloseFile ==
    /\ phase = "open"
    /\ phase' = "closed" /\ inode' = Noinode
    /\ conn' = IF inode.goteof THEN conn ELSE NoConn
    /\ IF inode.goteof THEN UNCHANGED toS ELSE Send(Error)
    /\ UNCHANGED <<file, sess, toC, mbox, attempt, tries, count, back, out>>

(***************************************************************************)
(* The specification                                                       *)
(***************************************************************************)

Init ==
    /\ file \in {[i \in 1 .. n |-> i] : n \in FileLens}
    /\ sess = [t \in Tids |-> Idle]
    /\ toS = <<>> /\ toC = <<>> /\ mbox = <<>>
    /\ phase = "search" /\ attempt = 1 /\ conn = NoConn /\ tries = 1
    /\ inode = Noinode /\ count = 0 /\ back = "loop" /\ out = <<>>

Client ==
    \/ Open \/ OpenFails \/ RequestTimeout \/ RequestRecv
    \/ Read \/ GetRecv \/ GetNowhere \/ GetOther \/ GetTimeout

Next ==
    \/ Client \/ CloseFile \/ Arrive \/ LoseToServer \/ LoseToClient
    \/ ServerRequest \/ ServerAck \/ ServerError \/ ServerResend

Spec == Init /\ [][Next]_vars

\* the client is not kept from its work, the reader reads on, and the mailbox
\* is not always full: a server repeats itself after seconds, the client polls
\* every 15 ms
FairSpec ==
    /\ Spec
    /\ WF_vars(Open) /\ WF_vars(RequestRecv) /\ WF_vars(Read)
    /\ WF_vars(GetRecv) /\ WF_vars(GetOther)
    /\ SF_vars(RequestTimeout) /\ SF_vars(GetTimeout)
    /\ []<>(mbox = <<>>)

(***************************************************************************)
(* Properties                                                              *)
(***************************************************************************)

\* The reader gets the bytes of the file in their order, each once, whatever
\* the network does to the packets, and when block numbers wrap
\* (tftp_get_packet takes only the block after the last, pxe_getfssec copies
\* across buffers).  The files end before a number comes twice.
Delivered == IsPrefix(out, file)

\* When pmapi_read_file finds no more and closes the file, the reader has all
\* of it: also when *have_more is never assigned.
EofComplete == phase = "eof" => out = file

\* The server is told that a block has arrived only when it has: no transfer
\* is more than one block ahead of what the client holds (ack_packet).
AckHonest ==
    \A t \in Tids : sess[t].st = "on" /\ sess[t].blk > 0 /\ conn = t =>
        (sess[t].blk - 1) * sess[t].bs <= Len(out \o inode.left)

\* tftp_get_packet receives into a buffer of the block size, whichever way
\* tftp_open has left the parsing of the answer, but for one: after an OACK with
\* a null byte behind its options, whose rest the code means to discard
\* (tftp.c:340-349), there is no buffer at all.
ReceivesIntoBuffer ==
    phase = "get" =>
        inode.pktbuf = IF sess[conn].how = "padded" THEN 0 ELSE inode.blksize

\* the whole file came as the first block, from a server without options:
\* tftp_filepos never counts it, so that *have_more stays 1 at the end of the
\* file (pxe.c:223-230) and pmapi_read_file leaves the file to its reader
NeverEof ==
    /\ phase = "open" /\ conn \in Tids /\ sess[conn].how = "data"
    /\ Len(file) < TFTP_BLOCKSIZE /\ out = file

\* An opening and a transfer end: with the file read, closed or not there, or
\* with kaboom() after the last entry of TimeoutTable.  A file that came whole
\* in its first block without options is read to its last byte but is not
\* closed unless its reader does so.
Finishes == <>(phase \in {"eof", "closed", "failed", "dead"} \/ NeverEof)
=============================================================================

-------------------------------- MODULE ChmHttp --------------------------------
(***************************************************************************)
(* chm_http: the accept loop, one thread (slave) for each connection, the  *)
(* descriptor table they all use, and the answer each slave pumps out of   *)
(* the archive through one shared fd_reader.  A connection is identified   *)
(* with the client that makes it; the entries served are uncompressed.     *)
(*                                                                         *)
(* Descriptors are numbers: what a slave writes to its number reaches the  *)
(* connection that has the number at that moment.                          *)
(***************************************************************************)
EXTENDS FdReader, FiniteSets

CONSTANTS
    Client,
    Fd,       \* descriptor numbers left for connections
    Entry,    \* the archive's entries: where they start and how long they are
    Other,    \* what else clients ask for
    MaxInt,   \* 2^31 - 1: the largest int
    Swath,    \* 65536: how much deliver_content asks for at a time
    MaxOpen,  \* bound: how many clients wait or are connected at a time
    Aborts,   \* may a client give up, while it waits or later?
    ThreadsFail,    \* may pthread_create fail?
    None

\* What is not answered with an entry: the directory page, and with an error
\* a path that is not in the archive or a method other than GET.  Each has an
\* answer of its own, one byte that is none of the file's.  A line without a
\* blank has none.
Page == [kind : {"page"}, start : -2 .. -1, length : {1}]
Blankless == [kind |-> "blankless", start |-> -4, length |-> 0]
OtherRequests == Page \union {Blankless}

ASSUME ServerAssumption ==
    /\ Thread = Client
    /\ Fd \subseteq Nat
    /\ Entry \subseteq [kind : {"entry"}, start : Nat, length : Nat]
    /\ Other \subseteq OtherRequests
    /\ MaxInt \in Nat
    /\ Swath \in 1 .. MaxInt
    /\ {Aborts, ThreadsFail} \subseteq BOOLEAN
    /\ None \notin Client

VARIABLES
    server,     \* "listening", or "exited" with the whole process
    fds,        \* descriptor -> the connection open under it, or None
    conn,       \* client -> "new", "queued", "open", "closed"; "gone" when it
                \* hung up first, and "left" when that has been closed too
    asked,      \* client -> is its request "unsent", "sent" or "read"?
    request,    \* client -> what it asks for
    got,        \* client -> what it has received
    slave       \* client -> the thread that serves it

clientVars == <<asked, request>>
httpVars == <<server, fds, conn, clientVars, got>>
vars == <<httpVars, slave, readerVars>>

Requests == Other \union Entry
InternalError == [kind |-> "page", start |-> -3, length |-> 1]
NoRequest == [kind |-> "page", start |-> -1, length |-> 1]

NoSlave == [pc |-> "none", fd |-> 0, from |-> None, serves |-> NoRequest, offset |-> 0]

Init ==
    /\ ReaderInit
    /\ server = "listening"
    /\ fds = [f \in Fd |-> None]
    /\ conn = [c \in Client |-> "new"]
    /\ asked = [c \in Client |-> "unsent"]
    /\ request = [c \in Client |-> NoRequest]
    /\ got = [c \in Client |-> <<>>]
    /\ slave = [c \in Client |-> NoSlave]

-----------------------------------------------------------------------------
(* Clients and the accept loop *)

Connect(c) ==
    /\ server = "listening"
    /\ conn[c] = "new"
    /\ Cardinality({d \in Client : conn[d] \in {"queued", "open", "gone"}}) < MaxOpen
    /\ conn' = [conn EXCEPT ![c] = "queued"]
    /\ UNCHANGED <<server, fds, clientVars, got, slave, readerVars>>

\* Whether and when a client sends its request is its own affair.
Send(c) ==
    /\ server = "listening"
    /\ conn[c] \in {"queued", "open"}
    /\ asked[c] = "unsent"
    /\ asked' = [asked EXCEPT ![c] = "sent"]
    /\ \E r \in Requests : request' = [request EXCEPT ![c] = r]
    /\ UNCHANGED <<server, fds, conn, got, slave, readerVars>>

FreeFds == {f \in Fd : fds[f] = None}
Lowest(S) == CHOOSE f \in S : \A g \in S : f <= g

\* accept(2) gives the connection the lowest free number, and a thread is
\* created to serve it.  When that fails nobody notices: the connection stays
\* open with nobody behind it.
Accept(c) ==
    /\ server = "listening"
    /\ conn[c] = "queued"
    /\ FreeFds # {}
    /\ LET f == Lowest(FreeFds)
       IN  /\ fds' = [fds EXCEPT ![f] = c]
           /\ \E pc \in {"start"} \union IF ThreadsFail THEN {"unborn"} ELSE {} :
                slave' = [slave EXCEPT ![c] = [NoSlave EXCEPT !.pc = pc, !.fd = f]]
    /\ conn' = [conn EXCEPT ![c] = "open"]
    /\ UNCHANGED <<server, clientVars, got, readerVars>>

\* A client may close its end at any time; what it had received is forgotten.
HangUp(c) ==
    /\ Aborts
    /\ server = "listening"
    /\ conn[c] = "open"
    /\ conn' = [conn EXCEPT ![c] = "gone"]
    /\ got' = [got EXCEPT ![c] = <<>>]
    /\ UNCHANGED <<server, fds, clientVars, slave, readerVars>>

Closed(d) ==
    CASE conn[d] \in {"queued", "open"} -> "closed"
      [] conn[d] = "gone" -> "left"
      [] OTHER -> conn[d]

\* The process ends, with every slave and every connection.
ProcessEnds ==
    /\ server' = "exited"
    /\ fds' = [f \in Fd |-> None]
    /\ conn' = [d \in Client |-> Closed(d)]
    /\ slave' = [d \in Client |->
                   IF slave[d].pc = "none" THEN NoSlave
                   ELSE [NoSlave EXCEPT !.pc = "killed"]]
    /\ reader' = [t \in Thread |-> NotReading]
    /\ UNCHANGED <<clientVars, got, file_pos>>

\* accept(2) fails when no number is free, or when the connection it takes
\* from the queue has been given up: the loop ends and main returns.
AcceptFails ==
    /\ server = "listening"
    /\ FreeFds = {} \/ Aborts
    /\ \E c \in Client : conn[c] = "queued"
    /\ ProcessEnds

-----------------------------------------------------------------------------
(* A slave *)

\* Who is behind c's descriptor number now.
Peer(c) == fds[slave[c].fd]

Go(c, pc) == slave' = [slave EXCEPT ![c].pc = pc]

\* A connection is open as long as it has a number or a read(2) hangs in it:
\* closing the number does not wake the read.
Waiting(d) == {e \in Client : slave[e].from = d}
HasNumber(d) == \E f \in Fd : fds[f] = d

\* close(2), directly or by fclose: whoever has the number loses it.
CloseFd(f) ==
    /\ fds' = [fds EXCEPT ![f] = None]
    /\ conn' = [d \in Client |->
                  IF fds[f] = d /\ Waiting(d) = {} THEN Closed(d) ELSE conn[d]]

\* What the clients have when c's slave has written to its number: somebody
\* who has hung up receives nothing.
Received(c, bytes) ==
    [d \in Client |->
        IF Peer(c) = d /\ conn[d] = "open" THEN got[d] \o bytes ELSE got[d]]

PeerIsGone(c) == Peer(c) # None /\ conn[Peer(c)] = "gone"

\* service_request: the number is made a stream ...
Fdopen(c) ==
    /\ slave[c].pc = "start"
    /\ Peer(c) # None
    /\ Go(c, "request")
    /\ UNCHANGED <<httpVars, readerVars>>

\* ... unless it is not open; then the error is written to the number, to
\* nobody or to a connection accepted since.
FdopenFails(c) ==
    /\ slave[c].pc = "start"
    /\ Peer(c) = None
    /\ slave' = [slave EXCEPT ![c].pc = "answer", ![c].serves = InternalError]
    /\ UNCHANGED <<httpVars, readerVars>>

\* Whom fgets reads from: whoever has the number when read(2) is called, and
\* from then on that connection, whatever becomes of the number.
Reads(c) == slave[c].pc \in {"request", "waiting"}
Source(c) == IF slave[c].pc = "waiting" THEN slave[c].from ELSE Peer(c)

HasSent(d) == d \in Client /\ asked[d] = "sent"

\* The end of the stream, or an error: nobody is there, or somebody who has
\* gone and sent nothing, or whose request another slave has read.
NothingComes(c) ==
    /\ Reads(c)
    /\ Source(c) # None => conn[Source(c)] = "gone" /\ ~HasSent(Source(c))

\* A client that is there and has nothing to read keeps the slave in read(2).
Wait(c) ==
    /\ slave[c].pc = "request"
    /\ Peer(c) # None /\ conn[Peer(c)] = "open" /\ ~HasSent(Peer(c))
    /\ slave' = [slave EXCEPT ![c].pc = "waiting", ![c].from = Peer(c)]
    /\ UNCHANGED <<httpVars, readerVars>>

\* With its request line the slave goes on to answer it; a connection that was
\* only held open by its read is closed.
Serve(c, r) ==
    /\ slave' = [slave EXCEPT ![c].serves = r, ![c].from = None,
                    ![c].pc = IF r.kind = "entry" THEN "pump" ELSE "answer"]
    /\ conn' = [d \in Client |->
                  IF slave[c].from = d /\ Waiting(d) = {c} /\ ~HasNumber(d)
                  THEN Closed(d) ELSE conn[d]]
    /\ UNCHANGED <<server, fds, request, got, readerVars>>

ServiceRequest(c) ==
    /\ Reads(c)
    /\ HasSent(Source(c))
    /\ request[Source(c)] # Blankless
    /\ Serve(c, request[Source(c)])
    /\ asked' = [asked EXCEPT ![Source(c)] = "read"]

\* fgets has left the buffer as it was on the stack, and the slave answers
\* what it finds there ...
ServiceLeftovers(c) ==
    /\ NothingComes(c)
    /\ \E r \in Requests \ {Blankless} : Serve(c, r)
    /\ UNCHANGED asked

\* ... or there is no blank in it, as there may be none in the line a client
\* sends: strrchr's null pointer is followed.
NoRequestLine(c) ==
    /\ \/ NothingComes(c)
       \/ Reads(c) /\ HasSent(Source(c)) /\ request[Source(c)] = Blankless
    /\ ProcessEnds

\* The index, the 404, the 500 and the internal error are written; closing
\* the number is another system call.
Answer(c) ==
    /\ slave[c].pc = "answer"
    /\ got' = Received(c, <<slave[c].serves.start>>)
    /\ Go(c, "fclose")
    /\ UNCHANGED <<server, fds, conn, clientVars, readerVars>>

\* SIGPIPE has its default action: what is written to a client that has hung
\* up, and has let the server know, ends the process.
BrokenPipe(c) ==
    /\ \/ slave[c].pc = "answer"
       \/ slave[c].pc = "read" /\ reader[c].at = "out" /\ reader[c].data # <<>>
    /\ PeerIsGone(c)
    /\ ProcessEnds

\* Mutant: the last swath is one byte short.
ShortSwath(c) ==
    LET left == slave[c].serves.length - slave[c].offset
    IN  IF left <= Swath THEN left - 1 ELSE Swath

\* How much deliver_content asks chm_retrieve_entry for, which is not more
\* than the entry still has.
NextSwath(c) ==
    LET left == slave[c].serves.length - slave[c].offset
    IN  IF left < Swath THEN left ELSE Swath

\* deliver_content: the next swath is read through fd_reader ...
Pump(c) ==
    /\ slave[c].pc = "pump"
    /\ slave[c].offset < slave[c].serves.length
    /\ CallReader(c, slave[c].serves.start + slave[c].offset, NextSwath(c))
    /\ Go(c, "read")
    /\ UNCHANGED httpVars

Reading(c) ==
    /\ slave[c].pc = "read"
    /\ ReaderStep(c)
    /\ UNCHANGED <<httpVars, slave>>

\* An int that has become larger than the largest: it wraps, or the compiler
\* has given it more room.
AsInt(n) == IF n <= MaxInt THEN {n} ELSE {n, n - 2 * (MaxInt + 1)}

\* offset += swath
Advance(c) ==
    \E offset \in AsInt(slave[c].offset + Len(reader[c].data)) :
        slave' = [slave EXCEPT ![c].pc = "pump", ![c].offset = offset]

\* ... and written out, however much it was.
Write(c) ==
    /\ slave[c].pc = "read"
    /\ reader[c].at = "out"
    /\ got' = Received(c, reader[c].data)
    /\ Advance(c)
    /\ reader' = [reader EXCEPT ![c] = NotReading]
    /\ UNCHANGED <<server, fds, conn, clientVars, file_pos>>

\* Mutant: what is left may be less than a swath.
AlmostWritten(c) ==
    \/ slave[c].pc = "fclose"
    \/ slave[c].pc = "pump" /\ slave[c].offset + Swath >= slave[c].serves.length

AllWritten(c) ==
    \/ slave[c].pc = "fclose"
    \/ slave[c].pc = "pump" /\ slave[c].offset >= slave[c].serves.length

\* Mutant: the stream is dropped without fclose.
FcloseNot(c) ==
    /\ AllWritten(c)
    /\ Go(c, "done")
    /\ UNCHANGED <<httpVars, readerVars>>

\* fclose(fout), or close(fd) after the internal error.
Fclose(c) ==
    /\ AllWritten(c)
    /\ CloseFd(slave[c].fd)
    /\ Go(c, "close")
    /\ UNCHANGED <<server, clientVars, got, readerVars>>

\* _slave: close(slave->fd), although the stream has closed it already, and
\* free(slave).
CloseAgain(c) ==
    /\ slave[c].pc = "close"
    /\ CloseFd(slave[c].fd)
    /\ slave' = [slave EXCEPT ![c] = [NoSlave EXCEPT !.pc = "done"]]
    /\ UNCHANGED <<server, clientVars, got, readerVars>>

-----------------------------------------------------------------------------

Slave(c) ==
    \/ Fdopen(c)
    \/ FdopenFails(c)
    \/ Wait(c)
    \/ ServiceRequest(c)
    \/ ServiceLeftovers(c)
    \/ NoRequestLine(c)
    \/ Answer(c)
    \/ BrokenPipe(c)
    \/ Pump(c)
    \/ Reading(c)
    \/ Write(c)
    \/ Fclose(c)
    \/ CloseAgain(c)

AcceptLoop == AcceptFails \/ \E c \in Client : Accept(c)

Next ==
    \/ AcceptLoop
    \/ \E c \in Client : Connect(c) \/ Send(c) \/ HangUp(c) \/ Slave(c)

\* The system runs the accept loop and every slave; clients may never connect,
\* need not send a request and need not hang up.
Spec == Init /\ [][Next]_vars
Fairness ==
    /\ WF_vars(AcceptLoop)
    /\ \A c \in Client : WF_vars(Slave(c))
FairSpec == Spec /\ Fairness

-----------------------------------------------------------------------------
(* Properties *)

TypeOK ==
    /\ ReaderTypeOK
    /\ server \in {"listening", "exited"}
    /\ fds \in [Fd -> Client \union {None}]
    /\ conn \in [Client -> {"new", "queued", "open", "closed", "gone", "left"}]
    /\ asked \in [Client -> {"unsent", "sent", "read"}]
    /\ request \in [Client -> Requests \union {NoRequest}]
    /\ got \in [Client -> Seq(-3 .. FileLen - 1)]
    /\ slave \in [Client -> [pc : {"none", "unborn", "start", "request", "waiting",
                                   "answer", "fclose", "pump", "read", "close",
                                   "done", "killed"},
                             fd : Fd \union {0}, from : Client \union {None},
                             serves : Requests \union {NoRequest, InternalError},
                             offset : Int]]

\* The whole answer to a request.
Wanted(r) == [k \in 1 .. r.length |-> r.start + k - 1]

\* A client receives the answer to its own request, from the beginning, and
\* when it has waited until its connection was closed it has all of it.
GetsItsAnswer(c) ==
    /\ IsPrefix(got[c], Wanted(request[c]))
    /\ conn[c] = "closed" /\ server = "listening" => got[c] = Wanted(request[c])

\* So does every client that has sent a request, whoever else is served.
EachGetsItsAnswer == \A c \in Client : asked[c] # "unsent" => GetsItsAnswer(c)

\* The first client, until a second one is accepted, gets its answer, unless it
\* asks for more than an int can count.
AloneGetsItsAnswer ==
    \A c \in Client :
        (\A d \in Client \ {c} : slave[d].pc = "none") /\ request[c].length <= MaxInt
            => GetsItsAnswer(c)

\* "Content-Length: %d", sent before the first swath, is what follows: however
\* short the reads were, and wherever another slave had moved the file to, the
\* slave has written neither less nor more when it closes the stream.  This is
\* about lengths that the cast to an int leaves as they are.
AsLongAsAnnounced ==
    \A c \in Client :
        slave[c].serves.kind = "entry" /\ slave[c].serves.length <= MaxInt =>
            /\ slave[c].offset <= slave[c].serves.length
            /\ slave[c].pc = "close" => slave[c].offset = slave[c].serves.length

\* Another slave has moved the file between this one's lseek and its read.
Disturbed(c) == reader[c].at = "read" /\ file_pos # reader[c].off

\* An entry that is all in the file, and whose bytes an int can count.
Servable(r) == r.kind = "entry" => r.start + r.length <= FileLen /\ r.length <= MaxInt

Ended(c) == slave[c].pc \in {"done", "killed"}

\* A slave comes to its end.  What keeps it from that is one of three: that
\* others move the file under its reads again and again, an entry that cannot
\* be served, or a client that neither sends nor hangs up.
SlavesFinish ==
    \A c \in Client :
        \/ slave[c].pc \notin {"none", "unborn"} ~> Ended(c)
        \/ []<>Disturbed(c)
        \/ <>[](slave[c].pc = "waiting")
        \/ <>[]~Servable(slave[c].serves)

\* No connection leaks: one that has been asked for is closed some day, by its
\* slave, by another's second close or with the process.  It stays open if no
\* thread could be made for it, if somebody waits in it for ever, and if its
\* slave does not end for the other reasons above.
EveryConnectionEnds ==
    \A c \in Client :
        \/ conn[c] \in {"queued", "open"} ~>
              conn[c] \in {"closed", "left"} \/ slave[c].pc = "unborn"
        \/ []<>Disturbed(c)
        \/ \E d \in Client : <>[](slave[d].from = c)
        \/ <>[]~Servable(slave[c].serves)

=============================================================================

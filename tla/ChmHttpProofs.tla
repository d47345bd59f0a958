---------------------------- MODULE ChmHttpProofs ----------------------------
(***************************************************************************)
(* Theorems about ChmHttp, for any number of clients and descriptors, any  *)
(* file, entries and swath: whoever hangs up, whatever the slaves do to    *)
(* each other's descriptors and file position.                             *)
(***************************************************************************)
EXTENDS ChmHttp, NumberFacts, SequenceTheorems

-----------------------------------------------------------------------------
(* fd_reader *)

Bytes == Seq(0 .. FileLen - 1)

Readers == [at : {"out", "tell", "seek", "read", "restore"}, off : Int,
            len : Nat, oldOff : Nat, data : Bytes]

LEMMA SeqWidens ==
    ASSUME NEW S, NEW T, S \subseteq T, NEW s \in Seq(S)
    PROVE  s \in Seq(T)
  <1>1. Len(s) \in Nat /\ s \in [1 .. Len(s) -> S]
    OBVIOUS
  <1>2. s \in [1 .. Len(s) -> T]
    BY <1>1
  <1>3. QED
    BY <1>1, <1>2

\* A read finds bytes of the file, and not more than were asked for.
LEMMA BytesFound ==
    ASSUME NEW pos \in Nat, NEW len \in Nat
    PROVE  /\ BytesAt(pos, len) \in Seq(0 .. FileLen - 1)
           /\ Len(BytesAt(pos, len)) \in 0 .. len
  <1> DEFINE n == IF pos >= FileLen THEN 0
                  ELSE IF pos + len > FileLen THEN FileLen - pos ELSE len
  <1>1. n \in 0 .. len /\ \A k \in 1 .. n : pos + k - 1 \in 0 .. FileLen - 1
    BY FileAssumption
  <1>2. BytesAt(pos, len) = [k \in 1 .. n |-> pos + k - 1]
    BY DEF BytesAt
  <1> HIDE DEF n
  <1>3. QED
    BY <1>1, <1>2

LEMMA NotReadingType == NotReading \in Readers
  BY DEF NotReading, Readers, Bytes

LEMMA CallReaderType ==
    ASSUME ReaderTypeOK, NEW t \in Thread, NEW off \in Int, NEW len \in Nat,
           CallReader(t, off, len)
    PROVE  /\ ReaderTypeOK'
           /\ reader'[t].at = "tell" /\ reader'[t].off = off
           /\ reader'[t].len = len /\ reader'[t].data = <<>>
           /\ \A u \in Thread \ {t} : reader'[u] = reader[u]
  <1> DEFINE r1 == [NotReading EXCEPT !.at = "tell"]
             r2 == [r1 EXCEPT !.off = off]
             r3 == [r2 EXCEPT !.len = len]
  <1>1. r1 \in Readers /\ r1.data = <<>> /\ r1.at = "tell"
    BY NotReadingType DEF Readers, NotReading
  <1>2. r2 \in Readers /\ r2.data = <<>> /\ r2.at = "tell" /\ r2.off = off
    BY <1>1 DEF Readers
  <1>3. /\ r3 \in Readers /\ r3.data = <<>> /\ r3.at = "tell" /\ r3.off = off
        /\ r3.len = len
    BY <1>2 DEF Readers
  <1>4. reader' = [reader EXCEPT ![t] = r3] /\ file_pos' = file_pos
    BY DEF CallReader
  <1> HIDE DEF r3
  <1>5. QED
    BY <1>3, <1>4 DEF ReaderTypeOK, Readers, Bytes

\* What a step of fd_reader does to its caller's arguments and data.
LEMMA ReaderStepType ==
    ASSUME ReaderTypeOK, NEW t \in Thread, ReaderStep(t),
           Len(reader[t].data) <= reader[t].len
    PROVE  /\ ReaderTypeOK'
           /\ \A u \in Thread \ {t} : reader'[u] = reader[u]
           /\ reader'[t].off = reader[t].off /\ reader'[t].len = reader[t].len
           /\ Len(reader'[t].data) <= reader'[t].len
  <1>0. /\ file_pos \in Nat /\ reader \in [Thread -> Readers]
        /\ reader[t] \in Readers
    BY DEF ReaderTypeOK, Readers, Bytes
  <1> SUFFICES /\ file_pos' \in Nat /\ reader' \in [Thread -> Readers]
               /\ \A u \in Thread \ {t} : reader'[u] = reader[u]
               /\ reader'[t].off = reader[t].off
               /\ reader'[t].len = reader[t].len
               /\ Len(reader'[t].data) <= reader'[t].len
    BY DEF ReaderTypeOK, Readers, Bytes
  <1> DEFINE bytes == BytesAt(file_pos, reader[t].len)
  <1>1. CASE Tell(t)
    BY <1>0, <1>1 DEF Tell, Readers
  <1>2. CASE Seek(t)
    <2>1. /\ reader' = [reader EXCEPT ![t].at = "read"]
          /\ file_pos' = IF reader[t].off < 0 THEN file_pos ELSE reader[t].off
      BY <1>2 DEF Seek
    <2>2. reader[t].off \in Int
      BY <1>0 DEF Readers
    <2>3. file_pos' \in Nat
      BY <1>0, <2>1, <2>2
    <2>4. QED
      BY <1>0, <2>1, <2>3 DEF Readers
  <1>3. CASE Read(t)
    <2>1. bytes \in Bytes /\ Len(bytes) \in 0 .. reader[t].len
      BY <1>0, BytesFound DEF Readers, Bytes
    <2>2. /\ reader' = [reader EXCEPT ![t].at = "restore", ![t].data = bytes]
          /\ file_pos' = file_pos + Len(bytes)
      BY <1>3 DEF Read
    <2> HIDE DEF bytes
    <2> DEFINE f1 == [reader EXCEPT ![t].at = "restore"]
               f2 == [f1 EXCEPT ![t].data = bytes]
    <2>3. /\ f1 \in [Thread -> Readers]
          /\ f1[t].off = reader[t].off /\ f1[t].len = reader[t].len
          /\ \A u \in Thread \ {t} : f1[u] = reader[u]
      BY <1>0 DEF Readers
    <2>4. reader' = f2
      BY <2>2
    <2> HIDE DEF f1
    <2>5. /\ f2 \in [Thread -> Readers]
          /\ f2[t].off = f1[t].off /\ f2[t].len = f1[t].len
          /\ f2[t].data = bytes
          /\ \A u \in Thread \ {t} : f2[u] = f1[u]
      BY <2>1, <2>3 DEF Readers
    <2>6. file_pos' \in Nat
      BY <1>0, <2>1, <2>2 DEF Readers
    <2> HIDE DEF f2
    <2>7. QED
      BY <1>0, <2>1, <2>3, <2>4, <2>5, <2>6
  <1>4. CASE Restore(t)
    BY <1>0, <1>4 DEF Restore, Readers
  <1>5. QED
    BY <1>1, <1>2, <1>3, <1>4 DEF ReaderStep

-----------------------------------------------------------------------------
(* Type correctness, and lengths.                                          *)
(*                                                                         *)
(* Neither is inductive: a slave must know that it has a descriptor, that  *)
(* it pumps an entry and answers anything else, and that the swath it has  *)
(* asked for is no longer than what it has announced and not yet written.  *)

Conns == {"new", "queued", "open", "closed", "gone", "left"}

Slaves == [pc : {"none", "unborn", "start", "request", "waiting", "answer",
                 "fclose", "pump", "read", "close", "done", "killed"},
           fd : Fd \union {0}, from : Client \union {None},
           serves : Requests \union {NoRequest, InternalError}, offset : Int]

SlaveStands(c) ==
    /\ slave[c].pc \in {"start", "request", "waiting", "answer", "fclose", "pump",
                        "read", "close"}
          => slave[c].fd \in Fd
    /\ slave[c].pc = "waiting" => slave[c].from \in Client
    /\ slave[c].pc # "waiting" => slave[c].from = None
    /\ slave[c].pc \in {"start", "request", "waiting"} => slave[c].offset = 0
    /\ slave[c].pc \in {"answer", "fclose"}
          => slave[c].serves \in Page \union {InternalError}
    /\ slave[c].pc \in {"pump", "read"} => slave[c].serves \in Entry
    /\ slave[c].serves.kind = "entry" =>
          /\ slave[c].offset <= slave[c].serves.length
          /\ slave[c].pc = "close" => slave[c].offset = slave[c].serves.length
          /\ slave[c].serves.length <= MaxInt => slave[c].offset \in Nat
    /\ slave[c].pc = "read" =>
          slave[c].offset + reader[c].len <= slave[c].serves.length
    /\ Len(reader[c].data) <= reader[c].len

ServerInv == TypeOK /\ \A c \in Client : SlaveStands(c)

\* What is asked for, and what it is not.
LEMMA RequestTypes ==
    /\ NoRequest \in Page /\ NoRequest.kind = "page"
    /\ NoRequest.length \in Nat /\ NoRequest.length <= MaxInt
    /\ InternalError.kind = "page" /\ InternalError.start = -3
    /\ \A r \in Page : r.kind = "page" /\ r.start \in -2 .. -1 /\ r.length = 1
    /\ \A r \in Entry : r.kind = "entry" /\ r.start \in Nat /\ r.length \in Nat
    /\ \A r \in Requests \union {NoRequest} : r.length \in Nat /\ r.start \in Int
    /\ \A r \in Requests : r.kind = "entry" => r \in Entry
    /\ \A r \in Requests : r.kind # "entry" /\ r # Blankless => r \in Page
  <1>1. NoRequest \in Page /\ NoRequest.kind = "page" /\ NoRequest.length = 1
    BY DEF NoRequest, Page
  <1>2. /\ \A r \in Page : r.kind = "page" /\ r.start \in -2 .. -1 /\ r.length = 1
        /\ InternalError.kind = "page" /\ InternalError.start = -3
        /\ Blankless.length = 0 /\ Blankless.start = -4
    BY DEF Page, InternalError, Blankless
  <1>3. \A r \in Entry : r.kind = "entry" /\ r.start \in Nat /\ r.length \in Nat
    BY ServerAssumption
  <1>4. \A r \in Requests : r \in Entry \/ r \in Page \/ r = Blankless
    BY ServerAssumption DEF Requests, OtherRequests
  <1>5. NoRequest.length <= MaxInt
    BY <1>1, ServerAssumption
  <1>6. NoRequest.length \in Nat /\ NoRequest.start \in Int
    BY <1>1, <1>2
  <1>7. ASSUME NEW r \in Requests
        PROVE  /\ r.length \in Nat /\ r.start \in Int
               /\ r.kind = "entry" => r \in Entry
               /\ r.kind # "entry" /\ r # Blankless => r \in Page
    <2>1. CASE r \in Entry
      BY <1>3, <2>1
    <2>2. CASE r \in Page
      <3>1. r.kind = "page" /\ r.start \in -2 .. -1 /\ r.length = 1
        BY <1>2, <2>2
      <3>2. QED
        BY <2>2, <3>1
    <2>3. CASE r = Blankless
      BY <1>2, <2>3 DEF Blankless
    <2>4. QED
      BY <1>4, <2>1, <2>2, <2>3
  <1>8. QED
    BY <1>1, <1>2, <1>3, <1>5, <1>6, <1>7

LEMMA NoSlaveType == /\ NoSlave \in Slaves /\ NoSlave.pc = "none" /\ NoSlave.fd = 0
                     /\ NoSlave.from = None /\ NoSlave.serves = NoRequest
                     /\ NoSlave.offset = 0
  BY DEF NoSlave, Slaves

\* The lowest free descriptor is one.
LEMMA LowestIsFree ==
    ASSUME FreeFds # {}
    PROVE  Lowest(FreeFds) \in FreeFds /\ Lowest(FreeFds) \in Fd
  <1>1. FreeFds \in SUBSET Nat /\ FreeFds \subseteq Fd
    BY ServerAssumption DEF FreeFds
  <1>2. \E f \in FreeFds : \A g \in FreeFds : f <= g
    BY <1>1, LeastNat
  <1>3. QED
    BY <1>1, <1>2 DEF Lowest

LEMMA ClosedType ==
    ASSUME TypeOK, NEW d \in Client
    PROVE  Closed(d) \in Conns
  BY DEF TypeOK, Closed, Conns

LEMMA CloseFdType ==
    ASSUME TypeOK, NEW f, CloseFd(f)
    PROVE  fds' \in [Fd -> Client \union {None}] /\ conn' \in [Client -> Conns]
  BY ClosedType DEF TypeOK, CloseFd, Conns

LEMMA ReceivedType ==
    ASSUME TypeOK, NEW c \in Client, NEW bytes \in Seq(-3 .. FileLen - 1)
    PROVE  Received(c, bytes) \in [Client -> Seq(-3 .. FileLen - 1)]
  <1>1. \A d \in Client : got[d] \o bytes \in Seq(-3 .. FileLen - 1)
    BY DEF TypeOK
  <1>2. \A d \in Client : got[d] \in Seq(-3 .. FileLen - 1)
    BY DEF TypeOK
  <1>3. QED
    BY <1>1, <1>2 DEF Received

\* The end of the process, which is also the end of every slave.
LEMMA ProcessEndsInv ==
    ASSUME ServerInv, ProcessEnds
    PROVE  ServerInv'
  <1>0. TypeOK /\ file_pos \in Nat /\ Thread = Client
    BY ServerAssumption DEF ServerInv, TypeOK, ReaderTypeOK
  <1>1. /\ server' = "exited" /\ fds' = [f \in Fd |-> None]
        /\ conn' = [d \in Client |-> Closed(d)]
        /\ slave' = [d \in Client |-> IF slave[d].pc = "none" THEN NoSlave
                                      ELSE [NoSlave EXCEPT !.pc = "killed"]]
        /\ reader' = [t \in Thread |-> NotReading]
        /\ asked' = asked /\ request' = request /\ got' = got
        /\ file_pos' = file_pos
    BY DEF ProcessEnds, clientVars
  <1>2. /\ [NoSlave EXCEPT !.pc = "killed"] \in Slaves
        /\ [NoSlave EXCEPT !.pc = "killed"].pc = "killed"
        /\ [NoSlave EXCEPT !.pc = "killed"].from = None
        /\ [NoSlave EXCEPT !.pc = "killed"].serves = NoRequest
    BY NoSlaveType DEF Slaves
  <1>3. \A d \in Client : /\ slave'[d] \in Slaves
                          /\ slave'[d].pc \in {"none", "killed"}
                          /\ slave'[d].from = None
                          /\ slave'[d].serves = NoRequest
                          /\ reader'[d] = NotReading
    BY <1>0, <1>1, <1>2, NoSlaveType
  <1>4. ReaderTypeOK'
    BY <1>0, <1>1, NotReadingType DEF ReaderTypeOK, Readers, Bytes
  <1>5. TypeOK'
    BY <1>0, <1>1, <1>3, <1>4, ClosedType DEF TypeOK, Slaves, Conns
  <1>6. \A d \in Client : SlaveStands(d)'
    BY <1>3, RequestTypes DEF SlaveStands, NotReading
  <1>7. QED
    BY <1>5, <1>6 DEF ServerInv

\* A step of one slave disturbs no other slave.
LEMMA OneSlave ==
    ASSUME ServerInv, NEW c \in Client, TypeOK', SlaveStands(c)',
           \A d \in Client \ {c} : slave'[d] = slave[d] /\ reader'[d] = reader[d]
    PROVE  ServerInv'
  BY DEF ServerInv, SlaveStands

\* Only slaves change.
LEMMA SlaveType ==
    ASSUME TypeOK, slave' \in [Client -> Slaves], UNCHANGED <<httpVars, readerVars>>
    PROVE  TypeOK'
  BY DEF TypeOK, ReaderTypeOK, readerVars, httpVars, clientVars, Slaves

\* A thread for an accepted connection.
LEMMA AcceptInv ==
    ASSUME ServerInv, NEW c \in Client, Accept(c)
    PROVE  ServerInv'
  <1>0. TypeOK /\ slave \in [Client -> Slaves]
    BY DEF ServerInv, TypeOK, Slaves
  <1> DEFINE f == Lowest(FreeFds)
  <1>1. f \in Fd
    BY LowestIsFree DEF Accept
  <1>2. /\ fds' = [fds EXCEPT ![f] = c]
        /\ conn' = [conn EXCEPT ![c] = "open"]
        /\ UNCHANGED <<server, asked, request, got, readerVars>>
    BY DEF Accept, clientVars
  <1>3. PICK pc \in {"start", "unborn"} :
           slave' = [slave EXCEPT ![c] = [NoSlave EXCEPT !.pc = pc, !.fd = f]]
    BY DEF Accept
  <1> HIDE DEF f
  <1> DEFINE s1 == [NoSlave EXCEPT !.pc = pc]
             s == [s1 EXCEPT !.fd = f]
  <1>4. /\ s1 \in Slaves /\ s1.pc = pc /\ s1.from = None
        /\ s1.serves = NoRequest /\ s1.offset = 0
    BY NoSlaveType DEF Slaves
  <1>5. slave' = [slave EXCEPT ![c] = s]
    BY <1>3
  <1> HIDE DEF s1
  <1>6. /\ s \in Slaves /\ s.pc = pc /\ s.fd = f /\ s.from = None
        /\ s.serves = NoRequest /\ s.offset = 0
    BY <1>1, <1>4 DEF Slaves
  <1> HIDE DEF s
  <1>7. TypeOK'
    BY <1>0, <1>1, <1>2, <1>5, <1>6
    DEF TypeOK, ReaderTypeOK, readerVars, Slaves
  <1>8. slave'[c] = s /\ reader' = reader
        /\ \A d \in Client \ {c} : slave'[d] = slave[d]
    BY <1>0, <1>2, <1>5 DEF readerVars
  <1>9. SlaveStands(c)'
    BY <1>1, <1>6, <1>8, RequestTypes DEF ServerInv, SlaveStands
  <1>10. QED
    BY <1>7, <1>8, <1>9, OneSlave

\* A slave that has found out what it serves.
LEMMA ServeType ==
    ASSUME TypeOK, NEW c \in Client, NEW r \in Requests \union {NoRequest},
           r # Blankless, Serve(c, r)
    PROVE  /\ slave' \in [Client -> Slaves]
           /\ slave'[c].pc \in {"answer", "pump"}
           /\ slave'[c].pc = "answer" => r \in Page
           /\ slave'[c].pc = "pump" => r \in Entry
           /\ slave'[c].serves = r /\ slave'[c].from = None
           /\ slave'[c].fd = slave[c].fd /\ slave'[c].offset = slave[c].offset
           /\ \A d \in Client \ {c} : slave'[d] = slave[d]
  <1>0. slave \in [Client -> Slaves] /\ slave[c] \in Slaves
    BY DEF TypeOK, Slaves
  <1> DEFINE q == IF r.kind = "entry" THEN "pump" ELSE "answer"
             f1 == [slave EXCEPT ![c].serves = r]
             f2 == [f1 EXCEPT ![c].from = None]
             f3 == [f2 EXCEPT ![c].pc = q]
  <1>1. /\ q \in {"answer", "pump"}
        /\ q = "answer" => r \in Page
        /\ q = "pump" => r \in Entry
    BY RequestTypes
  <1>2. slave' = f3
    BY DEF Serve
  <1> HIDE DEF q
  <1>3. /\ f1 \in [Client -> Slaves]
        /\ f1[c].serves = r /\ f1[c].fd = slave[c].fd
        /\ f1[c].offset = slave[c].offset
        /\ \A d \in Client \ {c} : f1[d] = slave[d]
    BY <1>0 DEF Slaves
  <1> HIDE DEF f1
  <1>4. /\ f2 \in [Client -> Slaves]
        /\ f2[c].from = None /\ f2[c].serves = f1[c].serves
        /\ f2[c].fd = f1[c].fd /\ f2[c].offset = f1[c].offset
        /\ \A d \in Client \ {c} : f2[d] = f1[d]
    BY <1>3 DEF Slaves
  <1> HIDE DEF f2
  <1>5. /\ f3 \in [Client -> Slaves]
        /\ f3[c].pc = q /\ f3[c].from = f2[c].from /\ f3[c].serves = f2[c].serves
        /\ f3[c].fd = f2[c].fd /\ f3[c].offset = f2[c].offset
        /\ \A d \in Client \ {c} : f3[d] = f2[d]
    BY <1>1, <1>4 DEF Slaves
  <1> HIDE DEF f3
  <1>6. QED
    BY <1>1, <1>2, <1>3, <1>4, <1>5

LEMMA ServeInv ==
    ASSUME ServerInv, NEW c \in Client, Reads(c),
           NEW r \in Requests \union {NoRequest}, r # Blankless,
           Serve(c, r), asked' \in [Client -> {"unsent", "sent", "read"}]
    PROVE  ServerInv'
  <1>0. TypeOK
    BY DEF ServerInv
  <1>1. slave[c].offset = 0 /\ slave[c].fd \in Fd
    BY DEF Reads, ServerInv, SlaveStands
  <1>2. /\ slave' \in [Client -> Slaves]
        /\ slave'[c].pc \in {"answer", "pump"}
        /\ slave'[c].pc = "answer" => r \in Page
        /\ slave'[c].pc = "pump" => r \in Entry
        /\ slave'[c].serves = r /\ slave'[c].from = None
        /\ slave'[c].fd = slave[c].fd /\ slave'[c].offset = slave[c].offset
        /\ \A d \in Client \ {c} : slave'[d] = slave[d]
    BY <1>0, ServeType
  <1>3. conn' \in [Client -> Conns]
        /\ UNCHANGED <<server, fds, request, got, readerVars>>
    BY <1>0, ClosedType DEF Serve, TypeOK, Conns
  <1>4. TypeOK'
    BY <1>0, <1>2, <1>3 DEF TypeOK, ReaderTypeOK, readerVars, Slaves, Conns
  <1>5. reader' = reader
    BY <1>3 DEF readerVars
  <1>6. r.length \in Nat /\ (r.kind = "entry" => r \in Entry)
    BY RequestTypes
  <1>7. SlaveStands(c)'
    BY <1>1, <1>2, <1>5, <1>6 DEF ServerInv, SlaveStands
  <1>8. QED
    BY <1>2, <1>4, <1>5, <1>7, OneSlave

LEMMA ServiceInv ==
    ASSUME ServerInv, NEW c \in Client, ServiceRequest(c) \/ ServiceLeftovers(c)
    PROVE  ServerInv'
  <1>0. TypeOK
    BY DEF ServerInv
  <1>1. CASE ServiceRequest(c)
    <2> DEFINE d == Source(c)
               r == request[d]
    <2>1. /\ Reads(c) /\ d \in Client /\ asked[d] = "sent"
          /\ r # Blankless /\ Serve(c, r) /\ asked' = [asked EXCEPT ![d] = "read"]
      BY <1>1 DEF ServiceRequest, HasSent
    <2> HIDE DEF d
    <2>2. r \in Requests \union {NoRequest}
      BY <1>0, <2>1 DEF TypeOK
    <2>3. asked' \in [Client -> {"unsent", "sent", "read"}]
      BY <1>0, <2>1 DEF TypeOK
    <2> HIDE DEF r
    <2>4. QED
      BY <2>1, <2>2, <2>3, ServeInv
  <1>2. CASE ServiceLeftovers(c)
    <2>1. PICK r \in Requests : r # Blankless /\ Serve(c, r)
      BY <1>2 DEF ServiceLeftovers
    <2>2. Reads(c) /\ asked' \in [Client -> {"unsent", "sent", "read"}]
      BY <1>0, <1>2 DEF ServiceLeftovers, NothingComes, TypeOK
    <2>3. QED
      BY <2>1, <2>2, ServeInv
  <1>3. QED
    BY <1>1, <1>2

LEMMA WaitInv ==
    ASSUME ServerInv, NEW c \in Client, Wait(c)
    PROVE  ServerInv'
  <1>0. TypeOK /\ slave \in [Client -> Slaves] /\ slave[c] \in Slaves
    BY DEF ServerInv, TypeOK, Slaves
  <1> DEFINE d == Peer(c)
  <1>1. slave[c].pc = "request" /\ slave[c].fd \in Fd /\ slave[c].offset = 0
    BY DEF Wait, ServerInv, SlaveStands
  <1>2. d \in Client
    BY <1>0, <1>1 DEF Wait, Peer, TypeOK
  <1>3. slave' = [slave EXCEPT ![c].pc = "waiting", ![c].from = d]
        /\ UNCHANGED <<httpVars, readerVars>>
    BY DEF Wait
  <1> HIDE DEF d
  <1> DEFINE f1 == [slave EXCEPT ![c].pc = "waiting"]
             f2 == [f1 EXCEPT ![c].from = d]
  <1>4. slave' = f2
    BY <1>3
  <1>5. /\ f1 \in [Client -> Slaves]
        /\ f1[c].pc = "waiting" /\ f1[c].fd = slave[c].fd
        /\ f1[c].serves = slave[c].serves /\ f1[c].offset = slave[c].offset
        /\ \A e \in Client \ {c} : f1[e] = slave[e]
    BY <1>0 DEF Slaves
  <1> HIDE DEF f1
  <1>6. /\ f2 \in [Client -> Slaves]
        /\ f2[c].pc = f1[c].pc /\ f2[c].from = d /\ f2[c].fd = f1[c].fd
        /\ f2[c].serves = f1[c].serves /\ f2[c].offset = f1[c].offset
        /\ \A e \in Client \ {c} : f2[e] = f1[e]
    BY <1>2, <1>5 DEF Slaves
  <1> HIDE DEF f2
  <1>7. TypeOK'
    BY <1>0, <1>3, <1>4, <1>6, SlaveType
  <1>8. reader' = reader
    BY <1>3 DEF readerVars
  <1>9. SlaveStands(c)'
    BY <1>1, <1>2, <1>4, <1>5, <1>6, <1>8 DEF ServerInv, SlaveStands
  <1>10. QED
    BY <1>4, <1>5, <1>6, <1>7, <1>8, <1>9, OneSlave

LEMMA FdopenFailsInv ==
    ASSUME ServerInv, NEW c \in Client, FdopenFails(c)
    PROVE  ServerInv'
  <1>0. TypeOK /\ slave \in [Client -> Slaves] /\ slave[c] \in Slaves
    BY DEF ServerInv, TypeOK, Slaves
  <1>1. slave[c].fd \in Fd /\ slave[c].from = None
    BY DEF FdopenFails, ServerInv, SlaveStands
  <1> DEFINE s1 == [slave[c] EXCEPT !.pc = "answer"]
             s == [s1 EXCEPT !.serves = InternalError]
  <1>2. slave' = [slave EXCEPT ![c].pc = "answer", ![c].serves = InternalError]
        /\ UNCHANGED <<httpVars, readerVars>>
    BY DEF FdopenFails
  <1>3. /\ s1 \in Slaves /\ s1.pc = "answer" /\ s1.fd = slave[c].fd
        /\ s1.from = slave[c].from
    BY <1>0 DEF Slaves
  <1>4. slave' = [slave EXCEPT ![c] = s]
    <2> DEFINE f1 == [slave EXCEPT ![c].pc = "answer"]
               f2 == [f1 EXCEPT ![c].serves = InternalError]
    <2>1. f1 = [slave EXCEPT ![c] = s1] /\ f1[c] = s1
      BY <1>0
    <2> HIDE DEF f1, s1
    <2>2. f2 = [slave EXCEPT ![c] = s]
      BY <2>1
    <2>3. slave' = f2
      BY <1>2 DEF f1
    <2>4. QED
      BY <2>2, <2>3
  <1> HIDE DEF s1
  <1>5. /\ s \in Slaves /\ s.pc = "answer" /\ s.serves = InternalError
        /\ s.fd = slave[c].fd /\ s.from = slave[c].from
    BY <1>3 DEF Slaves
  <1> HIDE DEF s
  <1>6. TypeOK'
    BY <1>0, <1>2, <1>4, <1>5, SlaveType
  <1>7. slave'[c] = s /\ reader' = reader
        /\ \A d \in Client \ {c} : slave'[d] = slave[d]
    BY <1>0, <1>2, <1>4 DEF readerVars
  <1>8. SlaveStands(c)'
    BY <1>1, <1>5, <1>7, RequestTypes DEF ServerInv, SlaveStands
  <1>9. QED
    BY <1>6, <1>7, <1>8, OneSlave

\* Where a slave goes on to, its other fields are kept.
LEMMA GoType ==
    ASSUME TypeOK, NEW c \in Client,
           NEW p \in {"request", "fclose", "read", "close"}, Go(c, p)
    PROVE  /\ slave' \in [Client -> Slaves]
           /\ slave'[c].pc = p /\ slave'[c].fd = slave[c].fd
           /\ slave'[c].from = slave[c].from
           /\ slave'[c].serves = slave[c].serves
           /\ slave'[c].offset = slave[c].offset
           /\ \A d \in Client \ {c} : slave'[d] = slave[d]
  <1>0. slave \in [Client -> Slaves] /\ slave[c] \in Slaves
    BY DEF TypeOK, Slaves
  <1>1. slave' = [slave EXCEPT ![c].pc = p]
    BY DEF Go
  <1>2. QED
    BY <1>0, <1>1 DEF Slaves

LEMMA FdopenInv ==
    ASSUME ServerInv, NEW c \in Client, Fdopen(c)
    PROVE  ServerInv'
  <1>0. TypeOK
    BY DEF ServerInv
  <1>1. slave[c].pc = "start" /\ Go(c, "request") /\ UNCHANGED <<httpVars, readerVars>>
    BY DEF Fdopen
  <1>2. TypeOK' /\ reader' = reader
    BY <1>0, <1>1, GoType, SlaveType DEF readerVars
  <1>3. SlaveStands(c)'
    BY <1>0, <1>1, <1>2, GoType DEF ServerInv, SlaveStands
  <1>4. QED
    BY <1>0, <1>1, <1>2, <1>3, GoType, OneSlave

LEMMA AnswerInv ==
    ASSUME ServerInv, NEW c \in Client, Answer(c)
    PROVE  ServerInv'
  <1>0. TypeOK
    BY DEF ServerInv
  <1>1. /\ slave[c].pc = "answer" /\ slave[c].fd \in Fd /\ slave[c].from = None
        /\ slave[c].serves \in Page \union {InternalError}
    BY DEF Answer, ServerInv, SlaveStands
  <1>2. /\ got' = Received(c, <<slave[c].serves.start>>)
        /\ Go(c, "fclose")
        /\ UNCHANGED <<server, fds, conn, asked, request, readerVars>>
    BY DEF Answer, clientVars
  <1>3. slave[c].serves.kind = "page" /\ slave[c].serves.start \in -3 .. -1
    BY <1>1, RequestTypes
  <1>4. <<slave[c].serves.start>> \in Seq(-3 .. FileLen - 1)
    BY <1>3, FileAssumption
  <1>5. got' \in [Client -> Seq(-3 .. FileLen - 1)]
    BY <1>0, <1>2, <1>4, ReceivedType
  <1>6. TypeOK'
    BY <1>0, <1>2, <1>5, GoType
    DEF TypeOK, ReaderTypeOK, readerVars, Slaves
  <1>7. SlaveStands(c)'
    BY <1>0, <1>1, <1>2, <1>3, GoType DEF ServerInv, SlaveStands, readerVars
  <1>8. QED
    BY <1>0, <1>2, <1>6, <1>7, GoType, OneSlave DEF readerVars

\* The stream is closed when what was announced has been written.
LEMMA FcloseInv ==
    ASSUME ServerInv, NEW c \in Client, Fclose(c)
    PROVE  ServerInv'
  <1>0. TypeOK
    BY DEF ServerInv
  <1>1. /\ slave[c].pc \in {"fclose", "pump"} /\ slave[c].fd \in Fd
        /\ slave[c].from = None
        /\ CloseFd(slave[c].fd) /\ Go(c, "close")
        /\ UNCHANGED <<server, asked, request, got, readerVars>>
    BY DEF Fclose, AllWritten, clientVars, ServerInv, SlaveStands
  <1>2. /\ slave[c].serves.kind = "entry" =>
              slave[c].offset = slave[c].serves.length
    <2>1. CASE slave[c].pc = "fclose"
      BY <2>1, RequestTypes DEF ServerInv, SlaveStands
    <2>2. CASE slave[c].pc = "pump"
      <3>1. slave[c].serves \in Entry /\ slave[c].offset >= slave[c].serves.length
        BY <2>2 DEF Fclose, AllWritten, ServerInv, SlaveStands
      <3>2. /\ slave[c].serves.kind = "entry" /\ slave[c].serves.length \in Nat
            /\ slave[c].offset \in Int
        BY <1>0, <3>1, RequestTypes DEF TypeOK
      <3>3. slave[c].offset <= slave[c].serves.length
        BY <3>2 DEF ServerInv, SlaveStands
      <3>4. QED
        BY <3>1, <3>2, <3>3
    <2>3. QED
      BY <1>1, <2>1, <2>2
  <1>3. fds' \in [Fd -> Client \union {None}] /\ conn' \in [Client -> Conns]
    BY <1>0, <1>1, CloseFdType
  <1>4. TypeOK'
    BY <1>0, <1>1, <1>3, GoType
    DEF TypeOK, ReaderTypeOK, readerVars, Slaves, Conns
  <1>5. SlaveStands(c)'
    BY <1>0, <1>1, <1>2, GoType DEF ServerInv, SlaveStands, readerVars
  <1>6. QED
    BY <1>0, <1>1, <1>4, <1>5, GoType, OneSlave DEF readerVars

LEMMA CloseAgainInv ==
    ASSUME ServerInv, NEW c \in Client, CloseAgain(c)
    PROVE  ServerInv'
  <1>0. TypeOK /\ slave \in [Client -> Slaves]
    BY DEF ServerInv, TypeOK, Slaves
  <1> DEFINE s == [NoSlave EXCEPT !.pc = "done"]
  <1>1. /\ CloseFd(slave[c].fd)
        /\ slave' = [slave EXCEPT ![c] = s]
        /\ UNCHANGED <<server, asked, request, got, readerVars>>
    BY DEF CloseAgain, clientVars
  <1>2. s \in Slaves /\ s.pc = "done" /\ s.from = None /\ s.serves = NoRequest
    BY NoSlaveType DEF Slaves
  <1> HIDE DEF s
  <1>3. fds' \in [Fd -> Client \union {None}] /\ conn' \in [Client -> Conns]
    BY <1>0, <1>1, CloseFdType
  <1>4. slave' \in [Client -> Slaves] /\ slave'[c] = s
        /\ \A d \in Client \ {c} : slave'[d] = slave[d]
    BY <1>0, <1>1, <1>2
  <1>5. TypeOK'
    BY <1>0, <1>1, <1>3, <1>4 DEF TypeOK, ReaderTypeOK, readerVars, Slaves, Conns
  <1>6. SlaveStands(c)'
    BY <1>1, <1>2, <1>4, RequestTypes DEF ServerInv, SlaveStands, readerVars
  <1>7. QED
    BY <1>1, <1>4, <1>5, <1>6, OneSlave DEF readerVars

\* The next swath is asked for: never more than the entry still has.
LEMMA PumpInv ==
    ASSUME ServerInv, NEW c \in Client, Pump(c)
    PROVE  ServerInv'
  <1>0. TypeOK /\ ReaderTypeOK /\ c \in Thread /\ Thread = Client
    BY ServerAssumption DEF ServerInv, TypeOK
  <1> DEFINE off == slave[c].serves.start + slave[c].offset
             len == NextSwath(c)
  <1>1. /\ slave[c].pc = "pump" /\ slave[c].fd \in Fd /\ slave[c].from = None
        /\ slave[c].serves \in Entry
        /\ slave[c].offset < slave[c].serves.length
        /\ CallReader(c, off, len) /\ Go(c, "read")
        /\ UNCHANGED httpVars
    BY DEF Pump, ServerInv, SlaveStands
  <1>2. /\ slave[c].serves.start \in Nat /\ slave[c].serves.length \in Nat
        /\ slave[c].serves.kind = "entry" /\ slave[c].offset \in Int
        /\ slave[c].serves.length <= MaxInt => slave[c].offset \in Nat
    BY <1>0, <1>1, RequestTypes DEF TypeOK, ServerInv, SlaveStands
  <1>3. /\ off \in Int /\ len \in Nat
        /\ slave[c].offset + len <= slave[c].serves.length
    BY <1>1, <1>2, ServerAssumption DEF NextSwath
  <1> HIDE DEF off, len
  <1>4. /\ ReaderTypeOK' /\ reader'[c].len = len /\ reader'[c].data = <<>>
        /\ \A d \in Client \ {c} : reader'[d] = reader[d]
    BY <1>0, <1>1, <1>3, CallReaderType
  <1>5. TypeOK'
    BY <1>0, <1>1, <1>4, GoType DEF TypeOK, httpVars, clientVars, Slaves
  <1>6. SlaveStands(c)'
    <2>1. Len(reader'[c].data) <= reader'[c].len
      BY <1>3, <1>4
    <2>2. /\ slave'[c].pc = "read" /\ slave'[c].fd = slave[c].fd
          /\ slave'[c].from = slave[c].from /\ slave'[c].serves = slave[c].serves
          /\ slave'[c].offset = slave[c].offset
      BY <1>0, <1>1, GoType
    <2>3. slave'[c].offset + reader'[c].len <= slave'[c].serves.length
      BY <1>3, <1>4, <2>2
    <2>4. slave'[c].offset <= slave'[c].serves.length
      BY <1>1, <1>2, <2>2
    <2>5. QED
      BY <1>1, <1>2, <2>1, <2>2, <2>3, <2>4 DEF SlaveStands
  <1>7. QED
    BY <1>0, <1>1, <1>4, <1>5, <1>6, GoType, OneSlave

LEMMA ReadingInv ==
    ASSUME ServerInv, NEW c \in Client, Reading(c)
    PROVE  ServerInv'
  <1>0. TypeOK /\ ReaderTypeOK /\ c \in Thread /\ Thread = Client
    BY ServerAssumption DEF ServerInv, TypeOK
  <1>1. /\ ReaderStep(c) /\ UNCHANGED <<httpVars, slave>>
        /\ Len(reader[c].data) <= reader[c].len
    BY DEF Reading, ServerInv, SlaveStands
  <1>2. /\ ReaderTypeOK' /\ reader'[c].len = reader[c].len
        /\ Len(reader'[c].data) <= reader'[c].len
        /\ \A d \in Client \ {c} : reader'[d] = reader[d]
    BY <1>0, <1>1, ReaderStepType
  <1>3. TypeOK'
    BY <1>0, <1>1, <1>2 DEF TypeOK, httpVars, clientVars
  <1>4. SlaveStands(c)'
    BY <1>1, <1>2 DEF ServerInv, SlaveStands
  <1>5. QED
    BY <1>1, <1>2, <1>3, <1>4, OneSlave

\* An int never is more than the number it stands for, and is that number if
\* the largest int is not less.
LEMMA AsIntStands ==
    ASSUME NEW n \in Int, NEW i \in AsInt(n)
    PROVE  i \in Int /\ i <= n /\ (n <= MaxInt => i = n)
  BY ServerAssumption DEF AsInt

LEMMA AdvanceType ==
    ASSUME TypeOK, NEW c \in Client, Len(reader[c].data) \in Nat, Advance(c)
    PROVE  /\ slave' \in [Client -> Slaves]
           /\ slave'[c].pc = "pump" /\ slave'[c].fd = slave[c].fd
           /\ slave'[c].from = slave[c].from
           /\ slave'[c].serves = slave[c].serves
           /\ slave'[c].offset <= slave[c].offset + Len(reader[c].data)
           /\ slave[c].offset + Len(reader[c].data) <= MaxInt =>
                 slave'[c].offset = slave[c].offset + Len(reader[c].data)
           /\ \A d \in Client \ {c} : slave'[d] = slave[d]
  <1>0. slave \in [Client -> Slaves] /\ slave[c] \in Slaves
    BY DEF TypeOK, Slaves
  <1> DEFINE n == slave[c].offset + Len(reader[c].data)
  <1>1. n \in Int
    BY <1>0 DEF Slaves
  <1>2. PICK i \in AsInt(n) :
           slave' = [slave EXCEPT ![c].pc = "pump", ![c].offset = i]
    BY DEF Advance
  <1> HIDE DEF n
  <1>3. i \in Int /\ i <= n /\ (n <= MaxInt => i = n)
    BY <1>1, <1>2, AsIntStands
  <1> DEFINE f1 == [slave EXCEPT ![c].pc = "pump"]
             f2 == [f1 EXCEPT ![c].offset = i]
  <1>4. slave' = f2
    BY <1>2
  <1>5. /\ f1 \in [Client -> Slaves]
        /\ f1[c].pc = "pump" /\ f1[c].from = slave[c].from
        /\ f1[c].serves = slave[c].serves /\ f1[c].fd = slave[c].fd
        /\ \A d \in Client \ {c} : f1[d] = slave[d]
    BY <1>0 DEF Slaves
  <1> HIDE DEF f1
  <1>6. /\ f2 \in [Client -> Slaves]
        /\ f2[c].pc = f1[c].pc /\ f2[c].from = f1[c].from
        /\ f2[c].serves = f1[c].serves
        /\ f2[c].fd = f1[c].fd /\ f2[c].offset = i
        /\ \A d \in Client \ {c} : f2[d] = f1[d]
    BY <1>3, <1>5 DEF Slaves
  <1> HIDE DEF f2
  <1>7. QED
    BY <1>3, <1>4, <1>5, <1>6 DEF n

\* What was read is written, however short the read: at most what was asked
\* for, and so at most what has been announced.
LEMMA WriteInv ==
    ASSUME ServerInv, NEW c \in Client, Write(c)
    PROVE  ServerInv'
  <1>0. /\ TypeOK /\ ReaderTypeOK /\ c \in Thread /\ Thread = Client
        /\ slave[c] \in Slaves
        /\ reader \in [Thread -> Readers] /\ reader[c] \in Readers
    BY ServerAssumption
    DEF ServerInv, TypeOK, Slaves, ReaderTypeOK, Readers, Bytes
  <1> DEFINE n == Len(reader[c].data)
  <1>1. /\ slave[c].pc = "read" /\ slave[c].fd \in Fd /\ slave[c].from = None
        /\ slave[c].serves \in Entry
        /\ slave[c].offset + reader[c].len <= slave[c].serves.length
        /\ n <= reader[c].len
    BY DEF Write, ServerInv, SlaveStands
  <1>2. /\ got' = Received(c, reader[c].data) /\ Advance(c)
        /\ reader' = [reader EXCEPT ![c] = NotReading]
        /\ UNCHANGED <<server, fds, conn, asked, request, file_pos>>
    BY DEF Write, clientVars
  <1>3. /\ reader[c].data \in Seq(0 .. FileLen - 1) /\ n \in Nat
        /\ reader[c].len \in Nat /\ slave[c].offset \in Int
        /\ slave[c].serves.length \in Nat /\ slave[c].serves.kind = "entry"
        /\ slave[c].serves.length <= MaxInt => slave[c].offset \in Nat
    BY <1>0, <1>1, RequestTypes DEF Readers, Bytes, Slaves, ServerInv, SlaveStands
  <1>4. reader[c].data \in Seq(-3 .. FileLen - 1)
    <2> DEFINE S == 0 .. FileLen - 1
               T == -3 .. FileLen - 1
    <2>1. S \subseteq T
      BY FileAssumption
    <2>2. reader[c].data \in Seq(S)
      BY <1>3
    <2> HIDE DEF S, T
    <2>3. reader[c].data \in Seq(T)
      BY <2>1, <2>2, SeqWidens
    <2>4. QED
      BY <2>3 DEF T
  <1>5. got' \in [Client -> Seq(-3 .. FileLen - 1)]
    BY <1>0, <1>2, <1>4, ReceivedType
  <1>6. /\ slave' \in [Client -> Slaves]
        /\ slave'[c].pc = "pump" /\ slave'[c].fd = slave[c].fd
        /\ slave'[c].from = slave[c].from
        /\ slave'[c].serves = slave[c].serves
        /\ slave'[c].offset <= slave[c].offset + n
        /\ slave[c].offset + n <= MaxInt => slave'[c].offset = slave[c].offset + n
        /\ \A d \in Client \ {c} : slave'[d] = slave[d]
    BY <1>0, <1>2, <1>3, AdvanceType
  <1> HIDE DEF n
  <1>7. ReaderTypeOK' /\ reader'[c] = NotReading
        /\ \A d \in Client \ {c} : reader'[d] = reader[d]
    BY <1>0, <1>2, NotReadingType DEF ReaderTypeOK, Readers, Bytes
  <1>8. TypeOK'
    BY <1>0, <1>2, <1>5, <1>6, <1>7 DEF TypeOK, Slaves
  <1>9. /\ slave'[c].offset \in Int
        /\ slave'[c].offset <= slave[c].serves.length
        /\ slave[c].serves.length <= MaxInt => slave'[c].offset \in Nat
    <2>1. slave'[c].offset \in Int /\ MaxInt \in Nat
      BY <1>6, ServerAssumption DEF Slaves
    <2>2. slave[c].offset + n <= slave[c].serves.length
      BY <1>1, <1>3
    <2>3. QED
      BY <1>3, <1>6, <2>1, <2>2
  <1>10. SlaveStands(c)'
    BY <1>1, <1>3, <1>6, <1>7, <1>9 DEF SlaveStands, NotReading
  <1>11. QED
    BY <1>6, <1>7, <1>8, <1>10, OneSlave

LEMMA InitServer == Init => ServerInv
  <1> SUFFICES ASSUME Init PROVE ServerInv
    OBVIOUS
  <1>1. ReaderTypeOK
    BY NotReadingType DEF Init, ReaderInit, ReaderTypeOK, Readers, Bytes
  <1>2. TypeOK
    BY <1>1, NoSlaveType, RequestTypes DEF Init, TypeOK, Slaves
  <1>3. \A c \in Client : SlaveStands(c)
    BY NoSlaveType, RequestTypes, ServerAssumption
    DEF Init, ReaderInit, SlaveStands, NotReading
  <1>4. QED
    BY <1>2, <1>3 DEF ServerInv

LEMMA NextServer == ServerInv /\ [Next]_vars => ServerInv'
  <1> SUFFICES ASSUME ServerInv, [Next]_vars PROVE ServerInv'
    OBVIOUS
  <1>1. ASSUME UNCHANGED <<slave, readerVars>>, TypeOK' PROVE ServerInv'
    BY <1>1 DEF ServerInv, SlaveStands, readerVars
  <1>2. ASSUME NEW c \in Client, Connect(c) \/ Send(c) \/ HangUp(c) PROVE ServerInv'
    <2>1. /\ conn' \in [Client -> Conns]
          /\ asked' \in [Client -> {"unsent", "sent", "read"}]
          /\ UNCHANGED <<server, fds, slave, readerVars>>
      BY <1>2 DEF Connect, Send, HangUp, clientVars, Conns, ServerInv, TypeOK
    <2>2. /\ request' \in [Client -> Requests \union {NoRequest}]
          /\ got' \in [Client -> Seq(-3 .. FileLen - 1)]
      <3>1. <<>> \in Seq(-3 .. FileLen - 1)
        OBVIOUS
      <3>2. CASE Connect(c)
        BY <3>2 DEF Connect, clientVars, ServerInv, TypeOK
      <3>3. CASE Send(c)
        BY <3>3 DEF Send, ServerInv, TypeOK
      <3>4. CASE HangUp(c)
        BY <3>1, <3>4 DEF HangUp, clientVars, ServerInv, TypeOK
      <3>5. QED
        BY <1>2, <3>2, <3>3, <3>4
    <2>3. TypeOK'
      BY <2>1, <2>2 DEF ServerInv, TypeOK, ReaderTypeOK, readerVars, Conns
    <2>4. QED
      BY <1>1, <2>1, <2>3
  <1>3. ASSUME NEW c \in Client, Slave(c) PROVE ServerInv'
    BY <1>3, FdopenInv, FdopenFailsInv, WaitInv, ServiceInv, AnswerInv, PumpInv,
       ReadingInv, WriteInv, FcloseInv, CloseAgainInv, ProcessEndsInv
    DEF Slave, NoRequestLine, BrokenPipe
  <1>4. CASE AcceptLoop
    BY <1>4, AcceptInv, ProcessEndsInv DEF AcceptLoop, AcceptFails
  <1>5. CASE UNCHANGED vars
    <2>1. TypeOK'
      BY <1>5 DEF vars, httpVars, clientVars, ServerInv, TypeOK, ReaderTypeOK,
                  readerVars
    <2>2. QED
      BY <1>1, <1>5, <2>1 DEF vars
  <1>6. QED
    BY <1>2, <1>3, <1>4, <1>5 DEF Next

\* Every variable keeps its type; in particular a slave that uses a descriptor
\* has one, whatever the slaves do to each other's numbers.
THEOREM HttpTypeCorrect == Spec => []TypeOK
  <1>1. ServerInv => TypeOK
    BY DEF ServerInv
  <1>2. QED
    BY InitServer, NextServer, <1>1, PTL DEF Spec

\* A slave that closes its stream after an entry has written as many bytes as
\* its Content-Length announced, and none has written more: however short the
\* reads were and wherever the other slaves had moved the file to.
THEOREM AsLongAsAnnouncedHolds == Spec => []AsLongAsAnnounced
  <1>1. ServerInv => AsLongAsAnnounced
    BY DEF ServerInv, SlaveStands, AsLongAsAnnounced
  <1>2. QED
    BY InitServer, NextServer, <1>1, PTL DEF Spec

-----------------------------------------------------------------------------
(* One client, until another one is accepted.                              *)
(*                                                                         *)
(* There is one descriptor in use, its own, from accept to close; what is  *)
(* served is what it asked for; and the file position, once moved, stays   *)
(* until the read.  That a second slave has begun is for good, so that a   *)
(* state in which there is none has only such states before it.            *)

Alone(c) == \A d \in Client \ {c} : slave[d].pc = "none"

Serving(c) == slave[c].pc \in {"unborn", "start", "request", "waiting", "answer",
                               "fclose", "pump", "read"}

OwnDescriptor(c) ==
    /\ \A f \in Fd : fds[f] # None =>
            fds[f] = c /\ f = slave[c].fd /\ Serving(c)
    /\ Serving(c) => /\ slave[c].fd \in Fd /\ fds[slave[c].fd] = c
                     /\ conn[c] \in {"open", "gone"}
    /\ slave[c].pc = "waiting" => slave[c].from = c
    /\ conn[c] = "open" => Serving(c)
    /\ conn[c] \in {"new", "queued"} => slave[c].pc = "none"
    /\ conn[c] = "closed" /\ server = "listening" => slave[c].pc \in {"close", "done"}

\* As long as the client is there: one that has gone may be answered with what
\* it has not asked for, which it does not receive.
OwnRequest(c) ==
    /\ asked[c] = "unsent" => request[c] = NoRequest
    /\ conn[c] = "open" /\ slave[c].pc \in {"answer", "fclose", "pump", "read"} =>
          asked[c] # "unsent" /\ slave[c].serves = request[c]
    /\ slave[c].pc = "unborn" => slave[c].offset = 0

OwnPosition(c) ==
    conn[c] = "open" /\ slave[c].pc = "read" =>
        /\ reader[c].off = slave[c].serves.start + slave[c].offset
        /\ reader[c].at = "read" => file_pos = reader[c].off
        /\ reader[c].at \in {"restore", "out"} =>
              reader[c].data = BytesAt(reader[c].off, reader[c].len)

\* n bytes of the file.
Part(start, n) == [k \in 1 .. n |-> start + k - 1]

SoFar(c) ==
    /\ conn[c] \in {"new", "queued", "gone", "left"} => got[c] = <<>>
    /\ conn[c] = "open" => CASE slave[c].pc = "fclose" -> got[c] = Wanted(request[c])
                             [] slave[c].pc \in {"pump", "read"} ->
                                   got[c] = Part(request[c].start, slave[c].offset)
                             [] OTHER -> got[c] = <<>>
    /\ conn[c] = "closed" => GetsItsAnswer(c)

Countable(c) == request[c].length <= MaxInt

SoloInv(c) ==
    /\ OwnDescriptor(c)
    /\ OwnRequest(c)
    /\ Countable(c) => OwnPosition(c) /\ SoFar(c)

LEMMA PartEmpty == \A s : Part(s, 0) = <<>>
  BY DEF Part

LEMMA PartOne ==
    ASSUME NEW s \in Int
    PROVE  Part(s, 1) = <<s>>
  <1>1. Len(Part(s, 1)) = 1 /\ Part(s, 1)[1] = s
    BY DEF Part
  <1>2. QED
    BY <1>1 DEF Part

LEMMA PartAppend ==
    ASSUME NEW s \in Int, NEW n \in Nat, NEW m \in Nat
    PROVE  Part(s, n) \o Part(s + n, m) = Part(s, n + m)
  <1> DEFINE a == Part(s, n)
             b == Part(s + n, m)
             t == Part(s, n + m)
  <1>1. /\ a \in Seq(Int) /\ Len(a) = n /\ \A k \in 1 .. n : a[k] = s + k - 1
        /\ b \in Seq(Int) /\ Len(b) = m /\ \A k \in 1 .. m : b[k] = s + n + k - 1
        /\ t \in Seq(Int) /\ Len(t) = n + m
        /\ \A k \in 1 .. n + m : t[k] = s + k - 1
    BY DEF Part
  <1> HIDE DEF a, b, t
  <1>2. /\ a \o b \in Seq(Int) /\ Len(a \o b) = n + m
        /\ \A k \in 1 .. n + m : (a \o b)[k] = IF k <= n THEN a[k] ELSE b[k - n]
    <2>1. /\ a \o b \in Seq(Int) /\ Len(a \o b) = Len(a) + Len(b)
          /\ \A k \in 1 .. Len(a) + Len(b) :
               (a \o b)[k] = IF k <= Len(a) THEN a[k] ELSE b[k - Len(a)]
      <3>1. a \in Seq(Int) /\ b \in Seq(Int)
        BY <1>1
      <3>2. QED
        BY <3>1, ConcatProperties
    <2>2. QED
      BY <1>1, <2>1
  <1>3. ASSUME NEW k \in 1 .. n + m PROVE (a \o b)[k] = t[k]
    <2>1. CASE k <= n
      BY <1>1, <1>2, <2>1
    <2>2. CASE k > n
      <3>1. (a \o b)[k] = b[k - n] /\ k - n \in 1 .. m
        BY <1>2, <2>2
      <3>2. b[k - n] = s + n + (k - n) - 1
        BY <1>1, <3>1
      <3>3. QED
        BY <1>1, <3>1, <3>2
    <2>3. k <= n \/ k > n
      OBVIOUS
    <2>4. QED
      BY <2>1, <2>2, <2>3
  <1>4. a \o b = t
    BY <1>1, <1>2, <1>3, SeqEqual
  <1>5. QED
    BY <1>4 DEF a, b, t

LEMMA PartPrefix ==
    ASSUME NEW s \in Int, NEW n \in Nat, NEW m \in Nat, n <= m
    PROVE  IsPrefix(Part(s, n), Part(s, m))
  <1> DEFINE a == Part(s, n)
             t == Part(s, m)
  <1>1. /\ a \in Seq(Int) /\ Len(a) = n /\ \A k \in 1 .. n : a[k] = s + k - 1
        /\ t \in Seq(Int) /\ Len(t) = m /\ \A k \in 1 .. m : t[k] = s + k - 1
    BY DEF Part
  <1> HIDE DEF a, t
  <1> DEFINE u == SubSeq(a, 1, n)
             v == SubSeq(t, 1, n)
  <1>2. /\ u \in Seq(Int) /\ Len(u) = n /\ \A k \in 1 .. n : u[k] = a[k]
        /\ v \in Seq(Int) /\ Len(v) = n /\ \A k \in 1 .. n : v[k] = t[k]
    BY <1>1
  <1> HIDE DEF u, v
  <1>3. \A k \in 1 .. n : u[k] = v[k]
    <2> TAKE k \in 1 .. n
    <2>1. u[k] = a[k] /\ v[k] = t[k] /\ k \in 1 .. m
      BY <1>2
    <2>2. a[k] = s + k - 1 /\ t[k] = s + k - 1
      BY <1>1, <2>1
    <2>3. QED
      BY <2>1, <2>2
  <1>4. u = v
    BY <1>2, <1>3, SeqEqual
  <1>5. IsPrefix(a, t)
    BY <1>1, <1>4 DEF IsPrefix, u, v
  <1>6. QED
    BY <1>5 DEF a, t

\* What a read finds is a part of the file.
LEMMA BytesArePart ==
    ASSUME NEW pos \in Nat, NEW len \in Nat
    PROVE  BytesAt(pos, len) = Part(pos, Len(BytesAt(pos, len)))
  <1> DEFINE n == IF pos >= FileLen THEN 0
                  ELSE IF pos + len > FileLen THEN FileLen - pos ELSE len
  <1>1. n \in Nat
    BY FileAssumption
  <1>2. BytesAt(pos, len) = [k \in 1 .. n |-> pos + k - 1]
    BY DEF BytesAt
  <1> HIDE DEF n
  <1>3. QED
    BY <1>1, <1>2 DEF Part

LEMMA WantedIsPart == \A r : Wanted(r) = Part(r.start, r.length)
  BY DEF Wanted, Part

\* What is served to a client that is there: an entry, and where.
LEMMA SoloServes ==
    ASSUME ServerInv, NEW c \in Client, SoloInv(c), Countable(c),
           conn[c] = "open", slave[c].pc \in {"pump", "read"}
    PROVE  /\ slave[c].serves = request[c] /\ request[c] \in Entry
           /\ request[c].start \in Nat /\ request[c].length \in Nat
           /\ slave[c].offset \in Nat /\ slave[c].offset <= request[c].length
  <1>1. slave[c].serves = request[c] /\ request[c] \in Entry
    BY DEF SoloInv, OwnRequest, ServerInv, SlaveStands
  <1>2. /\ request[c].start \in Nat /\ request[c].length \in Nat
        /\ request[c].kind = "entry"
    BY <1>1, RequestTypes
  <1>3. QED
    BY <1>1, <1>2 DEF ServerInv, SlaveStands, Countable

\* What the client has is a beginning of what it asked for.
LEMMA SoloPrefix ==
    ASSUME ServerInv, NEW c \in Client, SoloInv(c), Countable(c)
    PROVE  IsPrefix(got[c], Wanted(request[c]))
  <1> DEFINE r == request[c]
  <1>1. r.start \in Int /\ r.length \in Nat /\ conn[c] \in Conns
    BY RequestTypes DEF ServerInv, TypeOK, Conns
  <1>2. CASE conn[c] = "closed"
    BY <1>2 DEF SoloInv, SoFar, GetsItsAnswer
  <1>3. CASE got[c] = <<>>
    <2>1. got[c] = Part(r.start, 0)
      BY <1>3, PartEmpty
    <2>2. QED
      BY <1>1, <2>1, PartPrefix, WantedIsPart
  <1>4. CASE conn[c] = "open" /\ slave[c].pc = "fclose"
    <2>1. got[c] = Part(r.start, r.length)
      BY <1>4, WantedIsPart DEF SoloInv, SoFar
    <2>2. QED
      BY <1>1, <2>1, PartPrefix, WantedIsPart
  <1>5. CASE conn[c] = "open" /\ slave[c].pc \in {"pump", "read"}
    <2>1. got[c] = Part(r.start, slave[c].offset)
      BY <1>5 DEF SoloInv, SoFar
    <2>2. slave[c].offset \in Nat /\ slave[c].offset <= r.length
      BY <1>5, SoloServes
    <2>3. QED
      BY <1>1, <2>1, <2>2, PartPrefix, WantedIsPart
  <1>6. QED
    <2>1. /\ conn[c] \in {"new", "queued", "gone", "left"} => got[c] = <<>>
          /\ conn[c] = "open" /\ slave[c].pc \notin {"fclose", "pump", "read"}
                => got[c] = <<>>
      BY DEF SoloInv, SoFar
    <2>2. QED
      BY <1>1, <1>2, <1>3, <1>4, <1>5, <2>1 DEF Conns

\* Steps of other clients that touch neither the descriptors nor this one.
LEMMA SoloUntouched ==
    ASSUME NEW c \in Client, SoloInv(c),
           slave'[c] = slave[c], reader'[c] = reader[c], conn'[c] = conn[c],
           asked'[c] = asked[c], request'[c] = request[c], got'[c] = got[c],
           UNCHANGED <<server, fds, file_pos>>
    PROVE  SoloInv(c)'
  <1>1. OwnDescriptor(c)'
    BY DEF SoloInv, OwnDescriptor, Serving
  <1>2. OwnRequest(c)' /\ (Countable(c) /\ OwnPosition(c) => OwnPosition(c)')
    BY DEF SoloInv, OwnRequest, OwnPosition
  <1>3. Countable(c) /\ SoFar(c) => SoFar(c)'
    BY DEF SoFar, GetsItsAnswer
  <1>4. QED
    BY <1>1, <1>2, <1>3 DEF SoloInv, Countable

LEMMA SoloConnect ==
    ASSUME ServerInv, NEW c \in Client, SoloInv(c), Connect(c)
    PROVE  SoloInv(c)'
  <1>1. /\ conn[c] = "new" /\ conn'[c] = "queued"
        /\ UNCHANGED <<server, fds, asked, request, got, slave, reader, file_pos>>
    BY DEF Connect, ServerInv, TypeOK, readerVars, clientVars
  <1>2. slave[c].pc = "none"
    BY <1>1 DEF SoloInv, OwnDescriptor
  <1>3. OwnDescriptor(c)' /\ OwnRequest(c)' /\ OwnPosition(c)'
    BY <1>1, <1>2 DEF SoloInv, OwnDescriptor, OwnRequest, OwnPosition, Serving
  <1>4. Countable(c) => SoFar(c)'
    BY <1>1 DEF SoloInv, SoFar
  <1>5. QED
    BY <1>1, <1>3, <1>4 DEF SoloInv, Countable

\* Before the request is sent nothing is served.
LEMMA SoloSend ==
    ASSUME ServerInv, NEW c \in Client, SoloInv(c), Send(c)
    PROVE  SoloInv(c)'
  <1>1. /\ conn[c] \in {"queued", "open"} /\ asked[c] = "unsent"
        /\ asked'[c] = "sent"
        /\ UNCHANGED <<server, fds, conn, got, slave, reader, file_pos>>
    BY DEF Send, ServerInv, TypeOK, readerVars
  <1>2. /\ slave[c].pc \notin {"fclose", "pump", "read", "answer"}
        /\ Countable(c)
    <2>1. request[c] = NoRequest
      BY <1>1 DEF SoloInv, OwnRequest
    <2>2. CASE conn[c] = "queued"
      BY <2>1, <2>2, RequestTypes DEF SoloInv, OwnDescriptor, Countable
    <2>3. CASE conn[c] = "open"
      BY <1>1, <2>1, <2>3, RequestTypes DEF SoloInv, OwnRequest, Countable
    <2>4. QED
      BY <1>1, <2>2, <2>3
  <1>3. got[c] = <<>>
    BY <1>1, <1>2 DEF SoloInv, SoFar
  <1>4. OwnDescriptor(c)' /\ OwnRequest(c)' /\ OwnPosition(c)'
    BY <1>1, <1>2 DEF SoloInv, OwnDescriptor, OwnRequest, OwnPosition, Serving
  <1>5. SoFar(c)'
    BY <1>1, <1>2, <1>3 DEF SoFar
  <1>6. QED
    BY <1>4, <1>5 DEF SoloInv

LEMMA SoloHangUp ==
    ASSUME ServerInv, NEW c \in Client, SoloInv(c), HangUp(c)
    PROVE  SoloInv(c)'
  <1>1. /\ conn[c] = "open" /\ conn'[c] = "gone" /\ got'[c] = <<>>
        /\ UNCHANGED <<server, fds, asked, request, slave, reader, file_pos>>
    BY DEF HangUp, ServerInv, TypeOK, readerVars, clientVars
  <1>2. OwnDescriptor(c)'
    BY <1>1 DEF SoloInv, OwnDescriptor, Serving
  <1>3. OwnRequest(c)' /\ OwnPosition(c)'
    BY <1>1 DEF SoloInv, OwnRequest, OwnPosition
  <1>4. SoFar(c)'
    BY <1>1 DEF SoFar
  <1>5. QED
    BY <1>2, <1>3, <1>4 DEF SoloInv

LEMMA SoloAccept ==
    ASSUME ServerInv, NEW c \in Client, SoloInv(c), Accept(c)
    PROVE  SoloInv(c)'
  <1> DEFINE f == Lowest(FreeFds)
  <1>1. /\ f \in Fd /\ conn[c] = "queued" /\ conn'[c] = "open"
        /\ fds' = [fds EXCEPT ![f] = c]
        /\ UNCHANGED <<server, asked, request, got, reader, file_pos>>
    BY LowestIsFree DEF Accept, ServerInv, TypeOK, readerVars, clientVars
  <1>2. PICK pc \in {"start", "unborn"} :
           slave' = [slave EXCEPT ![c] = [NoSlave EXCEPT !.pc = pc, !.fd = f]]
    BY DEF Accept
  <1> HIDE DEF f
  <1>3. slave'[c].pc = pc /\ slave'[c].fd = f /\ slave'[c].offset = 0
    BY <1>2 DEF ServerInv, TypeOK, NoSlave
  <1>4. slave[c].pc = "none" /\ None # c /\ (Countable(c) => got[c] = <<>>)
    BY <1>1, ServerAssumption DEF SoloInv, OwnDescriptor, SoFar
  <1>5. \A g \in Fd : fds[g] = None
    BY <1>4 DEF SoloInv, OwnDescriptor, Serving
  <1>6. fds'[f] = c /\ \A g \in Fd \ {f} : fds'[g] = None
    BY <1>1, <1>5 DEF ServerInv, TypeOK
  <1>7. OwnDescriptor(c)'
    BY <1>1, <1>3, <1>6 DEF OwnDescriptor, Serving
  <1>8. OwnRequest(c)' /\ OwnPosition(c)'
    BY <1>1, <1>3 DEF SoloInv, OwnRequest, OwnPosition
  <1>9. Countable(c) => SoFar(c)'
    BY <1>1, <1>3, <1>4 DEF SoFar
  <1>10. QED
    BY <1>1, <1>7, <1>8, <1>9 DEF SoloInv, Countable

\* Nobody has closed the number a slave is about to open, if it is alone.
LEMMA SoloFdopen ==
    ASSUME ServerInv, NEW c \in Client, SoloInv(c), Fdopen(c)
    PROVE  SoloInv(c)'
  <1>1. /\ slave[c].pc = "start" /\ Go(c, "request") /\ TypeOK
        /\ UNCHANGED <<server, fds, conn, asked, request, got, reader, file_pos>>
    BY DEF Fdopen, ServerInv, httpVars, clientVars, readerVars
  <1>2. /\ slave'[c].pc = "request" /\ slave'[c].fd = slave[c].fd
        /\ slave'[c].offset = slave[c].offset
    BY <1>1, GoType
  <1>3. OwnDescriptor(c)'
    BY <1>1, <1>2 DEF SoloInv, OwnDescriptor, Serving
  <1>4. OwnRequest(c)' /\ OwnPosition(c)'
    BY <1>1, <1>2 DEF SoloInv, OwnRequest, OwnPosition
  <1>5. Countable(c) => SoFar(c)'
    BY <1>1, <1>2 DEF SoloInv, SoFar, GetsItsAnswer
  <1>6. QED
    BY <1>1, <1>3, <1>4, <1>5 DEF SoloInv, Countable

LEMMA SoloFdopenFails ==
    ASSUME NEW c \in Client, SoloInv(c), FdopenFails(c)
    PROVE  FALSE
  BY ServerAssumption DEF FdopenFails, SoloInv, OwnDescriptor, Serving, Peer

\* It reads from its own client, which has the number.
LEMMA SoloSource ==
    ASSUME NEW c \in Client, SoloInv(c), Reads(c)
    PROVE  /\ Source(c) = c /\ Peer(c) = c /\ Serving(c)
           /\ conn[c] \in {"open", "gone"} /\ HasNumber(c)
  <1>1. Serving(c)
    BY DEF Reads, Serving
  <1>2. slave[c].fd \in Fd /\ fds[slave[c].fd] = c /\ conn[c] \in {"open", "gone"}
    BY <1>1 DEF SoloInv, OwnDescriptor
  <1>3. slave[c].pc = "waiting" => slave[c].from = c
    BY DEF SoloInv, OwnDescriptor
  <1>4. QED
    BY <1>1, <1>2, <1>3 DEF Source, Peer, HasNumber

LEMMA SoloWait ==
    ASSUME ServerInv, NEW c \in Client, SoloInv(c), Wait(c)
    PROVE  SoloInv(c)'
  <1>0. TypeOK /\ slave[c] \in Slaves /\ slave \in [Client -> Slaves]
    BY DEF ServerInv, TypeOK, Slaves
  <1>1. slave[c].pc = "request" /\ Peer(c) = c
    BY SoloSource DEF Wait, Reads
  <1>2. /\ slave' = [slave EXCEPT ![c].pc = "waiting", ![c].from = c]
        /\ UNCHANGED <<server, fds, conn, asked, request, got, reader, file_pos>>
    BY <1>1 DEF Wait, httpVars, clientVars, readerVars
  <1>3. /\ slave'[c].pc = "waiting" /\ slave'[c].from = c
        /\ slave'[c].fd = slave[c].fd
    BY <1>0, <1>2 DEF Slaves
  <1>4. OwnDescriptor(c)'
    BY <1>1, <1>2, <1>3 DEF SoloInv, OwnDescriptor, Serving
  <1>5. OwnRequest(c)' /\ OwnPosition(c)'
    BY <1>2, <1>3 DEF SoloInv, OwnRequest, OwnPosition
  <1>6. Countable(c) => SoFar(c)'
    BY <1>1, <1>2, <1>3 DEF SoloInv, SoFar, GetsItsAnswer
  <1>7. QED
    BY <1>2, <1>4, <1>5, <1>6 DEF SoloInv, Countable

\* It serves what its client has asked for, unless the client has gone.
LEMMA SoloServe ==
    ASSUME ServerInv, NEW c \in Client, SoloInv(c), Reads(c),
           NEW r \in Requests \union {NoRequest}, r # Blankless, Serve(c, r),
           asked'[c] = "unsent" => asked[c] = "unsent",
           conn[c] = "open" => r = request[c] /\ asked'[c] # "unsent"
    PROVE  SoloInv(c)'
  <1>0. TypeOK /\ None \notin Client
    BY ServerAssumption DEF ServerInv
  <1>1. /\ Serving(c) /\ conn[c] \in {"open", "gone"} /\ HasNumber(c)
        /\ slave[c].offset = 0
    BY SoloSource DEF Reads, ServerInv, SlaveStands
  <1>2. /\ slave'[c].pc \in {"answer", "pump"} /\ slave'[c].serves = r
        /\ slave'[c].fd = slave[c].fd /\ slave'[c].offset = 0
    BY <1>0, <1>1, ServeType
  <1>3. /\ UNCHANGED <<server, fds, request, got, reader, file_pos>>
        /\ conn'[c] = conn[c]
    BY <1>1 DEF Serve, readerVars
  <1>4. OwnDescriptor(c)'
    BY <1>1, <1>2, <1>3 DEF SoloInv, OwnDescriptor, Serving
  <1>5. OwnRequest(c)' /\ OwnPosition(c)'
    BY <1>2, <1>3 DEF SoloInv, OwnRequest, OwnPosition
  <1>6. Countable(c) => SoFar(c)'
    <2>1. conn[c] = "open" /\ Countable(c) => got[c] = <<>>
      BY DEF SoloInv, SoFar, Reads
    <2>2. QED
      BY <1>1, <1>2, <1>3, <2>1, PartEmpty DEF SoloInv, SoFar
  <1>7. QED
    BY <1>3, <1>4, <1>5, <1>6 DEF SoloInv, Countable

LEMMA SoloService ==
    ASSUME ServerInv, NEW c \in Client, SoloInv(c),
           ServiceRequest(c) \/ ServiceLeftovers(c)
    PROVE  SoloInv(c)'
  <1>0. TypeOK /\ Reads(c) /\ Source(c) = c
    BY SoloSource DEF ServiceRequest, ServiceLeftovers, NothingComes, ServerInv
  <1>1. CASE ServiceRequest(c)
    <2>1. /\ asked[c] = "sent" /\ request[c] # Blankless /\ Serve(c, request[c])
          /\ asked' = [asked EXCEPT ![c] = "read"]
      BY <1>0, <1>1 DEF ServiceRequest, HasSent
    <2>2. asked'[c] = "read" /\ request[c] \in Requests \union {NoRequest}
      BY <1>0, <2>1 DEF TypeOK
    <2>3. QED
      BY <1>0, <2>1, <2>2, SoloServe
  <1>2. CASE ServiceLeftovers(c)
    <2>1. PICK r \in Requests : r # Blankless /\ Serve(c, r)
      BY <1>2 DEF ServiceLeftovers
    <2>2. asked' = asked /\ conn[c] = "gone"
      BY <1>0, <1>2, ServerAssumption DEF ServiceLeftovers, NothingComes
    <2>3. QED
      BY <1>0, <2>1, <2>2, SoloServe
  <1>3. QED
    BY <1>1, <1>2

LEMMA SoloAnswer ==
    ASSUME ServerInv, NEW c \in Client, SoloInv(c), Answer(c)
    PROVE  SoloInv(c)'
  <1>1. /\ slave[c].pc = "answer" /\ TypeOK
        /\ got' = Received(c, <<slave[c].serves.start>>) /\ Go(c, "fclose")
        /\ UNCHANGED <<server, fds, conn, asked, request, reader, file_pos>>
    BY DEF Answer, ServerInv, clientVars, readerVars
  <1>2. Serving(c) /\ Peer(c) = c /\ conn[c] \in {"open", "gone"}
    BY <1>1 DEF SoloInv, OwnDescriptor, Serving, Peer
  <1>3. /\ slave'[c].pc = "fclose" /\ slave'[c].fd = slave[c].fd
        /\ slave'[c].serves = slave[c].serves
    BY <1>1, GoType
  <1>4. OwnDescriptor(c)'
    BY <1>1, <1>2, <1>3 DEF SoloInv, OwnDescriptor, Serving
  <1>5. OwnRequest(c)' /\ OwnPosition(c)'
    BY <1>1, <1>3 DEF SoloInv, OwnRequest, OwnPosition
  <1>6. Countable(c) => SoFar(c)'
    <2> SUFFICES ASSUME Countable(c) PROVE SoFar(c)'
      OBVIOUS
    <2>1. CASE conn[c] = "open"
      <3>1. slave[c].serves = request[c]
        BY <1>1, <2>1 DEF SoloInv, OwnRequest
      <3>2. request[c] \in Page \union {InternalError}
        BY <1>1, <3>1 DEF ServerInv, SlaveStands
      <3>3. request[c].length = 1 /\ request[c].start \in Int
        BY <3>2, RequestTypes DEF InternalError
      <3>4. got[c] = <<>>
        BY <1>1, <2>1 DEF SoloInv, SoFar
      <3>5. got'[c] = <<>> \o <<request[c].start>>
        BY <1>1, <1>2, <2>1, <3>1, <3>4 DEF Received
      <3>6. <<>> \o <<request[c].start>> = <<request[c].start>>
        BY <3>3
      <3>7. got'[c] = Wanted(request[c])
        BY <3>3, <3>5, <3>6, PartOne, WantedIsPart
      <3>8. request'[c] = request[c] /\ conn'[c] = "open"
        BY <1>1, <2>1
      <3>9. Wanted(request[c])' = Wanted(request[c])
        BY <3>8 DEF Wanted
      <3>10. QED
        BY <1>3, <3>7, <3>8, <3>9 DEF SoFar
    <2>2. CASE conn[c] = "gone"
      BY <1>1, <2>2 DEF SoloInv, SoFar, Received
    <2>3. QED
      BY <1>2, <2>1, <2>2
  <1>7. QED
    BY <1>1, <1>4, <1>5, <1>6 DEF SoloInv, Countable

\* Its connection is closed when its client has received all of the answer.
LEMMA SoloFclose ==
    ASSUME ServerInv, NEW c \in Client, SoloInv(c), Fclose(c),
           \A d \in Client \ {c} : slave[d].pc = "none"
    PROVE  SoloInv(c)'
  <1>0. TypeOK /\ None # c /\ None \notin Client
    BY ServerAssumption DEF ServerInv
  <1>1. /\ slave[c].pc \in {"fclose", "pump"} /\ Serving(c)
        /\ CloseFd(slave[c].fd) /\ Go(c, "close")
        /\ UNCHANGED <<server, asked, request, got, reader, file_pos>>
    BY DEF Fclose, AllWritten, Serving, clientVars, readerVars
  <1>2. /\ slave[c].fd \in Fd /\ fds[slave[c].fd] = c
        /\ conn[c] \in {"open", "gone"}
        /\ \A f \in Fd : fds[f] # None => f = slave[c].fd
    BY <1>1 DEF SoloInv, OwnDescriptor
  <1>3. Waiting(c) = {}
    <2>1. \A d \in Client : slave[d].pc # "waiting"
      BY <1>1
    <2>2. QED
      BY <1>0, <2>1 DEF Waiting, ServerInv, SlaveStands
  <1>4. slave'[c].pc = "close"
    BY <1>0, <1>1, GoType
  <1>5. \A f \in Fd : fds'[f] = None
    BY <1>0, <1>1, <1>2 DEF CloseFd, TypeOK
  <1>6. /\ conn[c] = "open" => conn'[c] = "closed"
        /\ conn[c] = "gone" => conn'[c] = "left"
    BY <1>1, <1>2, <1>3 DEF CloseFd, Closed
  <1>7. OwnDescriptor(c)'
    BY <1>1, <1>2, <1>4, <1>5, <1>6 DEF OwnDescriptor, Serving
  <1>8. OwnRequest(c)' /\ OwnPosition(c)'
    BY <1>1, <1>4 DEF SoloInv, OwnRequest, OwnPosition
  <1>9. Countable(c) => SoFar(c)'
    <2> SUFFICES ASSUME Countable(c) PROVE SoFar(c)'
      OBVIOUS
    <2>1. CASE conn[c] = "open"
      <3> DEFINE r == request[c]
      <3>1. got[c] = Wanted(r)
        <4>1. CASE slave[c].pc = "fclose"
          BY <2>1, <4>1 DEF SoloInv, SoFar
        <4>2. CASE slave[c].pc = "pump"
          <5>1. slave[c].offset >= slave[c].serves.length
            BY <4>2 DEF Fclose, AllWritten
          <5>2. slave[c].offset = r.length
            BY <2>1, <4>2, <5>1, SoloServes
          <5>3. got[c] = Part(r.start, slave[c].offset)
            BY <2>1, <4>2 DEF SoloInv, SoFar
          <5>4. QED
            BY <5>2, <5>3, WantedIsPart
        <4>3. QED
          BY <1>1, <4>1, <4>2
      <3>2. IsPrefix(Wanted(r), Wanted(r))
        <4>1. r.start \in Int /\ r.length \in Nat
          BY RequestTypes DEF ServerInv, TypeOK
        <4>2. QED
          BY <4>1, PartPrefix, WantedIsPart
      <3>3. got'[c] = got[c] /\ request'[c] = r
        BY <1>1
      <3> HIDE DEF r
      <3>4. QED
        BY <1>6, <2>1, <3>1, <3>2, <3>3 DEF SoFar, GetsItsAnswer, Wanted
    <2>2. CASE conn[c] = "gone"
      BY <1>1, <1>6, <2>2 DEF SoloInv, SoFar
    <2>3. QED
      BY <1>2, <2>1, <2>2
  <1>10. QED
    BY <1>1, <1>7, <1>8, <1>9 DEF SoloInv, Countable

\* The second close finds the number free: nobody has been accepted since.
LEMMA SoloCloseAgain ==
    ASSUME ServerInv, NEW c \in Client, SoloInv(c), CloseAgain(c)
    PROVE  SoloInv(c)'
  <1>0. TypeOK /\ None \notin Client
    BY ServerAssumption DEF ServerInv
  <1>1. /\ slave[c].pc = "close" /\ CloseFd(slave[c].fd)
        /\ slave' = [slave EXCEPT ![c] = [NoSlave EXCEPT !.pc = "done"]]
        /\ UNCHANGED <<server, asked, request, got, reader, file_pos>>
    BY DEF CloseAgain, clientVars, readerVars
  <1>2. slave[c].fd \in Fd
    BY <1>1 DEF ServerInv, SlaveStands
  <1>3. \A f \in Fd : fds[f] = None
    BY <1>1 DEF SoloInv, OwnDescriptor, Serving
  <1>4. conn'[c] = conn[c] /\ \A f \in Fd : fds'[f] = None
    BY <1>0, <1>1, <1>2, <1>3 DEF CloseFd, TypeOK
  <1>5. slave'[c].pc = "done"
    BY <1>0, <1>1 DEF TypeOK, NoSlave
  <1>6. conn[c] \notin {"open", "new", "queued"}
    BY <1>1 DEF SoloInv, OwnDescriptor, Serving
  <1>7. OwnDescriptor(c)'
    BY <1>4, <1>5, <1>6 DEF OwnDescriptor, Serving
  <1>8. OwnRequest(c)' /\ OwnPosition(c)'
    BY <1>1, <1>5 DEF SoloInv, OwnRequest, OwnPosition
  <1>9. Countable(c) => SoFar(c)'
    BY <1>1, <1>4, <1>6 DEF SoloInv, SoFar, GetsItsAnswer
  <1>10. QED
    BY <1>1, <1>7, <1>8, <1>9 DEF SoloInv, Countable

LEMMA SoloPump ==
    ASSUME ServerInv, NEW c \in Client, SoloInv(c), Pump(c)
    PROVE  SoloInv(c)'
  <1>0. TypeOK /\ ReaderTypeOK /\ c \in Thread
    BY ServerAssumption DEF ServerInv, TypeOK
  <1> DEFINE off == slave[c].serves.start + slave[c].offset
             len == NextSwath(c)
  <1>1. /\ slave[c].pc = "pump" /\ slave[c].serves \in Entry
        /\ slave[c].offset < slave[c].serves.length
        /\ CallReader(c, off, len) /\ Go(c, "read")
        /\ UNCHANGED <<server, fds, conn, asked, request, got>>
    BY DEF Pump, ServerInv, SlaveStands, httpVars, clientVars
  <1>2. off \in Int /\ len \in Nat
    BY <1>0, <1>1, RequestTypes, ServerAssumption DEF TypeOK, NextSwath
  <1>3. /\ slave'[c].pc = "read" /\ slave'[c].fd = slave[c].fd
        /\ slave'[c].serves = slave[c].serves
        /\ slave'[c].offset = slave[c].offset
    BY <1>0, <1>1, GoType
  <1>4. reader'[c].at = "tell" /\ reader'[c].off = off
    BY <1>0, <1>1, <1>2, CallReaderType
  <1>5. OwnDescriptor(c)'
    BY <1>1, <1>3 DEF SoloInv, OwnDescriptor, Serving
  <1>6. OwnRequest(c)' /\ OwnPosition(c)'
    BY <1>1, <1>3, <1>4 DEF SoloInv, OwnRequest, OwnPosition
  <1>7. Countable(c) => SoFar(c)'
    BY <1>1, <1>3 DEF SoloInv, SoFar, GetsItsAnswer
  <1>8. QED
    BY <1>1, <1>5, <1>6, <1>7 DEF SoloInv, Countable

\* Between lseek and read the position stays where the slave has set it.
LEMMA SoloReading ==
    ASSUME ServerInv, NEW c \in Client, SoloInv(c), Reading(c)
    PROVE  SoloInv(c)'
  <1>0. /\ reader \in [Thread -> Readers] /\ c \in Thread
        /\ reader[c] \in Readers /\ file_pos \in Nat
    BY ServerAssumption
    DEF ServerInv, TypeOK, ReaderTypeOK, Readers, Bytes
  <1>1. /\ slave[c].pc = "read" /\ ReaderStep(c)
        /\ UNCHANGED <<server, fds, conn, asked, request, got, slave>>
    BY DEF Reading, httpVars, clientVars
  <1>2. OwnDescriptor(c)' /\ OwnRequest(c)' /\ (Countable(c) => SoFar(c)')
    BY <1>1 DEF SoloInv, OwnDescriptor, OwnRequest, SoFar, Serving, GetsItsAnswer
  <1>3. reader'[c].off = reader[c].off /\ reader'[c].len = reader[c].len
    BY <1>1, ReaderStepType, <1>0 DEF ServerInv, TypeOK, SlaveStands
  <1>4. ASSUME Countable(c), conn[c] = "open"
        PROVE  /\ reader'[c].at = "read" => file_pos' = reader[c].off
               /\ reader'[c].at \in {"restore", "out"} =>
                     reader'[c].data = BytesAt(reader[c].off, reader[c].len)
    <2>1. CASE Tell(c)
      BY <1>0, <2>1 DEF Tell, Readers
    <2>2. CASE Seek(c)
      <3>1. reader[c].off \in Nat
        BY <1>1, <1>4, SoloServes DEF SoloInv, OwnPosition
      <3>2. QED
        BY <1>0, <2>2, <3>1 DEF Seek, Readers
    <2>3. CASE Read(c)
      <3> DEFINE bytes == BytesAt(file_pos, reader[c].len)
      <3>1. bytes = BytesAt(reader[c].off, reader[c].len)
        BY <1>1, <1>4, <2>3 DEF Read, SoloInv, OwnPosition
      <3>2. reader' = [reader EXCEPT ![c].at = "restore", ![c].data = bytes]
        BY <2>3 DEF Read
      <3> HIDE DEF bytes
      <3>3. reader'[c].at = "restore" /\ reader'[c].data = bytes
        BY <1>0, <3>2 DEF Readers
      <3>4. QED
        BY <3>1, <3>3
    <2>4. CASE Restore(c)
      <3>1. reader[c].data = BytesAt(reader[c].off, reader[c].len)
        BY <1>1, <1>4, <2>4 DEF Restore, SoloInv, OwnPosition
      <3>2. reader'[c].at = "out" /\ reader'[c].data = reader[c].data
        BY <1>0, <2>4 DEF Restore, Readers
      <3>3. QED
        BY <3>1, <3>2
    <2>5. QED
      BY <1>1, <2>1, <2>2, <2>3, <2>4 DEF ReaderStep
  <1>5. Countable(c) => OwnPosition(c)'
    BY <1>1, <1>3, <1>4 DEF SoloInv, OwnPosition
  <1>6. QED
    BY <1>1, <1>2, <1>5 DEF SoloInv, Countable

LEMMA SoloWrite ==
    ASSUME ServerInv, NEW c \in Client, SoloInv(c), Write(c)
    PROVE  SoloInv(c)'
  <1>0. /\ TypeOK /\ c \in Thread /\ reader[c] \in Readers
    BY ServerAssumption DEF ServerInv, TypeOK, ReaderTypeOK, Readers, Bytes
  <1> DEFINE start == request[c].start
             offset == slave[c].offset
             data == reader[c].data
             n == Len(data)
  <1>1. /\ slave[c].pc = "read" /\ reader[c].at = "out"
        /\ got' = Received(c, data) /\ Advance(c)
        /\ UNCHANGED <<server, fds, conn, asked, request>>
    BY DEF Write, clientVars
  <1>2. n \in Nat /\ reader[c].off \in Int /\ reader[c].len \in Nat
    BY <1>0 DEF Readers, Bytes
  <1>3. /\ slave'[c].pc = "pump" /\ slave'[c].fd = slave[c].fd
        /\ slave'[c].serves = slave[c].serves
        /\ offset + n <= MaxInt => slave'[c].offset = offset + n
    BY <1>0, <1>1, <1>2, AdvanceType
  <1>4. OwnDescriptor(c)'
    BY <1>1, <1>3 DEF SoloInv, OwnDescriptor, Serving
  <1>5. OwnRequest(c)' /\ OwnPosition(c)'
    BY <1>1, <1>3 DEF SoloInv, OwnRequest, OwnPosition
  <1>6. Peer(c) = c /\ conn[c] \in {"open", "gone"}
    BY <1>1 DEF SoloInv, OwnDescriptor, Serving, Peer
  <1>7. Countable(c) => SoFar(c)'
    <2> SUFFICES ASSUME Countable(c) PROVE SoFar(c)'
      OBVIOUS
    <2>1. CASE conn[c] = "open"
      <3>1. /\ slave[c].serves = request[c] /\ start \in Nat /\ offset \in Nat
            /\ request[c].length \in Nat
        BY <1>1, <2>1, SoloServes
      <3>2. /\ reader[c].off = start + offset
            /\ data = BytesAt(reader[c].off, reader[c].len)
        BY <1>1, <2>1, <3>1 DEF SoloInv, OwnPosition
      <3>3. data = Part(start + offset, n)
        <4>1. reader[c].off \in Nat
          BY <3>1, <3>2
        <4>2. QED
          BY <1>2, <3>2, <4>1, BytesArePart
      <3>4. offset + n <= MaxInt
        <4>1. /\ n <= reader[c].len
              /\ offset + reader[c].len <= request[c].length
          BY <1>1, <3>1 DEF ServerInv, SlaveStands
        <4>2. request[c].length <= MaxInt /\ MaxInt \in Nat
          BY ServerAssumption DEF Countable
        <4> HIDE DEF offset, n
        <4>3. QED
          BY <1>2, <3>1, <4>1, <4>2
      <3>5. got[c] = Part(start, offset)
        BY <1>1, <2>1 DEF SoloInv, SoFar
      <3>6. got'[c] = got[c] \o data
        BY <1>1, <1>6, <2>1 DEF Received
      <3>7. Part(start, offset) \o Part(start + offset, n) = Part(start, offset + n)
        <4>1. start \in Int /\ offset \in Nat /\ n \in Nat
          BY <1>2, <3>1
        <4> HIDE DEF start, offset, n
        <4>2. QED
          BY <4>1, PartAppend
      <3>8. got'[c] = Part(start, offset + n)
        BY <3>3, <3>5, <3>6, <3>7
      <3>9. QED
        BY <1>1, <1>3, <2>1, <3>4, <3>8 DEF SoFar
    <2>2. CASE conn[c] = "gone"
      BY <1>1, <2>2 DEF SoloInv, SoFar, Received
    <2>3. QED
      BY <1>6, <2>1, <2>2
  <1>8. QED
    BY <1>1, <1>4, <1>5, <1>7 DEF SoloInv, Countable

\* With the process the answer ends wherever it is.
LEMMA SoloProcessEnds ==
    ASSUME ServerInv, NEW c \in Client, SoloInv(c), ProcessEnds
    PROVE  SoloInv(c)'
  <1>1. /\ server' = "exited" /\ fds' = [f \in Fd |-> None]
        /\ conn'[c] = Closed(c) /\ asked' = asked /\ request' = request /\ got' = got
        /\ slave'[c] = IF slave[c].pc = "none" THEN NoSlave
                       ELSE [NoSlave EXCEPT !.pc = "killed"]
    BY DEF ProcessEnds, clientVars
  <1>2. slave'[c].pc \in {"none", "killed"}
        /\ (slave[c].pc = "none" => slave'[c].pc = "none")
    BY <1>1 DEF NoSlave
  <1>3. /\ conn'[c] \in {"new", "closed", "left"}
        /\ conn'[c] = "new" => conn[c] = "new"
        /\ conn'[c] = "left" => conn[c] \in {"gone", "left"}
    BY <1>1 DEF ServerInv, TypeOK, Closed
  <1>4. OwnDescriptor(c)'
    BY <1>1, <1>2, <1>3 DEF SoloInv, OwnDescriptor, Serving
  <1>5. OwnRequest(c)' /\ OwnPosition(c)'
    BY <1>1, <1>2 DEF SoloInv, OwnRequest, OwnPosition
  <1>6. Countable(c) => SoFar(c)'
    BY <1>1, <1>3, SoloPrefix DEF SoloInv, SoFar, GetsItsAnswer
  <1>7. QED
    BY <1>1, <1>4, <1>5, <1>6 DEF SoloInv, Countable

\* A slave that has begun is somewhere behind its beginning.
LEMMA SlaveGoesOn ==
    ASSUME ServerInv, NEW e \in Client, Slave(e),
           ~(NoRequestLine(e) \/ BrokenPipe(e))
    PROVE  slave'[e].pc # "none" /\ \A d \in Client \ {e} : slave'[d] = slave[d]
  <1>0. TypeOK /\ slave \in [Client -> Slaves]
    BY DEF ServerInv, TypeOK, Slaves
  <1>1. CASE FdopenFails(e) \/ Wait(e)
    BY <1>0, <1>1 DEF FdopenFails, Wait, Slaves
  <1>2. CASE ServiceRequest(e) \/ ServiceLeftovers(e)
    <2>1. \E r : Serve(e, r)
      BY <1>2 DEF ServiceRequest, ServiceLeftovers
    <2>2. QED
      BY <1>0, <2>1 DEF Serve, Slaves
  <1>3. ASSUME NEW p \in {"request", "fclose", "read", "close"}, Go(e, p)
        PROVE  slave'[e].pc # "none" /\ \A d \in Client \ {e} : slave'[d] = slave[d]
    BY <1>0, <1>3, GoType
  <1>4. CASE Fdopen(e) \/ Answer(e) \/ Pump(e) \/ Fclose(e)
    BY <1>3, <1>4 DEF Fdopen, Answer, Pump, Fclose
  <1>5. CASE Reading(e)
    BY <1>5 DEF Reading
  <1>6. CASE Write(e)
    <2>1. Len(reader[e].data) \in Nat
      BY ServerAssumption DEF ServerInv, TypeOK, ReaderTypeOK
    <2>2. QED
      BY <1>0, <1>6, <2>1, AdvanceType DEF Write
  <1>7. CASE CloseAgain(e)
    BY <1>0, <1>7 DEF CloseAgain, NoSlave
  <1>8. QED
    BY <1>1, <1>2, <1>4, <1>5, <1>6, <1>7 DEF Slave

LEMMA SoloNext ==
    ASSUME ServerInv, ServerInv', [Next]_vars,
           \A c \in Client : Alone(c) => SoloInv(c),
           NEW c \in Client, Alone(c)'
    PROVE  SoloInv(c)'
  <1>0. TypeOK /\ TypeOK' /\ Thread = Client
    BY ServerAssumption DEF ServerInv
  <1>1. ASSUME ProcessEnds PROVE SoloInv(c)'
    <2>1. \A d \in Client : slave'[d].pc = "none" => slave[d].pc = "none"
      BY <1>1 DEF ProcessEnds, NoSlave
    <2>2. Alone(c)
      BY <2>1 DEF Alone
    <2>3. QED
      BY <1>1, <2>2, SoloProcessEnds
  <1>2. ASSUME slave' = slave PROVE Alone(c) /\ SoloInv(c)
    BY <1>2 DEF Alone
  <1>3. ASSUME NEW e \in Client, Connect(e) \/ Send(e) \/ HangUp(e)
        PROVE  SoloInv(c)'
    <2>1. SoloInv(c)
      BY <1>2, <1>3 DEF Connect, Send, HangUp
    <2>2. CASE e = c
      BY <1>3, <2>1, <2>2, SoloConnect, SoloSend, SoloHangUp
    <2>3. CASE e # c
      <3>1. /\ slave' = slave /\ reader' = reader
            /\ conn'[c] = conn[c] /\ asked'[c] = asked[c]
            /\ request'[c] = request[c] /\ got'[c] = got[c]
            /\ UNCHANGED <<server, fds, file_pos>>
        BY <1>0, <1>3, <2>3
        DEF Connect, Send, HangUp, TypeOK, readerVars, clientVars
      <3>2. QED
        BY <2>1, <3>1, SoloUntouched
    <2>4. QED
      BY <2>2, <2>3
  <1>4. ASSUME NEW e \in Client, Accept(e) PROVE SoloInv(c)'
    <2>1. slave'[e].pc # "none" /\ \A d \in Client \ {e} : slave'[d] = slave[d]
      BY <1>0, <1>4 DEF Accept, TypeOK, NoSlave
    <2>2. e = c
      BY <2>1 DEF Alone
    <2>3. Alone(c)
      BY <2>1, <2>2 DEF Alone
    <2>4. QED
      BY <1>4, <2>2, <2>3, SoloAccept
  <1>5. ASSUME NEW e \in Client, Slave(e) PROVE SoloInv(c)'
    <2>1. CASE NoRequestLine(e) \/ BrokenPipe(e)
      BY <1>1, <2>1 DEF NoRequestLine, BrokenPipe
    <2>2. CASE ~(NoRequestLine(e) \/ BrokenPipe(e))
      <3>1. slave'[e].pc # "none" /\ \A d \in Client \ {e} : slave'[d] = slave[d]
        BY <1>5, <2>2, SlaveGoesOn
      <3>2. e = c
        BY <3>1 DEF Alone
      <3>3. SoloInv(c) /\ \A d \in Client \ {c} : slave[d].pc = "none"
        BY <3>1, <3>2 DEF Alone
      <3>4. QED
        BY <1>5, <2>2, <3>2, <3>3, SoloFdopen, SoloFdopenFails, SoloWait, SoloService,
           SoloAnswer, SoloPump, SoloReading, SoloWrite, SoloFclose, SoloCloseAgain
        DEF Slave
    <2>3. QED
      BY <2>1, <2>2
  <1>6. CASE UNCHANGED vars
    <2>1. SoloInv(c)
      BY <1>2, <1>6 DEF vars
    <2>2. QED
      BY <1>6, <2>1, SoloUntouched DEF vars, httpVars, clientVars, readerVars
  <1>7. QED
    BY <1>1, <1>3, <1>4, <1>5, <1>6 DEF Next, AcceptLoop, AcceptFails

\* Until a second client is accepted the first one receives the answer to its
\* own request from the beginning, and all of it before its connection is
\* closed, unless the process ends or an int cannot count what it asks for.
THEOREM AloneGetsItsAnswerHolds == Spec => []AloneGetsItsAnswer
  <1> DEFINE AloneInv == ServerInv /\ \A c \in Client : Alone(c) => SoloInv(c)
  <1>1. Init => AloneInv
    <2> SUFFICES ASSUME Init, NEW c \in Client PROVE SoloInv(c)
      BY InitServer
    <2>1. /\ slave[c].pc = "none" /\ conn[c] = "new" /\ got[c] = <<>>
          /\ request[c] = NoRequest
          /\ \A f \in Fd : fds[f] = None
      BY DEF Init, NoSlave
    <2>2. QED
      BY <2>1
      DEF SoloInv, OwnDescriptor, OwnRequest, OwnPosition, SoFar, Serving
  <1>2. AloneInv /\ [Next]_vars => AloneInv'
    BY NextServer, SoloNext
  <1>3. AloneInv => AloneGetsItsAnswer
    <2> SUFFICES ASSUME AloneInv, NEW c \in Client, Alone(c), Countable(c)
                 PROVE  GetsItsAnswer(c)
      BY DEF AloneGetsItsAnswer, Alone, Countable
    <2>1. ServerInv /\ SoloInv(c)
      OBVIOUS
    <2>2. QED
      BY <2>1, SoloPrefix DEF SoloInv, SoFar, GetsItsAnswer
  <1>4. QED
    BY <1>1, <1>2, <1>3, PTL DEF Spec

=============================================================================

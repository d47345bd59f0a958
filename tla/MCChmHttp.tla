------------------------------- MODULE MCChmHttp -------------------------------
(* Small servers for ChmHttp. *)
EXTENDS ChmHttp, TLC

\* An entry that starts behind the beginning of the file and ends with it.
Report   == [kind |-> "entry", start |-> 1, length |-> 2]
OneEntry == {Report}

NoBlank == {Blankless}

\* The behaviours of a server with three clients are too many to follow from
\* the start.  Three beginnings of them are: which client is which makes no
\* difference.
Third == CHOOSE c \in Client : TRUE
Others == Client \ {Third}

\* Two clients and all they may do: the third does not come.
TwoCome == Init /\ conn[Third] = "new"

\* The number of the third has been closed twice, and two were accepted in
\* between and after: they have the same number, and neither has sent anything.
OneNumber ==
    /\ ReaderInit
    /\ server = "listening"
    /\ \E c \in Others :
         /\ fds = [f \in Fd |-> IF f = Lowest(Fd) THEN c ELSE None]
         /\ conn = [d \in Client |-> IF d = c THEN "open" ELSE "closed"]
    /\ asked = [d \in Client |-> IF d = Third THEN "read" ELSE "unsent"]
    /\ request = [d \in Client |-> IF d = Third THEN Report ELSE NoRequest]
    /\ got = [d \in Client |-> IF d = Third THEN Wanted(Report) ELSE <<>>]
    /\ slave = [d \in Client |->
                  IF d = Third THEN [NoSlave EXCEPT !.pc = "done"]
                  ELSE [NoSlave EXCEPT !.pc = "start", !.fd = Lowest(Fd)]]

\* Three slaves read at the same time.  The third has the last byte, and the
\* end of the file is the position the others have found and will restore: one
\* of them wants the last byte too, one the first.
EndHandedOn ==
    LET Sent(c) == IF c = CHOOSE d \in Others : TRUE THEN 0 ELSE 1
        Call(c) == [NotReading EXCEPT !.off = Report.start + Sent(c), !.len = 1]
    IN  /\ file_pos = FileLen
        /\ reader = [c \in Client |->
                       IF c = Third
                       THEN [Call(c) EXCEPT !.at = "restore", !.data = <<FileLen - 1>>]
                       ELSE [Call(c) EXCEPT !.at = "seek", !.oldOff = FileLen]]
        /\ server = "listening"
        /\ fds = CHOOSE n \in [Fd -> Client] : \A f, g \in Fd : n[f] = n[g] => f = g
        /\ conn = [c \in Client |-> "open"]
        /\ asked = [c \in Client |-> "read"]
        /\ request = [c \in Client |-> Report]
        /\ got = [c \in Client |-> SubSeq(Wanted(Report), 1, Sent(c))]
        /\ slave = [c \in Client |->
                      [NoSlave EXCEPT !.pc = "read", !.serves = Report,
                                      !.offset = Sent(c),
                                      !.fd = CHOOSE f \in Fd : fds[f] = c]]

\* The third client comes only where it is there already, and of three who have
\* sent their requests none hangs up.
MCInit == TwoCome \/ OneNumber \/ EndHandedOn
MCNext ==
    /\ Next
    /\ conn[Third] = "new" => conn'[Third] = "new"
    /\ (\A c \in Client : asked[c] = "read") => {c \in Client : conn'[c] = "gone"} = {}

MCSpec == MCInit /\ [][MCNext]_vars /\ Fairness
=============================================================================

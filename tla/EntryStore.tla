------------------------------ MODULE EntryStore ------------------------------
(***************************************************************************)
(* What chm_retrieve_entry promises its caller, without a cache, a decoder *)
(* or blocks: a call for len bytes of entry e from an offset on is answered *)
(* with those bytes, as many as the entry has there, and with none when the *)
(* entry cannot be read.  ChmRetrieve implements it.                        *)
(***************************************************************************)
EXTENDS Integers

CONSTANTS
    Entry,         \* entries, records with a length
    MaxLen,        \* the largest request
    Content(_, _), \* Content(e, a) is the byte of e at offset a
    NoRequest      \* before the first call

VARIABLES
    status,    \* "ready", "busy" with a call, or "closed"
    readable,  \* entries whose bytes the archive can give
    request,
    result     \* the bytes of the last answer: offset in it -> byte

vars == <<status, readable, request, result>>

Nothing == [k \in {} |-> 0]

Init ==
    /\ status = "ready"
    /\ readable \in SUBSET Entry
    /\ request = NoRequest
    /\ result = Nothing

Call(e, addr, len) ==
    /\ status = "ready"
    /\ status' = "busy"
    /\ request' = [e |-> e, addr |-> addr, len |-> len]
    /\ result' = Nothing
    /\ UNCHANGED readable

\* How many bytes the answer to r has.
Available(r) ==
    IF r.e \notin readable \/ r.addr >= r.e.length THEN 0
    ELSE IF r.addr + r.len > r.e.length THEN r.e.length - r.addr
    ELSE r.len

Answer ==
    /\ status = "busy"
    /\ status' = "ready"
    /\ result' = [k \in 0 .. Available(request) - 1 |->
                    Content(request.e, request.addr + k)]
    /\ UNCHANGED <<readable, request>>

Close ==
    /\ status = "ready"
    /\ status' = "closed"
    /\ UNCHANGED <<readable, request, result>>

Next ==
    \/ \E e \in Entry, len \in 0 .. MaxLen :
         \E addr \in 0 .. e.length : Call(e, addr, len)
    \/ Answer
    \/ Close

\* Every call is answered.
Spec == Init /\ [][Next]_vars /\ WF_vars(Answer)

=============================================================================

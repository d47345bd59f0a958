-------------------------------- MODULE ChmPage --------------------------------
(***************************************************************************)
(* The parsing primitives of chm_lib.c: the unmarshaller, the encoded      *)
(* integers, and the parsing of one entry of a directory page.             *)
(*                                                                         *)
(* An unmarshaller over a sequence of bytes is the position of the next    *)
(* one, or Spoilt once it has been asked for more than there is; what an   *)
(* operation reads comes with the position it leaves.  The widths of the   *)
(* numbers are constants, so that small ones can be checked.               *)
(***************************************************************************)
EXTENDS Integers, FiniteSets, SequencesExt

CONSTANTS
    Cont,             \* 0x80: a byte from here on has another one after it
    Word,             \* 2^32: a uint32_t counts modulo this
    Long,             \* 2^64: a uint64_t counts modulo this
    CHM_MAX_PATHLEN,
    SLASH, HASH, DOLLAR,   \* the characters flags_from_path looks at
    Lower             \* the lower case of the letters that have one

ASSUME WidthAssumption ==
    /\ {Cont, Word, Long} \subseteq Nat \ {0, 1}
    /\ CHM_MAX_PATHLEN \in 0 .. (Long \div 2) - 1

NUL == 0

\* A number of this width, read as a signed one.
Signed(n, width) == IF n >= width \div 2 THEN n - width ELSE n

-----------------------------------------------------------------------------
(* The unmarshaller *)

Spoilt == 0
Start  == 1

\* The position behind the next n bytes.
eat_bytes(bytes, at, n) ==
    IF at # Spoilt /\ n <= Len(bytes) - at + 1 THEN at + n ELSE Spoilt

\* Mutant: the bit that says that the number goes on stays in it.
DigitMarked(b) == b

Digit(b) == b % Cont

\* The encoded integer at each position.  A number ends with the first byte
\* that is not marked; one that the bytes end in is 0.
get_cword(bytes) ==
    [at \in 0 .. Len(bytes) + 1 |->
        LET last == {k \in at .. Len(bytes) : k > 0 /\ bytes[k] < Cont}
        IN  IF at = Spoilt \/ last = {} THEN [got |-> 0, at |-> Spoilt]
            ELSE LET bits == FoldLeft(LAMBDA r, b : (r * Cont + Digit(b)) % Long, 0,
                                      SubSeq(bytes, at, Min(last)))
                 IN  [got |-> Signed(bits, Long), at |-> eat_bytes(bytes, Min(last), 1)]]

-----------------------------------------------------------------------------
(* Entries *)

\* The string a C function sees in these bytes.
CString(bytes) ==
    LET nul == {k \in DOMAIN bytes : bytes[k] = NUL}
    IN  IF nul = {} THEN bytes ELSE SubSeq(bytes, 1, Min(nul) - 1)

\* strcasecmp(s, t) = 0
streq(s, t) ==
    LET lower(b) == IF b \in DOMAIN Lower THEN Lower[b] ELSE b
    IN  /\ Len(s) = Len(t)
        /\ \A k \in DOMAIN s : lower(s[k]) = lower(t[k])

\* The character before an empty path is the last byte of the entry's own
\* "flags", which is still zero.
flags_from_path(path) ==
    {IF path # <<>> /\ Last(path) = SLASH THEN "dirs" ELSE "files",
     IF path # <<>> /\ path[1] = SLASH
     THEN IF Len(path) > 1 /\ path[2] \in {HASH, DOLLAR} THEN "special" ELSE "normal"
     ELSE "meta"}

\* The length of the path comes as a signed number and is compared as an
\* unsigned one, so what is negative is too long.
PathLenOk(n) == n \in 0 .. CHM_MAX_PATHLEN

\* What parse_pmgl_entry finds: "refused" before it has allocated the entry,
\* "short" when the bytes end inside the item (the entry is allocated then),
\* or the entry.
parse_pmgl_entry(bytes) ==
    LET cword   == get_cword(bytes)
        pathLen == cword[Start]
        path    == CString(SubSeq(bytes, pathLen.at, pathLen.at + pathLen.got - 1))
        space   == cword[eat_bytes(bytes, pathLen.at, pathLen.got)]
        start   == cword[space.at]
        length  == cword[start.at]
    IN  IF pathLen.at = Spoilt \/ ~PathLenOk(pathLen.got) THEN [result |-> "refused"]
        ELSE IF length.at = Spoilt THEN [result |-> "short"]
        ELSE [result |-> "entry",
              at     |-> length.at,
              entry  |-> [path   |-> path,
                          space  |-> Signed(space.got % Word, Word),
                          start  |-> start.got,
                          length |-> length.got,
                          flags  |-> flags_from_path(path)]]

-----------------------------------------------------------------------------
(* The page *)

CHM_PMGL_LEN == 20

\* What the loop over the entries of a page reads: all of the page behind its
\* header but the free space.
EntryBytes(page) == SubSeq(page.bytes, 1, Len(page.bytes) - page.free_space)

\* unmarshal_pmgl_header, of a page of this length.
PmglOk(page, block_len) ==
    /\ block_len >= CHM_PMGL_LEN
    /\ page.signature = "PMGL"
    /\ page.free_space <= block_len - CHM_PMGL_LEN
=============================================================================

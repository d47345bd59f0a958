--------------------------- MODULE ChmParseProofs ---------------------------
(***************************************************************************)
(* Proofs about ChmParse, for all archives and all faults.                 *)
(*                                                                         *)
(* The list that parse_entries links through the entries, and the table    *)
(* that it makes of the list, are those of the addresses in order          *)
(* (ListInv); from it come the types and what is allocated.  What the      *)
(* bytes of an item stand for is what is read from them (ItemsReadBack).   *)
(* What the entries hold is what was read so far, and with what is left of *)
(* the page and of the chain of pages it is the directory (DirectoryInv).  *)
(* What chm_parse knows when it leaves compression enabled is kept from    *)
(* where it is checked to the end (UsableInv).                             *)
(***************************************************************************)
EXTENDS ChmParse, NumberFacts, FiniteSetTheorems, SequenceTheorems

-----------------------------------------------------------------------------
(* The list and the table *)

CountDown(n) == [k \in 1 .. n |-> n - k + 1]
CountUp(n)   == [k \in 1 .. n |-> k]

\* The addresses 1 .. n are linked, each to the one before it.
Linked(n) == next = [e \in Addresses |-> IF e <= n THEN e - 1 ELSE Null]

\* What follows an entry in the list.
IsChain(f) ==
    f = [x \in Addresses \union {Null} |->
            IF x = Null THEN <<>> ELSE <<x>> \o f[next[x]]]

LEMMA CountDownStep ==
    ASSUME NEW x \in Nat \ {0}
    PROVE  <<x>> \o CountDown(x - 1) = CountDown(x)
  BY DEF CountDown

LEMMA ChainExists ==
    ASSUME NEW n \in 0 .. MaxEntries, Linked(n)
    PROVE  \E f : IsChain(f)
  <1> DEFINE S == Addresses \union {Null}
             w == [x \in S |-> IF x <= n THEN CountDown(x) ELSE <<x>>]
             v == [x \in S |-> IF x = Null THEN <<>> ELSE <<x>> \o w[next[x]]]
  <1>1. MaxEntries \in Nat /\ S = 0 .. MaxEntries
    BY BoundAssumption DEF Addresses, Null
  <1>2. w[0] = <<>>
    BY <1>1 DEF CountDown
  <1>3. ASSUME NEW x \in S PROVE w[x] = v[x]
    <2>1. CASE x = Null
      BY <1>2, <2>1 DEF Null
    <2>2. CASE x # Null /\ x <= n
      <3>1. x \in Nat \ {0} /\ x - 1 \in S /\ x - 1 <= n /\ next[x] = x - 1
        BY <1>1, <2>2 DEF Linked, Addresses, Null
      <3>2. v[x] = <<x>> \o CountDown(x - 1)
        BY <2>2, <3>1
      <3>3. QED
        BY <2>2, <3>1, <3>2, CountDownStep
    <2>3. CASE x # Null /\ ~(x <= n)
      <3>1. next[x] = 0 /\ x \in Nat
        BY <1>1, <2>3 DEF Linked, Addresses, Null
      <3>2. v[x] = <<x>> \o <<>> /\ w[x] = <<x>>
        BY <1>2, <2>3, <3>1
      <3>3. <<x>> \o <<>> = <<x>>
        OBVIOUS
      <3>4. QED
        BY <3>2, <3>3
    <2>4. QED
      BY <2>1, <2>2, <2>3
  <1>4. w = v
    BY <1>3
  <1>5. IsChain(w)
    BY <1>4 DEF IsChain
  <1>6. QED
    BY <1>5

\* The entries from address x on are x and all below it.
LEMMA ChainCountsDown ==
    ASSUME NEW n \in 0 .. MaxEntries, Linked(n), NEW x \in 0 .. n
    PROVE  Chain(x) = CountDown(x)
  <1> DEFINE f == CHOOSE g : IsChain(g)
  <1>1. IsChain(f)
    BY ChainExists
  <1>2. Chain(x) = f[x]
    BY DEF Chain, IsChain
  <1> HIDE DEF f
  <1> DEFINE Wrong == {y \in 0 .. n : f[y] # CountDown(y)}
  <1>3. MaxEntries \in Nat
    BY BoundAssumption
  <1>4. ASSUME Wrong # {} PROVE FALSE
    <2>1. PICK y \in Wrong : \A z \in Wrong : y <= z
      <3>1. Wrong \in SUBSET Nat
        OBVIOUS
      <3> HIDE DEF Wrong
      <3>2. QED
        BY <1>4, <3>1, LeastNat
    <2>2. CASE y = 0
      BY <1>1, <2>1, <2>2 DEF IsChain, CountDown, Null
    <2>3. CASE y # 0
      <3>1. /\ y \in Addresses /\ y # Null /\ next[y] = y - 1
            /\ y - 1 \in 0 .. n /\ ~(y <= y - 1) /\ y \in Nat \ {0}
        BY <1>3, <2>1, <2>3 DEF Addresses, Null, Linked
      <3>2. f[y - 1] = CountDown(y - 1)
        BY <2>1, <3>1
      <3>3. f[y] = <<y>> \o f[y - 1]
        BY <1>1, <3>1 DEF IsChain
      <3>4. f[y] = CountDown(y)
        BY <3>1, <3>2, <3>3, CountDownStep
      <3>5. QED
        BY <2>1, <3>4
    <2>4. QED
      BY <2>2, <2>3
  <1>5. QED
    BY <1>2, <1>4

LEMMA ReverseCounts ==
    ASSUME NEW n \in Nat
    PROVE  Reverse(CountDown(n)) = CountUp(n)
  <1>1. Len(CountDown(n)) = n
    BY DEF CountDown
  <1>2. \A k \in 1 .. n : CountDown(n)[(n - k) + 1] = k
    BY DEF CountDown
  <1>3. QED
    BY <1>1, <1>2 DEF Reverse, CountUp

Reading == {"itsf", "itsp", "page", "items"}

TypeInv ==
    /\ archive \in Archives
    /\ pc \in {"itsf", "itsp", "page", "items", "table", "units", "reset_table",
               "control", "error", "open", "failed", "closed", "crash"}
    /\ cur_page \in Int
    /\ {page_buf, parse_entries_failed, compression_enabled} \subseteq BOOLEAN
    /\ {rt_unit, cn_unit, lzxc} \subseteq Addresses \union {Null}
    /\ {window_size, reset_blkcount} \subseteq 0 .. Word - 1

\* The list is that of the addresses in order; what is allocated is what is
\* linked, but for the entry of an item that was cut short; and the table, once
\* it is built, holds the addresses in order or could not be allocated.
ListInv ==
    /\ TypeInv
    /\ parsed \in 0 .. MaxEntries
    /\ last_entry = parsed
    /\ Linked(parsed)
    /\ live \subseteq Addresses
    /\ pc \in Reading => live = 1 .. parsed
    /\ pc \notin {"failed", "closed"} /\ ~parse_entries_failed => live = 1 .. parsed
    /\ pc \in Reading \union {"table"} => entries = <<>> /\ n_entries = 0
    /\ pc \notin Reading \union {"table"} =>
         /\ entries \in {<<>>, CountUp(parsed)}
         /\ n_entries \in {0, parsed}
    /\ pc \in {"units", "reset_table", "control", "open"} =>
         n_entries = parsed /\ ~page_buf
    /\ pc = "items" => PageOk(cur_page)
    /\ pc \in {"reset_table", "control", "open"} =>
         n_entries > 0 /\ entries = CountUp(parsed)

LEMMA ListInvInit == Init => ListInv
  <1> SUFFICES ASSUME Init PROVE ListInv
    OBVIOUS
  <1>1. MaxEntries \in Nat /\ Word \in Nat \ {0, 1}
    BY BoundAssumption, WidthAssumption
  <1>2. 0 \in 0 .. Word - 1 /\ 0 \in 0 .. MaxEntries /\ (1 .. 0) = {}
    BY <1>1
  <1>3. TypeInv
    <2>1. {page_buf, parse_entries_failed, compression_enabled} \subseteq BOOLEAN
      BY DEF Init
    <2>2. {window_size, reset_blkcount} \subseteq 0 .. Word - 1
      BY <1>2 DEF Init
    <2>3. QED
      BY <2>1, <2>2 DEF Init, TypeInv, Null
  <1>4. Linked(parsed)
    BY <1>1 DEF Init, Linked, Addresses, Null
  <1>5. QED
    BY <1>2, <1>3, <1>4 DEF Init, ListInv, Reading, Null

\* A set of numbers up to n has a greatest one: the last entry of a name.
LEMMA MaxOfSome ==
    ASSUME NEW n \in Nat, NEW S \in SUBSET (1 .. n), S # {}
    PROVE  Max(S) \in S /\ \A y \in S : y <= Max(S)
  <1> DEFINE T == {n - y : y \in S}
  <1>1. T \in SUBSET Nat /\ T # {}
    <2>1. \A y \in S : n - y \in Nat
      OBVIOUS
    <2>2. PICK y \in S : TRUE
      OBVIOUS
    <2>3. n - y \in T
      OBVIOUS
    <2>4. QED
      BY <2>1, <2>3
  <1> HIDE DEF T
  <1>2. PICK z \in T : \A y \in T : z <= y
    BY <1>1, LeastNat
  <1>3. PICK x \in S : z = n - x
    BY <1>2 DEF T
  <1>4. \A y \in S : x >= y
    <2> TAKE y \in S
    <2>1. n - y \in T
      BY DEF T
    <2>2. n - x <= n - y /\ x \in Int /\ y \in Int
      BY <1>2, <1>3, <2>1
    <2>3. QED
      BY <2>2
  <1>5. Max(S) \in S /\ \A y \in S : Max(S) >= y
    BY <1>4 DEF Max
  <1>6. \A y \in S : y \in Int
    OBVIOUS
  <1>7. QED
    BY <1>5, <1>6

\* What a search of the table finds: nothing, or an entry with the name.
LEMMA FindResult ==
    ASSUME ListInv, n_entries = parsed, entries = CountUp(parsed), NEW path
    PROVE  \/ Find(path) = Null
           \/ /\ Find(path) \in 1 .. parsed
              /\ Find(path) \in Addresses
              /\ streq(item[Find(path)].path, path)
  <1> DEFINE found == {k \in 1 .. n_entries : streq(item[entries[k]].path, path)}
  <1>1. parsed \in Nat /\ parsed <= MaxEntries /\ MaxEntries \in Nat
    BY BoundAssumption DEF ListInv
  <1>2. CASE found = {}
    BY <1>2 DEF Find
  <1>3. CASE found # {}
    <2>1. Max(found) \in found
      <3>1. found \in SUBSET (1 .. parsed)
        OBVIOUS
      <3> HIDE DEF found
      <3>2. QED
        BY <1>1, <1>3, <3>1, MaxOfSome
    <2>2. Find(path) = entries[Max(found)]
      BY <1>3 DEF Find
    <2> DEFINE m == Max(found)
    <2>3. m \in 1 .. parsed /\ streq(item[entries[m]].path, path)
      BY <2>1
    <2> HIDE DEF m
    <2>4. entries[m] = m
      BY <2>3 DEF CountUp
    <2>5. Find(path) = m
      BY <2>2, <2>4 DEF m
    <2>6. m \in Addresses
      BY <1>1, <2>3 DEF Addresses
    <2>7. streq(item[m].path, path)
      BY <2>3, <2>4
    <2>8. QED
      BY <2>3, <2>5, <2>6, <2>7
  <1>4. QED
    BY <1>2, <1>3

-----------------------------------------------------------------------------
(* Numbers keep their width *)

LEMMA u32Range ==
    ASSUME NEW n \in Int
    PROVE  u32(n) \in 0 .. Word - 1
  BY WidthAssumption, ModRange DEF u32

LEMMA ScaledRange ==
    ASSUME NEW c, NEW n \in 0 .. Word - 1
    PROVE  Scaled(c, n) \in 0 .. Word - 1
  <1>1. Word \in Nat /\ Unit \in Nat
    BY WidthAssumption, BoundAssumption
  <1>2. n * Unit \in Int
    BY <1>1
  <1>3. u32(n * Unit) \in 0 .. Word - 1
    BY <1>2, u32Range
  <1>4. QED
    BY <1>3 DEF Scaled

\* A window that control data give is at least two, so that it can be halved.
LEMMA ControlRange ==
    ASSUME TypeInv
    PROVE  LET c == archive.control
           IN  /\ Scaled(c, c.windowSize) \in 0 .. Word - 1
               /\ ControlDataOk(c) => /\ ResetBlkCount(c) \in 0 .. Word - 1
                                      /\ Scaled(c, c.windowSize) \div 2 # 0
  <1> DEFINE c == archive.control
             window == Scaled(c, c.windowSize)
             interval == Scaled(c, c.resetInterval)
             half == window \div 2
  <1>1. {c.windowSize, c.resetInterval, c.windowsPerReset} \subseteq 0 .. Word - 1
    BY ArchivesAssumption DEF TypeInv
  <1>2. window \in 0 .. Word - 1 /\ interval \in 0 .. Word - 1 /\ c.windowsPerReset \in Nat
    <2>1. /\ c.windowSize \in 0 .. Word - 1 /\ c.resetInterval \in 0 .. Word - 1
          /\ c.windowsPerReset \in 0 .. Word - 1
      BY <1>1
    <2> HIDE DEF c
    <2>2. QED
      BY <2>1, ScaledRange
  <1>3. ControlDataOk(c) => window > 1
    BY DEF ControlDataOk
  <1>4. ResetBlkCount(c) = u32((interval \div half) * c.windowsPerReset)
    BY DEF ResetBlkCount
  <1> HIDE DEF c, window, interval
  <1>5. ASSUME ControlDataOk(c)
        PROVE  ResetBlkCount(c) \in 0 .. Word - 1 /\ half # 0
    <2>1. window = 2 * half + (window % 2) /\ half \in Int /\ (window % 2) \in 0 .. 1
      BY <1>2, DivFacts
    <2>2. window > 1 /\ window \in Int /\ interval \in Nat
      BY <1>2, <1>3, <1>5
    <2> HIDE DEF half
    <2>3. half \in Nat \ {0}
      BY <2>1, <2>2
    <2>4. interval \div half \in Nat
      BY <2>2, <2>3, DivModNat
    <2>5. (interval \div half) * c.windowsPerReset \in Int
      BY <1>2, <2>4
    <2>6. QED
      BY <1>4, <2>3, <2>5, u32Range
  <1>6. QED
    BY <1>2, <1>5 DEF c, window, half

-----------------------------------------------------------------------------
(* Types, and the list *)

LEMMA TypeInvStep == ListInv /\ [Next]_vars => TypeInv'
  <1> SUFFICES ASSUME ListInv, [Next]_vars PROVE TypeInv'
    OBVIOUS
  <1> USE DEF ListInv, TypeInv, CloseTo, EntriesFail, Null
  <1>1. archive' = archive
    BY DEF Next, Parse, vars, ReadItsf, ItspFails, ReadItsp, ReadPage, PageDone,
           LastPageDone, ReadItem, RejectItem, BuildTable, FindUnits, NoEntries, NoTable,
           ParseResetTable, ParseControlData, ParseFails, Close
  <1>2. CASE ReadItsf
    BY <1>1, <1>2 DEF ReadItsf, listVars, pageVars, unitVars, sizeVars
  <1>3. CASE ItspFails
    BY <1>1, <1>3 DEF ItspFails, listVars, pageVars, unitVars, sizeVars
  <1>4. CASE ReadItsp
    <2>1. archive.itsp.index_head \in Int
      BY ArchivesAssumption
    <2>2. QED
      BY <1>1, <1>4, <2>1 DEF ReadItsp, unitVars, sizeVars
  <1>5. CASE ReadPage
    BY <1>1, <1>5 DEF ReadPage, unitVars, sizeVars
  <1>6. CASE PageDone
    <2>1. cur_page \in DOMAIN archive.pages
      BY <1>6 DEF PageDone, PageOk
    <2>2. cur_page' \in Int
      BY <1>6, <2>1, ArchivesAssumption DEF PageDone, NextPage
    <2>3. QED
      BY <1>1, <1>6, <2>2 DEF PageDone, unitVars, sizeVars
  <1>7. CASE LastPageDone
    BY <1>1, <1>7 DEF LastPageDone, pageVars, unitVars, sizeVars
  <1>8. CASE ReadItem
    BY <1>1, <1>8 DEF ReadItem, unitVars, sizeVars
  <1>9. CASE RejectItem
    BY <1>1, <1>9 DEF RejectItem, pageVars, unitVars, sizeVars
  <1>10. CASE BuildTable
    BY <1>1, <1>10 DEF BuildTable, unitVars, sizeVars
  <1>11. CASE FindUnits
    <2>1. n_entries = parsed /\ entries = CountUp(parsed)
      BY <1>11 DEF FindUnits, Reading
    <2>2. {rt_unit', cn_unit', lzxc'} \subseteq Addresses \union {Null}
      BY <1>11, <2>1, FindResult DEF FindUnits
    <2>3. compression_enabled' \in BOOLEAN
      BY <1>11 DEF FindUnits
    <2>4. QED
      BY <1>1, <1>11, <2>2, <2>3 DEF FindUnits, pageVars, sizeVars
  <1>12. CASE NoEntries
    BY <1>1, <1>12 DEF NoEntries, pageVars, unitVars, sizeVars
  <1>13. CASE NoTable
    BY <1>1, <1>13 DEF NoTable, pageVars, unitVars, sizeVars
  <1>14. CASE ParseResetTable
    <2>1. compression_enabled' \in BOOLEAN
      BY <1>14 DEF ParseResetTable, ResetTableOk
    <2>2. QED
      BY <1>1, <1>14, <2>1 DEF ParseResetTable, pageVars, unitVars
  <1>15. CASE ParseControlData
    <2>1. {window_size', reset_blkcount'} \subseteq 0 .. Word - 1
      BY <1>15, ControlRange DEF ParseControlData
    <2>2. compression_enabled' \in BOOLEAN
      BY <1>15 DEF ParseControlData, EnabledBy
    <2>3. QED
      BY <1>1, <1>15, <2>1, <2>2 DEF ParseControlData, pageVars, unitVars
  <1>16. CASE ParseFails
    BY <1>1, <1>16 DEF ParseFails, pageVars, unitVars, sizeVars
  <1>17. CASE Close
    BY <1>1, <1>17 DEF Close, pageVars, unitVars, sizeVars
  <1>18. CASE UNCHANGED vars
    BY <1>18 DEF vars, pageVars, unitVars, sizeVars
  <1>19. QED
    BY <1>2, <1>3, <1>4, <1>5, <1>6, <1>7, <1>8, <1>9, <1>10, <1>11, <1>12,
       <1>13, <1>14, <1>15, <1>16, <1>17, <1>18 DEF Next, Parse

\* An entry read while the list is that of the addresses goes to its head.
LEMMA ReadItemLinks ==
    ASSUME ListInv, ReadItem
    PROVE  /\ NewEntry = parsed + 1
           /\ parsed + 1 \in 1 .. MaxEntries
           /\ live' = 1 .. parsed + 1
           /\ \A n \in {parsed + 1} : Linked(n)'
  <1>1. parsed \in Nat /\ MaxEntries \in Nat /\ live = 1 .. parsed
    BY BoundAssumption DEF ListInv, ReadItem, Reading
  <1>2. Cardinality(live) = parsed
    BY <1>1, FS_Interval
  <1>3. NewEntry = parsed + 1 /\ NewEntry <= MaxEntries
    BY <1>2 DEF NewEntry, ReadItem
  <1>4. live' = live \union {parsed + 1}
    BY <1>3 DEF ReadItem
  <1>5. next' = [next EXCEPT ![parsed + 1] = parsed]
    BY <1>3 DEF ReadItem, Link, ListInv
  <1>6. next = [e \in Addresses |-> IF e <= parsed THEN e - 1 ELSE Null]
    BY DEF ListInv, Linked
  <1>7. parsed' = parsed + 1
    BY DEF ReadItem
  <1>8. next' = [e \in Addresses |-> IF e <= parsed + 1 THEN e - 1 ELSE Null]
    BY <1>1, <1>3, <1>5, <1>6 DEF Addresses
  <1>9. QED
    BY <1>1, <1>3, <1>4, <1>8 DEF Linked

LEMMA ListInvStep == ListInv /\ [Next]_vars => ListInv'
  <1> SUFFICES ASSUME ListInv, [Next]_vars PROVE ListInv'
    OBVIOUS
  <1>0. TypeInv' /\ parsed \in Nat /\ MaxEntries \in Nat
    BY TypeInvStep, BoundAssumption DEF ListInv
  <1>a. ASSUME next' = next, parsed' = parsed PROVE Linked(parsed)'
    BY <1>a DEF ListInv, Linked
  <1>b. ASSUME archive' = archive PROVE \A p : PageOk(p)' = PageOk(p)
    BY <1>b DEF PageOk
  <1> USE <1>0 DEF ListInv, Reading
  <1>2. CASE ReadItsf
    BY <1>2, <1>a DEF ReadItsf, listVars, tableVars, pageVars
  <1>3. CASE ItspFails
    BY <1>3, <1>a DEF ItspFails, listVars, tableVars, pageVars
  <1>4. CASE ReadItsp
    BY <1>4, <1>a DEF ReadItsp, listVars, tableVars
  <1>5. CASE ReadPage
    <2>1. PageOk(cur_page)' = PageOk(cur_page)
      BY <1>5 DEF ReadPage, PageOk
    <2>2. QED
      BY <1>5, <1>a, <2>1 DEF ReadPage, EntriesFail, listVars, tableVars
  <1>6. CASE PageDone
    BY <1>6, <1>a DEF PageDone, listVars, tableVars
  <1>7. CASE LastPageDone
    BY <1>7, <1>a DEF LastPageDone, listVars, tableVars, pageVars
  <1>8. CASE ReadItem
    <2>1. PageOk(cur_page)' = PageOk(cur_page)
      BY <1>8 DEF ReadItem, PageOk
    <2>2. parsed' = parsed + 1 /\ last_entry' = parsed'
      BY <1>8, ReadItemLinks DEF ReadItem
    <2>3. live' = 1 .. parsed' /\ live' \subseteq Addresses /\ parsed' \in 0 .. MaxEntries
      BY <1>8, <2>2, ReadItemLinks DEF Addresses
    <2>4. Linked(parsed)'
      BY <1>8, <2>2, ReadItemLinks DEF Linked
    <2>5. QED
      BY <1>8, <2>1, <2>2, <2>3, <2>4 DEF ReadItem, tableVars
  <1>9. CASE RejectItem
    <2>1. live' \subseteq Addresses
      <3>1. Cardinality(live) = parsed
        BY <1>9, FS_Interval DEF RejectItem
      <3>2. NewEntry <= MaxEntries => NewEntry \in Addresses
        BY <3>1 DEF NewEntry, Addresses
      <3>3. QED
        BY <1>9, <3>2 DEF RejectItem
    <2>2. QED
      BY <1>9, <1>a, <2>1 DEF RejectItem, EntriesFail, tableVars
  <1>10. CASE BuildTable
    <2>1. Table = CountUp(parsed)
      <3>1. last_entry \in 0 .. parsed
        OBVIOUS
      <3>2. Chain(last_entry) = CountDown(parsed)
        BY <3>1, ChainCountsDown
      <3>3. QED
        BY <3>2, ReverseCounts DEF Table
    <2>2. CountUp(parsed)' = CountUp(parsed)
      BY <1>10 DEF BuildTable, listVars
    <2>3. QED
      BY <1>10, <1>a, <2>1, <2>2 DEF BuildTable, listVars
  <1>11. CASE FindUnits
    <2>1. CountUp(parsed)' = CountUp(parsed)
      BY <1>11 DEF FindUnits, listVars
    <2>2. QED
      BY <1>11, <1>a, <2>1 DEF FindUnits, listVars, tableVars, pageVars
  <1>12. CASE NoEntries
    <2>1. CountUp(parsed)' = CountUp(parsed)
      BY <1>12 DEF NoEntries, listVars
    <2>2. QED
      BY <1>12, <1>a, <2>1 DEF NoEntries, listVars, tableVars, pageVars
  <1>13. CASE NoTable
    <2>1. CountUp(parsed)' = CountUp(parsed)
      BY <1>13 DEF NoTable, listVars
    <2>2. QED
      BY <1>13, <1>a, <2>1 DEF NoTable, listVars, tableVars, pageVars
  <1>14. CASE ParseResetTable
    <2>1. CountUp(parsed)' = CountUp(parsed)
      BY <1>14 DEF ParseResetTable, listVars
    <2>2. QED
      BY <1>14, <1>a, <2>1 DEF ParseResetTable, listVars, tableVars, pageVars
  <1>15. CASE ParseControlData
    <2>1. CountUp(parsed)' = CountUp(parsed)
      BY <1>15 DEF ParseControlData, listVars
    <2>2. QED
      BY <1>15, <1>a, <2>1 DEF ParseControlData, listVars, tableVars, pageVars
  <1>16. CASE ParseFails
    <2>1. CountUp(parsed)' = CountUp(parsed)
      BY <1>16 DEF ParseFails, CloseTo
    <2>2. QED
      BY <1>16, <1>a, <2>1 DEF ParseFails, CloseTo, tableVars, pageVars
  <1>17. CASE Close
    <2>1. CountUp(parsed)' = CountUp(parsed)
      BY <1>17 DEF Close, CloseTo
    <2>2. QED
      BY <1>17, <1>a, <2>1 DEF Close, CloseTo, tableVars, pageVars
  <1>18. CASE UNCHANGED vars
    <2>1. CountUp(parsed)' = CountUp(parsed) /\ PageOk(cur_page)' = PageOk(cur_page)
      BY <1>18 DEF vars, pageVars, listVars, PageOk
    <2>2. QED
      BY <1>18, <1>a, <2>1 DEF vars, listVars, tableVars, pageVars
  <1>19. QED
    BY <1>2, <1>3, <1>4, <1>5, <1>6, <1>7, <1>8, <1>9, <1>10, <1>11, <1>12,
       <1>13, <1>14, <1>15, <1>16, <1>17, <1>18 DEF Next, Parse

\* The types of TypeOK, and the invariant, hold of every open archive.
LEMMA ListInvariant == Spec => []ListInv
  <1>1. QED
    BY ListInvInit, ListInvStep, PTL DEF Spec

\* Whatever an archive holds and whatever fails, chm_parse keeps to its types:
\* what the table lists and what a search of it finds are addresses of entries,
\* and what is computed from the control data has the width of its field.
THEOREM ParseTypeCorrect == Spec => []TypeOK
  <1>1. ListInv => TypeOK
    <2> SUFFICES ASSUME ListInv PROVE TypeOK
      OBVIOUS
    <2>0. MaxEntries \in Nat /\ parsed \in 0 .. MaxEntries
      BY BoundAssumption DEF ListInv
    <2>1. next \in [Addresses -> Addresses \union {Null}]
      BY <2>0 DEF ListInv, Linked, Addresses, Null
    <2>2. last_entry \in Addresses \union {Null}
      BY <2>0 DEF ListInv, Addresses, Null
    <2>3. entries = <<>> \/ entries = CountUp(parsed)
      BY DEF ListInv
    <2>4. Range(entries) \subseteq Addresses
      BY <2>0, <2>3 DEF CountUp, Range, Addresses
    <2>5. n_entries \in {0, parsed}
      BY DEF ListInv
    <2>6. {parsed, n_entries} \subseteq 0 .. MaxEntries
      BY <2>0, <2>5
    <2>7. {parse_entries_failed, compression_enabled} \subseteq BOOLEAN /\ page_buf \in BOOLEAN
      BY DEF ListInv, TypeInv
    <2>8. QED
      BY <2>1, <2>2, <2>4, <2>6, <2>7 DEF ListInv, TypeInv, TypeOK
  <1>2. QED
    BY <1>1, ListInvariant, PTL

\* After a complete parse every entry allocated is in the table, and the page
\* buffer is gone: what parse_entries links is what it counts and lists.
THEOREM AllocatedIsListedHolds == Spec => []AllocatedIsListed
  <1>1. ListInv => AllocatedIsListed
    <2> SUFFICES ASSUME ListInv, pc = "open"
                 PROVE  ~page_buf /\ (~parse_entries_failed => live = Range(entries))
      BY DEF AllocatedIsListed
    <2>1. entries = CountUp(parsed) /\ ~page_buf /\ parsed \in Nat
      BY BoundAssumption DEF ListInv
    <2>2. Range(entries) = 1 .. parsed
      BY <2>1 DEF CountUp, Range
    <2>3. ~parse_entries_failed => live = 1 .. parsed
      BY DEF ListInv
    <2>4. QED
      BY <2>1, <2>2, <2>3
  <1>2. QED
    BY <1>1, ListInvariant, PTL

-----------------------------------------------------------------------------
(* The bytes of an item *)

\* What is picked as the least element is the least.
LEMMA MinIs ==
    ASSUME NEW S \in SUBSET Nat, NEW x \in S, \A y \in S : x <= y
    PROVE  Min(S) = x
  <1>1. Min(S) \in S /\ \A y \in S : Min(S) =< y
    BY DEF Min
  <1>2. Min(S) \in Nat /\ x \in Nat /\ Min(S) <= x /\ x <= Min(S)
    BY <1>1
  <1>3. QED
    BY <1>2

\* The bits get_cword collects from the digits of a number.
Bits(digits) == FoldLeft(LAMBDA r, b : (r * Cont + Digit(b)) % Long, 0, digits)

\* One digit more.
More(r, b) == (r * Cont + (b % Cont)) % Long

\* The fold, over the places of digits from the last down.
IsBits(f, digits) ==
    f = [s \in SUBSET DOMAIN digits |->
            IF s = {} THEN 0 ELSE More(f[s \ {Max(s)}], digits[Max(s)])]

\* It is the fold of get_cword.
LEMMA BitsIsFold ==
    ASSUME NEW digits
    PROVE  Bits(digits) = (CHOOSE f : IsBits(f, digits))[DOMAIN digits]
  BY DEF Bits, FoldLeft, MapThenFoldSet, IsBits, More, Digit

\* What is added up in 64 bits is the sum in 64 bits.
LEMMA ModOfMore ==
    ASSUME NEW x \in Nat, NEW b \in Nat
    PROVE  /\ x * Cont + (b % Cont) \in Nat
           /\ More(x % Long, b) = ((x * Cont + (b % Cont)) % Long)
  <1> DEFINE q == x \div Long
             r == x % Long
             d == b % Cont
  <1>1. Long \in Nat \ {0} /\ Cont \in Nat \ {0}
    BY WidthAssumption
  <1>2. x = Long * q + r /\ q \in Int /\ r \in 0 .. Long - 1
    BY <1>1, DivFacts
  <1>3. d \in Nat
    BY <1>1, DivModNat
  <1> DEFINE y == r * Cont + d
             p == y \div Long
             e == y % Long
  <1> HIDE DEF q, r, d
  <1>4. y \in Nat /\ x * Cont + d \in Nat
    BY <1>1, <1>2, <1>3
  <1> HIDE DEF y
  <1>5. y = Long * p + e /\ p \in Int /\ e \in 0 .. Long - 1
    BY <1>1, <1>4, DivFacts
  <1> HIDE DEF p, e
  <1>6. x * Cont + d = Long * (q * Cont + p) + e
    <2>1. x * Cont + d = (Long * q) * Cont + y
      BY <1>1, <1>2, <1>3 DEF y
    <2>2. (Long * q) * Cont = Long * (q * Cont)
      BY <1>1, <1>2
    <2> DEFINE u == q * Cont
               v == Long * u
               w == Long * p
    <2>3. u \in Int /\ v \in Int /\ w \in Int
      BY <1>1, <1>2, <1>5
    <2>4. Long * (u + p) = v + w
      <3> HIDE DEF u
      <3>1. QED
        BY <1>1, <1>5, <2>3
    <2>5. x * Cont + d = v + y
      BY <2>1, <2>2
    <2>6. y = w + e
      BY <1>5
    <2> HIDE DEF v, w
    <2>7. x * Cont + d = (v + w) + e
      <3> DEFINE z == x * Cont + d
      <3>1. z = v + (w + e) /\ e \in Int
        BY <1>5, <2>5, <2>6
      <3> HIDE DEF z
      <3>2. z = (v + w) + e
        BY <2>3, <3>1
      <3>3. QED
        BY <3>2 DEF z
    <2>8. QED
      BY <2>4, <2>7
  <1> DEFINE z == x * Cont + d
             t == q * Cont + p
  <1>7. t \in Int
    BY <1>1, <1>2, <1>5
  <1>8. z = Long * t + e /\ z \in Int
    BY <1>4, <1>6
  <1> HIDE DEF z, t
  <1>9. (z % Long) = e
    BY <1>1, <1>5, <1>7, <1>8, DivUnique
  <1>10. More(r, b) = (y % Long)
    BY DEF More, y, d
  <1>11. More(r, b) = e
    BY <1>10 DEF e
  <1>12. QED
    BY <1>4, <1>9, <1>11 DEF z, d, r

\* Digits and sums of digits are natural numbers.
LEMMA MoreType ==
    ASSUME NEW x \in Nat, NEW b \in Nat
    PROVE  More(x, b) \in Nat
  <1>1. Long \in Nat \ {0} /\ Cont \in Nat \ {0}
    BY WidthAssumption
  <1>2. b % Cont \in Nat
    BY <1>1, DivModNat
  <1>3. x * Cont + (b % Cont) \in Nat
    BY <1>1, <1>2
  <1>4. QED
    BY <1>1, <1>3, DivModNat DEF More

\* The fold exists: place by place, each set of places gets the bits of the
\* ones in it.
LEMMA BitsExist ==
    ASSUME NEW digits \in Seq(Nat)
    PROVE  \E f : IsBits(f, digits) /\ f \in [SUBSET DOMAIN digits -> Nat]
  <1> DEFINE n == Len(digits)
             D == SUBSET DOMAIN digits
             F == [D -> Nat]
             base == [s \in D |-> 0]
             Op(g, k) == [s \in D |-> IF k \in s THEN More(g[s], digits[k]) ELSE g[s]]
             step == [x \in (1 .. n) \X F |-> Op(x[2], x[1])]
  <1>0. n \in Nat /\ DOMAIN digits = 1 .. n /\ \A k \in 1 .. n : digits[k] \in Nat
    OBVIOUS
  <1> HIDE DEF n
  <1>1. base \in F
    OBVIOUS
  <1>2. ASSUME NEW k \in 1 .. n, NEW g \in F
        PROVE  Op(g, k) \in F
    <2>1. ASSUME NEW s \in D
          PROVE  (IF k \in s THEN More(g[s], digits[k]) ELSE g[s]) \in Nat
      BY <1>0, MoreType
    <2> HIDE DEF D
    <2>2. QED
      BY <2>1
  <1> HIDE DEF base
  <1>3. step \in [(1 .. n) \X F -> F]
    <2>1. ASSUME NEW x \in (1 .. n) \X F
          PROVE  Op(x[2], x[1]) \in F
      <3>1. x[1] \in 1 .. n /\ x[2] \in F
        OBVIOUS
      <3> HIDE DEF F, Op
      <3>2. QED
        BY <3>1, <1>2
    <2> HIDE DEF F, Op
    <2>2. QED
      BY <2>1
  <1>4. PICK g : Iterates(g, n, F, base, step)
    <2> HIDE DEF F, step
    <2>1. QED
      BY <1>0, <1>1, <1>3, IterationExists
  <1>5. \A k \in 0 .. n : g[k] \in F
    <2> HIDE DEF F
    <2>1. QED
      BY <1>4 DEF Iterates
  <1>6. ASSUME NEW k \in 1 .. n
        PROVE  /\ k - 1 \in 0 .. n /\ k \in 0 .. n
               /\ \A s \in D : g[k][s] = IF k \in s THEN More(g[k - 1][s], digits[k])
                                         ELSE g[k - 1][s]
    <2>1. k - 1 \in 0 .. n /\ k \in 0 .. n
      BY <1>0
    <2>2. g[k - 1] \in F
      BY <1>5, <2>1
    <2>3. g[k] = step[<<k, g[k - 1]>>]
      BY <1>4 DEF Iterates
    <2>4. step[<<k, g[k - 1]>>] = Op(g[k - 1], k)
      <3> HIDE DEF F, Op
      <3>1. QED
        BY <2>2
    <2>5. QED
      BY <2>1, <2>3, <2>4
  <1>7. \A s \in D : g[0][s] = 0
    BY <1>4 DEF Iterates, base
  <1> HIDE DEF step, Op
  \* only the places up to k matter
  <1>8. ASSUME NEW s \in D, NEW t \in D, NEW m \in 0 .. n,
               \A j \in 1 .. m : j \in s <=> j \in t
        PROVE  g[m][s] = g[m][t]
    <2> DEFINE T == {k \in 0 .. m : g[k][s] = g[k][t]}
    <2>1. 0 \in T
      BY <1>0, <1>7
    <2>2. ASSUME NEW k \in 0 .. m - 1, k \in T PROVE k + 1 \in T
      <3>1. k + 1 \in 1 .. m /\ k + 1 \in 1 .. n /\ (k + 1) - 1 = k /\ k + 1 \in 0 .. m
        BY <1>0
      <3>2. /\ g[k + 1][s] = IF k + 1 \in s THEN More(g[k][s], digits[k + 1]) ELSE g[k][s]
            /\ g[k + 1][t] = IF k + 1 \in t THEN More(g[k][t], digits[k + 1]) ELSE g[k][t]
        BY <1>6, <3>1
      <3>3. k + 1 \in s <=> k + 1 \in t
        BY <1>8, <3>1
      <3>4. g[k][s] = g[k][t]
        BY <2>2
      <3>5. g[k + 1][s] = g[k + 1][t]
        BY <3>2, <3>3, <3>4
      <3>6. QED
        BY <3>1, <3>5
    <2> HIDE DEF T
    <2>3. m \in Nat
      BY <1>0
    <2>4. \A k \in 0 .. m : k \in T
      BY <2>1, <2>2, <2>3, UpTo
    <2>5. m \in T
      BY <2>3, <2>4
    <2>6. QED
      BY <2>5 DEF T
  \* nothing is added behind the last place
  <1>9. ASSUME NEW s \in D, NEW m \in 0 .. n, \A j \in m + 1 .. n : j \notin s
        PROVE  g[n][s] = g[m][s]
    <2> DEFINE T == {k \in 0 .. n : k >= m => g[k][s] = g[m][s]}
    <2>0. m \in Nat /\ n \in Nat
      BY <1>0
    <2>1. 0 \in T
      <3>1. 0 >= m => m = 0
        BY <2>0
      <3>2. QED
        BY <2>0, <3>1
    <2>2. ASSUME NEW k \in 0 .. n - 1, k \in T PROVE k + 1 \in T
      <3>1. k + 1 \in 1 .. n /\ (k + 1) - 1 = k /\ k + 1 \in 0 .. n
        BY <2>0
      <3>2. g[k + 1][s] = IF k + 1 \in s THEN More(g[k][s], digits[k + 1]) ELSE g[k][s]
        BY <1>6, <3>1
      <3>3. CASE k >= m
        <4>1. k + 1 \in m + 1 .. n
          BY <2>0, <3>3
        <4>2. k + 1 \notin s
          BY <1>9, <4>1
        <4>3. g[k + 1][s] = g[m][s]
          BY <2>2, <3>2, <3>3, <4>2
        <4>4. QED
          BY <3>1, <4>3
      <3>4. CASE ~(k >= m)
        <4>1. k + 1 >= m => k + 1 = m
          BY <2>0, <3>4
        <4>2. QED
          BY <3>1, <4>1
      <3>5. QED
        BY <3>3, <3>4
    <2> HIDE DEF T
    <2>3. \A k \in 0 .. n : k \in T
      BY <2>0, <2>1, <2>2, UpTo
    <2>4. n \in T /\ n >= m
      BY <2>0, <2>3
    <2>5. QED
      BY <2>4 DEF T
  <1> DEFINE f == g[n]
  <1>10. f \in F
    <2> HIDE DEF F
    <2>1. QED
      BY <1>0, <1>5
  <1>11. ASSUME NEW s \in D
         PROVE  f[s] = IF s = {} THEN 0 ELSE More(f[s \ {Max(s)}], digits[Max(s)])
    <2>1. CASE s = {}
      <3>1. 0 \in 0 .. n /\ \A j \in 0 + 1 .. n : j \notin s
        BY <1>0, <2>1
      <3>2. g[n][s] = g[0][s]
        BY <1>9, <3>1
      <3>3. QED
        BY <1>7, <2>1, <3>2
    <2>2. CASE s # {}
      <3> DEFINE m == Max(s)
                 t == s \ {m}
      <3>1. m \in s /\ \A y \in s : y <= m
        BY <1>0, <2>2, MaxOfSome
      <3> HIDE DEF m
      <3>2. /\ m \in 1 .. n /\ m \in 0 .. n /\ m - 1 \in 0 .. n /\ t \in D
            /\ m \in Nat /\ (m - 1) + 1 = m
        BY <1>0, <3>1
      <3>3. \A j \in m + 1 .. n : j \notin s
        BY <1>0, <3>1, <3>2
      <3>4. g[n][s] = g[m][s]
        BY <1>9, <3>2, <3>3
      <3>5. g[m][s] = More(g[m - 1][s], digits[m])
        BY <1>6, <3>1, <3>2
      <3>6. g[m - 1][s] = g[m - 1][t]
        <4>1. \A j \in 1 .. m - 1 : j \in s <=> j \in t
          BY <3>2
        <4>2. QED
          BY <1>8, <3>2, <4>1
      <3>7. g[n][t] = g[m - 1][t]
        <4>1. \A j \in (m - 1) + 1 .. n : j \notin t
          BY <1>0, <3>1, <3>2
        <4>2. QED
          BY <1>9, <3>2, <4>1
      <3>8. g[n][s] = More(g[n][t], digits[m])
        BY <3>4, <3>5, <3>6, <3>7
      <3>9. QED
        BY <2>2, <3>8 DEF m
    <2>3. QED
      BY <2>1, <2>2
  <1> HIDE DEF f
  <1>12. IsBits(f, digits)
    <2> DEFINE e == [s \in D |-> IF s = {} THEN 0 ELSE More(f[s \ {Max(s)}], digits[Max(s)])]
    <2>1. f = [s \in D |-> f[s]]
      BY <1>10
    <2>2. \A s \in D : f[s] = e[s]
      <3> HIDE DEF D
      <3>1. QED
        BY <1>11
    <2>3. e = [s \in D |-> e[s]]
      OBVIOUS
    <2> HIDE DEF e
    <2>4. f = e
      <3> HIDE DEF D
      <3>1. QED
        BY <2>1, <2>2, <2>3
    <2>5. QED
      BY <2>4 DEF IsBits, e
  <1>13. QED
    BY <1>10, <1>12

\* The number, digit by digit.
IsNumber(f, digits) ==
    f = [k \in 0 .. Len(digits) |->
            IF k = 0 THEN 0 ELSE f[k - 1] * Cont + (digits[k] % Cont)]

\* ... can be counted up.
LEMMA NumberExists ==
    ASSUME NEW digits \in Seq(Nat)
    PROVE  \E f : IsNumber(f, digits)
  <1> DEFINE n == Len(digits)
             step == [x \in (1 .. n) \X Nat |-> x[2] * Cont + (digits[x[1]] % Cont)]
  <1>0. n \in Nat /\ \A k \in 1 .. n : digits[k] \in Nat
    OBVIOUS
  <1> HIDE DEF n
  <1>1. step \in [(1 .. n) \X Nat -> Nat]
    <2>1. ASSUME NEW x \in (1 .. n) \X Nat
          PROVE  x[2] * Cont + (digits[x[1]] % Cont) \in Nat
      <3>1. x[1] \in 1 .. n /\ x[2] \in Nat
        OBVIOUS
      <3>2. QED
        BY <1>0, <3>1, ModOfMore
    <2>2. QED
      BY <2>1
  <1>2. PICK f : Iterates(f, n, Nat, 0, step)
    <2> HIDE DEF step
    <2>1. QED
      BY <1>0, <1>1, IterationExists
  <1>3. f = [k \in 0 .. n |-> f[k]]
    BY <1>2 DEF Iterates
  <1>4. \A k \in 0 .. n : f[k] = IF k = 0 THEN 0 ELSE f[k - 1] * Cont + (digits[k] % Cont)
    <2> TAKE k \in 0 .. n
    <2>1. CASE k = 0
      BY <1>2, <2>1 DEF Iterates
    <2>2. CASE k # 0
      <3>1. k \in 1 .. n /\ k - 1 \in 0 .. n
        BY <1>0, <2>2
      <3>2. f[k] = step[<<k, f[k - 1]>>] /\ f[k - 1] \in Nat
        BY <1>2, <3>1 DEF Iterates
      <3>3. step[<<k, f[k - 1]>>] = f[k - 1] * Cont + (digits[k] % Cont)
        BY <3>1, <3>2
      <3>4. QED
        BY <2>2, <3>2, <3>3
    <2>3. QED
      BY <2>1, <2>2
  <1>5. QED
    BY <1>3, <1>4 DEF IsNumber, n

\* get_cword collects the number that the digits stand for, as far as it fits.
LEMMA BitsOfNumber ==
    ASSUME NEW digits \in Seq(Nat)
    PROVE  /\ Number(digits) \in Nat
           /\ Bits(digits) = (Number(digits) % Long)
  <1> DEFINE n == Len(digits)
             u == CHOOSE f : IsNumber(f, digits)
             b == CHOOSE f : IsBits(f, digits)
  <1>0. n \in Nat /\ DOMAIN digits = 1 .. n /\ \A k \in 1 .. n : digits[k] \in Nat
    OBVIOUS
  <1>1. IsNumber(u, digits)
    BY NumberExists
  <1>2. IsBits(b, digits)
    BY BitsExist
  <1>3. Number(digits) = u[n]
    BY DEF Number, IsNumber
  <1>4. Bits(digits) = b[1 .. n]
    BY <1>0, BitsIsFold
  <1> HIDE DEF u, b
  <1>5. \A k \in 0 .. n : u[k] = IF k = 0 THEN 0 ELSE u[k - 1] * Cont + (digits[k] % Cont)
    BY <1>1 DEF IsNumber
  <1>6. \A s \in SUBSET (1 .. n) :
          b[s] = IF s = {} THEN 0 ELSE More(b[s \ {Max(s)}], digits[Max(s)])
    BY <1>0, <1>2 DEF IsBits
  <1> HIDE DEF n
  <1> DEFINE T == {k \in 0 .. n : u[k] \in Nat /\ b[1 .. k] = (u[k] % Long)}
  <1>7. 0 \in T
    <2>1. u[0] = 0 /\ 0 \in 0 .. n
      BY <1>0, <1>5
    <2>2. (1 .. 0) = {} /\ {} \in SUBSET (1 .. n)
      OBVIOUS
    <2>3. b[1 .. 0] = 0
      BY <1>6, <2>2
    <2>4. (0 % Long) = 0
      <3>1. Long \in Nat \ {0} /\ 0 \in 0 .. Long - 1
        BY WidthAssumption
      <3>2. QED
        BY <3>1, ModSmall
    <2>5. QED
      BY <2>1, <2>3, <2>4
  <1>8. ASSUME NEW k \in 0 .. n - 1, k \in T PROVE k + 1 \in T
    <2> DEFINE m == k + 1
               s == 1 .. m
    <2>1. m \in 1 .. n /\ m \in 0 .. n /\ m - 1 = k /\ m # 0
      BY <1>0
    <2>2. s \in SUBSET (1 .. n) /\ s # {} /\ m \in s
      <3>1. \A j \in 1 .. m : j \in 1 .. n
        BY <1>0, <2>1
      <3>2. m \in 1 .. m
        BY <1>0, <2>1
      <3>3. QED
        BY <3>1, <3>2
    <2>3. Max(s) = m /\ s \ {m} = 1 .. k
      <3>1. Max(s) \in s /\ \A y \in s : y <= Max(s)
        BY <1>0, <2>2, MaxOfSome
      <3>2. Max(s) <= m /\ m <= Max(s) /\ Max(s) \in Int
        BY <2>2, <3>1
      <3>3. QED
        BY <2>1, <3>2
    <2>4. b[s] = More(b[1 .. k], digits[m])
      BY <1>6, <2>2, <2>3
    <2>5. u[m] = u[k] * Cont + (digits[m] % Cont)
      <3> HIDE DEF m
      <3>1. QED
        BY <1>5, <2>1
    <2>6. u[k] \in Nat /\ b[1 .. k] = (u[k] % Long) /\ digits[m] \in Nat
      BY <1>0, <1>8, <2>1
    <2>7. u[m] \in Nat /\ b[s] = (u[m] % Long)
      BY <2>4, <2>5, <2>6, ModOfMore
    <2>8. QED
      BY <2>1, <2>7
  <1> HIDE DEF T
  <1>9. \A k \in 0 .. n : k \in T
    BY <1>0, <1>7, <1>8, UpTo
  <1>10. n \in T
    BY <1>0, <1>9
  <1>11. QED
    BY <1>3, <1>4, <1>10 DEF T

\* A number ends at most once.
LEMMA EndsOnce ==
    ASSUME NEW bytes \in Seq(Nat), NEW i \in 1 .. Len(bytes) + 1,
           NEW last, last = {k \in i .. Len(bytes) : k > 0 /\ bytes[k] < Cont}
    PROVE  /\ last = {} => NumberEnds(bytes, i) = {}
           /\ last # {} => NumberEnds(bytes, i) = {Min(last)}
           /\ NumberEnds(bytes, i) \subseteq i .. Len(bytes)
  <1> DEFINE n == Len(bytes)
  <1>0. n \in Nat /\ i \in Nat /\ i >= 1
    OBVIOUS
  <1>1. \A j \in NumberEnds(bytes, i) : j \in i .. n /\ bytes[j] < Cont
    <2> TAKE j \in NumberEnds(bytes, i)
    <2>1. j \in i .. n /\ \A k \in i .. j : bytes[k] < Cont <=> k = j
      BY DEF NumberEnds
    <2>2. j \in i .. j
      BY <1>0, <2>1
    <2>3. QED
      BY <2>1, <2>2
  <1>2. \A j \in NumberEnds(bytes, i) : j \in last
    <2> TAKE j \in NumberEnds(bytes, i)
    <2>1. j \in i .. n /\ bytes[j] < Cont
      BY <1>1
    <2>2. j > 0
      BY <1>0, <2>1
    <2>3. QED
      BY <2>1, <2>2
  <1>3. ASSUME last # {} PROVE NumberEnds(bytes, i) = {Min(last)}
    <2>1. last \in SUBSET Nat
      BY <1>0
    <2>2. PICK m \in last : \A y \in last : m <= y
      BY <1>3, <2>1, LeastNat
    <2>3. Min(last) = m
      BY <2>1, <2>2, MinIs
    <2>4. m \in i .. n /\ bytes[m] < Cont /\ m \in Nat
      BY <2>1, <2>2
    <2>5. ASSUME NEW k \in i .. m PROVE bytes[k] < Cont <=> k = m
      <3>1. CASE k = m
        BY <2>4, <3>1
      <3>2. CASE k # m
        <4>1. k \in i .. n /\ k > 0 /\ ~(m <= k)
          BY <1>0, <2>4, <3>2
        <4>2. k \notin last
          BY <2>2, <4>1
        <4>3. ~(bytes[k] < Cont)
          BY <4>1, <4>2
        <4>4. QED
          BY <3>2, <4>3
      <3>3. QED
        BY <3>1, <3>2
    <2>6. m \in NumberEnds(bytes, i)
      BY <2>4, <2>5 DEF NumberEnds
    <2>7. ASSUME NEW j \in NumberEnds(bytes, i) PROVE j = m
      <3>1. j \in last
        BY <1>2
      <3>2. m <= j /\ j \in i .. n
        BY <1>1, <2>2, <3>1
      <3>3. \A k \in i .. j : bytes[k] < Cont <=> k = j
        BY DEF NumberEnds
      <3>4. m \in i .. j
        BY <1>0, <2>4, <3>2
      <3>5. QED
        BY <2>4, <3>3, <3>4
    <2>8. QED
      BY <2>3, <2>6, <2>7
  <1>4. QED
    BY <1>1, <1>2, <1>3

\* get_cword at the first byte of a number: the number, and the byte behind it.
LEMMA CwordReads ==
    ASSUME NEW bytes \in Seq(Nat), NEW i \in 1 .. Len(bytes) + 1,
           NEW j \in NumberEnds(bytes, i)
    PROVE  /\ j \in i .. Len(bytes)
           /\ Number(SubSeq(bytes, i, j)) \in Nat
           /\ get_cword(bytes)[i] =
                [got |-> Signed((Number(SubSeq(bytes, i, j)) % Long), Long), at |-> j + 1]
  <1> DEFINE last == {k \in i .. Len(bytes) : k > 0 /\ bytes[k] < Cont}
             digits == SubSeq(bytes, i, j)
  <1>1. i # Spoilt /\ i \in 0 .. Len(bytes) + 1
    BY DEF Spoilt
  <1>2. last # {} /\ Min(last) = j /\ j \in i .. Len(bytes)
    <2> HIDE DEF last
    <2>1. \A l : l = last => /\ l = {} => NumberEnds(bytes, i) = {}
                             /\ l # {} => NumberEnds(bytes, i) = {Min(l)}
                             /\ NumberEnds(bytes, i) \subseteq i .. Len(bytes)
      BY EndsOnce DEF last
    <2>2. QED
      BY <2>1
  <1>3. digits \in Seq(Nat)
    BY <1>2
  <1>4. Number(digits) \in Nat /\ Bits(digits) = (Number(digits) % Long)
    <2> HIDE DEF digits
    <2>1. QED
      BY <1>3, BitsOfNumber
  <1>5. get_cword(bytes)[i] =
          IF i = Spoilt \/ last = {} THEN [got |-> 0, at |-> Spoilt]
          ELSE [got |-> Signed(Bits(SubSeq(bytes, i, Min(last))), Long),
                at |-> eat_bytes(bytes, Min(last), 1)]
    BY <1>1 DEF get_cword, Bits
  <1>6. eat_bytes(bytes, j, 1) = j + 1
    <2>1. j # Spoilt /\ 1 <= Len(bytes) - j + 1
      BY <1>2 DEF Spoilt
    <2>2. QED
      BY <2>1 DEF eat_bytes
  <1> HIDE DEF last
  <1>7. get_cword(bytes)[i] = [got |-> Signed(Bits(digits), Long), at |-> j + 1]
    BY <1>1, <1>2, <1>5, <1>6
  <1>8. QED
    BY <1>2, <1>4, <1>7

\* ... and where there is none.
LEMMA CwordSpoils ==
    ASSUME NEW bytes \in Seq(Nat), NEW i \in 0 .. Len(bytes) + 1,
           i = Spoilt \/ NumberEnds(bytes, i) = {}
    PROVE  get_cword(bytes)[i] = [got |-> 0, at |-> Spoilt]
  <1> DEFINE last == {k \in i .. Len(bytes) : k > 0 /\ bytes[k] < Cont}
  <1>1. i = Spoilt \/ last = {}
    <2>1. SUFFICES ASSUME i # Spoilt PROVE last = {}
      OBVIOUS
    <2>2. i \in 1 .. Len(bytes) + 1
      BY <2>1 DEF Spoilt
    <2> HIDE DEF last
    <2>3. \A l : l = last => (l # {} => NumberEnds(bytes, i) = {Min(l)})
      BY <2>2, EndsOnce DEF last
    <2>4. QED
      BY <2>1, <2>3
  <1>2. get_cword(bytes)[i] =
          IF i = Spoilt \/ last = {} THEN [got |-> 0, at |-> Spoilt]
          ELSE [got |-> Signed(Bits(SubSeq(bytes, i, Min(last))), Long),
                at |-> eat_bytes(bytes, Min(last), 1)]
    BY DEF get_cword, Bits
  <1>3. QED
    BY <1>1, <1>2

\* A path is what a C function sees in the bytes that hold it.
LEMMA CStringIsPath ==
    ASSUME NEW bytes \in Seq(Nat), NEW path, IsPath(path, bytes)
    PROVE  CString(bytes) = path
  <1> DEFINE n == Len(bytes)
             m == Len(path)
             nul == {k \in DOMAIN bytes : bytes[k] = NUL}
  <1>1. n \in Nat /\ m \in 0 .. n /\ path = SubSeq(bytes, 1, m) /\ DOMAIN bytes = 1 .. n
    BY DEF IsPath
  <1>2. path \in Seq(Nat) /\ DOMAIN path = 1 .. m /\ \A k \in 1 .. m : path[k] = bytes[k]
    <2> DEFINE s == SubSeq(bytes, 1, m)
    <2> HIDE DEF m, n
    <2>1. s \in Seq(Nat) /\ Len(s) = m /\ \A k \in 1 .. m : s[k] = bytes[k]
      BY <1>1 DEF n
    <2>2. DOMAIN s = 1 .. m
      BY <2>1
    <2>3. path = s
      BY <1>1
    <2>4. QED
      BY <2>1, <2>2, <2>3
  <1>3. \A k \in 1 .. m : k \in DOMAIN bytes /\ bytes[k] # NUL
    <2>1. \A k \in 1 .. m : path[k] # NUL
      BY <1>2 DEF IsPath
    <2>2. QED
      BY <1>1, <1>2, <2>1
  <1>4. CASE m = n
    <2>1. nul = {}
      BY <1>1, <1>3, <1>4
    <2>2. path = bytes
      <3> HIDE DEF m, n
      <3>1. SubSeq(bytes, 1, n) = bytes
        BY DEF n
      <3>2. QED
        BY <1>1, <1>4, <3>1
    <2>3. QED
      BY <2>1, <2>2 DEF CString
  <1>5. CASE m < n
    <2>1. m + 1 \in nul
      BY <1>1, <1>5 DEF IsPath
    <2>2. nul \in SUBSET Nat
      BY <1>1
    <2>3. \A y \in nul : m + 1 <= y
      <3> TAKE y \in nul
      <3>1. y \in 1 .. n /\ y \notin 1 .. m
        BY <1>1, <1>3
      <3>2. QED
        BY <1>1, <3>1
    <2> HIDE DEF nul, m
    <2>4. Min(nul) = m + 1
      BY <2>1, <2>2, <2>3, MinIs
    <2>5. (m + 1) - 1 = m
      BY <1>1
    <2>6. CString(bytes) = SubSeq(bytes, 1, (m + 1) - 1)
      BY <2>1, <2>4 DEF CString, nul
    <2>7. QED
      BY <1>1, <2>5, <2>6
  <1>6. m = n \/ m < n
    <2> HIDE DEF m, n
    <2>1. QED
      BY <1>1
  <1>7. QED
    BY <1>4, <1>5, <1>6

\* A number in the lower half of its width is what it reads as.
LEMMA SignedSmall ==
    ASSUME NEW n \in Nat, NEW width \in Nat \ {0, 1}, n < width \div 2
    PROVE  (n % width) = n /\ Signed(n, width) = n /\ Signed((n % width), width) = n
  <1> DEFINE h == width \div 2
  <1>1. h \in Nat /\ h <= width
    OBVIOUS
  <1>2. n < h
    OBVIOUS
  <1> HIDE DEF h
  <1>3. n \in 0 .. width - 1 /\ ~(n >= h)
    BY <1>1, <1>2
  <1>4. (n % width) = n
    BY <1>3, ModSmall
  <1>5. Signed(n, width) = n
    BY <1>3 DEF Signed, h
  <1>6. QED
    BY <1>4, <1>5

\* parse_pmgl_entry on bytes that stand for an entry: it is read, and as many
\* bytes are eaten as it has.
LEMMA EntryIsRead ==
    ASSUME NEW bytes \in Seq(Nat), NEW e, NEW size, IsEntry(e, bytes, size)
    PROVE  LET read == parse_pmgl_entry(bytes)
           IN  read.result = "entry" /\ read.entry = e /\ read.at = size + 1
  <1> DEFINE len == Len(bytes)
             N(x, y) == Number(SubSeq(bytes, x, y))
             cword == get_cword(bytes)
  <1>1. PICK i \in NumberEnds(bytes, 1) :
          /\ N(1, i) <= CHM_MAX_PATHLEN
          /\ IsPath(e.path, SubSeq(bytes, i + 1, i + N(1, i)))
          /\ \E j \in NumberEnds(bytes, i + N(1, i) + 1) : \E k \in NumberEnds(bytes, j + 1) :
                /\ size \in NumberEnds(bytes, k + 1)
                /\ e.space = N(i + N(1, i) + 1, j) /\ e.space < Word \div 2
                /\ e.start = N(j + 1, k)
                /\ e.length = N(k + 1, size)
                /\ {e.space, e.start, e.length} \subseteq 0 .. (Long \div 2) - 1
          /\ e = [path |-> e.path, space |-> e.space, start |-> e.start,
                  length |-> e.length, flags |-> flags_from_path(e.path)]
    BY DEF IsEntry
  <1> DEFINE n == N(1, i)
  <1>2. PICK j \in NumberEnds(bytes, i + n + 1) :
          \E k \in NumberEnds(bytes, j + 1) :
                /\ size \in NumberEnds(bytes, k + 1)
                /\ e.space = N(i + n + 1, j) /\ e.space < Word \div 2
                /\ e.start = N(j + 1, k)
                /\ e.length = N(k + 1, size)
                /\ {e.space, e.start, e.length} \subseteq 0 .. (Long \div 2) - 1
    BY <1>1
  <1>3. PICK k \in NumberEnds(bytes, j + 1) :
                /\ size \in NumberEnds(bytes, k + 1)
                /\ e.space = N(i + n + 1, j) /\ e.space < Word \div 2
                /\ e.start = N(j + 1, k)
                /\ e.length = N(k + 1, size)
                /\ {e.space, e.start, e.length} \subseteq 0 .. (Long \div 2) - 1
    BY <1>2
  <1>4. len \in Nat /\ 1 \in 1 .. len + 1
    OBVIOUS
  <1>5. /\ i \in 1 .. len /\ n \in Nat
        /\ cword[1] = [got |-> Signed((n % Long), Long), at |-> i + 1]
    <2> HIDE DEF len
    <2>1. QED
      BY <1>4, CwordReads DEF len
  <1>6. Word \in Nat \ {0, 1} /\ Long \in Nat \ {0, 1} /\ n < Long \div 2
        /\ n \in 0 .. CHM_MAX_PATHLEN
    <2>1. CHM_MAX_PATHLEN \in 0 .. (Long \div 2) - 1 /\ Long \in Nat \ {0, 1}
          /\ Word \in Nat \ {0, 1}
      BY WidthAssumption
    <2> DEFINE h == Long \div 2
    <2>2. h \in Nat
      BY <2>1
    <2> HIDE DEF h, n
    <2>3. CHM_MAX_PATHLEN \in 0 .. h - 1 /\ n <= CHM_MAX_PATHLEN /\ n \in Nat
      BY <1>1, <1>5, <2>1 DEF h, n
    <2>4. n < h /\ n \in 0 .. CHM_MAX_PATHLEN
      BY <2>2, <2>3
    <2>5. QED
      BY <2>1, <2>4 DEF h
  <1> HIDE DEF n, N, cword, len
  <1>7. cword[1] = [got |-> n, at |-> i + 1]
    BY <1>5, <1>6, SignedSmall
  <1> DEFINE p == i + n + 1
  <1>8. j \in Nat /\ p \in Nat /\ p <= len
    <2>1. j \in p .. len
      BY DEF NumberEnds, p, len
    <2>2. p \in Nat
      BY <1>5
    <2> HIDE DEF p
    <2>3. QED
      BY <1>4, <2>1, <2>2
  <1>9. p \in 1 .. len + 1 /\ eat_bytes(bytes, i + 1, n) = p
    <2>1. i + 1 # Spoilt /\ n <= len - (i + 1) + 1 /\ (i + 1) + n = p
      BY <1>4, <1>5, <1>8 DEF Spoilt
    <2>2. p \in 1 .. len + 1
      BY <1>4, <1>5, <1>8
    <2>3. QED
      BY <2>1, <2>2 DEF eat_bytes, len
  <1> HIDE DEF p
  <1>10. /\ j \in p .. len /\ N(p, j) \in Nat
         /\ cword[p] = [got |-> Signed((N(p, j) % Long), Long), at |-> j + 1]
    <2>1. j \in NumberEnds(bytes, p)
      BY DEF p
    <2>2. p \in 1 .. Len(bytes) + 1
      BY <1>9 DEF len
    <2>3. QED
      BY <2>1, <2>2, CwordReads DEF N, cword, len
  <1>11. j + 1 \in 1 .. len + 1
    BY <1>4, <1>9, <1>10
  <1>12. /\ k \in j + 1 .. len /\ N(j + 1, k) \in Nat
         /\ cword[j + 1] = [got |-> Signed((N(j + 1, k) % Long), Long), at |-> k + 1]
    <2>1. j + 1 \in 1 .. Len(bytes) + 1
      BY <1>11 DEF len
    <2>2. QED
      BY <2>1, CwordReads DEF N, cword, len
  <1>13. k + 1 \in 1 .. len + 1
    BY <1>4, <1>11, <1>12
  <1>14. /\ size \in k + 1 .. len /\ N(k + 1, size) \in Nat
         /\ cword[k + 1] = [got |-> Signed((N(k + 1, size) % Long), Long), at |-> size + 1]
    <2>1. k + 1 \in 1 .. Len(bytes) + 1 /\ size \in NumberEnds(bytes, k + 1)
      BY <1>3, <1>13 DEF len
    <2>2. QED
      BY <2>1, CwordReads DEF N, cword, len
  <1>15. /\ e.space = N(p, j) /\ e.start = N(j + 1, k) /\ e.length = N(k + 1, size)
         /\ e.space < Word \div 2
    BY <1>3 DEF p
  <1>16. \A x \in {e.space, e.start, e.length} : x < Long \div 2
    <2> DEFINE h == Long \div 2
    <2>1. h \in Nat
      BY <1>6
    <2>2. {e.space, e.start, e.length} \subseteq 0 .. h - 1
      BY <1>3
    <2> HIDE DEF h
    <2>3. \A x \in {e.space, e.start, e.length} : x < h
      BY <2>1, <2>2
    <2>4. QED
      BY <2>3 DEF h
  <1>17. /\ cword[p] = [got |-> e.space, at |-> j + 1]
         /\ cword[j + 1] = [got |-> e.start, at |-> k + 1]
         /\ cword[k + 1] = [got |-> e.length, at |-> size + 1]
    <2>1. e.space \in Nat /\ e.start \in Nat /\ e.length \in Nat
      BY <1>10, <1>12, <1>14, <1>15
    <2>2. /\ e.space < Long \div 2 /\ e.start < Long \div 2 /\ e.length < Long \div 2
      BY <1>16
    <2>3. /\ Signed((e.space % Long), Long) = e.space
          /\ Signed((e.start % Long), Long) = e.start
          /\ Signed((e.length % Long), Long) = e.length
      BY <1>6, <2>1, <2>2, SignedSmall
    <2>4. QED
      BY <1>10, <1>12, <1>14, <1>15, <2>3
  <1>18. Signed((e.space % Word), Word) = e.space
    <2>1. e.space \in Nat
      BY <1>10, <1>15
    <2>2. QED
      BY <1>6, <1>15, <2>1, SignedSmall
  <1>19. CString(SubSeq(bytes, i + 1, (i + 1) + n - 1)) = e.path
    <2>1. (i + 1) + n - 1 = i + n
      BY <1>5
    <2>2. SubSeq(bytes, i + 1, i + n) \in Seq(Nat)
      <3> DEFINE a == i + 1
                 c == i + n
      <3>1. a \in 1 .. Len(bytes) + 1 /\ c \in 0 .. Len(bytes)
        <4>1. a \in 1 .. len + 1 /\ c \in 0 .. len
          BY <1>4, <1>5, <1>8 DEF p
        <4>2. QED
          BY <4>1 DEF len
      <3> HIDE DEF a, c
      <3>2. SubSeq(bytes, a, c) \in Seq(Nat)
        BY <3>1
      <3>3. QED
        BY <3>2 DEF a, c
    <2>3. IsPath(e.path, SubSeq(bytes, i + 1, i + n))
      BY <1>1 DEF n
    <2>4. CString(SubSeq(bytes, i + 1, i + n)) = e.path
      BY <2>2, <2>3, CStringIsPath
    <2> DEFINE z == (i + 1) + n - 1
    <2>5. z = i + n
      BY <2>1
    <2> HIDE DEF z
    <2>6. CString(SubSeq(bytes, i + 1, z)) = e.path
      BY <2>4, <2>5
    <2>7. QED
      BY <2>6 DEF z
  <1> DEFINE entry == [path |-> CString(SubSeq(bytes, i + 1, (i + 1) + n - 1)),
                       space |-> Signed((e.space % Word), Word), start |-> e.start,
                       length |-> e.length,
                       flags |-> flags_from_path(CString(SubSeq(bytes, i + 1, (i + 1) + n - 1)))]
  <1>20. entry = e
    BY <1>1, <1>18, <1>19
  <1>21. i + 1 # Spoilt /\ PathLenOk(n) /\ size + 1 # Spoilt
    BY <1>5, <1>6, <1>13, <1>14 DEF Spoilt, PathLenOk
  <1>22. /\ get_cword(bytes)[Start].at = i + 1 /\ get_cword(bytes)[Start].got = n
         /\ get_cword(bytes)[p].got = e.space /\ get_cword(bytes)[p].at = j + 1
         /\ get_cword(bytes)[j + 1].got = e.start /\ get_cword(bytes)[j + 1].at = k + 1
         /\ get_cword(bytes)[k + 1].got = e.length /\ get_cword(bytes)[k + 1].at = size + 1
    BY <1>7, <1>17 DEF cword, Start
  <1>23. parse_pmgl_entry(bytes) = [result |-> "entry", at |-> size + 1, entry |-> entry]
    <2> HIDE DEF entry
    <2>1. QED
      BY <1>9, <1>21, <1>22 DEF parse_pmgl_entry, entry
  <1> HIDE DEF entry
  <1>24. QED
    BY <1>20, <1>23

\* ... and on bytes that stand for none.
LEMMA NoEntryIsRead ==
    ASSUME NEW bytes \in Seq(Nat), IsNoEntry(bytes)
    PROVE  parse_pmgl_entry(bytes).result # "entry"
  <1> DEFINE len == Len(bytes)
             cword == get_cword(bytes)
  <1>0. len \in Nat /\ 1 \in 1 .. len + 1 /\ Start = 1 /\ Spoilt = 0
    BY DEF Start, Spoilt
  <1>1. CASE NumberEnds(bytes, 1) = {}
    <2>1. 1 \in 0 .. Len(bytes) + 1
      OBVIOUS
    <2>2. cword[1] = [got |-> 0, at |-> Spoilt]
      BY <1>1, <2>1, CwordSpoils
    <2>3. QED
      BY <1>0, <2>2 DEF parse_pmgl_entry
  <1>2. ASSUME NEW i \in NumberEnds(bytes, 1)
        PROVE  parse_pmgl_entry(bytes).result # "entry"
    <2> DEFINE n == Number(SubSeq(bytes, 1, i))
    <2>1. /\ n < Long
          /\ n <= CHM_MAX_PATHLEN =>
               \A j \in NumberEnds(bytes, i + n + 1) : \A k \in NumberEnds(bytes, j + 1) :
                   NumberEnds(bytes, k + 1) = {}
      BY DEF IsNoEntry
    <2>2. /\ i \in 1 .. len /\ n \in Nat
          /\ cword[1] = [got |-> Signed((n % Long), Long), at |-> i + 1]
      <3> HIDE DEF len
      <3>1. QED
        BY <1>0, CwordReads DEF len
    <2> HIDE DEF n, cword, len
    <2>3. Long \in Nat \ {0, 1} /\ CHM_MAX_PATHLEN \in 0 .. (Long \div 2) - 1
      BY WidthAssumption
    <2>4. (n % Long) = n
      <3>1. n \in 0 .. Long - 1
        BY <2>1, <2>2, <2>3
      <3>2. QED
        BY <2>3, <3>1, ModSmall
    <2>5. cword[1] = [got |-> Signed(n, Long), at |-> i + 1]
      BY <2>2, <2>4
    <2>6. CASE ~(n <= CHM_MAX_PATHLEN)
      <3>1. ~PathLenOk(Signed(n, Long))
        <4> DEFINE h == Long \div 2
        <4>1. h \in Nat
          BY <2>3
        <4> HIDE DEF h
        <4>2. CASE n >= h
          <5>1. Signed(n, Long) = n - Long
            BY <4>2 DEF Signed, h
          <5>2. n - Long < 0
            BY <2>1, <2>2, <2>3
          <5>3. QED
            BY <5>1, <5>2, <2>2, <2>3 DEF PathLenOk
        <4>3. CASE ~(n >= h)
          <5>1. Signed(n, Long) = n
            BY <4>3 DEF Signed, h
          <5>2. QED
            BY <2>6, <5>1 DEF PathLenOk
        <4>4. QED
          BY <4>2, <4>3
      <3>2. QED
        BY <1>0, <2>5, <3>1 DEF parse_pmgl_entry, cword
    <2>7. CASE n <= CHM_MAX_PATHLEN
      <3>1. Signed(n, Long) = n
        <4> DEFINE h == Long \div 2
        <4>1. h \in Nat
          BY <2>3
        <4>2. CHM_MAX_PATHLEN \in 0 .. h - 1
          BY <2>3
        <4> HIDE DEF h
        <4>3. ~(n >= h)
          BY <2>2, <2>7, <4>1, <4>2
        <4>4. QED
          BY <4>3 DEF Signed, h
      <3> DEFINE p == eat_bytes(bytes, i + 1, n)
      <3>2. p = Spoilt \/ (p = i + n + 1 /\ p \in 1 .. len + 1)
        <4>1. CASE n <= len - (i + 1) + 1
          <5>1. i + 1 # Spoilt /\ (i + 1) + n = i + n + 1 /\ i + n + 1 \in 1 .. len + 1
            BY <1>0, <2>2, <4>1
          <5>2. p = (i + 1) + n
            BY <4>1, <5>1 DEF eat_bytes, len
          <5>3. QED
            BY <5>1, <5>2
        <4>2. CASE ~(n <= len - (i + 1) + 1)
          BY <4>2 DEF eat_bytes, len
        <4>3. QED
          BY <4>1, <4>2
      <3> HIDE DEF p
      <3>3. \A x \in 0 .. len + 1 :
              \/ cword[x].at = Spoilt
              \/ \E y \in NumberEnds(bytes, x) :
                   x # Spoilt /\ cword[x].at = y + 1 /\ y + 1 \in 1 .. len + 1
        <4> TAKE x \in 0 .. len + 1
        <4>1. CASE x = Spoilt \/ NumberEnds(bytes, x) = {}
          <5>1. cword[x] = [got |-> 0, at |-> Spoilt]
            BY <4>1, CwordSpoils DEF cword, len
          <5>2. QED
            BY <5>1
        <4>2. CASE x # Spoilt /\ NumberEnds(bytes, x) # {}
          <5>1. PICK y \in NumberEnds(bytes, x) : TRUE
            BY <4>2
          <5>2. x \in 1 .. Len(bytes) + 1
            BY <1>0, <4>2 DEF len
          <5>3. /\ y \in x .. Len(bytes)
                /\ cword[x] = [got |-> Signed((Number(SubSeq(bytes, x, y)) % Long), Long),
                               at |-> y + 1]
            BY <5>2, CwordReads DEF cword
          <5>4. y + 1 \in 1 .. len + 1
            BY <1>0, <5>2, <5>3 DEF len
          <5>5. QED
            BY <4>2, <5>3, <5>4
        <4>3. QED
          BY <4>1, <4>2
      <3> DEFINE start == cword[p].at
                 length == cword[start].at
      <3>4. p \in 0 .. len + 1 /\ 0 \in 0 .. len + 1 /\ 1 .. len + 1 \subseteq 0 .. len + 1
        BY <1>0, <3>2
      <3>5. cword[Spoilt].at = Spoilt
        BY <1>0, <3>3, <3>4
      <3>6. start \in 0 .. len + 1 /\ length \in 0 .. len + 1
        <4>1. start \in 0 .. len + 1
          BY <1>0, <3>3, <3>4
        <4> HIDE DEF start
        <4>2. QED
          BY <1>0, <3>3, <3>4, <4>1
      <3>7. cword[length].at = Spoilt
        <4>1. SUFFICES ASSUME cword[length].at # Spoilt PROVE FALSE
          OBVIOUS
        <4>2. length # Spoilt
          BY <3>5, <4>1
        <4>3. start # Spoilt
          BY <3>5, <4>2
        <4>4. PICK j \in NumberEnds(bytes, p) :
                p # Spoilt /\ start = j + 1 /\ j + 1 \in 1 .. len + 1
          BY <3>3, <3>4, <4>3
        <4> HIDE DEF start
        <4>5. PICK k \in NumberEnds(bytes, start) : length = k + 1
          BY <3>3, <3>6, <4>2
        <4> HIDE DEF length
        <4>6. NumberEnds(bytes, length) # {}
          BY <3>3, <3>6, <4>1
        <4>7. p = i + n + 1
          BY <3>2, <4>4
        <4>8. QED
          BY <2>1, <2>7, <4>4, <4>5, <4>6, <4>7
      <3>8. QED
        <4>1. /\ get_cword(bytes)[Start].at = i + 1 /\ get_cword(bytes)[Start].got = n
          BY <1>0, <2>5, <3>1 DEF cword
        <4>2. get_cword(bytes)[get_cword(bytes)[get_cword(bytes)[p].at].at].at = Spoilt
          BY <3>7 DEF cword
        <4>3. QED
          BY <4>1, <4>2 DEF parse_pmgl_entry, p
    <2>8. QED
      BY <2>6, <2>7
  <1>3. QED
    BY <1>1, <1>2

\* Places that grow from 1 to one behind the end stay between them.
LEMMA PlacesGrow ==
    ASSUME NEW places \in Seq(Nat), NEW n \in Nat, NEW m \in Nat,
           Len(places) = n + 1, places[1] = 1, places[n + 1] = m + 1,
           \A j, k \in DOMAIN places : j < k => places[j] < places[k],
           NEW k \in 1 .. n
    PROVE  /\ places[k] \in 1 .. m
           /\ places[k + 1] \in 1 .. m + 1
           /\ places[k] < places[k + 1]
  <1>1. DOMAIN places = 1 .. n + 1
    OBVIOUS
  <1>2. /\ 1 \in DOMAIN places /\ k \in DOMAIN places
        /\ k + 1 \in DOMAIN places /\ n + 1 \in DOMAIN places
    BY <1>1
  <1>3. places[k] \in Nat /\ places[k + 1] \in Nat
    BY <1>2
  <1>4. places[k] < places[k + 1]
    <2>1. k < k + 1
      OBVIOUS
    <2>2. QED
      BY <1>2, <2>1
  <1>5. k = 1 \/ places[1] < places[k]
    <2>1. k = 1 \/ 1 < k
      OBVIOUS
    <2>2. QED
      BY <1>2, <2>1
  <1>6. k + 1 = n + 1 \/ places[k + 1] < places[n + 1]
    <2>1. k + 1 = n + 1 \/ k + 1 < n + 1
      OBVIOUS
    <2>2. QED
      BY <1>2, <2>1
  <1>7. 1 <= places[k] /\ places[k + 1] <= m + 1
    BY <1>3, <1>5, <1>6
  <1>8. QED
    BY <1>3, <1>4, <1>7

\* Whatever entry begins at a place, it is read from there.
LEMMA ItemsReadBack ==
    ASSUME archive \in Archives
    PROVE  PagesReadBack
  <1>1. ASSUME NEW p \in DOMAIN archive.pages, PageOk(p),
               NEW k \in DOMAIN archive.pages[p].written
        PROVE  LET page == archive.pages[p]
                   read == parse_pmgl_entry(SubSeq(EntryBytes(page), page.places[k],
                                                   Len(EntryBytes(page))))
               IN  /\ (read.result = "entry") = (page.written[k] # NoItem)
                   /\ read.result = "entry" =>
                        /\ read.entry = page.written[k]
                        /\ read.at = Start + page.places[k + 1] - page.places[k]
    <2> DEFINE page  == archive.pages[p]
               bytes == EntryBytes(page)
               n     == Len(page.written)
               i     == page.places[k]
               j     == page.places[k + 1]
               item_bytes == SubSeq(bytes, i, Len(bytes))
               read == parse_pmgl_entry(item_bytes)
    <2>1. PmglOk(page, archive.itsp.block_len)
      BY <1>1 DEF PageOk
    <2>2. EntriesFillPage(page) /\ BytesStandForEntries(page)
          /\ page.written \in Seq(Range(page.written))
      BY <2>1, WrittenAssumption
    <2>3. page.bytes \in Seq(Nat) /\ page.free_space \in Nat
      BY ArchivesAssumption
    <2>4. bytes \in Seq(Nat)
      <3> HIDE DEF page
      <3>1. QED
        BY <2>3 DEF EntryBytes
    <2>5. n \in Nat /\ k \in 1 .. n
      BY <2>2
    <2>6. IF page.written[k] = NoItem THEN IsNoEntry(item_bytes)
          ELSE IsEntry(page.written[k], item_bytes, j - i)
      BY <2>2 DEF BytesStandForEntries
    <2> HIDE DEF page, bytes, n
    <2>7. /\ page.places \in Seq(Nat) /\ Len(page.places) = n + 1 /\ page.places[1] = 1
          /\ page.places[n + 1] = Len(bytes) + 1 /\ Len(bytes) \in Nat
          /\ \A x, y \in DOMAIN page.places : x < y => page.places[x] < page.places[y]
      BY <2>2, <2>4 DEF EntriesFillPage, n, bytes
    <2>8. i \in 1 .. Len(bytes) /\ j \in 1 .. Len(bytes) + 1
      <3> DEFINE places == page.places
                 m == Len(bytes)
      <3>1. /\ places \in Seq(Nat) /\ Len(places) = n + 1 /\ places[1] = 1
            /\ places[n + 1] = m + 1 /\ m \in Nat
            /\ \A x, y \in DOMAIN places : x < y => places[x] < places[y]
        BY <2>7
      <3> HIDE DEF places, m
      <3>2. places[k] \in 1 .. m /\ places[k + 1] \in 1 .. m + 1
        BY <2>5, <3>1, PlacesGrow
      <3>3. QED
        BY <3>2 DEF places, m
    <2>9. item_bytes \in Seq(Nat)
      <3> HIDE DEF i
      <3>1. QED
        BY <2>4, <2>8
    <2> HIDE DEF item_bytes, i, j
    <2>10. CASE page.written[k] = NoItem
      <3>1. read.result # "entry"
        BY <2>6, <2>9, <2>10, NoEntryIsRead
      <3>2. QED
        BY <2>10, <3>1 DEF page, bytes, item_bytes, i
    <2>11. CASE page.written[k] # NoItem
      <3>1. read.result = "entry" /\ read.entry = page.written[k] /\ read.at = (j - i) + 1
        BY <2>6, <2>9, <2>11, EntryIsRead
      <3>2. (j - i) + 1 = Start + j - i
        BY <2>8 DEF Start
      <3> HIDE DEF read
      <3>3. /\ (read.result = "entry") = (page.written[k] # NoItem)
            /\ read.result = "entry" => read.entry = page.written[k]
                                        /\ read.at = Start + j - i
        BY <2>11, <3>1, <3>2
      <3>4. QED
        BY <3>3 DEF page, bytes, item_bytes, i, j, read
    <2>12. QED
      BY <2>10, <2>11
  <1>2. QED
    BY <1>1 DEF PagesReadBack

\* Whatever was written to the pages of an archive: parse_pmgl_entry reads each
\* entry from where it begins and stops where the next one does, and reads none
\* where the bytes stand for none.
THEOREM PagesReadBackHolds == Spec => []PagesReadBack
  <1>1. ListInv => PagesReadBack
    BY ItemsReadBack DEF ListInv, TypeInv
  <1>2. QED
    BY <1>1, ListInvariant, PTL

-----------------------------------------------------------------------------
(* The directory *)

\* What follows a page in the chain.
IsDirectory(f) ==
    f = [k \in Int |->
            IF k \notin DOMAIN archive.pages THEN <<>>
            ELSE archive.pages[k].written \o f[archive.pages[k].block_next]]

\* All that was written to any page.
Written == UNION {Range(archive.pages[p].written) : p \in DOMAIN archive.pages}

RanksPages(rank) ==
    \A p \in DOMAIN archive.pages :
        /\ rank[p] \in Nat \ {0}
        /\ archive.pages[p].block_next \in DOMAIN archive.pages =>
               rank[archive.pages[p].block_next] < rank[p]

LEMMA PagesRanked ==
    ASSUME archive \in Archives
    PROVE  \E rank : \E n \in Nat :
             RanksPages(rank) /\ \A p \in DOMAIN archive.pages : rank[p] <= n
  <1> DEFINE n == Cardinality(DOMAIN archive.pages)
  <1>1. n \in Nat
    BY WrittenAssumption, FS_CardinalityType
  <1>2. PICK rank \in [DOMAIN archive.pages -> 1 .. n] :
            \A p \in DOMAIN archive.pages :
                archive.pages[p].block_next \in DOMAIN archive.pages =>
                    rank[archive.pages[p].block_next] < rank[p]
    BY WrittenAssumption DEF ChainEnds
  <1> HIDE DEF n
  <1>3. RanksPages(rank) /\ \A p \in DOMAIN archive.pages : rank[p] <= n
    BY <1>1, <1>2 DEF RanksPages
  <1>4. QED
    BY <1>1, <1>3

\* There is such a function, though the chain may be of any length: each round
\* makes the value right for the pages one step further from its end.
LEMMA DirectoryExists ==
    ASSUME archive \in Archives
    PROVE  \E f : IsDirectory(f)
  <1>0. PICK rank : \E n \in Nat :
            RanksPages(rank) /\ \A p \in DOMAIN archive.pages : rank[p] <= n
    BY PagesRanked
  <1>1. PICK last \in Nat :
            RanksPages(rank) /\ \A p \in DOMAIN archive.pages : rank[p] <= last
    BY <1>0
  <1> DEFINE pages == archive.pages
             From(f, k) == IF k \notin DOMAIN pages THEN <<>>
                           ELSE pages[k].written \o f[pages[k].block_next]
             Fits(f, n) == \A k \in Int :
                             (k \in DOMAIN pages => rank[k] <= n) => f[k] = From(f, k)
             Round(f) == [k \in Int |-> From(f, k)]
  <1>2. \A k \in DOMAIN pages : pages[k].block_next \in Int
    BY ArchivesAssumption
  <1>3. ASSUME NEW n \in Nat, NEW f, Fits(f, n)
        PROVE  Fits(Round(f), n + 1)
    <2> SUFFICES ASSUME NEW k \in Int, k \in DOMAIN pages => rank[k] <= n + 1
                 PROVE  Round(f)[k] = From(Round(f), k)
      OBVIOUS
    <2>1. CASE k \notin DOMAIN pages
      BY <2>1
    <2>2. CASE k \in DOMAIN pages
      <3>1. /\ pages[k].block_next \in Int
            /\ pages[k].block_next \in DOMAIN pages =>
                  /\ rank[pages[k].block_next] \in Nat
                  /\ rank[k] \in Nat
                  /\ rank[pages[k].block_next] < rank[k]
        BY <1>1, <1>2, <2>2 DEF RanksPages
      <3>2. pages[k].block_next \in DOMAIN pages => rank[pages[k].block_next] <= n
        BY <2>2, <3>1
      <3>3. f[pages[k].block_next] = From(f, pages[k].block_next)
        BY <1>3, <3>1, <3>2
      <3>4. Round(f)[pages[k].block_next] = f[pages[k].block_next]
        BY <3>1, <3>3
      <3>5. QED
        BY <2>2, <3>4
    <2>3. QED
      BY <2>1, <2>2
  <1>4. \E f : Fits(f, 0)
    <2> DEFINE f == [k \in Int |-> <<>>]
    <2>1. \A k \in DOMAIN pages : ~(rank[k] <= 0)
      BY <1>1 DEF RanksPages
    <2>2. Fits(f, 0)
      BY <2>1
    <2>3. QED
      BY <2>2
  <1> DEFINE Unfit == {n \in Nat : ~\E f : Fits(f, n)}
  <1> HIDE DEF Fits, Round
  <1>5. ASSUME Unfit # {} PROVE FALSE
    <2>1. PICK n \in Unfit : \A m \in Unfit : n <= m
      <3>1. Unfit \in SUBSET Nat
        OBVIOUS
      <3> HIDE DEF Unfit
      <3>2. QED
        BY <1>5, <3>1, LeastNat
    <2>2. n \in Nat /\ n # 0
      BY <1>4, <2>1
    <2>3. n - 1 \in Nat /\ ~(n <= n - 1) /\ (n - 1) + 1 = n
      BY <2>2
    <2>4. PICK f : Fits(f, n - 1)
      BY <2>1, <2>3
    <2>5. Fits(Round(f), n)
      BY <1>3, <2>3, <2>4
    <2>6. QED
      BY <2>1, <2>5
  <1>6. PICK f : Fits(f, last)
    BY <1>5
  <1>7. \A k \in Int : f[k] = From(f, k)
    BY <1>1, <1>6 DEF Fits
  <1>8. \A k \in Int : From(Round(f), k) = From(f, k)
    BY <1>2, <1>7 DEF Round
  <1>9. Round(f) = [k \in Int |-> From(Round(f), k)]
    BY <1>8 DEF Round
  <1>10. IsDirectory(Round(f))
    BY <1>9 DEF IsDirectory
  <1>11. QED
    BY <1>10

\* The directory from a page on is what was written to the page and the
\* directory from the page after it on.
LEMMA DirectoryFrom ==
    ASSUME archive \in Archives, NEW p \in Int
    PROVE  /\ p \notin DOMAIN archive.pages => Directory(p) = <<>>
           /\ p \in DOMAIN archive.pages =>
                /\ archive.pages[p].block_next \in Int
                /\ Directory(p) = archive.pages[p].written
                                     \o Directory(archive.pages[p].block_next)
  <1> DEFINE f == CHOOSE g : IsDirectory(g)
  <1>1. IsDirectory(f)
    BY DirectoryExists
  <1>2. \A q : Directory(q) = f[q]
    BY DEF Directory, IsDirectory
  <1> HIDE DEF f
  <1>3. p \in DOMAIN archive.pages => archive.pages[p].block_next \in Int
    BY ArchivesAssumption
  <1>4. QED
    BY <1>1, <1>2, <1>3 DEF IsDirectory

\* It is a sequence of things that were written.
LEMMA DirectoryIsWritten ==
    ASSUME archive \in Archives, NEW p \in Int
    PROVE  Directory(p) \in Seq(Written)
  <1>1. PICK rank : RanksPages(rank)
    BY PagesRanked
  <1> DEFINE Wrong == {q \in DOMAIN archive.pages : Directory(q) \notin Seq(Written)}
             Ranks == {rank[q] : q \in Wrong}
  <1>2. \A q \in Int \ DOMAIN archive.pages : Directory(q) \in Seq(Written)
    <2> TAKE q \in Int \ DOMAIN archive.pages
    <2>1. Directory(q) = <<>>
      BY DirectoryFrom
    <2>2. QED
      BY <2>1
  <1>3. ASSUME Wrong # {} PROVE FALSE
    <2>1. Ranks \in SUBSET Nat /\ Ranks # {}
      BY <1>1, <1>3 DEF RanksPages
    <2>2. PICK r \in Ranks : \A s \in Ranks : r <= s
      <3> HIDE DEF Ranks
      <3>1. QED
        BY <2>1, LeastNat
    <2>3. PICK q \in Wrong : r = rank[q]
      BY <2>2
    <2> DEFINE after == archive.pages[q].block_next
    <2>4. q \in Int /\ q \in DOMAIN archive.pages
      BY <2>3, ArchivesAssumption
    <2>5. after \in Int /\ Directory(q) = archive.pages[q].written \o Directory(after)
      BY <2>4, DirectoryFrom
    <2>6. Directory(after) \in Seq(Written)
      <3>1. CASE after \in Wrong
        <4>1. rank[after] \in Ranks /\ rank[after] \in Nat /\ rank[q] \in Nat
          BY <1>1, <3>1, <2>4 DEF RanksPages
        <4>2. rank[after] < rank[q]
          BY <1>1, <2>4, <3>1 DEF RanksPages
        <4>3. r <= rank[after]
          BY <2>2, <4>1
        <4>4. QED
          BY <2>3, <4>1, <4>2, <4>3
      <3>2. CASE after \notin Wrong
        BY <1>2, <2>5, <3>2
      <3>3. QED
        BY <3>1, <3>2
    <2>7. archive.pages[q].written \in Seq(Written)
      <3>1. archive.pages[q].written \in Seq(Range(archive.pages[q].written))
        BY <2>4, WrittenAssumption
      <3>2. Range(archive.pages[q].written) \subseteq Written
        BY <2>4 DEF Written
      <3>3. QED
        BY <3>1, <3>2
    <2>8. Directory(q) \in Seq(Written)
      <3> HIDE DEF after
      <3>1. QED
        BY <2>5, <2>6, <2>7
    <2>9. QED
      BY <2>3, <2>8
  <1>4. QED
    BY <1>2, <1>3

\* All of the directory.
Whole == Directory(archive.itsp.index_head)

\* What was read into the entries, in their order.
Listing == [e \in 1 .. parsed |-> item[e]]

\* On the page there is left what was written to it from the k-th entry on.
LeftOfPage(k) ==
    LET page  == archive.pages[cur_page]
        bytes == EntryBytes(page)
    IN  /\ unread = SubSeq(bytes, page.places[k], Len(bytes))
        /\ Listing \o (SubSeq(page.written, k, Len(page.written)) \o Directory(page.block_next))
             = Whole

\* What is read and what is left make up the directory.
DirectoryInv ==
    /\ DOMAIN item = Addresses
    /\ Listing \in Seq(Written)
    /\ pc \in {"itsf", "itsp"} => parsed = 0
    /\ pc = "page" => Listing \o Directory(cur_page) = Whole
    /\ pc = "items" =>
         \E k \in 1 .. Len(archive.pages[cur_page].written) + 1 : LeftOfPage(k)
    /\ pc \in {"table", "units", "reset_table", "control", "open"} =>
         \E rest \in Seq(Written) :
             /\ Listing \o rest = Whole
             /\ ~parse_entries_failed => rest = <<>>

LEMMA DirectoryInvInit == Init => DirectoryInv
  <1> SUFFICES ASSUME Init PROVE DirectoryInv
    OBVIOUS
  <1>1. Listing = <<>>
    BY DEF Init, Listing
  <1>2. QED
    BY <1>1 DEF Init, DirectoryInv

\* What neither reads an entry nor ends the walk over a page leaves all of it
\* as it is.
LEMMA DirectoryKept ==
    ASSUME archive' = archive
    PROVE  /\ Written' = Written /\ Whole' = Whole
           /\ \A p : Directory(p)' = Directory(p)
           /\ item' = item /\ parsed' = parsed => Listing' = Listing
  BY DEF Written, Whole, Directory, Listing

\* The head of a sequence and the rest of it.
LEMMA HeadAndRest ==
    ASSUME NEW S, NEW w \in Seq(S), NEW k \in 1 .. Len(w)
    PROVE  SubSeq(w, k, Len(w)) = <<w[k]>> \o SubSeq(w, k + 1, Len(w))
  OBVIOUS

MovesOne(S) ==
    \A r \in Seq(S) : \A x \in S : \A b \in Seq(S) : \A d \in Seq(S) :
        Append(r, x) \o (b \o d) = r \o ((<<x>> \o b) \o d)

LEMMA MoveOne == \A S : MovesOne(S)
  <1> SUFFICES ASSUME NEW S, NEW r \in Seq(S), NEW x \in S, NEW b \in Seq(S), NEW d \in Seq(S)
               PROVE  Append(r, x) \o (b \o d) = r \o ((<<x>> \o b) \o d)
    BY DEF MovesOne
  <1>1. <<x>> \in Seq(S) /\ b \o d \in Seq(S)
    OBVIOUS
  <1>2. Append(r, x) = r \o <<x>>
    BY AppendIsConcat
  <1>3. (r \o <<x>>) \o (b \o d) = r \o (<<x>> \o (b \o d))
    BY <1>1, ConcatAssociative
  <1>4. (<<x>> \o b) \o d = <<x>> \o (b \o d)
    BY <1>1, ConcatAssociative
  <1>5. QED
    BY <1>2, <1>3, <1>4

LEMMA RestOfRest ==
    ASSUME NEW S, NEW s \in Seq(S), NEW i \in 1 .. Len(s) + 1,
           NEW j \in 1 .. Len(s) - i + 2
    PROVE  SubSeq(SubSeq(s, i, Len(s)), j, Len(SubSeq(s, i, Len(s))))
             = SubSeq(s, i + j - 1, Len(s))
  <1>1. Len(SubSeq(s, i, Len(s))) = Len(s) - i + 1
    OBVIOUS
  <1>2. QED
    BY <1>1

LEMMA PlacesOnPage ==
    ASSUME NEW page, EntriesFillPage(page), page.written \in Seq(Written),
           EntryBytes(page) \in Seq(Nat), NEW k \in 1 .. Len(page.written)
    PROVE  /\ page.places[k] \in 1 .. Len(EntryBytes(page))
           /\ page.places[k + 1] \in 1 .. Len(EntryBytes(page)) + 1
           /\ page.places[k] < page.places[k + 1]
  <1> DEFINE places == page.places
             n == Len(page.written)
             m == Len(EntryBytes(page))
  <1>1. n \in Nat /\ m \in Nat
    OBVIOUS
  <1>2. places \in Seq(Nat) /\ Len(places) = n + 1
    BY DEF EntriesFillPage
  <1>3. /\ places[1] = 1 /\ places[n + 1] = m + 1
        /\ \A i, j \in DOMAIN places : i < j => places[i] < places[j]
    BY <1>2 DEF EntriesFillPage
  <1>4. k \in 1 .. n
    OBVIOUS
  <1> HIDE DEF places, n, m
  <1>5. places[k] \in 1 .. m /\ places[k + 1] \in 1 .. m + 1 /\ places[k] < places[k + 1]
    BY <1>1, <1>2, <1>3, <1>4, PlacesGrow
  <1>6. QED
    BY <1>5 DEF places, m

\* The page that is being read: its entries fill it, and its parts have types.
LEMMA PageFacts ==
    ASSUME ListInv, NEW p \in Int, PageOk(p)
    PROVE  LET page == archive.pages[p]
           IN  /\ p \in DOMAIN archive.pages
               /\ EntriesFillPage(page)
               /\ EntryBytes(page) \in Seq(Nat)
               /\ page.written \in Seq(Written)
               /\ page.block_next \in Int
  <1> DEFINE page == archive.pages[p]
  <1>0. archive \in Archives
    BY DEF ListInv, TypeInv
  <1>1. p \in DOMAIN archive.pages /\ PmglOk(page, archive.itsp.block_len)
    BY DEF PageOk
  <1>2. EntriesFillPage(page) /\ page.written \in Seq(Range(page.written))
    BY <1>0, <1>1, WrittenAssumption
  <1>3. page.bytes \in Seq(Nat) /\ page.free_space \in Nat /\ page.block_next \in Int
    BY <1>0, <1>1, ArchivesAssumption
  <1>4. EntryBytes(page) \in Seq(Nat)
    <2> HIDE DEF page
    <2>1. QED
      BY <1>3 DEF EntryBytes
  <1>5. Range(page.written) \subseteq Written
    BY <1>1 DEF Written
  <1>6. QED
    BY <1>1, <1>2, <1>3, <1>4, <1>5

\* parse_entries reads an entry: it is the next one that was written, and what
\* is left begins where the one after it does.
LEMMA ReadItemReads ==
    ASSUME ListInv, PagesReadBack, DirectoryInv, ReadItem
    PROVE  DirectoryInv'
  <1> DEFINE page  == archive.pages[cur_page]
             bytes == EntryBytes(page)
             w     == page.written
             n     == Len(w)
  <1>1. /\ archive' = archive /\ pc' = pc /\ cur_page' = cur_page /\ pc = "items"
        /\ unread # <<>> /\ Parsed.result = "entry" /\ parsed' = parsed + 1
        /\ item' = [item EXCEPT ![NewEntry] = Parsed.entry]
        /\ unread' = SubSeq(unread, Parsed.at, Len(unread))
    BY DEF ReadItem
  <1>2. cur_page \in Int /\ PageOk(cur_page) /\ archive \in Archives
    BY <1>1 DEF ListInv, TypeInv
  <1>3. /\ cur_page \in DOMAIN archive.pages /\ EntriesFillPage(page)
        /\ bytes \in Seq(Nat) /\ w \in Seq(Written) /\ page.block_next \in Int
    BY <1>2, PageFacts
  <1>4. PICK k \in 1 .. n + 1 : LeftOfPage(k)
    BY <1>1 DEF DirectoryInv
  <1>5. /\ unread = SubSeq(bytes, page.places[k], Len(bytes))
        /\ Listing \o (SubSeq(w, k, n) \o Directory(page.block_next)) = Whole
    BY <1>4 DEF LeftOfPage
  <1>6. page.places[n + 1] = Len(bytes) + 1
    BY <1>3 DEF EntriesFillPage
  <1>7. n \in Nat /\ Len(bytes) \in Nat
    BY <1>3
  <1>8. k \in 1 .. n
    <2>1. SUFFICES ASSUME k = n + 1 PROVE FALSE
      BY <1>7
    <2> HIDE DEF bytes, n
    <2>2. unread = SubSeq(bytes, Len(bytes) + 1, Len(bytes))
      BY <1>5, <1>6, <2>1
    <2>3. unread = <<>>
      BY <1>3, <1>7, <2>2
    <2>4. QED
      BY <1>1, <2>3
  <1>9. /\ Parsed.entry = w[k]
        /\ Parsed.at = 1 + page.places[k + 1] - page.places[k]
    <2>1. k \in DOMAIN w /\ cur_page \in {q \in DOMAIN archive.pages : PageOk(q)}
      BY <1>2, <1>3, <1>8
    <2>2. Parsed = parse_pmgl_entry(SubSeq(bytes, page.places[k], Len(bytes)))
      BY <1>5 DEF Parsed
    <2>3. QED
      BY <1>1, <2>1, <2>2 DEF PagesReadBack, Start
  <1> HIDE DEF page
  <1>10. unread' = SubSeq(bytes, page.places[k + 1], Len(bytes))
    <2> HIDE DEF bytes, n
    <2>1. /\ page.places[k] \in 1 .. Len(bytes)
          /\ page.places[k + 1] \in 1 .. Len(bytes) + 1
          /\ page.places[k] < page.places[k + 1]
      BY <1>3, <1>8, PlacesOnPage DEF bytes, n
    <2> DEFINE i == page.places[k]
               j == 1 + page.places[k + 1] - page.places[k]
    <2>4. i \in 1 .. Len(bytes) + 1 /\ j \in 1 .. Len(bytes) - i + 2
      <3> DEFINE m == Len(bytes)
                 after == page.places[k + 1]
      <3>1. m \in Nat /\ i \in 1 .. m /\ after \in 1 .. m + 1 /\ i < after
        BY <1>7, <2>1
      <3>2. j = 1 + after - i
        OBVIOUS
      <3> HIDE DEF m, i, j, after
      <3>3. i \in 1 .. m + 1 /\ j \in 1 .. m - i + 2
        BY <3>1, <3>2
      <3>4. QED
        BY <3>3 DEF m
    <2>5. unread' = SubSeq(unread, j, Len(unread))
      BY <1>1, <1>9
    <2>6. i + j - 1 = page.places[k + 1]
      BY <2>1
    <2> HIDE DEF i, j
    <2>7. SubSeq(SubSeq(bytes, i, Len(bytes)), j, Len(SubSeq(bytes, i, Len(bytes))))
            = SubSeq(bytes, i + j - 1, Len(bytes))
      BY <1>3, <2>4, RestOfRest
    <2>8. QED
      BY <1>5, <2>5, <2>6, <2>7 DEF i
  <1>11. Listing' = Append(Listing, w[k])
    <2>1. NewEntry = parsed + 1 /\ parsed + 1 \in Addresses /\ parsed \in Nat
      BY BoundAssumption, ReadItemLinks DEF Addresses, ListInv
    <2>2. DOMAIN item = Addresses
      BY DEF DirectoryInv
    <2>3. item'[parsed + 1] = w[k] /\ \A e \in 1 .. parsed : item'[e] = item[e]
      BY <1>1, <1>9, <2>1, <2>2
    <2>4. Listing' = [e \in 1 .. parsed + 1 |-> item'[e]]
      BY <1>1 DEF Listing
    <2>5. Listing \in Seq(Written)
      BY DEF DirectoryInv
    <2>6. Len(Listing) = parsed
      BY <2>1 DEF Listing
    <2> DEFINE more == Append(Listing, w[k])
    <2>7. more = [e \in 1 .. parsed + 1 |-> IF e <= parsed THEN Listing[e] ELSE w[k]]
      <3> HIDE DEF w
      <3>1. QED
        BY <2>1, <2>5, <2>6
    <2>8. \A e \in 1 .. parsed + 1 :
            item'[e] = IF e <= parsed THEN Listing[e] ELSE w[k]
      BY <2>1, <2>3 DEF Listing
    <2>9. QED
      BY <2>4, <2>7, <2>8
  <1>12. Listing \in Seq(Written) /\ w[k] \in Written
    BY <1>3, <1>8 DEF DirectoryInv
  <1>13. Listing' \o (SubSeq(w, k + 1, n) \o Directory(page.block_next)) = Whole
    <2>1. SubSeq(w, k, n) = <<w[k]>> \o SubSeq(w, k + 1, n)
      BY <1>3, <1>8, HeadAndRest
    <2>2. Directory(page.block_next) \in Seq(Written)
      BY <1>2, <1>3, DirectoryIsWritten
    <2>3. SubSeq(w, k + 1, n) \in Seq(Written)
      BY <1>3, <1>8
    <2> DEFINE b == SubSeq(w, k + 1, n)
               d == Directory(page.block_next)
               x == w[k]
               r == Listing
               S == Written
    <2>4. Append(r, x) \o (b \o d) = r \o ((<<x>> \o b) \o d)
      <3>1. x \in S /\ b \in Seq(S) /\ d \in Seq(S) /\ r \in Seq(S)
        BY <1>12, <2>2, <2>3
      <3> HIDE DEF b, d, x, r, S
      <3>2. MovesOne(S)
        BY MoveOne
      <3>3. QED
        BY <3>1, <3>2 DEF MovesOne
    <2>5. QED
      BY <1>5, <1>11, <2>1, <2>4
  <1>14. Written' = Written /\ Whole' = Whole /\ \A p : Directory(p)' = Directory(p)
    BY <1>1, DirectoryKept
  <1>15. \A m \in {k + 1} : LeftOfPage(m)'
    <2>1. /\ archive.pages[cur_page]' = page
          /\ Directory(page.block_next)' = Directory(page.block_next)
      BY <1>1, <1>14 DEF page
    <2>2. \A m \in {k + 1} :
            LeftOfPage(m)' = /\ unread' = SubSeq(bytes, page.places[m], Len(bytes))
                             /\ Listing' \o (SubSeq(w, m, n) \o Directory(page.block_next))
                                  = Whole
      BY <1>1, <1>14 DEF LeftOfPage, page, EntryBytes
    <2>3. QED
      BY <1>10, <1>13, <2>2
  <1>16. DOMAIN item' = Addresses
    BY <1>1 DEF DirectoryInv
  <1>17. Listing' \in Seq(Written)
    BY <1>11, <1>12
  <1>18. k + 1 \in 1 .. Len(archive.pages[cur_page].written)' + 1
    BY <1>1, <1>7, <1>8 DEF page
  <1>19. QED
    BY <1>1, <1>14, <1>15, <1>16, <1>17, <1>18 DEF DirectoryInv

\* A page is opened: all that was written to it is left.
LEMMA ReadPageStarts ==
    ASSUME ListInv, DirectoryInv, ReadPage
    PROVE  DirectoryInv'
  <1>1. /\ archive' = archive /\ cur_page' = cur_page /\ item' = item /\ parsed' = parsed
        /\ pc = "page"
    BY DEF ReadPage, listVars
  <1>2. /\ Written' = Written /\ Whole' = Whole /\ Listing' = Listing
        /\ \A p : Directory(p)' = Directory(p)
    BY <1>1, DirectoryKept
  <1>3. cur_page \in Int /\ archive \in Archives
    BY DEF ListInv, TypeInv
  <1>4. Listing \o Directory(cur_page) = Whole /\ Listing \in Seq(Written)
    BY <1>1 DEF DirectoryInv
  <1>5. CASE PageOk(cur_page) /\ unread' = EntryBytes(archive.pages[cur_page]) /\ pc' = "items"
    <2> DEFINE page == archive.pages[cur_page]
               bytes == EntryBytes(page)
               w == page.written
    <2>1. /\ cur_page \in DOMAIN archive.pages /\ EntriesFillPage(page)
          /\ bytes \in Seq(Nat) /\ w \in Seq(Written)
      BY <1>3, <1>5, PageFacts
    <2>2. Directory(cur_page) = w \o Directory(page.block_next)
      BY <1>3, <2>1, DirectoryFrom
    <2>3. page.places[1] = 1
      BY <2>1 DEF EntriesFillPage
    <2>4. SubSeq(w, 1, Len(w)) = w /\ Len(w) \in Nat
      <3> HIDE DEF w
      <3>1. QED
        BY <2>1
    <2>5. SubSeq(bytes, 1, Len(bytes)) = bytes
      <3> HIDE DEF bytes
      <3>1. QED
        BY <2>1
    <2>6. \A m \in {1} :
            LeftOfPage(m)' = /\ unread' = SubSeq(bytes, page.places[m], Len(bytes))
                             /\ Listing' \o (SubSeq(w, m, Len(w)) \o Directory(page.block_next))
                                  = Whole
      BY <1>1, <1>2 DEF LeftOfPage, EntryBytes
    <2>7. \A m \in {1} : LeftOfPage(m)'
      BY <1>2, <1>4, <1>5, <2>2, <2>3, <2>4, <2>5, <2>6
    <2>8. 1 \in 1 .. Len(archive.pages[cur_page].written)' + 1
      BY <1>1, <2>4
    <2>9. QED
      BY <1>1, <1>2, <1>5, <2>7, <2>8 DEF DirectoryInv
  <1>6. CASE EntriesFail
    <2>1. Directory(cur_page) \in Seq(Written)
      BY <1>3, DirectoryIsWritten
    <2>2. QED
      BY <1>1, <1>2, <1>4, <1>6, <2>1 DEF EntriesFail, DirectoryInv
  <1>7. QED
    BY <1>5, <1>6 DEF ReadPage

\* A page is done: what is left is what was written to the pages after it.
LEMMA PageDoneGoesOn ==
    ASSUME ListInv, DirectoryInv, PageDone
    PROVE  DirectoryInv'
  <1> DEFINE page == archive.pages[cur_page]
             bytes == EntryBytes(page)
             w == page.written
             n == Len(w)
  <1>1. /\ archive' = archive /\ item' = item /\ parsed' = parsed
        /\ pc = "items" /\ pc' = "page" /\ unread = <<>> /\ cur_page' = page.block_next
    BY DEF PageDone, NextPage, listVars
  <1>2. /\ Written' = Written /\ Whole' = Whole /\ Listing' = Listing
        /\ \A p : Directory(p)' = Directory(p)
    BY <1>1, DirectoryKept
  <1>3. cur_page \in Int /\ archive \in Archives /\ PageOk(cur_page)
    BY <1>1 DEF ListInv, TypeInv
  <1>4. /\ EntriesFillPage(page) /\ page.block_next \in Int
        /\ bytes \in Seq(Nat) /\ w \in Seq(Written)
    BY <1>3, PageFacts
  <1>5. PICK k \in 1 .. n + 1 : LeftOfPage(k)
    BY <1>1 DEF DirectoryInv
  <1>6. /\ unread = SubSeq(bytes, page.places[k], Len(bytes))
        /\ Listing \o (SubSeq(w, k, n) \o Directory(page.block_next)) = Whole
    BY <1>5 DEF LeftOfPage
  <1>7. n \in Nat /\ Len(bytes) \in Nat
    BY <1>4
  <1>8. k = n + 1
    <2>1. SUFFICES ASSUME k \in 1 .. n PROVE FALSE
      BY <1>7
    <2>5. page.places[k] \in 1 .. Len(bytes)
      BY <1>4, <2>1, PlacesOnPage
    <2>6. Len(unread) > 0
      <3> HIDE DEF page, bytes
      <3>1. QED
        BY <1>4, <1>6, <1>7, <2>5
    <2>7. QED
      BY <1>1, <2>6
  <1>9. SubSeq(w, k, n) = <<>>
    <2> HIDE DEF w
    <2>1. QED
      BY <1>4, <1>8
  <1>10. Directory(page.block_next) \in Seq(Written)
    BY <1>3, <1>4, DirectoryIsWritten
  <1>11. <<>> \o Directory(page.block_next) = Directory(page.block_next)
    BY <1>10, ConcatEmptySeq
  <1>12. Directory(cur_page)' = Directory(page.block_next)
    <2>1. \A p : Directory(p)' = Directory(p)
      BY <1>2
    <2>2. Directory(cur_page)' = Directory(cur_page')
      BY <1>1 DEF Directory
    <2>3. QED
      BY <1>1, <2>2
  <1>13. Listing' \o Directory(cur_page)' = Whole
    BY <1>2, <1>6, <1>9, <1>11, <1>12
  <1>14. QED
    BY <1>1, <1>2, <1>13 DEF DirectoryInv

LEMMA DirectoryInvStep ==
    ListInv /\ PagesReadBack /\ DirectoryInv /\ [Next]_vars => DirectoryInv'
  <1> SUFFICES ASSUME ListInv, PagesReadBack, DirectoryInv, [Next]_vars
               PROVE  DirectoryInv'
    OBVIOUS
  <1>0. archive \in Archives /\ archive.itsp.index_head \in Int /\ cur_page \in Int
    BY ArchivesAssumption DEF ListInv, TypeInv
  <1>a. Whole \in Seq(Written) /\ Directory(cur_page) \in Seq(Written)
    BY <1>0, DirectoryIsWritten DEF Whole
  <1>b. ASSUME archive' = archive, item' = item, parsed' = parsed
        PROVE  /\ Written' = Written /\ Whole' = Whole /\ Listing' = Listing
               /\ \A p : Directory(p)' = Directory(p)
    BY <1>b, DirectoryKept
  <1>c. ASSUME archive' = archive, item' = item, parsed' = parsed,
               pc' \notin {"page", "items"},
               pc' \in {"itsf", "itsp"} => pc \in {"itsf", "itsp"},
               pc' \in {"table", "units", "reset_table", "control", "open"} =>
                 /\ pc \in {"table", "units", "reset_table", "control", "open"}
                 /\ parse_entries_failed' = parse_entries_failed
        PROVE  DirectoryInv'
    <2>1. Written' = Written /\ Whole' = Whole /\ Listing' = Listing
      BY <1>b, <1>c
    <2>2. /\ DOMAIN item' = Addresses /\ Listing' \in Seq(Written')
          /\ pc' \in {"itsf", "itsp"} => parsed' = 0
      BY <1>c, <2>1 DEF DirectoryInv
    <2>3. ASSUME pc' \in {"table", "units", "reset_table", "control", "open"}
          PROVE  \E rest \in Seq(Written') :
                     /\ Listing' \o rest = Whole'
                     /\ ~parse_entries_failed' => rest = <<>>
      BY <1>c, <2>1, <2>3 DEF DirectoryInv
    <2>4. pc' # "page" /\ pc' # "items"
      BY <1>c
    <2>5. QED
      BY <2>2, <2>3, <2>4 DEF DirectoryInv
  <1>2. CASE ReadItsf
    BY <1>2, <1>c DEF ReadItsf, listVars
  <1>3. CASE ItspFails
    BY <1>3, <1>c DEF ItspFails, listVars
  <1>4. CASE ReadItsp
    <2>1. Listing = <<>> /\ Listing \in Seq(Written)
      BY <1>4 DEF ReadItsp, DirectoryInv, Listing
    <2>2. Listing \o Whole = Whole
      BY <1>a, <2>1, ConcatEmptySeq
    <2>3. archive' = archive /\ item' = item /\ parsed' = parsed
      BY <1>4 DEF ReadItsp, listVars
    <2>4. CASE pc' = "page" /\ cur_page' = archive.itsp.index_head
      <3>1. Directory(cur_page)' = Whole
        BY <2>3, <2>4 DEF Directory, Whole
      <3>2. QED
        BY <1>b, <2>2, <2>3, <2>4, <3>1 DEF DirectoryInv
    <2>5. CASE pc' = "table" /\ parse_entries_failed' = TRUE
      BY <1>a, <1>b, <2>2, <2>3, <2>5 DEF DirectoryInv
    <2>6. QED
      BY <1>4, <2>4, <2>5 DEF ReadItsp
  <1>5. CASE ReadPage
    BY <1>5, ReadPageStarts
  <1>6. CASE PageDone
    BY <1>6, PageDoneGoesOn
  <1>7. CASE LastPageDone
    <2>1. /\ archive' = archive /\ item' = item /\ parsed' = parsed
          /\ pc = "page" /\ pc' = "table" /\ cur_page = -1
      BY <1>7 DEF LastPageDone, listVars
    <2>2. -1 \notin DOMAIN archive.pages /\ -1 \in Int
      BY <1>0, ArchivesAssumption
    <2>3. Directory(cur_page) = <<>>
      BY <1>0, <2>1, <2>2, DirectoryFrom
    <2>4. Listing \o <<>> = Whole /\ <<>> \in Seq(Written)
      BY <2>1, <2>3 DEF DirectoryInv
    <2>5. QED
      BY <1>b, <2>1, <2>4 DEF DirectoryInv
  <1>8. CASE ReadItem
    BY <1>8, ReadItemReads
  <1>9. CASE RejectItem
    <2>1. /\ archive' = archive /\ item' = item /\ parsed' = parsed
          /\ pc = "items" /\ pc' = "table" /\ parse_entries_failed' = TRUE
      BY <1>9 DEF RejectItem, EntriesFail
    <2> DEFINE page == archive.pages[cur_page]
               w == page.written
    <2>2. PICK k \in 1 .. Len(w) + 1 : LeftOfPage(k)
      BY <2>1 DEF DirectoryInv
    <2>3. w \in Seq(Written) /\ page.block_next \in Int
      BY <1>0, <2>1, PageFacts DEF ListInv
    <2> DEFINE rest == SubSeq(w, k, Len(w)) \o Directory(page.block_next)
    <2>4. Directory(page.block_next) \in Seq(Written)
      BY <1>0, <2>3, DirectoryIsWritten
    <2>5. rest \in Seq(Written)
      <3> HIDE DEF page, w
      <3>1. SubSeq(w, k, Len(w)) \in Seq(Written)
        BY <2>3
      <3>2. QED
        BY <2>4, <3>1
    <2>6. Listing \o rest = Whole
      BY <2>2 DEF LeftOfPage
    <2> HIDE DEF rest
    <2>7. QED
      BY <1>b, <2>1, <2>5, <2>6 DEF DirectoryInv
  <1>10. CASE BuildTable
    BY <1>10, <1>c DEF BuildTable, listVars
  <1>11. CASE FindUnits
    BY <1>11, <1>c DEF FindUnits, listVars
  <1>12. CASE NoEntries
    BY <1>12, <1>c DEF NoEntries, listVars
  <1>13. CASE NoTable
    BY <1>13, <1>c DEF NoTable, listVars
  <1>14. CASE ParseResetTable
    BY <1>14, <1>c DEF ParseResetTable, listVars
  <1>15. CASE ParseControlData
    BY <1>15, <1>c DEF ParseControlData, listVars
  <1>16. CASE ParseFails
    BY <1>16, <1>c DEF ParseFails, CloseTo
  <1>17. CASE Close
    BY <1>17, <1>c DEF Close, CloseTo
  <1>18. CASE UNCHANGED vars
    <2>1. /\ archive' = archive /\ item' = item /\ parsed' = parsed /\ pc' = pc
          /\ cur_page' = cur_page /\ unread' = unread
          /\ parse_entries_failed' = parse_entries_failed
      BY <1>18 DEF vars, listVars, pageVars
    <2>2. Directory(cur_page)' = Directory(cur_page)
      BY <2>1 DEF Directory
    <2>3. \A k : LeftOfPage(k)' = LeftOfPage(k)
      <3>1. Directory(archive.pages[cur_page].block_next)'
              = Directory(archive.pages[cur_page].block_next)
        BY <2>1 DEF Directory
      <3>2. Whole' = Whole /\ Listing' = Listing
        BY <1>b, <2>1
      <3>3. QED
        BY <2>1, <3>1, <3>2 DEF LeftOfPage, EntryBytes
    <2>4. QED
      BY <1>b, <2>1, <2>2, <2>3 DEF DirectoryInv
  <1>19. QED
    BY <1>2, <1>3, <1>4, <1>5, <1>6, <1>7, <1>8, <1>9, <1>10, <1>11, <1>12,
       <1>13, <1>14, <1>15, <1>16, <1>17, <1>18 DEF Next, Parse

LEMMA DirectoryInvariant == Spec => []DirectoryInv
  <1>1. QED
    BY ListInvariant, PagesReadBackHolds, DirectoryInvInit, DirectoryInvStep, PTL DEF Spec

\* The table of an open archive lists what was written to the directory's
\* pages, in order and without a gap, and all of it unless parse_entries_failed
\* says otherwise: the parsing of the items, the walk over the pages, the links
\* and the table lose nothing.
THEOREM ListsDirectoryHolds == Spec => []ListsDirectory
  <1>1. ListInv /\ DirectoryInv => ListsDirectory
    <2> SUFFICES ASSUME ListInv, DirectoryInv, pc = "open"
                 PROVE  /\ n_entries = Len(entries) /\ n_entries > 0
                        /\ IsPrefix(Listed, Whole)
                        /\ ~parse_entries_failed => Listed = Whole
      BY DEF ListsDirectory, Whole
    <2>1. /\ n_entries = parsed /\ n_entries > 0 /\ entries = CountUp(parsed)
          /\ parsed \in Nat
      BY BoundAssumption DEF ListInv
    <2>2. Len(entries) = parsed /\ \A k \in 1 .. parsed : entries[k] = k
      BY <2>1 DEF CountUp
    <2>3. Listed = Listing
      BY <2>2 DEF Listed, Listing
    <2>4. PICK rest \in Seq(Written) :
              /\ Listing \o rest = Whole
              /\ ~parse_entries_failed => rest = <<>>
      BY DEF DirectoryInv
    <2>5. Listing \in Seq(Written)
      BY DEF DirectoryInv
    <2>6. IsPrefix(Listing, Listing \o rest)
      <3> DEFINE a == Listing
      <3>1. a \in Seq(Written)
        BY <2>5
      <3> HIDE DEF a
      <3>2. Len(a) <= Len(a \o rest) /\ SubSeq(a, 1, Len(a)) = SubSeq(a \o rest, 1, Len(a))
        BY <3>1
      <3>3. QED
        BY <3>2 DEF IsPrefix, a
    <2>7. Listing \o <<>> = Listing
      BY <2>5, ConcatEmptySeq
    <2>8. QED
      BY <2>1, <2>2, <2>3, <2>4, <2>6, <2>7
  <1>2. QED
    BY <1>1, ListInvariant, DirectoryInvariant, PTL

-----------------------------------------------------------------------------
(* The compressed section *)

\* The entry has this name and is not itself compressed.
Usable(e) == e \in 1 .. parsed /\ item[e].space # CHM_COMPRESSED

\* While compression is enabled, what was checked so far holds: the three
\* entries, then the reset table, then the numbers from the control data.
UsableInv ==
    /\ pc \in {"reset_table", "control", "open"} /\ compression_enabled =>
         /\ Usable(rt_unit) /\ Usable(cn_unit) /\ Usable(lzxc)
         /\ streq(item[rt_unit].path, CHMU_RESET_TABLE)
         /\ streq(item[cn_unit].path, CHMU_CONTENT)
    /\ pc \in {"control", "open"} /\ compression_enabled =>
         /\ ResetTableOk(archive.reset_table)
         /\ block_len = archive.reset_table.block_len
    /\ pc = "open" /\ compression_enabled =>
         window_size \div 2 # 0 /\ reset_blkcount # 0

LEMMA UsableInvStep == ListInv /\ UsableInv /\ [Next]_vars => UsableInv'
  <1> SUFFICES ASSUME ListInv, UsableInv, [Next]_vars PROVE UsableInv'
    OBVIOUS
  <1>a. ASSUME archive' = archive, item' = item, parsed' = parsed, rt_unit' = rt_unit,
               cn_unit' = cn_unit, lzxc' = lzxc
        PROVE  /\ Usable(rt_unit)' = Usable(rt_unit) /\ Usable(cn_unit)' = Usable(cn_unit)
               /\ Usable(lzxc)' = Usable(lzxc)
               /\ streq(item[rt_unit].path, CHMU_RESET_TABLE)'
                    = streq(item[rt_unit].path, CHMU_RESET_TABLE)
               /\ streq(item[cn_unit].path, CHMU_CONTENT)'
                    = streq(item[cn_unit].path, CHMU_CONTENT)
               /\ ResetTableOk(archive.reset_table)' = ResetTableOk(archive.reset_table)
    BY <1>a DEF Usable, streq, ResetTableOk
  <1>2. CASE pc' \notin {"reset_table", "control", "open"}
    BY <1>2 DEF UsableInv
  <1>3. CASE FindUnits
    <2>1. n_entries = parsed /\ entries = CountUp(parsed)
      BY <1>3 DEF FindUnits, ListInv, Reading
    <2>2. /\ rt_unit' = Find(CHMU_RESET_TABLE) /\ cn_unit' = Find(CHMU_CONTENT)
          /\ lzxc' = Find(CHMU_LZXC_CONTROLDATA)
          /\ item' = item /\ parsed' = parsed /\ pc' = "reset_table"
      BY <1>3 DEF FindUnits, listVars
    <2>3. ASSUME compression_enabled'
          PROVE  \A e \in {rt_unit', cn_unit', lzxc'} :
                     e # Null /\ item[e].space # CHM_COMPRESSED
      BY <1>3, <2>3 DEF FindUnits, is_null_or_compressed
    <2>4. ASSUME compression_enabled'
          PROVE  /\ \A e \in {rt_unit', cn_unit', lzxc'} :
                     e \in 1 .. parsed /\ item[e].space # CHM_COMPRESSED
                 /\ streq(item[rt_unit'].path, CHMU_RESET_TABLE)
                 /\ streq(item[cn_unit'].path, CHMU_CONTENT)
      BY <2>1, <2>2, <2>3, <2>4, FindResult
    <2>5. compression_enabled' => /\ Usable(rt_unit)' /\ Usable(cn_unit)' /\ Usable(lzxc)'
      BY <2>2, <2>4 DEF Usable
    <2>6. compression_enabled' => /\ streq(item[rt_unit].path, CHMU_RESET_TABLE)'
                                  /\ streq(item[cn_unit].path, CHMU_CONTENT)'
      BY <2>2, <2>4 DEF streq
    <2>7. QED
      BY <2>2, <2>5, <2>6 DEF UsableInv
  <1>4. CASE ParseResetTable
    <2>1. /\ archive' = archive /\ item' = item /\ parsed' = parsed /\ rt_unit' = rt_unit
          /\ cn_unit' = cn_unit /\ lzxc' = lzxc /\ pc = "reset_table" /\ pc' = "control"
      BY <1>4 DEF ParseResetTable, listVars, unitVars
    <2>2. compression_enabled' =>
            /\ compression_enabled
            /\ block_len' = archive.reset_table.block_len
            /\ ResetTableOk(archive.reset_table)
      BY <1>4 DEF ParseResetTable
    <2>3. QED
      BY <1>a, <2>1, <2>2 DEF UsableInv
  <1>5. CASE ParseControlData
    <2>1. /\ archive' = archive /\ item' = item /\ parsed' = parsed /\ rt_unit' = rt_unit
          /\ cn_unit' = cn_unit /\ lzxc' = lzxc /\ block_len' = block_len
          /\ pc = "control" /\ pc' = "open"
      BY <1>5 DEF ParseControlData, listVars, unitVars
    <2>2. compression_enabled' =>
            /\ compression_enabled
            /\ window_size' \div 2 # 0
            /\ reset_blkcount' # 0
      BY <1>5, ControlRange DEF ParseControlData, EnabledBy, ListInv
    <2>3. QED
      BY <1>a, <2>1, <2>2 DEF UsableInv
  <1>6. CASE UNCHANGED vars
    <2>1. /\ archive' = archive /\ item' = item /\ parsed' = parsed /\ rt_unit' = rt_unit
          /\ cn_unit' = cn_unit /\ lzxc' = lzxc /\ block_len' = block_len
          /\ pc = pc' /\ compression_enabled' = compression_enabled
          /\ window_size' = window_size /\ reset_blkcount' = reset_blkcount
      BY <1>6 DEF vars, listVars, unitVars, sizeVars
    <2>2. QED
      BY <1>a, <2>1 DEF UsableInv
  <1>7. CASE Next /\ pc' \in {"reset_table", "control", "open"}
    <2>1. FindUnits \/ ParseResetTable \/ ParseControlData
      BY <1>7 DEF Next, Parse, ReadItsf, ItspFails, ReadItsp, ReadPage, EntriesFail, PageDone,
                  LastPageDone, ReadItem, RejectItem, BuildTable, NoEntries, NoTable,
                  ParseFails, Close, CloseTo
    <2>2. QED
      BY <1>3, <1>4, <1>5, <2>1
  <1>8. QED
    BY <1>2, <1>6, <1>7

LEMMA UsableInvariant == Spec => []UsableInv
  <1>1. Init => UsableInv
    BY DEF Init, UsableInv
  <1>2. QED
    BY <1>1, ListInvariant, UsableInvStep, PTL DEF Spec

\* There is a start for every block.
LEMMA StartsLength ==
    ASSUME archive \in Archives
    PROVE  Len(Starts(archive)) = Len(archive.blocks)
  <1>1. Len(archive.blocks) \in Nat
    BY WrittenAssumption
  <1>2. QED
    BY <1>1 DEF Starts

\* Where the blocks before this one end: the sums that WrittenAt runs through.
IsPlaces(f, block) ==
    f = [b \in 0 .. block |->
            IF b = 0 THEN archive.section ELSE f[b - 1] + archive.blocks[b]]

LEMMA WrittenAtStart ==
    ASSUME archive \in Archives, BlocksFillSection(archive),
           NEW block \in Nat, block < Len(archive.blocks)
    PROVE  WrittenAt(block) = [start |-> archive.section + Starts(archive)[block + 1],
                               len   |-> archive.blocks[block + 1]]
  <1> DEFINE starts == Starts(archive)
             blocks == archive.blocks
             n == Len(blocks)
             sec == archive.section
             w == [b \in 0 .. block |-> sec + starts[b + 1]]
             f == CHOOSE g : IsPlaces(g, block)
  <1>1. /\ starts \in Seq(Int) /\ blocks \in Seq(Int) /\ n <= Len(starts)
        /\ sec \in Int
    BY WrittenAssumption, StartsLength
  <1>2. n \in Nat /\ n > 0
    <2>1. n \in Nat /\ block < n
      BY WrittenAssumption
    <2> HIDE DEF n
    <2>2. QED
      BY <2>1
  <1>3. starts[1] = 0 /\ \A k \in 1 .. n - 1 : starts[k + 1] = starts[k] + blocks[k]
    BY <1>2 DEF BlocksFillSection
  <1>4. \A b \in 0 .. block : starts[b + 1] \in Int /\ (b # 0 => b \in 1 .. n - 1 /\ blocks[b] \in Int)
    <2> TAKE b \in 0 .. block
    <2>1. n \in Nat /\ n = Len(blocks) /\ block < n
      BY <1>2
    <2> HIDE DEF starts, blocks, n
    <2>2. Len(starts) \in Nat /\ n <= Len(starts)
      BY <1>1
    <2>3. b + 1 \in 1 .. Len(starts) /\ (b # 0 => b \in 1 .. n - 1 /\ b \in 1 .. n)
      BY <2>1, <2>2
    <2>4. starts[b + 1] \in Int
      BY <1>1, <2>3
    <2>5. b # 0 => blocks[b] \in Int
      BY <1>1, <2>1, <2>3
    <2>6. QED
      BY <2>3, <2>4, <2>5
  <1> HIDE DEF starts, blocks, sec, n
  <1>5. \A b \in 0 .. block : w[b] = IF b = 0 THEN sec ELSE w[b - 1] + blocks[b]
    <2> TAKE b \in 0 .. block
    <2>1. CASE b = 0
      BY <1>1, <1>3, <2>1
    <2>2. CASE b # 0
      <3>1. /\ b - 1 \in 0 .. block /\ (b - 1) + 1 = b
            /\ b \in 1 .. n - 1 /\ blocks[b] \in Int
        BY <1>4, <2>2
      <3>2. starts[b] \in Int
        BY <1>4, <3>1
      <3>3. starts[b + 1] = starts[b] + blocks[b]
        BY <1>3, <3>1
      <3>4. w[b] = sec + starts[b + 1] /\ w[b - 1] = sec + starts[b]
        BY <3>1
      <3>5. sec + starts[b + 1] = (sec + starts[b]) + blocks[b]
        <4> DEFINE p == starts[b]
                   q == blocks[b]
        <4>1. sec \in Int /\ p \in Int /\ q \in Int /\ starts[b + 1] = p + q
          BY <1>1, <3>1, <3>2, <3>3
        <4> HIDE DEF p, q
        <4>2. sec + (p + q) = (sec + p) + q
          BY <4>1
        <4>3. QED
          BY <4>1, <4>2 DEF p, q
      <3> HIDE DEF w
      <3>6. QED
        BY <2>2, <3>4, <3>5
    <2>3. QED
      BY <2>1, <2>2
  <1>6. IsPlaces(w, block)
    BY <1>5 DEF IsPlaces, sec, blocks
  <1>7. IsPlaces(f, block)
    BY <1>6
  <1>8. WrittenAt(block) = [start |-> f[block], len |-> blocks[block + 1]]
    BY DEF WrittenAt, IsPlaces, blocks
  <1> HIDE DEF f
  <1>9. \A b \in 0 .. block : f[b] = IF b = 0 THEN sec ELSE f[b - 1] + blocks[b]
    BY <1>7 DEF IsPlaces, sec, blocks
  <1> HIDE DEF w
  <1> DEFINE Wrong == {b \in 0 .. block : f[b] # w[b]}
  <1>10. ASSUME Wrong # {} PROVE FALSE
    <2>1. PICK b \in Wrong : \A c \in Wrong : b <= c
      <3>1. Wrong \in SUBSET Nat
        OBVIOUS
      <3> HIDE DEF Wrong
      <3>2. QED
        BY <1>10, <3>1, LeastNat
    <2>2. CASE b = 0
      BY <1>5, <1>9, <2>1, <2>2
    <2>3. CASE b # 0
      <3>1. b - 1 \in 0 .. block /\ ~(b <= b - 1)
        BY <2>1, <2>3
      <3>2. f[b - 1] = w[b - 1]
        BY <2>1, <3>1
      <3>3. QED
        BY <1>5, <1>9, <2>1, <2>3, <3>2
    <2>4. QED
      BY <2>2, <2>3
  <1>11. f[block] = sec + starts[block + 1]
    BY <1>10 DEF w
  <1>12. QED
    BY <1>8, <1>11 DEF blocks, sec, starts

\* Every block lies where the reset table and the entry of the content say.
LEMMA BoundsAreWritten ==
    ASSUME archive \in Archives, ResetTableOk(archive.reset_table),
           item[cn_unit] \in Written, streq(item[cn_unit].path, CHMU_CONTENT),
           item[rt_unit] \in Written, streq(item[rt_unit].path, CHMU_RESET_TABLE),
           NEW k \in DOMAIN archive.blocks
    PROVE  get_cmpblock_bounds(k - 1) = WrittenAt(k - 1)
  <1> DEFINE t == archive.reset_table
             blocks == archive.blocks
             n == Len(blocks)
             starts == Starts(archive)
             data == data_offset(archive.itsf)
             x == item[cn_unit].start
             y == item[rt_unit].start
  <1>1. /\ starts \in Seq(Int) /\ blocks \in Seq(Int) /\ n <= Len(starts) /\ n < Word
        /\ archive.section \in Int /\ archive.table \in Int /\ data \in Int
        /\ t.table_offset \in Int /\ t.compressed_len \in Int
    BY WrittenAssumption, StartsLength
  <1>2. BlocksFillSection(archive)
    BY WrittenAssumption
  <1>3. n \in Nat /\ k \in 1 .. n
    <2> HIDE DEF blocks
    <2>1. DOMAIN blocks = 1 .. Len(blocks) /\ Len(blocks) \in Nat
      BY <1>1
    <2>2. k \in DOMAIN blocks
      BY DEF blocks
    <2>3. QED
      BY <2>1, <2>2
  <1>4. /\ t.block_count = n
        /\ n > 0 => t.compressed_len = starts[n] + blocks[n]
        /\ \A j \in 1 .. n - 1 : starts[j + 1] = starts[j] + blocks[j]
    BY <1>2 DEF BlocksFillSection
  <1>5. /\ x \in Int /\ archive.section = data + x
        /\ y \in Int /\ archive.table = data + y + t.table_offset
    <2>1. ASSUME NEW e \in Written
          PROVE  /\ e.start \in Int
                 /\ streq(e.path, CHMU_CONTENT) => archive.section = data + e.start
                 /\ streq(e.path, CHMU_RESET_TABLE) =>
                      archive.table = data + e.start + t.table_offset
      <3>1. PICK p \in DOMAIN archive.pages : e \in Range(archive.pages[p].written)
        BY DEF Written
      <3>2. PICK j \in DOMAIN archive.pages[p].written : e = archive.pages[p].written[j]
        BY <3>1 DEF Range
      <3>3. e.start \in Int
        BY <3>1, WrittenAssumption
      <3>4. SectionInContent(archive)
        BY WrittenAssumption
      <3>5. QED
        BY <3>2, <3>3, <3>4 DEF SectionInContent
    <2>2. QED
      BY <2>1
  <1>6. k - 1 \in Nat /\ k - 1 < n /\ (k - 1) + 1 = k /\ (k - 1) + 2 = k + 1
    BY <1>3
  <1>7. WrittenAt(k - 1) = [start |-> archive.section + starts[k], len |-> blocks[k]]
    <2>1. k - 1 \in Nat /\ k - 1 < Len(archive.blocks)
      BY <1>6
    <2>2. WrittenAt(k - 1) = [start |-> archive.section + starts[(k - 1) + 1],
                              len   |-> blocks[(k - 1) + 1]]
      BY <1>2, <2>1, WrittenAtStart
    <2>3. QED
      BY <1>6, <2>2
  <1>8. EndsInTable(k - 1) <=> k < n
    <2>1. n - 1 \in 0 .. Word - 1 /\ Word \in Nat \ {0}
      <3>1. n < Word /\ n \in Nat /\ k \in 1 .. n
        BY <1>1, <1>3
      <3> HIDE DEF n
      <3>2. QED
        BY <3>1, WidthAssumption
    <2>2. u32(n - 1) = n - 1
      BY <2>1, ModSmall DEF u32
    <2>3. EndsInTable(k - 1) <=> k - 1 < n - 1
      BY <1>4, <2>2 DEF EndsInTable
    <2>4. QED
      BY <1>3, <2>3
  <1> DEFINE off == data + y + t.table_offset + (k - 1) * 8
             end == IF EndsInTable(k - 1) THEN archive.numbers[off + 8] ELSE t.compressed_len
  <1>8a. /\ archive.numbers[off] = starts[k]
         /\ k < n => archive.numbers[off + 8] = starts[k + 1]
    <2>1. \A b \in 1 .. n : starts[b] = archive.numbers[archive.table + 8 * (b - 1)]
      BY DEF Starts
    <2>2. off = archive.table + 8 * (k - 1) /\ off + 8 = archive.table + 8 * ((k + 1) - 1)
      <3>1. k \in Int
        <4>1. k \in 1 .. n /\ n \in Nat
          BY <1>3
        <4> HIDE DEF n
        <4>2. QED
          BY <4>1
      <3> DEFINE o == t.table_offset
                 table == archive.table
      <3>2. /\ data \in Int /\ y \in Int /\ o \in Int /\ table \in Int
            /\ table = data + y + o
        BY <1>1, <1>5
      <3> HIDE DEF t, data, y, n, o, table
      <3>3. /\ data + y + o + (k - 1) * 8 = table + 8 * (k - 1)
            /\ data + y + o + (k - 1) * 8 + 8 = table + 8 * ((k + 1) - 1)
        BY <3>1, <3>2
      <3>4. QED
        BY <3>3 DEF o, table
    <2> HIDE DEF off, starts, n
    <2>3. k \in 1 .. n /\ (k < n => k + 1 \in 1 .. n)
      BY <1>3
    <2>4. QED
      BY <2>1, <2>2, <2>3
  <1>9. starts[k] \in Int /\ blocks[k] \in Int
    <2>1. k \in 1 .. Len(starts) /\ k \in 1 .. Len(blocks)
      BY <1>3, StartsLength
    <2>2. starts \in Seq(Int) /\ blocks \in Seq(Int)
      BY <1>1
    <2> HIDE DEF starts, blocks
    <2>3. QED
      BY <2>1, <2>2
  <1>10. end = starts[k] + blocks[k]
    <2>1. CASE k < n
      <3>1. k \in 1 .. n - 1
        BY <1>3, <2>1
      <3>2. QED
        BY <1>4, <1>8, <1>8a, <2>1, <3>1
    <2>2. CASE ~(k < n)
      <3>1. k = n /\ n > 0
        BY <1>3, <2>2
      <3>2. QED
        BY <1>4, <1>8, <2>2, <3>1
    <2>3. QED
      BY <2>1, <2>2
  <1>11. get_cmpblock_bounds(k - 1)
           = [start |-> archive.numbers[off] + data + x,
              len   |-> end - archive.numbers[off]]
    BY DEF get_cmpblock_bounds
  <1> HIDE DEF off, end, t, starts, data, blocks, n, x, y
  <1>12. /\ starts[k] + data + x = archive.section + starts[k]
         /\ end - starts[k] = blocks[k]
    <2> DEFINE a == starts[k]
               b == blocks[k]
               o == data
    <2>1. a \in Int /\ b \in Int /\ o \in Int /\ x \in Int
      BY <1>1, <1>5, <1>9
    <2>2. archive.section = o + x /\ end = a + b
      BY <1>5, <1>10
    <2>3. a + o + x = (o + x) + a /\ (a + b) - a = b
      <3> HIDE DEF a, b, o
      <3>1. QED
        BY <2>1
    <2>4. QED
      BY <2>2, <2>3
  <1>13. QED
    BY <1>7, <1>8a, <1>11, <1>12

\* When chm_parse leaves compression enabled, the three entries are there and
\* uncompressed, nothing that chm_retrieve_entry divides by is zero whatever
\* the fields of the control data and however their products wrap around, and
\* get_cmpblock_bounds finds every block of the section where it was written.
THEOREM CompressionUsableHolds == Spec => []CompressionUsable
  <1>1. ListInv /\ DirectoryInv /\ UsableInv => CompressionUsable
    <2> SUFFICES ASSUME ListInv, DirectoryInv, UsableInv, pc = "open", compression_enabled
                 PROVE  CompressionUsable
      BY DEF CompressionUsable
    <2>1. archive \in Archives /\ parsed \in Nat /\ entries = CountUp(parsed)
      BY BoundAssumption DEF ListInv, TypeInv
    <2>2. Range(entries) = 1 .. parsed
      BY <2>1 DEF CountUp, Range
    <2>3. /\ Usable(rt_unit) /\ Usable(cn_unit) /\ Usable(lzxc)
          /\ streq(item[rt_unit].path, CHMU_RESET_TABLE)
          /\ streq(item[cn_unit].path, CHMU_CONTENT)
          /\ ResetTableOk(archive.reset_table)
          /\ block_len = archive.reset_table.block_len
          /\ window_size \div 2 # 0 /\ reset_blkcount # 0
      BY DEF UsableInv
    <2>4. block_len # 0
      BY <2>3 DEF ResetTableOk
    <2>5. \A e \in {rt_unit, cn_unit, lzxc} :
            e \in Range(entries) /\ item[e].space # CHM_COMPRESSED
      BY <2>2, <2>3 DEF Usable
    <2>6. item[cn_unit] \in Written /\ item[rt_unit] \in Written
      <3>1. Listing \in Seq(Written) /\ {cn_unit, rt_unit} \subseteq 1 .. parsed
        BY <2>3 DEF DirectoryInv, Usable
      <3>2. Len(Listing) = parsed /\ \A e \in 1 .. parsed : Listing[e] = item[e]
        BY <2>1, <3>1 DEF Listing
      <3> DEFINE s == Listing
      <3>3. s \in Seq(Written) /\ Len(s) = parsed /\ \A e \in 1 .. parsed : s[e] = item[e]
        BY <3>1, <3>2
      <3> HIDE DEF s
      <3>4. QED
        BY <2>1, <3>1, <3>3
    <2>7. \A k \in DOMAIN archive.blocks : get_cmpblock_bounds(k - 1) = WrittenAt(k - 1)
      BY <2>1, <2>3, <2>6, BoundsAreWritten
    <2>8. QED
      BY <2>3, <2>4, <2>5, <2>7 DEF CompressionUsable
  <1>2. QED
    BY <1>1, ListInvariant, DirectoryInvariant, UsableInvariant, PTL
=============================================================================

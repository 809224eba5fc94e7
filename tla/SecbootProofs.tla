--------------------------- MODULE SecbootProofs ---------------------------
(* Proofs about the NOR error log, for every size of the log, list of       *)
(* images and number of boots.                                              *)
EXTENDS SecbootLog, TLAPS

-----------------------------------------------------------------------------
(* Offsets *)

LEMMA CapacityBounds ==
  /\ Capacity \in Nat \ {0}
  /\ \A i \in 0 .. Capacity - 1 : Offset(i) < PLAT_SECBOOT_LOG_SIZE
  /\ Offset(Capacity) >= PLAT_SECBOOT_LOG_SIZE
<1> DEFINE S == PLAT_SECBOOT_LOG_SIZE
           C == (S - 4 + 3 - 1) \div 3
<1>1. S \in Nat /\ S > 4
  BY SecbootAssumption DEF HeaderSize
<1>2. C \in Nat /\ 3 * C <= S - 2 /\ 3 * C > S - 5
  BY <1>1
<1>3. Capacity = C
  BY DEF Capacity, HeaderSize, EntrySize
<1> HIDE DEF C
<1>4. QED
  BY <1>1, <1>2, <1>3 DEF Offset, HeaderSize, EntrySize

LEMMA CountOfOffset ==
  ASSUME NEW k \in Nat
  PROVE  Count(Offset(k)) = k /\ Offset(k) + EntrySize = Offset(k + 1) /\ Offset(k) # Invalid
BY DEF Count, Offset, HeaderSize, EntrySize, Invalid

LEMMA OffsetsDiffer ==
  ASSUME NEW i \in Nat, NEW k \in Nat, i # k
  PROVE  Offset(i) # Offset(k)
BY DEF Offset, HeaderSize, EntrySize

-----------------------------------------------------------------------------
(* The inductive invariant *)

LoopPc == {"pre", "load", "post", "log_error", "write_entry", "update_header"}
LogPc  == {"log_error", "write_entry", "update_header"}
InitPc == {"init", "erase", "init_header"}

\* Where secboot_log_error() has not come to yet
BeforeError == (LoopPc \cup InitPc) \ {"update_header"}

\* Once set up, the header in RAM leaves room to start an entry.  It is the one in
\* flash, unless the driver failed and the log was taken for an empty one.
HeaderInv ==
  /\ pc \in LoopPc => Valid(log_hdr) /\ (log_hdr = nor_hdr \/ log_hdr = HeaderSize)
  /\ pc = "init" /\ ret = "pre" => log_hdr = Invalid
  /\ pc = "init" /\ ret = "write_entry" => Valid(log_hdr)
  /\ pc = "init" /\ ret = "write_entry" => log_hdr = nor_hdr \/ log_hdr = HeaderSize
  /\ pc \in InitPc => ret \in {"pre", "write_entry"}

\* What the driver has done as long as it has not failed.
NoFaultInv ==
  ~fault =>
    /\ pc \in LoopPc => log_hdr = nor_hdr
    /\ pc \in {"erase", "init_header"} => ret = "pre" /\ ~Valid(nor_hdr)
    /\ pc = "init_header" => nor_hdr = Invalid
    /\ pc = "init" /\ ret = "write_entry" => log_hdr = nor_hdr
    /\ pc = "update_header" => nor[log_hdr] = error

\* The entry being logged is the one of this boot's failure.
ErrorInv ==
  /\ pc # "off" => boots >= 1
  /\ pc \in LogPc \cup {"panic"} \/ (pc \in InitPc /\ ret = "write_entry") =>
       error \in Entry /\ error.boot = boots /\ error.image = node
  /\ pc \in {"load", "post"} => node \in Images

\* No cell has an entry of a later boot, or of this boot before its error is logged.
CellInv ==
  \A o \in Offsets :
    nor[o] \in Entry =>
      /\ nor[o].boot <= boots
      /\ pc \in BeforeError \cup {"returned"} => nor[o].boot < boots

PanicInv == pc = "panic" /\ ~fault => Readable # <<>> /\ Readable[Len(Readable)] = error

Inv == TypeOK /\ HeaderInv /\ NoFaultInv /\ ErrorInv /\ CellInv /\ PanicInv

Cells == Entry \cup {Blank, Torn}

\* The invariant of a step is proved part by part.
LEMMA InvParts ==
  ASSUME TypeOK', HeaderInv', NoFaultInv', ErrorInv', CellInv', PanicInv'
  PROVE  Inv'
BY DEF Inv

LEMMA HeaderIndex ==
  ASSUME NEW hdr \in {Invalid, Offset(Capacity)} \cup Offsets
  PROVE  /\ hdr # Invalid => \E k \in 0 .. Capacity : hdr = Offset(k)
         /\ Valid(hdr) => \E k \in 0 .. Capacity - 1 : hdr = Offset(k)
         /\ ~Valid(hdr) => hdr \in {Invalid, Offset(Capacity)}
         /\ Count(hdr) \in 0 .. Capacity
<1>1. \A k \in 0 .. Capacity - 1 : Offset(k) \in Offsets /\ Valid(Offset(k))
  BY CapacityBounds DEF Offsets, Valid, Offset, HeaderSize, EntrySize, Invalid
<1>2. ~Valid(Offset(Capacity))
  BY CapacityBounds, SecbootAssumption DEF Valid, Offset, HeaderSize, EntrySize
<1>3. \A x \in Offsets : \E k \in 0 .. Capacity - 1 : x = Offset(k)
  BY DEF Offsets
<1>4. hdr # Invalid => \E k \in 0 .. Capacity : hdr = Offset(k)
  BY <1>3, CapacityBounds
<1>5. Count(hdr) \in 0 .. Capacity
  BY <1>4, CountOfOffset, CapacityBounds DEF Count
<1>6. QED
  BY <1>1, <1>2, <1>3, <1>4, <1>5 DEF Valid

LEMMA HeadersTyped ==
  ASSUME TypeOK
  PROVE  /\ nor_hdr \in {Invalid, Offset(Capacity)} \cup Offsets
         /\ log_hdr \in {Invalid, Offset(Capacity)} \cup Offsets
BY DEF TypeOK

LEMMA CountIsNat == ASSUME TypeOK PROVE Count(nor_hdr) \in 0 .. Capacity
BY HeadersTyped, HeaderIndex

\* What a step that leaves the announced entries alone does to a reader
LEMMA SameEntries ==
  ASSUME TypeOK, nor_hdr' = nor_hdr,
         \A i \in 0 .. Count(nor_hdr) - 1 : nor'[Offset(i)] = nor[Offset(i)]
  PROVE  Readable' = Readable
<1>1. Count(nor_hdr) \in Nat
  BY CountIsNat
<1>2. Count(nor_hdr)' = Count(nor_hdr)
  OBVIOUS
<1>3. \A i \in 1 .. Count(nor_hdr) : nor'[Offset(i - 1)] = nor[Offset(i - 1)]
  BY <1>1
<1>4. QED
  BY <1>2, <1>3 DEF Readable

\* The offset at which the next entry is written
LEMMA NextCell ==
  ASSUME NEW hdr \in {Invalid, Offset(Capacity)} \cup Offsets, Valid(hdr)
  PROVE  /\ hdr \in Offsets
         /\ Count(hdr) \in 0 .. Capacity - 1
         /\ hdr = Offset(Count(hdr))
         /\ hdr + EntrySize = Offset(Count(hdr) + 1)
         /\ hdr + EntrySize \in {Offset(Capacity)} \cup Offsets
         /\ Count(hdr + EntrySize) = Count(hdr) + 1
         /\ \A i \in 0 .. Count(hdr) - 1 : Offset(i) # hdr
<1>1. PICK k \in 0 .. Capacity - 1 : hdr = Offset(k)
  BY HeaderIndex
<1>2. k \in Nat /\ k + 1 \in Nat /\ Capacity \in Nat
  BY <1>1, CapacityBounds
<1>3. Count(hdr) = k /\ hdr + EntrySize = Offset(k + 1) /\ Count(Offset(k + 1)) = k + 1
  BY <1>1, <1>2, CountOfOffset
<1>4. \A i \in 0 .. k - 1 : Offset(i) # Offset(k)
  BY <1>2, OffsetsDiffer
<1>5. k + 1 = Capacity \/ k + 1 \in 0 .. Capacity - 1
  BY <1>1, <1>2
<1>6. QED
  BY <1>1, <1>2, <1>3, <1>4, <1>5 DEF Offsets

LEMMA FirstCell ==
  /\ HeaderSize = Offset(0) /\ HeaderSize \in Offsets /\ Valid(HeaderSize)
  /\ Count(HeaderSize) = 0 /\ Count(Invalid) = 0
<1>1. HeaderSize = Offset(0)
  BY DEF Offset, HeaderSize, EntrySize
<1>2. Count(HeaderSize) = 0 /\ Count(Invalid) = 0
  BY <1>1, CountOfOffset DEF Count
<1>3. HeaderSize \in Offsets
  BY <1>1, CapacityBounds DEF Offsets
<1>4. QED
  BY <1>1, <1>2, <1>3, SecbootAssumption DEF Valid, HeaderSize, Invalid

LEMMA ReadableIs ==
  ASSUME TypeOK
  PROVE  /\ Readable = [i \in 1 .. Count(nor_hdr) |-> nor[Offset(i - 1)]]
         /\ Len(Readable) = Count(nor_hdr)
         /\ Readable \in Seq(Cells)
<1>1. Count(nor_hdr) \in 0 .. Capacity /\ Capacity \in Nat
  BY CountIsNat, CapacityBounds
<1>2. \A i \in 1 .. Count(nor_hdr) : nor[Offset(i - 1)] \in Cells
  <2> TAKE i \in 1 .. Count(nor_hdr)
  <2>1. i - 1 \in 0 .. Capacity - 1
    BY <1>1
  <2>2. Offset(i - 1) \in Offsets
    BY <2>1 DEF Offsets
  <2>3. QED
    BY <2>2 DEF TypeOK, Cells
<1>3. QED
  BY <1>1, <1>2 DEF Readable

\* What a completed update of the header leaves a reader: the entry appended, if the
\* headers agreed, or else the first entry alone.
LEMMA UpdateShows ==
  ASSUME Inv, UpdateHeader, nor_hdr' = log_hdr + EntrySize
  PROVE  /\ log_hdr \in Offsets /\ nor[log_hdr] \in Cells
         /\ log_hdr = nor_hdr =>
              Len(Readable) < Capacity /\ Readable' = Append(Readable, nor[log_hdr])
         /\ log_hdr # nor_hdr => Readable' = <<nor[log_hdr]>>
<1>1. /\ Valid(log_hdr) /\ TypeOK /\ (log_hdr = nor_hdr \/ log_hdr = HeaderSize)
      /\ log_hdr \in {Invalid, Offset(Capacity)} \cup Offsets /\ nor' = nor
  BY HeadersTyped DEF Inv, HeaderInv, UpdateHeader, LoopPc
<1> DEFINE k == Count(log_hdr)
<1>2. /\ log_hdr = Offset(k) /\ k \in 0 .. Capacity - 1 /\ k \in Nat /\ log_hdr \in Offsets
      /\ Count(nor_hdr)' = k + 1
  BY <1>1, NextCell, CapacityBounds
<1>3. Readable' = [i \in 1 .. k + 1 |-> nor[Offset(i - 1)]]
  BY <1>1, <1>2 DEF Readable
<1>4. nor[log_hdr] \in Cells
  BY <1>1, <1>2 DEF TypeOK, Cells
<1>5. CASE log_hdr = nor_hdr
  <2>1. /\ Readable = [i \in 1 .. k |-> nor[Offset(i - 1)]] /\ Len(Readable) = k
        /\ Readable \in Seq(Cells)
    BY <1>1, <1>5, ReadableIs
  <2>2. Append(Readable, nor[log_hdr])
          = [i \in 1 .. k + 1 |-> IF i = k + 1 THEN nor[log_hdr] ELSE Readable[i]]
    <3> DEFINE r == Readable
               c == nor[log_hdr]
    <3>1. r \in Seq(Cells) /\ Len(r) = k /\ k \in Nat
      BY <1>2, <2>1
    <3> HIDE DEF r, c, k
    <3>2. QED
      BY <3>1 DEF r, c, k
  <2> HIDE DEF k
  <2>3. \A i \in 1 .. k + 1 :
          nor[Offset(i - 1)] = IF i = k + 1 THEN nor[log_hdr] ELSE Readable[i]
    BY <1>2, <2>1
  <2>4. Readable' = Append(Readable, nor[log_hdr])
    BY <1>3, <2>2, <2>3
  <2>5. k < Capacity
    BY <1>2, CapacityBounds
  <2>6. QED
    BY <1>2, <1>4, <1>5, <2>1, <2>4, <2>5
<1>6. CASE log_hdr # nor_hdr
  <2>1. k = 0
    BY <1>1, <1>6, FirstCell
  <2>2. Readable' = [i \in 1 .. 1 |-> nor[Offset(i - 1)]]
    BY <1>3, <2>1
  <2>3. Readable' = <<nor[log_hdr]>>
    BY <1>2, <2>1, <2>2
  <2>4. QED
    BY <1>2, <1>4, <1>6, <2>3
<1>7. QED
  BY <1>5, <1>6

-----------------------------------------------------------------------------
(* Every step preserves the invariant *)

\* A step that leaves the flash as it is
LEMMA SameFlash ==
  ASSUME Inv, TypeOK', HeaderInv', NoFaultInv', ErrorInv', UNCHANGED <<nor, nor_hdr>>,
         fault => fault', boots' = boots,
         pc' \in BeforeError \cup {"returned"} => pc \in BeforeError \cup {"returned"},
         pc' = "panic" => pc = "panic" /\ UNCHANGED error
  PROVE  Inv'
<1>1. CellInv'
  BY DEF Inv, CellInv
<1>2. Readable' = Readable
  BY DEF Readable
<1>3. PanicInv'
  BY <1>2 DEF Inv, PanicInv
<1>4. QED
  BY <1>1, <1>3, InvParts

LEMMA InitInv == Init => Inv
<1> SUFFICES ASSUME Init PROVE Inv
  OBVIOUS
<1>1. TypeOK
  <2>1. nor \in [Offsets -> Entry \cup {Blank, Torn}]
    BY DEF Init
  <2>2. 1 \in 1 .. NumImages + 1 /\ 0 \in 0 .. MaxBoots
    BY SecbootAssumption
  <2>3. QED
    BY <2>1, <2>2 DEF Init, TypeOK
<1>2. HeaderInv /\ NoFaultInv /\ ErrorInv /\ PanicInv
  BY DEF Init, HeaderInv, NoFaultInv, ErrorInv, PanicInv, LoopPc, LogPc, InitPc
<1>3. CellInv
  BY DEF Init, CellInv, Entry, Blank
<1>4. QED
  BY <1>1, <1>2, <1>3 DEF Inv

LEMMA PowerOnStep == ASSUME Inv, PowerOn PROVE Inv'
<1>1. boots \in Nat /\ boots' \in 0 .. MaxBoots /\ boots' = boots + 1
  BY SecbootAssumption DEF Inv, TypeOK, PowerOn
<1>2. 1 \in 1 .. NumImages + 1
  BY SecbootAssumption
<1>3. TypeOK'
  BY <1>1, <1>2 DEF Inv, TypeOK, PowerOn
<1>4. HeaderInv' /\ NoFaultInv' /\ ErrorInv' /\ PanicInv'
  BY <1>1 DEF HeaderInv, NoFaultInv, ErrorInv, PanicInv, LoopPc, LogPc, InitPc, PowerOn
<1>5. CellInv'
  <2> SUFFICES ASSUME NEW o \in Offsets, nor[o] \in Entry
               PROVE  nor[o].boot < boots + 1 /\ nor[o].boot <= boots + 1
    BY <1>1 DEF CellInv, PowerOn
  <2>1. nor[o].boot <= boots /\ nor[o].boot \in Nat
    BY SecbootAssumption DEF Inv, CellInv, Entry
  <2>2. QED
    BY <1>1, <2>1
<1>6. QED
  BY <1>3, <1>4, <1>5, InvParts

\* Reading the header, and the check for room
LEMMA ReadStep ==
  ASSUME Inv, ReadHeader \/ LogError
  PROVE  Inv'
<1>1. /\ UNCHANGED <<nor, nor_hdr, node, error, boots>> /\ fault' \in BOOLEAN /\ (fault => fault')
      /\ log_hdr' \in {nor_hdr, log_hdr, Invalid}
  BY DEF Inv, TypeOK, ReadHeader, LogError, nor_flash_read
<1>2. TypeOK'
  <2>1. pc' \in {"init", "erase", "pre", "write_entry"} /\ ret' \in {"pre", "write_entry", "none"}
    BY DEF Inv, TypeOK, HeaderInv, InitPc, ReadHeader, LogError
  <2>2. QED
    BY <1>1, <2>1 DEF Inv, TypeOK
<1>3. HeaderInv'
  BY DEF Inv, HeaderInv, LoopPc, InitPc, ReadHeader, LogError, nor_flash_read, Valid, Invalid
<1>4. NoFaultInv'
  BY DEF Inv, HeaderInv, NoFaultInv, LoopPc, InitPc, ReadHeader, LogError, nor_flash_read, Valid
<1>5. ErrorInv'
  BY DEF Inv, HeaderInv, ErrorInv, LogPc, InitPc, ReadHeader, LogError
<1>6. pc \in BeforeError /\ pc' # "panic"
  BY DEF Inv, HeaderInv, BeforeError, LoopPc, InitPc, ReadHeader, LogError
<1>7. QED
  BY <1>1, <1>2, <1>3, <1>4, <1>5, <1>6, SameFlash

LEMMA EraseStep ==
  ASSUME Inv, EraseSector \/ WriteNewHeader
  PROVE  Inv'
<1>1. ret \in {"pre", "write_entry"} /\ pc \in BeforeError /\ pc' \in BeforeError /\ pc' # "panic"
  BY DEF Inv, HeaderInv, BeforeError, LoopPc, InitPc, EraseSector, WriteNewHeader
<1>2. TypeOK'
  <2>1. nor' \in [Offsets -> Entry \cup {Blank, Torn}]
    BY DEF Inv, TypeOK, EraseSector, WriteNewHeader
  <2>2. /\ nor_hdr' \in {nor_hdr, Invalid, HeaderSize} /\ log_hdr' \in {log_hdr, HeaderSize}
        /\ fault' \in BOOLEAN /\ pc' \in {"init_header", "pre", "write_entry"}
        /\ UNCHANGED <<ret, node, error, boots>>
    BY <1>1 DEF Inv, TypeOK, EraseSector, WriteNewHeader, WriteHeader
  <2>3. QED
    BY <2>1, <2>2, FirstCell DEF Inv, TypeOK
<1>3. HeaderInv'
  BY <1>1, FirstCell DEF Inv, HeaderInv, LoopPc, InitPc, EraseSector, WriteNewHeader
<1>4. NoFaultInv'
  BY <1>1 DEF Inv, NoFaultInv, LoopPc, InitPc, EraseSector, WriteNewHeader, WriteHeader, Valid
<1>5. ErrorInv'
  BY <1>1 DEF Inv, ErrorInv, LogPc, InitPc, EraseSector, WriteNewHeader
<1>6. CellInv'
  <2>1. nor' = nor \/ nor' = [o \in Offsets |-> Blank]
    BY DEF EraseSector, WriteNewHeader
  <2>2. Blank \notin Entry /\ boots' = boots
    BY DEF Blank, Entry, EraseSector, WriteNewHeader
  <2>3. QED
    BY <1>1, <2>1, <2>2 DEF Inv, CellInv
<1>7. PanicInv'
  BY <1>1 DEF PanicInv
<1>8. QED
  BY <1>2, <1>3, <1>4, <1>5, <1>6, <1>7, InvParts

\* A cell is filled, or torn by a power loss or a failing write, or left as it is.
LEMMA CellStep ==
  ASSUME Inv, WriteEntry \/ PowerLoss
  PROVE  Inv'
<1>1. UNCHANGED <<nor_hdr, log_hdr, ret, node, error, boots>> /\ pc' \in {"off", "update_header"}
  BY DEF WriteEntry, PowerLoss
<1>2. \/ UNCHANGED nor
      \/ /\ pc = "write_entry"
         /\ nor' \in {[nor EXCEPT ![log_hdr] = error], [nor EXCEPT ![log_hdr] = Torn]}
  BY DEF WriteEntry, PowerLoss
<1>3. nor \in [Offsets -> Entry \cup {Blank, Torn}] /\ boots \in Nat
  BY SecbootAssumption DEF Inv, TypeOK
<1>4. pc = "write_entry" => log_hdr \in Offsets /\ error \in Entry /\ error.boot = boots
  BY HeadersTyped, NextCell DEF Inv, HeaderInv, ErrorInv, LoopPc, LogPc
<1>5. TypeOK'
  <2>1. nor' \in [Offsets -> Entry \cup {Blank, Torn}]
    BY <1>2, <1>3, <1>4
  <2>2. fault' \in BOOLEAN
    BY DEF Inv, TypeOK, WriteEntry, PowerLoss
  <2>3. QED
    BY <1>1, <2>1, <2>2 DEF Inv, TypeOK
<1>6. HeaderInv'
  BY <1>1 DEF Inv, HeaderInv, LoopPc, InitPc, WriteEntry, PowerLoss
<1>7. NoFaultInv'
  <2>1. WriteEntry /\ ~fault' => ~fault /\ nor'[log_hdr] = error
    <3>1. WriteEntry /\ ~fault' => fault' = fault /\ nor' = [nor EXCEPT ![log_hdr] = error]
      BY Zenon DEF WriteEntry
    <3>2. WriteEntry /\ ~fault' => ~fault
      BY Zenon, <3>1
    <3>3. WriteEntry /\ ~fault' => nor'[log_hdr] = error
      BY <1>3, <1>4, <3>1 DEF WriteEntry
    <3>4. QED
      BY Zenon, <3>2, <3>3
  <2>2. QED
    BY <1>1, <2>1 DEF Inv, NoFaultInv, LoopPc, InitPc, WriteEntry, PowerLoss
<1>8. ErrorInv'
  BY <1>1 DEF Inv, ErrorInv, LogPc, InitPc, WriteEntry, PowerLoss
<1>9. CellInv'
  <2> SUFFICES ASSUME NEW o \in Offsets, nor'[o] \in Entry PROVE nor'[o].boot <= boots
    BY <1>1 DEF CellInv, BeforeError, LoopPc, InitPc
  <2>1. Torn \notin Entry
    BY DEF Torn, Entry
  <2>2. nor'[o] = nor[o] \/ (nor'[o] = error /\ pc = "write_entry")
    BY <1>2, <1>3, <1>4, <2>1
  <2>3. nor[o] \in Entry => nor[o].boot <= boots
    BY DEF Inv, CellInv
  <2>4. QED
    BY <1>3, <1>4, <2>2, <2>3
<1>10. PanicInv'
  BY <1>1 DEF PanicInv
<1>11. QED
  BY <1>5, <1>6, <1>7, <1>8, <1>9, <1>10, InvParts

\* The header announces the new entry, if the driver writes it.
LEMMA UpdateStep == ASSUME Inv, UpdateHeader PROVE Inv'
<1>1. log_hdr + EntrySize \in {Offset(Capacity)} \cup Offsets
  BY HeadersTyped, NextCell DEF Inv, HeaderInv, UpdateHeader, LoopPc
<1>2. TypeOK'
  <2>1. fault' \in BOOLEAN /\ nor_hdr' \in {nor_hdr, log_hdr + EntrySize}
    BY DEF Inv, TypeOK, UpdateHeader, WriteHeader
  <2>2. QED
    BY <1>1, <2>1 DEF Inv, TypeOK, UpdateHeader
<1>3. HeaderInv' /\ NoFaultInv'
  BY DEF HeaderInv, NoFaultInv, LoopPc, InitPc, UpdateHeader
<1>4. ErrorInv'
  BY DEF Inv, ErrorInv, LogPc, InitPc, UpdateHeader
<1>5. CellInv'
  BY DEF Inv, CellInv, BeforeError, LoopPc, InitPc, UpdateHeader
<1>6. PanicInv'
  <2> SUFFICES ASSUME ~fault' PROVE Readable' # <<>> /\ Readable'[Len(Readable')] = error
    BY DEF PanicInv, UpdateHeader
  <2>1. nor_hdr' = log_hdr + EntrySize /\ nor[log_hdr] = error
    BY DEF Inv, NoFaultInv, UpdateHeader, WriteHeader
  <2>2. Readable' = Append(Readable, error) \/ Readable' = <<error>>
    BY <2>1, UpdateShows
  <2>3. Append(Readable, error) # <<>> /\ Append(Readable, error)[Len(Append(Readable, error))] = error
    <3>1. Readable \in Seq(Cells) /\ error \in Cells
      BY <2>1, ReadableIs, UpdateShows DEF Inv
    <3> DEFINE r == Readable
    <3>2. r \in Seq(Cells)
      BY <3>1
    <3> HIDE DEF r
    <3>3. /\ Append(r, error) # <<>> /\ Len(Append(r, error)) = Len(r) + 1
          /\ Append(r, error)[Len(r) + 1] = error
      BY <3>1, <3>2
    <3>4. QED
      BY <3>3 DEF r
  <2>4. QED
    BY <2>2, <2>3
<1>7. QED
  BY <1>2, <1>3, <1>4, <1>5, <1>6, InvParts

\* The load loop does not touch the log.
LEMMA LoopStep ==
  ASSUME Inv, PreImageLoad \/ LoadAuthImage \/ PostImageLoad \/ HandOver
  PROVE  Inv'
<1>1. /\ pc \in {"pre", "load", "post"} /\ node \in 1 .. NumImages + 1
      /\ (pc \in {"load", "post"} => node \in Images) /\ boots \in 1 .. MaxBoots
  BY SecbootAssumption
  DEF Inv, TypeOK, ErrorInv, PreImageLoad, LoadAuthImage, PostImageLoad, HandOver
<1>2. UNCHANGED <<nor, nor_hdr, log_hdr, ret, boots, fault>>
  BY DEF PreImageLoad, LoadAuthImage, PostImageLoad, HandOver, Fail, Pass
<1>3. \/ /\ pc' = "log_error" /\ node' = node /\ node \in Images
         /\ error' \in Entry /\ error'.boot = boots /\ error'.image = node
      \/ /\ pc' = "load" /\ error' = error /\ node' = node /\ node \in Images
      \/ /\ pc' = "post" /\ error' = error /\ node' = node /\ node \in Images
      \/ /\ pc' = "pre" /\ error' = error /\ node' = node + 1 /\ node \in Images
      \/ /\ pc' = "returned" /\ error' = error /\ node' = node
  BY <1>1 DEF PreImageLoad, LoadAuthImage, PostImageLoad, HandOver, Fail, Pass, Entry
<1>4. node' \in 1 .. NumImages + 1
  BY <1>1, <1>3, SecbootAssumption DEF Images
<1>5. TypeOK'
  BY <1>2, <1>3, <1>4 DEF Inv, TypeOK
<1>6. HeaderInv' /\ NoFaultInv'
  BY <1>1, <1>2, <1>3 DEF Inv, HeaderInv, NoFaultInv, LoopPc, InitPc
<1>7. ErrorInv'
  BY <1>1, <1>2, <1>3 DEF ErrorInv, LogPc, InitPc
<1>8. pc \in BeforeError /\ pc' # "panic"
  BY <1>1, <1>3 DEF BeforeError, LoopPc
<1>9. QED
  BY <1>2, <1>5, <1>6, <1>7, <1>8, SameFlash

LEMMA NextInv == Inv /\ [Next]_vars => Inv'
<1> SUFFICES ASSUME Inv, [Next]_vars PROVE Inv'
  OBVIOUS
<1>1. CASE UNCHANGED vars
  <2>1. TypeOK' /\ HeaderInv' /\ NoFaultInv' /\ ErrorInv'
    BY <1>1 DEF Inv, TypeOK, HeaderInv, NoFaultInv, ErrorInv, Valid, vars
  <2>2. QED
    BY <1>1, <2>1, SameFlash DEF vars
<1>2. CASE Next
  BY <1>2, PowerOnStep, ReadStep, EraseStep, CellStep, UpdateStep, LoopStep DEF Next, Bl2Step
<1>3. QED
  BY <1>1, <1>2

LEMMA Invariant == Spec => []Inv
<1>1. Init => Inv
  BY InitInv
<1>2. Inv /\ [Next]_vars => Inv'
  BY NextInv
<1>3. QED
  BY <1>1, <1>2, PTL DEF Spec

-----------------------------------------------------------------------------
(* Theorems *)

(* The offsets in RAM and in flash never go further than one entry past the *)
(* last offset that is below the size of the log.                           *)
THEOREM SecbootTypes == Spec => []TypeOK
<1>1. Inv => TypeOK
  BY DEF Inv
<1>2. QED
  BY <1>1, Invariant, PTL

(* When BL2 has stopped in plat_error_handler() the reason is the last      *)
(* entry of the log, however often power was lost or the flash driver       *)
(* failed in earlier boots, provided it worked in this one.  A boot that    *)
(* goes on or has handed over left no entry, whatever the driver did.       *)
THEOREM StopIsOnRecord == Spec => []FailureOnRecord
<1>1. Inv => FailureOnRecord
  <2> SUFFICES ASSUME Inv PROVE FailureOnRecord
    OBVIOUS
  <2>1. ASSUME pc \in {"pre", "load", "post", "returned"}, NEW i \in DOMAIN Readable,
               Readable[i] \in Entry
        PROVE  Readable[i].boot # boots
    <3>1. Count(nor_hdr) \in 0 .. Capacity /\ Capacity \in Nat
      BY CountIsNat, CapacityBounds DEF Inv
    <3>2. i \in 1 .. Count(nor_hdr) /\ Readable[i] = nor[Offset(i - 1)]
      BY <2>1 DEF Readable
    <3>3. i - 1 \in 0 .. Capacity - 1
      BY <3>1, <3>2
    <3>4. Offset(i - 1) \in Offsets
      BY <3>3 DEF Offsets
    <3>5. Readable[i].boot < boots /\ boots \in Nat /\ Readable[i].boot \in Nat
      BY <2>1, <3>2, <3>4, SecbootAssumption
      DEF Inv, TypeOK, CellInv, BeforeError, LoopPc, Entry
    <3>6. QED
      BY <3>5
  <2>2. pc = "panic" /\ ~fault =>
          /\ Readable # <<>> /\ Readable[Len(Readable)] = error
          /\ error.boot = boots /\ error.image = node
    BY DEF Inv, ErrorInv, PanicInv
  <2>3. QED
    BY <2>1, <2>2 DEF FailureOnRecord
<1>2. QED
  BY <1>1, Invariant, PTL

\* What a log taken for an empty one costs: its first entry.
LEMMA FirstSpoilt ==
  ASSUME Inv, WriteEntry \/ PowerLoss, Readable' # Readable
  PROVE  /\ fault' /\ Readable # <<>>
         /\ \E e \in Cells : Readable' = [Readable EXCEPT ![1] = e]
<1>1. PICK e \in Cells : /\ pc = "write_entry" /\ nor' = [nor EXCEPT ![log_hdr] = e]
                         /\ nor_hdr' = nor_hdr
  <2>1. nor' # nor /\ nor_hdr' = nor_hdr
    BY DEF WriteEntry, PowerLoss, Readable
  <2>2. pc = "write_entry" => error \in Cells /\ Torn \in Cells
    BY DEF Inv, ErrorInv, LogPc, Cells
  <2>3. QED
    BY <2>1, <2>2 DEF WriteEntry, PowerLoss
<1>2. TypeOK /\ TypeOK' /\ Valid(log_hdr) /\ (log_hdr = nor_hdr \/ log_hdr = HeaderSize)
  BY <1>1, CellStep DEF Inv, HeaderInv, LoopPc
<1>3. nor \in [Offsets -> Entry \cup {Blank, Torn}]
  BY <1>2 DEF TypeOK
<1> DEFINE k == Count(nor_hdr)
<1>4. k \in 0 .. Capacity /\ Capacity \in Nat /\ Count(nor_hdr)' = k
  BY <1>1, <1>2, CountIsNat, CapacityBounds
<1>5. \A i \in 1 .. k : Offset(i - 1) \in Offsets
  <2> TAKE i \in 1 .. k
  <2>1. i - 1 \in 0 .. Capacity - 1
    BY <1>4
  <2>2. QED
    BY <2>1 DEF Offsets
<1>6. /\ Readable = [i \in 1 .. k |-> nor[Offset(i - 1)]]
      /\ Readable' = [i \in 1 .. k |-> nor'[Offset(i - 1)]]
  BY <1>1 DEF Readable
<1>7. log_hdr # nor_hdr
  <2> SUFFICES ASSUME log_hdr = nor_hdr PROVE FALSE
    OBVIOUS
  <2>1. nor_hdr \in Offsets /\ \A i \in 0 .. k - 1 : Offset(i) # nor_hdr
    BY <1>2, HeadersTyped, NextCell
  <2>2. \A i \in 1 .. k : nor'[Offset(i - 1)] = nor[Offset(i - 1)]
    <3> TAKE i \in 1 .. k
    <3>1. i - 1 \in 0 .. k - 1
      BY <1>4
    <3>2. QED
      BY <1>1, <1>3, <1>5, <2>1, <3>1
  <2>3. QED
    BY <1>6, <2>2
<1>8. log_hdr = Offset(0) /\ fault'
  BY <1>1, <1>2, <1>7, FirstCell DEF Inv, NoFaultInv, LoopPc, WriteEntry, PowerLoss
<1>9. k >= 1
  <2>1. k = 0 => Readable' = Readable
    BY <1>6
  <2>2. QED
    BY <1>4, <2>1
<1>10. Readable' = [Readable EXCEPT ![1] = e]
  <2>1. \A i \in 1 .. k : nor'[Offset(i - 1)] = IF i = 1 THEN e ELSE nor[Offset(i - 1)]
    <3> TAKE i \in 1 .. k
    <3>1. i - 1 \in Nat /\ (i # 1 => Offset(i - 1) # Offset(0))
      BY <1>4, OffsetsDiffer
    <3>2. i = 1 => Offset(i - 1) = Offset(0)
      OBVIOUS
    <3>3. QED
      BY <1>1, <1>3, <1>5, <1>8, <3>1, <3>2
  <2> HIDE DEF k
  <2>2. QED
    BY <1>6, <2>1
<1>11. Readable # <<>>
  BY <1>2, <1>9, ReadableIs
<1>12. QED
  BY <1>8, <1>10, <1>11

(* The log is append-only and emptied only when it is full, except in a     *)
(* boot in which the flash driver failed: that boot can throw the log away  *)
(* or spoil its first entry, announce a cell without an entry, and no more. *)
THEOREM LogIsAppendOnly == Spec => AppendSpec
<1>1. Init => Log!AppendInit
  BY DEF Init, Log!AppendInit, Readable, Count
<1>2. Inv /\ [Next]_vars => [Log!AppendNext]_(Readable)
  <2> SUFFICES ASSUME Inv, [Next]_vars, Readable' # Readable PROVE Log!AppendNext
    OBVIOUS
  <2>1. CASE UpdateHeader
    <3>1. nor_hdr' = log_hdr + EntrySize
      BY <2>1 DEF UpdateHeader, WriteHeader, Readable
    <3>2. /\ nor[log_hdr] \in Cells
          /\ log_hdr = nor_hdr =>
               Len(Readable) < Capacity /\ Readable' = Append(Readable, nor[log_hdr])
          /\ log_hdr # nor_hdr => Readable' = <<nor[log_hdr]>>
      BY <2>1, <3>1, UpdateShows
    <3>3. CASE fault'
      BY <3>2, <3>3 DEF Log!AppendNext, Log!Damage, Cells
    <3>4. CASE ~fault'
      <4>1. ~fault /\ nor[log_hdr] = error /\ log_hdr = nor_hdr /\ error \in Entry
        BY <2>1, <3>4 DEF UpdateHeader, WriteHeader, Inv, TypeOK, NoFaultInv, ErrorInv, LoopPc, LogPc
      <4>2. QED
        BY <3>2, <4>1 DEF Log!AppendNext, Log!Append1
    <3>5. QED
      BY <3>3, <3>4
  <2>2. CASE EraseSector
    <3>1. Readable' = <<>>
      BY <2>2 DEF EraseSector, Readable, Count
    <3>2. CASE fault'
      BY <3>1, <3>2 DEF Log!AppendNext, Log!Damage
    <3>3. CASE ~fault'
      <4>1. ~Valid(nor_hdr) /\ TypeOK
        BY <2>2, <3>3 DEF Inv, NoFaultInv, EraseSector
      <4>2. nor_hdr \in {Invalid, Offset(Capacity)}
        BY <4>1, HeadersTyped, HeaderIndex
      <4>3. Len(Readable) = Count(nor_hdr)
        BY <4>1, ReadableIs
      <4>4. nor_hdr # Invalid
        <5>1. nor_hdr = Invalid => Count(nor_hdr) = 0
          BY FirstCell
        <5>2. nor_hdr = Invalid => Readable = <<>>
          BY <5>1 DEF Readable
        <5>3. QED
          BY <3>1, <5>2
      <4>5. Count(nor_hdr) = Capacity /\ Capacity \in Nat
        BY <4>2, <4>4, CountOfOffset, CapacityBounds
      <4>6. QED
        BY <3>1, <4>3, <4>5 DEF Log!AppendNext, Log!Clear
    <3>4. QED
      BY <3>2, <3>3
  <2>3. CASE WriteNewHeader
    <3>1. nor_hdr' = HeaderSize /\ nor' = nor
      BY <2>3 DEF WriteNewHeader, WriteHeader, Readable
    <3>2. Readable' = <<>>
      BY <3>1, FirstCell DEF Readable
    <3>3. fault'
      <4>1. nor_hdr = Invalid => Readable = <<>>
        BY FirstCell DEF Readable
      <4>2. QED
        BY <2>3, <3>2, <4>1 DEF Inv, TypeOK, NoFaultInv, WriteNewHeader, WriteHeader
    <3>4. QED
      BY <3>2, <3>3 DEF Log!AppendNext, Log!Damage
  <2>4. CASE WriteEntry \/ PowerLoss
    BY <2>4, FirstSpoilt DEF Log!AppendNext, Log!Damage, Cells
  <2>5. CASE UNCHANGED <<nor, nor_hdr>>
    BY <2>5 DEF Readable
  <2>6. QED
    BY <2>1, <2>2, <2>3, <2>4, <2>5
    DEF Next, Bl2Step, vars, PowerOn, ReadHeader, LogError, PreImageLoad, LoadAuthImage,
        PostImageLoad, HandOver, Fail, Pass
<1>3. QED
  BY <1>1, <1>2, Invariant, PTL DEF Spec, AppendSpec, Log!AppendSpec

-----------------------------------------------------------------------------
(* A boot comes to an end *)

WalkLeft == 3 * (NumImages + 1 - node)

\* How many steps BL2 has left before it hands over or stops.
StepsLeft ==
  CASE pc = "init" /\ ret = "pre"                -> 3 * NumImages + 9
    [] pc = "erase" /\ ret = "pre"               -> 3 * NumImages + 8
    [] pc = "init_header" /\ ret = "pre"         -> 3 * NumImages + 7
    [] pc = "pre"                                -> WalkLeft + 6
    [] pc = "load"                               -> WalkLeft + 5
    [] pc = "post"                               -> WalkLeft + 4
    [] pc = "log_error"                          -> 6
    [] pc = "init" /\ ret = "write_entry"        -> 5
    [] pc = "erase" /\ ret = "write_entry"       -> 4
    [] pc = "init_header" /\ ret = "write_entry" -> 3
    [] pc = "write_entry"                        -> 2
    [] pc = "update_header"                      -> 1
    [] OTHER                                     -> 0

(* Each step of BL2 leaves it fewer to go.  In particular the second        *)
(* secboot_log_init(), that of a log with no room for a whole entry, cannot *)
(* send the boot round again, even when the driver fails.                   *)
BootAdvances == [][Bl2Step => StepsLeft' < StepsLeft]_vars

LEMMA StepsLeftBounded == ASSUME Inv PROVE StepsLeft \in 0 .. 3 * NumImages + 9
<1>1. NumImages \in Nat /\ node \in 1 .. NumImages + 1
  BY SecbootAssumption DEF Inv, TypeOK
<1>2. WalkLeft \in 0 .. 3 * NumImages
  BY <1>1 DEF WalkLeft
<1>3. QED
  BY <1>1, <1>2 DEF StepsLeft

LEMMA StepAdvances == ASSUME Inv, Inv', Bl2Step PROVE StepsLeft' < StepsLeft
<1>1. /\ NumImages \in Nat /\ node \in 1 .. NumImages + 1 /\ node' \in 1 .. NumImages + 1
      /\ (pc \in {"load", "post"} => node \in 1 .. NumImages)
  BY SecbootAssumption DEF Inv, TypeOK, ErrorInv, Images
<1>2. CASE ReadHeader
  <2>1. \/ pc = "init" /\ ret = "pre" /\ ret' = ret /\ pc' \in {"pre", "erase"} /\ node' = node
        \/ pc = "init" /\ ret = "write_entry" /\ ret' = ret /\ pc' \in {"write_entry", "erase"}
    BY <1>2 DEF ReadHeader, Inv, HeaderInv, InitPc
  <2>2. QED
    BY <1>1, <2>1 DEF StepsLeft, WalkLeft
<1>3. CASE EraseSector \/ WriteNewHeader
  <2>1. /\ ret \in {"pre", "write_entry"} /\ ret' = ret /\ node' = node
        /\ \/ pc = "erase" /\ pc' = "init_header"
           \/ pc = "init_header" /\ pc' = ret
    BY <1>3 DEF EraseSector, WriteNewHeader, Inv, HeaderInv, InitPc
  <2>2. QED
    BY <1>1, <2>1 DEF StepsLeft, WalkLeft
<1>4. CASE LogError \/ WriteEntry \/ UpdateHeader
  <2>1. \/ pc = "log_error" /\ pc' = "init" /\ ret' = "write_entry"
        \/ pc = "log_error" /\ pc' = "write_entry"
        \/ pc = "write_entry" /\ pc' = "update_header"
        \/ pc = "update_header" /\ pc' = "panic"
    BY <1>4 DEF LogError, WriteEntry, UpdateHeader
  <2>2. QED
    BY <2>1 DEF StepsLeft
<1>5. CASE PreImageLoad \/ LoadAuthImage \/ PostImageLoad \/ HandOver
  <2>1. \/ pc \in {"pre", "load", "post"} /\ pc' = "log_error" /\ node \in 1 .. NumImages
        \/ pc = "pre" /\ pc' \in {"load", "post", "returned"} /\ node' = node
        \/ pc = "load" /\ pc' = "post" /\ node' = node
        \/ pc = "post" /\ pc' = "pre" /\ node' = node + 1
    BY <1>1, <1>5 DEF PreImageLoad, LoadAuthImage, PostImageLoad, HandOver, Fail, Pass, Images
  <2>2. QED
    BY <1>1, <2>1 DEF StepsLeft, WalkLeft
<1>6. QED
  BY <1>2, <1>3, <1>4, <1>5 DEF Bl2Step

(* Every boot is decided after 3 * NumImages + 9 steps of BL2 at most,      *)
(* whatever earlier boots and power losses left in flash and whatever calls *)
(* of its driver fail.                                                      *)
THEOREM NorBootIsBounded == Spec => [](StepsLeft \in 0 .. 3 * NumImages + 9) /\ BootAdvances
<1>1. Inv => StepsLeft \in 0 .. 3 * NumImages + 9
  BY StepsLeftBounded
<1>2. Inv /\ Inv' /\ [Next]_vars => [Bl2Step => StepsLeft' < StepsLeft]_vars
  BY StepAdvances
<1>3. QED
  BY <1>1, <1>2, Invariant, PTL DEF Spec, BootAdvances

=============================================================================

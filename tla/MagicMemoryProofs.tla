------------------------- MODULE MagicMemoryProofs -------------------------
(***************************************************************************)
(* The properties of MagicMemory for every page size, every number of      *)
(* pages and every file: the loader copies the file byte for byte, and the *)
(* pages implement the flat array of FlatMemory.                           *)
(***************************************************************************)
EXTENDS MagicMemory, DataLemmas, TLAPS

-----------------------------------------------------------------------------
(* Arithmetic of addresses.                                                *)

LEMMA Sizes ==
  /\ PageSize \in Nat /\ PageSize > 0 /\ NumPages \in Nat /\ NumPages > 0
  /\ WordSize \in Nat /\ WordSize > 0 /\ AddrLimit \in Nat /\ AddrLimit > 0
<1>1. /\ PageSize \in Nat /\ PageSize > 0 /\ NumPages \in Nat /\ NumPages > 0
      /\ WordSize \in Nat /\ WordSize > 0
  BY MagicMemoryAssumption
<1>2. \A m, n \in Nat : m > 0 /\ n > 0 => m * n \in Nat /\ m * n > 0
  <2> SUFFICES ASSUME NEW m \in Nat, NEW n \in Nat, m > 0, n > 0 PROVE m * n \in Nat /\ m * n > 0
    OBVIOUS
  <2>1. m - 1 \in Nat /\ n - 1 \in Nat
    OBVIOUS
  <2>2. \A x, y \in Nat : (x + 1) * (y + 1) = x * y + x + y + 1 /\ x * y \in Nat
    OBVIOUS
  <2>3. (m - 1 + 1) * (n - 1 + 1) > 0 /\ (m - 1 + 1) * (n - 1 + 1) \in Nat
    BY <2>1, <2>2
  <2> QED BY <2>3
<1> QED BY <1>1, <1>2 DEF AddrLimit

\* Where an address is: in a page of the address space, at an offset of it.
LEMMA Located ==
  ASSUME NEW a \in Addr
  PROVE  /\ a \in Nat /\ PageNumber(a) \in 0 .. NumPages - 1 /\ PageOffset(a) \in Offset
         /\ PageSize * PageNumber(a) \in Nat
         /\ a = PageSize * PageNumber(a) + PageOffset(a)
<1>1. a \in Nat /\ a < PageSize * NumPages
  BY Sizes DEF Addr, AddrLimit
<1>2. /\ PageNumber(a) \in Nat /\ PageOffset(a) \in Nat /\ PageOffset(a) < PageSize
      /\ PageSize * PageNumber(a) \in Nat
      /\ a = PageSize * PageNumber(a) + PageOffset(a)
  BY <1>1, Division, Sizes DEF PageNumber, PageOffset
<1>3. ~(NumPages < PageNumber(a)) /\ NumPages # PageNumber(a)
  BY <1>1, <1>2, ProductOrder, Sizes
<1>4. PageNumber(a) \in 0 .. NumPages - 1
  BY <1>2, <1>3, Sizes
<1> QED BY <1>1, <1>2, <1>4, Sizes DEF Offset

\* Two addresses with the same page and offset are one.
LEMMA OnePlaceEach ==
  ASSUME NEW a \in Addr, NEW b \in Addr, PageNumber(a) = PageNumber(b)
  PROVE  PageOffset(a) - PageOffset(b) = a - b
  BY Located, Sizes DEF Offset

\* Up to the end of its page, addresses differ from a in their offsets only.
LEMMA WithinPage ==
  ASSUME NEW a \in Addr, NEW j \in Nat, PageOffset(a) + j < PageSize
  PROVE  /\ a + j \in Addr /\ PageNumber(a + j) = PageNumber(a)
         /\ PageOffset(a + j) = PageOffset(a) + j
<1>1. /\ a \in Nat /\ PageNumber(a) \in Nat /\ PageNumber(a) < NumPages /\ PageOffset(a) \in Nat
      /\ PageSize * PageNumber(a) \in Nat
      /\ a = PageSize * PageNumber(a) + PageOffset(a)
  BY Located, Sizes DEF Offset
<1>2. a + j = PageSize * PageNumber(a) + (PageOffset(a) + j) /\ PageOffset(a) + j \in Nat
  BY <1>1
<1>3. PageNumber(a + j) = PageNumber(a) /\ PageOffset(a + j) = PageOffset(a) + j
  BY <1>1, <1>2, DivisionUnique, Sizes DEF PageNumber, PageOffset
<1>4. PageSize * PageNumber(a) + PageSize <= PageSize * NumPages
  BY <1>1, ProductOrder, Sizes
<1>5. a + j < AddrLimit
  BY <1>1, <1>2, <1>4, Sizes DEF AddrLimit
<1> QED BY <1>1, <1>3, <1>5, Sizes DEF Addr

\* Chunk is what is left of the page, and the memory ends with a page.
LEMMA ChunkLength ==
  ASSUME NEW a \in Addr
  PROVE  /\ Chunk(a) = PageSize - PageOffset(a) /\ Chunk(a) \in Nat /\ Chunk(a) > 0
         /\ a + Chunk(a) <= AddrLimit
         /\ NextChunk(a) = IF a + Chunk(a) < AddrLimit THEN a + Chunk(a) ELSE 0
         /\ NextChunk(a) \in Addr
<1>1. /\ a \in Nat /\ PageNumber(a) \in Nat /\ PageNumber(a) < NumPages /\ PageOffset(a) \in Nat
      /\ PageSize * PageNumber(a) \in Nat /\ PageOffset(a) < PageSize
      /\ a = PageSize * PageNumber(a) + PageOffset(a)
  BY Located, Sizes DEF Offset
<1>2. PageNumber(a) * PageSize = PageSize * PageNumber(a)
  BY <1>1, Sizes
<1>3. Chunk(a) = PageSize - PageOffset(a) /\ Chunk(a) \in Nat /\ Chunk(a) > 0
  BY <1>1, <1>2, Sizes DEF Chunk
<1>4. PageSize * PageNumber(a) + PageSize <= PageSize * NumPages
  BY <1>1, ProductOrder, Sizes
<1>5. a + Chunk(a) <= AddrLimit /\ a + Chunk(a) \in Nat
  BY <1>1, <1>3, <1>4, Sizes DEF AddrLimit
<1>6. ASSUME a + Chunk(a) < AddrLimit PROVE NextChunk(a) = a + Chunk(a)
  BY <1>5, <1>6, Sizes DEF NextChunk
<1>7. ASSUME a + Chunk(a) = AddrLimit PROVE NextChunk(a) = 0
  BY <1>7, Sizes DEF NextChunk
<1> QED BY <1>3, <1>5, <1>6, <1>7, Sizes DEF Addr

\* A word at an aligned address lies in one page.
LEMMA WordInPage ==
  ASSUME NEW a \in Aligned, NEW i \in Lanes
  PROVE  a \in Addr /\ i \in Nat /\ PageOffset(a) + i < PageSize
<1> DEFINE q == PageNumber(a)
           r == PageOffset(a)
           m == PageSize \div WordSize
           n == a \div WordSize
<1>1. /\ a \in Addr /\ a \in Nat /\ q \in Nat /\ r \in Nat /\ r < PageSize /\ a = PageSize * q + r
      /\ i \in Nat /\ i < WordSize
  BY Located, Sizes DEF Aligned, Offset, Lanes
<1>2. /\ m \in Nat /\ n \in Nat /\ WordSize * m \in Nat /\ WordSize * n \in Nat
      /\ PageSize = WordSize * m /\ a = WordSize * n
  <2>1. PageSize % WordSize = 0 /\ a % WordSize = 0
    BY MagicMemoryAssumption DEF Aligned
  <2>2. /\ m \in Nat /\ WordSize * m \in Nat /\ PageSize = WordSize * m + (PageSize % WordSize)
    BY Division, Sizes
  <2>3. /\ n \in Nat /\ WordSize * n \in Nat /\ a = WordSize * n + (a % WordSize)
    BY <1>1, Division, Sizes
  <2> QED BY <1>1, <2>1, <2>2, <2>3, Sizes
<1> HIDE DEF q, r, m, n
<1> DEFINE p == m * q
<1>3. p \in Nat /\ WordSize * p \in Nat /\ PageSize * q = WordSize * p
  BY <1>1, <1>2, Sizes
<1>4. p + m \in Nat /\ WordSize * (p + m) = WordSize * p + WordSize * m
  BY <1>2, <1>3, Sizes
<1> HIDE DEF p
<1>5. ~(p + m < n) /\ p + m # n
  <2>1. WordSize * n < WordSize * (p + m)
    BY <1>1, <1>2, <1>3, <1>4
  <2> QED BY <2>1, <1>2, <1>4, ProductOrder, Sizes
<1>6. WordSize * n + WordSize <= WordSize * (p + m)
  BY <1>2, <1>4, <1>5, ProductOrder, Sizes
<1> QED BY <1>1, <1>2, <1>3, <1>4, <1>6, Sizes DEF r

-----------------------------------------------------------------------------
(* The page table.                                                         *)

PagesOK ==
  /\ DOMAIN page_map \subseteq 0 .. NumPages - 1
  /\ page_map \in [DOMAIN page_map -> Page]

\* get_or_create_address adds the page if need be and leaves the others alone.
LEMMA TouchedKeeps ==
  ASSUME PagesOK, NEW a \in Addr, NEW pages \in Touched(a)
  PROVE  /\ DOMAIN pages = DOMAIN page_map \cup {PageNumber(a)}
         /\ DOMAIN pages \subseteq 0 .. NumPages - 1
         /\ pages \in [DOMAIN pages -> Page]
         /\ \A n \in DOMAIN page_map : pages[n] = page_map[n]
<1>1. PageNumber(a) \in 0 .. NumPages - 1
  BY Located
<1>2. CASE PageNumber(a) \in DOMAIN page_map
  BY <1>1, <1>2 DEF PagesOK, Touched
<1>3. CASE PageNumber(a) \notin DOMAIN page_map
  <2>1. PICK garbage \in Page :
          pages = [n \in DOMAIN page_map \cup {PageNumber(a)} |->
                     IF n = PageNumber(a) THEN garbage ELSE page_map[n]]
    BY <1>3 DEF Touched
  <2> QED BY <1>1, <1>3, <2>1 DEF PagesOK
<1> QED BY <1>2, <1>3

\* The byte at an address of a page table: Contents, of page_map.
At(pages, a) ==
  IF PageNumber(a) \in DOMAIN pages THEN pages[PageNumber(a)][PageOffset(a)] ELSE Undefined

\* After a step that touches the page of a and gives it the contents new.
LEMMA PageReplaced ==
  ASSUME PagesOK, NEW a \in Addr, NEW pages \in Touched(a), NEW new \in Page,
         page_map' = [pages EXCEPT ![PageNumber(a)] = new]
  PROVE  /\ PagesOK'
         /\ \A b \in Addr :
              /\ PageNumber(b) = PageNumber(a) => At(page_map', b) = new[PageOffset(b)]
              /\ PageNumber(b) # PageNumber(a) /\ At(page_map, b) # Undefined =>
                   At(page_map', b) = At(page_map, b)
              /\ PageNumber(b) = PageNumber(a) /\ At(page_map, b) # Undefined =>
                   pages[PageNumber(a)][PageOffset(b)] = At(page_map, b)
<1>1. /\ DOMAIN pages = DOMAIN page_map \cup {PageNumber(a)}
      /\ DOMAIN pages \subseteq 0 .. NumPages - 1
      /\ pages \in [DOMAIN pages -> Page]
      /\ \A n \in DOMAIN page_map : pages[n] = page_map[n]
  BY TouchedKeeps
<1>2. DOMAIN page_map' = DOMAIN pages /\ page_map' \in [DOMAIN pages -> Page]
  BY <1>1
<1>3. PagesOK'
  BY <1>1, <1>2 DEF PagesOK
<1>4. page_map'[PageNumber(a)] = new /\ PageNumber(a) \in DOMAIN page_map'
  BY <1>1
<1>5. \A n \in DOMAIN page_map : n # PageNumber(a) => n \in DOMAIN page_map' /\ page_map'[n] = page_map[n]
  BY <1>1
<1> SUFFICES ASSUME NEW b \in Addr
             PROVE  /\ PageNumber(b) = PageNumber(a) => At(page_map', b) = new[PageOffset(b)]
                    /\ PageNumber(b) # PageNumber(a) /\ At(page_map, b) # Undefined =>
                         At(page_map', b) = At(page_map, b)
                    /\ PageNumber(b) = PageNumber(a) /\ At(page_map, b) # Undefined =>
                         pages[PageNumber(a)][PageOffset(b)] = At(page_map, b)
  BY <1>3
<1> QED BY <1>1, <1>4, <1>5 DEF At

-----------------------------------------------------------------------------
(* The loader.                                                             *)

LoaderOK ==
  /\ loading \in BOOLEAN /\ address \in Addr /\ base \in Addr
  /\ file \in Seq(Byte) /\ pos \in 0 .. Len(file)
  /\ base + Len(file) <= AddrLimit
  /\ response \in [Lanes -> Byte \cup {Undefined}]

\* The address follows the file, and wraps around only behind its last byte.
InStep ==
  loading => /\ pos + base <= AddrLimit
             /\ address = IF pos + base < AddrLimit THEN pos + base ELSE 0

MemoryInv == PagesOK /\ LoaderOK /\ InStep /\ FileIsLoaded

LEMMA InitMemory == Init => MemoryInv
<1> SUFFICES ASSUME Init PROVE MemoryInv
  OBVIOUS
<1>1. PagesOK
  BY DEF Init, PagesOK
<1>2. PICK n \in 0 .. MaxFile : file \in [1 .. n -> Byte] /\ base + Len(file) <= AddrLimit
  BY DEF Init
<1>3. n \in Nat /\ file \in Seq(Byte) /\ Len(file) \in Nat
  BY <1>2, MagicMemoryAssumption
<1>4. base \in Addr /\ base \in Nat /\ base < AddrLimit
  BY Sizes DEF Init, Addr
<1>5. LoaderOK
  BY <1>2, <1>3, <1>4 DEF Init, LoaderOK
<1>6. InStep /\ FileIsLoaded
  BY <1>4, Sizes DEF Init, InStep, FileIsLoaded
<1> QED BY <1>1, <1>5, <1>6 DEF MemoryInv

\* What one iteration of the loop copies: its length fits into the page and
\* into what is left of the file.
Room == Len(file) - pos
Size == IF Chunk(address) <= Room THEN Chunk(address) ELSE Room
Copied(page) ==
  [o \in Offset |-> IF o \in PageOffset(address) .. PageOffset(address) + Size - 1
                      THEN file[pos + (o - PageOffset(address)) + 1] ELSE page[o]]

LEMMA CopyFits ==
  ASSUME MemoryInv, loading
  PROVE  /\ Size \in Nat /\ pos \in Nat /\ pos + Size <= Len(file) /\ Len(file) \in Nat
         /\ address \in Nat /\ base \in Nat
         /\ PageOffset(address) \in Nat /\ PageOffset(address) + Size <= PageSize
         /\ Size # Chunk(address) => pos + Size = Len(file)
         /\ pos + base < AddrLimit => address = pos + base
         /\ ~(pos + base < AddrLimit) => Size = 0 /\ pos + Size = Len(file)
<1>1. /\ pos \in Nat /\ Len(file) \in Nat /\ pos <= Len(file) /\ address \in Addr /\ base \in Nat
      /\ address \in Nat /\ base + Len(file) <= AddrLimit
  BY Sizes DEF MemoryInv, LoaderOK, Addr
<1>2. Chunk(address) = PageSize - PageOffset(address) /\ Chunk(address) \in Nat /\ Chunk(address) > 0
  BY <1>1, ChunkLength
<1>3. PageOffset(address) \in Nat
  BY <1>1, Located DEF Offset
<1>4. pos + base < AddrLimit => address = pos + base
  BY DEF MemoryInv, InStep
<1>5. /\ Size \in Nat /\ pos + Size <= Len(file) /\ Size <= Chunk(address)
      /\ Size # Chunk(address) => pos + Size = Len(file)
  BY <1>1, <1>2 DEF Size, Room
<1>6. ASSUME ~(pos + base < AddrLimit) PROVE Size = 0 /\ pos + Size = Len(file)
  <2>1. pos = Len(file)
    BY <1>1, <1>6, Sizes
  <2> QED BY <1>1, <1>2, <2>1 DEF Size, Room
<1> QED BY <1>1, <1>2, <1>3, <1>4, <1>5, <1>6, Sizes

\* One iteration of the loop adds a chunk of the file to what is in memory.
LEMMA LoadKeepsMemory == MemoryInv /\ LoadChunk => MemoryInv'
<1> SUFFICES ASSUME MemoryInv, LoadChunk PROVE MemoryInv'
  OBVIOUS
<1>1. /\ loading /\ pos' = pos + Size /\ loading' = (Size = Chunk(address))
      /\ address' = NextChunk(address) /\ response' = response /\ file' = file /\ base' = base
  BY DEF LoadChunk, Size, Room
<1>2. PICK pages \in Touched(address) :
        page_map' = [pages EXCEPT ![PageNumber(address)] = Copied(pages[PageNumber(address)])]
  BY DEF LoadChunk, Size, Room, Copied
<1>3. /\ Size \in Nat /\ pos \in Nat /\ pos + Size <= Len(file) /\ Len(file) \in Nat
      /\ address \in Nat /\ base \in Nat
      /\ PageOffset(address) \in Nat /\ PageOffset(address) + Size <= PageSize
      /\ Size # Chunk(address) => pos + Size = Len(file)
      /\ pos + base < AddrLimit => address = pos + base
      /\ ~(pos + base < AddrLimit) => Size = 0 /\ pos + Size = Len(file)
  BY <1>1, CopyFits
<1> DEFINE new == Copied(pages[PageNumber(address)])
<1>4. PagesOK /\ address \in Addr /\ file \in Seq(Byte) /\ base \in Addr /\ base + Len(file) <= AddrLimit
  BY DEF MemoryInv, LoaderOK
<1>5. new \in Page
  <2>1. pages[PageNumber(address)] \in Page
    BY <1>4, TouchedKeeps
  <2>2. \A o \in PageOffset(address) .. PageOffset(address) + Size - 1 :
          file[pos + (o - PageOffset(address)) + 1] \in Byte
    <3> SUFFICES ASSUME NEW o \in PageOffset(address) .. PageOffset(address) + Size - 1
                 PROVE file[pos + (o - PageOffset(address)) + 1] \in Byte
      OBVIOUS
    <3>1. pos + (o - PageOffset(address)) + 1 \in 1 .. Len(file)
      BY <1>3
    <3> QED BY <3>1, <1>4
  <2> QED BY <2>1, <2>2 DEF Copied, Page
<1>6. page_map' = [pages EXCEPT ![PageNumber(address)] = new]
  BY <1>2
<1>7. /\ PagesOK'
      /\ \A b \in Addr :
           /\ PageNumber(b) = PageNumber(address) => At(page_map', b) = new[PageOffset(b)]
           /\ PageNumber(b) # PageNumber(address) /\ At(page_map, b) # Undefined =>
                At(page_map', b) = At(page_map, b)
           /\ PageNumber(b) = PageNumber(address) /\ At(page_map, b) # Undefined =>
                pages[PageNumber(address)][PageOffset(b)] = At(page_map, b)
  <2> HIDE DEF new
  <2> QED BY <1>4, <1>5, <1>6, PageReplaced
<1>8. LoaderOK'
  BY <1>1, <1>3, <1>4, ChunkLength DEF MemoryInv, LoaderOK
<1>9. InStep'
  <2> SUFFICES ASSUME loading' PROVE InStep'
    BY DEF InStep
  <2>1. pos + base < AddrLimit /\ Size = Chunk(address) /\ Chunk(address) > 0
    <3>1. Size = Chunk(address)
      BY <1>1
    <3>2. Chunk(address) > 0
      BY <1>4, ChunkLength
    <3> QED BY <1>3, <3>1, <3>2
  <2>2. /\ address + Chunk(address) <= AddrLimit /\ Chunk(address) \in Nat
        /\ NextChunk(address) = IF address + Chunk(address) < AddrLimit THEN address + Chunk(address) ELSE 0
    BY <1>4, ChunkLength
  <2>3. pos' + base' = address + Chunk(address)
    BY <1>1, <1>3, <2>1, <2>2, Sizes
  <2> QED BY <1>1, <2>2, <2>3 DEF InStep, AddrLimit
<1>10. \A k \in 1 .. pos + Size : At(page_map', base + k - 1) = file[k]
  <2> SUFFICES ASSUME NEW k \in 1 .. pos + Size PROVE At(page_map', base + k - 1) = file[k]
    OBVIOUS
  <2> DEFINE b == base + k - 1
  <2>1. b \in Addr /\ b \in Nat /\ k \in Nat
    BY <1>3, <1>4, Sizes DEF Addr
  <2>2. CASE k <= pos
    <3>1. At(page_map, b) = file[k] /\ k \in 1 .. Len(file)
      BY <1>3, <2>1, <2>2 DEF MemoryInv, FileIsLoaded, Contents, At
    <3>2. At(page_map, b) # Undefined
      BY <3>1, <1>4, MagicMemoryAssumption
    <3>3. CASE PageNumber(b) # PageNumber(address)
      BY <1>7, <2>1, <3>1, <3>2, <3>3
    <3>4. CASE PageNumber(b) = PageNumber(address)
      <4>1. PageOffset(b) \in Offset /\ PageOffset(b) \in Nat
        BY <2>1, Located, Sizes DEF Offset
      <4>2. PageOffset(b) \notin PageOffset(address) .. PageOffset(address) + Size - 1
        <5>1. CASE pos + base < AddrLimit
          <6>1. PageOffset(b) - PageOffset(address) = b - address
            BY <1>4, <2>1, <3>4, OnePlaceEach
          <6>2. b < address
            BY <1>3, <2>1, <2>2, <5>1
          <6> QED BY <1>3, <2>1, <4>1, <6>1, <6>2
        <5>2. CASE ~(pos + base < AddrLimit)
          BY <1>3, <4>1, <5>2
        <5> QED BY <5>1, <5>2
      <4>3. new[PageOffset(b)] = pages[PageNumber(address)][PageOffset(b)]
        BY <4>1, <4>2 DEF Copied
      <4>4. At(page_map', b) = new[PageOffset(b)] /\ pages[PageNumber(address)][PageOffset(b)] = At(page_map, b)
        BY <1>7, <2>1, <3>2, <3>4
      <4> QED BY <3>1, <4>3, <4>4
    <3> QED BY <3>3, <3>4
  <2>3. CASE k > pos
    <3> DEFINE j == k - 1 - pos
    <3>1. j \in Nat /\ j < Size /\ pos + base < AddrLimit
      BY <1>3, <2>1, <2>3
    <3>2. b = address + j /\ PageOffset(address) + j < PageSize
      BY <1>3, <2>1, <3>1, Sizes
    <3>3. PageNumber(b) = PageNumber(address) /\ PageOffset(b) = PageOffset(address) + j
      <4> HIDE DEF j, b
      <4> QED BY <1>4, <3>1, <3>2, WithinPage
    <3>4. /\ PageOffset(b) \in Offset
          /\ PageOffset(b) \in PageOffset(address) .. PageOffset(address) + Size - 1
      BY <1>3, <2>1, <3>1, <3>3, Located
    <3>5. new[PageOffset(b)] = file[pos + (PageOffset(b) - PageOffset(address)) + 1]
      BY <3>4 DEF Copied
    <3>6. pos + (PageOffset(b) - PageOffset(address)) + 1 = k
      BY <1>3, <2>1, <3>1, <3>3
    <3>7. At(page_map', b) = new[PageOffset(b)]
      BY <1>7, <2>1, <3>3
    <3> QED BY <3>5, <3>6, <3>7
  <2> QED BY <2>1, <2>2, <2>3, <1>3
<1>11. FileIsLoaded'
  <2>1. \A k \in 1 .. pos' : Contents(base + k - 1)' = file'[k]
    BY <1>1, <1>10 DEF Contents, At, PageNumber, PageOffset
  <2>2. ~loading' => pos' = Len(file')
    BY <1>1, <1>3
  <2> QED BY <1>1, <2>1, <2>2 DEF FileIsLoaded
<1> QED BY <1>7, <1>8, <1>9, <1>11 DEF MemoryInv

-----------------------------------------------------------------------------
(* The accesses.                                                           *)

\* What an access leaves of the loader.
LEMMA AccessKeepsLoader ==
  ASSUME MemoryInv, ~loading, ForgetFile, PagesOK', response' \in [Lanes -> Byte]
  PROVE  MemoryInv'
<1>1. /\ file' = <<>> /\ base' = 0 /\ pos' = 0 /\ address' = 0 /\ loading' = loading
      /\ loading = FALSE
  BY DEF ForgetFile, MemoryInv, LoaderOK
<1>2. response' \in [Lanes -> Byte \cup {Undefined}]
  OBVIOUS
<1>3. 0 \in Addr /\ 0 + 0 <= AddrLimit
  BY Sizes DEF Addr
<1>4. <<>> \in Seq(Byte) /\ Len(<<>>) = 0 /\ 0 \in 0 .. 0
  OBVIOUS
<1>5. LoaderOK'
  BY <1>1, <1>2, <1>3, <1>4 DEF LoaderOK
<1>6. InStep'
  BY <1>1 DEF InStep
<1>7. FileIsLoaded'
  BY <1>1, <1>4 DEF FileIsLoaded
<1> QED BY <1>5, <1>6, <1>7 DEF MemoryInv

\* A read answers the word in memory and changes no defined byte.
LEMMA ReadStep ==
  ASSUME MemoryInv, NEW a \in Aligned, Read(a)
  PROVE  /\ MemoryInv'
         /\ \A b \in Addr : At(page_map, b) # Undefined => At(page_map', b) = At(page_map, b)
         /\ response' = [i \in Lanes |-> At(page_map', a + i)]
<1>1. /\ ~loading /\ page_map' \in Touched(a) /\ ForgetFile
      /\ response' = [i \in Lanes |-> page_map'[PageNumber(a)][PageOffset(a) + i]]
  BY DEF Read
<1>2. PagesOK /\ a \in Addr
  BY DEF MemoryInv, Aligned
<1>3. /\ DOMAIN page_map' = DOMAIN page_map \cup {PageNumber(a)}
      /\ DOMAIN page_map' \subseteq 0 .. NumPages - 1
      /\ page_map' \in [DOMAIN page_map' -> Page]
      /\ \A n \in DOMAIN page_map : page_map'[n] = page_map[n]
  BY <1>1, <1>2, TouchedKeeps
<1>4. PagesOK'
  BY <1>3 DEF PagesOK
<1>5. page_map'[PageNumber(a)] \in [Offset -> Byte] /\ PageNumber(a) \in DOMAIN page_map'
  BY <1>3 DEF Page
<1>6. ASSUME NEW i \in Lanes
      PROVE  /\ page_map'[PageNumber(a)][PageOffset(a) + i] \in Byte
             /\ At(page_map', a + i) = page_map'[PageNumber(a)][PageOffset(a) + i]
  <2>1. i \in Nat /\ PageOffset(a) + i < PageSize
    BY WordInPage
  <2>2. PageNumber(a + i) = PageNumber(a) /\ PageOffset(a + i) = PageOffset(a) + i
    BY <1>2, <2>1, WithinPage
  <2>3. PageOffset(a) + i \in Offset
    BY <1>2, <2>1, Located, Sizes DEF Offset
  <2> QED BY <1>5, <2>2, <2>3 DEF At
<1>7. response' \in [Lanes -> Byte] /\ response' = [i \in Lanes |-> At(page_map', a + i)]
  BY <1>1, <1>6
<1>8. MemoryInv'
  BY <1>1, <1>4, <1>7, AccessKeepsLoader
<1>9. \A b \in Addr : At(page_map, b) # Undefined => At(page_map', b) = At(page_map, b)
  BY <1>3 DEF At
<1> QED BY <1>7, <1>8, <1>9

\* A write puts the enabled bytes in memory and changes no other defined byte.
LEMMA WriteStep ==
  ASSUME MemoryInv, NEW a \in Aligned, NEW word \in Word, NEW enable \in SUBSET Lanes,
         Write(a, word, enable)
  PROVE  /\ MemoryInv'
         /\ \A i \in enable : At(page_map', a + i) = word[i]
         /\ \A b \in Addr \ {a + i : i \in enable} :
              At(page_map, b) # Undefined => At(page_map', b) = At(page_map, b)
<1>1. ~loading /\ ForgetFile /\ response' = word
  BY DEF Write
<1>2. PICK pages \in Touched(a) :
        page_map' = [pages EXCEPT ![PageNumber(a)] =
                       Stored(pages[PageNumber(a)], PageOffset(a), word, enable)]
  BY DEF Write
<1> DEFINE old == pages[PageNumber(a)]
           new == Stored(old, PageOffset(a), word, enable)
<1>3. PagesOK /\ a \in Addr /\ a \in Nat /\ PageOffset(a) \in Nat
  BY Located, Sizes DEF MemoryInv, Aligned, Offset
<1>4. old \in [Offset -> Byte]
  BY <1>3, TouchedKeeps DEF Page
<1>5. \A i \in Lanes : i \in Nat /\ PageOffset(a) + i < PageSize
  BY WordInPage
<1>6. new \in Page
  <2> SUFFICES ASSUME NEW o \in Offset
               PROVE (IF \E i \in enable : o = PageOffset(a) + i THEN word[o - PageOffset(a)]
                                                               ELSE old[o]) \in Byte
    BY DEF Stored, Page
  <2>1. CASE \E i \in enable : o = PageOffset(a) + i
    <3>1. PICK i \in enable : o = PageOffset(a) + i
      BY <2>1
    <3>2. o - PageOffset(a) = i /\ i \in Lanes
      BY <1>3, <1>5, <3>1
    <3>3. word[i] \in Byte
      BY <3>2 DEF Word
    <3> QED BY <2>1, <3>2, <3>3
  <2>2. CASE ~(\E i \in enable : o = PageOffset(a) + i)
    BY <1>4, <2>2
  <2> QED BY <2>1, <2>2
<1>7. page_map' = [pages EXCEPT ![PageNumber(a)] = new]
  BY <1>2
<1>8. /\ PagesOK'
      /\ \A b \in Addr :
           /\ PageNumber(b) = PageNumber(a) => At(page_map', b) = new[PageOffset(b)]
           /\ PageNumber(b) # PageNumber(a) /\ At(page_map, b) # Undefined =>
                At(page_map', b) = At(page_map, b)
           /\ PageNumber(b) = PageNumber(a) /\ At(page_map, b) # Undefined =>
                pages[PageNumber(a)][PageOffset(b)] = At(page_map, b)
  <2> HIDE DEF new
  <2> QED BY <1>3, <1>6, <1>7, PageReplaced
<1>9. response' \in [Lanes -> Byte]
  BY <1>1 DEF Word
<1>10. MemoryInv'
  BY <1>1, <1>8, <1>9, AccessKeepsLoader
<1>11. ASSUME NEW i \in enable PROVE At(page_map', a + i) = word[i]
  <2>1. /\ a + i \in Addr /\ PageNumber(a + i) = PageNumber(a)
        /\ PageOffset(a + i) = PageOffset(a) + i /\ i \in Nat
    BY <1>3, <1>5, WithinPage
  <2> DEFINE o == PageOffset(a) + i
  <2>2. o \in Offset /\ o - PageOffset(a) = i
    BY <1>3, <1>5, <2>1, Sizes DEF Offset
  <2>3. o = PageOffset(a) + i
    OBVIOUS
  <2> HIDE DEF o, old
  <2>4. \E l \in enable : o = PageOffset(a) + l
    BY <2>3
  <2>5. new[o] = word[o - PageOffset(a)]
    BY <2>2, <2>4 DEF Stored
  <2>6. PageNumber(a + i) = PageNumber(a) => At(page_map', a + i) = new[PageOffset(a + i)]
    BY <1>8, <2>1
  <2> QED BY <2>1, <2>2, <2>3, <2>5, <2>6
<1>12. ASSUME NEW b \in Addr, b \notin {a + i : i \in enable}, At(page_map, b) # Undefined
       PROVE  At(page_map', b) = At(page_map, b)
  <2>1. CASE PageNumber(b) # PageNumber(a)
    BY <1>8, <1>12, <2>1
  <2>2. CASE PageNumber(b) = PageNumber(a)
    <3>1. /\ PageOffset(b) \in Offset /\ PageOffset(b) \in Nat /\ b \in Nat
          /\ PageOffset(b) - PageOffset(a) = b - a
      BY <1>3, <2>2, Located, OnePlaceEach, Sizes DEF Offset
    <3>2. ~(\E i \in enable : PageOffset(b) = PageOffset(a) + i)
      <4> SUFFICES ASSUME NEW i \in enable, PageOffset(b) = PageOffset(a) + i PROVE FALSE
        OBVIOUS
      <4>1. b = a + i
        BY <1>3, <1>5, <3>1
      <4> QED BY <1>12, <4>1
    <3>3. new[PageOffset(b)] = old[PageOffset(b)]
      BY <3>1, <3>2 DEF Stored
    <3> QED BY <1>8, <1>12, <2>2, <3>3
  <2> QED BY <2>1, <2>2
<1> QED BY <1>10, <1>11, <1>12

\* A step of the loader changes no defined byte outside its chunk.
LEMMA LoadStep ==
  ASSUME MemoryInv, LoadChunk
  PROVE  \E last \in Addr :
           \A b \in Addr \ (address .. last) :
             At(page_map, b) # Undefined => At(page_map', b) = At(page_map, b)
<1>1. loading
  BY DEF LoadChunk
<1>2. PICK pages \in Touched(address) :
        page_map' = [pages EXCEPT ![PageNumber(address)] = Copied(pages[PageNumber(address)])]
  BY DEF LoadChunk, Size, Room, Copied
<1>3. /\ Size \in Nat /\ PageOffset(address) \in Nat /\ PageOffset(address) + Size <= PageSize
      /\ address \in Nat
  BY <1>1, CopyFits
<1>4. PagesOK /\ address \in Addr
  BY DEF MemoryInv, LoaderOK
<1> DEFINE last == IF Size = 0 THEN address ELSE address + (Size - 1)
<1>5. last \in Addr /\ last \in Nat /\ address + Size <= last + 1
  <2>1. CASE Size = 0
    BY <1>3, <1>4, <2>1
  <2>2. CASE Size # 0
    <3>1. Size - 1 \in Nat /\ PageOffset(address) + (Size - 1) < PageSize
      BY <1>3, <2>2, Sizes
    <3>2. address + (Size - 1) \in Addr
      BY <1>4, <3>1, WithinPage
    <3> QED BY <1>3, <2>2, <3>1, <3>2
  <2> QED BY <2>1, <2>2
<1> HIDE DEF last
<1>6. ASSUME NEW b \in Addr, b \notin address .. last, At(page_map, b) # Undefined
      PROVE  At(page_map', b) = At(page_map, b)
  <2>1. /\ DOMAIN pages = DOMAIN page_map \cup {PageNumber(address)}
        /\ \A n \in DOMAIN page_map : pages[n] = page_map[n]
    BY <1>4, TouchedKeeps
  <2>2. PageNumber(b) \in DOMAIN page_map
    BY <1>6 DEF At
  <2>3. DOMAIN page_map' = DOMAIN pages
    BY <1>2
  <2>4. CASE PageNumber(b) # PageNumber(address)
    BY <1>2, <2>1, <2>2, <2>3, <2>4 DEF At
  <2>5. CASE PageNumber(b) = PageNumber(address)
    <3>1. /\ PageOffset(b) \in Offset /\ PageOffset(b) \in Nat /\ b \in Nat
          /\ PageOffset(b) - PageOffset(address) = b - address
      BY <1>4, <2>5, Located, OnePlaceEach, Sizes DEF Offset
    <3>2. PageOffset(b) \notin PageOffset(address) .. PageOffset(address) + Size - 1
      BY <1>3, <1>5, <1>6, <3>1
    <3>3. Copied(pages[PageNumber(address)])[PageOffset(b)] = pages[PageNumber(address)][PageOffset(b)]
      BY <3>1, <3>2 DEF Copied
    <3>4. page_map'[PageNumber(b)] = Copied(pages[PageNumber(address)])
      BY <1>2, <2>1, <2>5
    <3> QED BY <2>1, <2>2, <2>3, <2>5, <3>3, <3>4 DEF At
  <2> QED BY <2>4, <2>5
<1> QED BY <1>5, <1>6

-----------------------------------------------------------------------------
(* The theorems.                                                           *)

LEMMA Invariance == Spec => []MemoryInv
<1>1. MemoryInv /\ [Next]_vars => MemoryInv'
  <2> SUFFICES ASSUME MemoryInv, [Next]_vars PROVE MemoryInv'
    OBVIOUS
  <2>1. CASE LoadChunk
    BY <2>1, LoadKeepsMemory
  <2>2. CASE \E a \in Aligned : Read(a)
    BY <2>2, ReadStep
  <2>3. CASE \E a \in Aligned, word \in Word, enable \in SUBSET Lanes : Write(a, word, enable)
    BY <2>3, WriteStep
  <2>4. CASE UNCHANGED vars
    <3>1. /\ page_map' = page_map /\ response' = response /\ loading' = loading
          /\ address' = address /\ file' = file /\ base' = base /\ pos' = pos
      BY <2>4 DEF vars, loadVars
    <3>2. PagesOK' /\ LoaderOK' /\ InStep'
      BY <3>1 DEF MemoryInv, PagesOK, LoaderOK, InStep
    <3>3. FileIsLoaded'
      BY <3>1 DEF MemoryInv, FileIsLoaded, Contents, PageNumber, PageOffset
    <3> QED BY <3>2, <3>3 DEF MemoryInv
  <2> QED BY <2>1, <2>2, <2>3, <2>4 DEF Next
<1> QED BY <1>1, InitMemory, PTL DEF Spec

\* The page table and the variables of the loader keep their types: no page
\* number lies outside the address space and no load runs past the memory.
THEOREM TypeCorrect == Spec => []TypeOK
<1>1. MemoryInv => TypeOK
  BY DEF MemoryInv, PagesOK, LoaderOK, TypeOK
<1> QED BY <1>1, Invariance, PTL

\* What load_memory has read of the file is in memory, byte for byte, and it
\* stops only when that is all of it.
THEOREM FileArrives == Spec => []FileIsLoaded
<1>1. MemoryInv => FileIsLoaded
  BY DEF MemoryInv
<1> QED BY <1>1, Invariance, PTL

LEMMA StepImplements ==
  ASSUME MemoryInv, [Next]_vars PROVE [Flat!Next]_(Flat!vars)
<1> DEFINE mem == [a \in Addr |-> Contents(a)]
<1>1. \A b \in Addr : mem[b] = At(page_map, b) /\ mem'[b] = At(page_map', b)
  BY DEF Contents, At, PageNumber, PageOffset
<1>2. Flat!Lanes = Lanes /\ Flat!Aligned = Aligned /\ Flat!Word = Word
  BY DEF Flat!Lanes, Lanes, Flat!Aligned, Aligned, Flat!Word, Word
<1>3. CASE LoadChunk
  <2>1. PICK last \in Addr :
          \A b \in Addr \ (address .. last) :
            At(page_map, b) # Undefined => At(page_map', b) = At(page_map, b)
    BY <1>3, LoadStep
  <2>2. Flat!OnlyChanges(address .. last)
    BY <1>1, <2>1 DEF Flat!OnlyChanges
  <2>3. address \in Addr /\ response' = response
    BY <1>3 DEF MemoryInv, LoaderOK, LoadChunk
  <2>4. Flat!Load(address, last)
    BY <2>2, <2>3 DEF Flat!Load
  <2> QED BY <2>3, <2>4 DEF Flat!Next
<1>4. CASE \E a \in Aligned : Read(a)
  <2>1. PICK a \in Aligned : Read(a)
    BY <1>4
  <2>2. /\ \A b \in Addr : At(page_map, b) # Undefined => At(page_map', b) = At(page_map, b)
        /\ response' = [i \in Lanes |-> At(page_map', a + i)]
    BY <2>1, ReadStep
  <2>3. \A i \in Lanes : a + i \in Addr
    BY WordInPage, WithinPage
  <2>4. Flat!OnlyChanges({})
    BY <1>1, <2>2 DEF Flat!OnlyChanges
  <2>5. response' = [i \in Lanes |-> mem'[a + i]]
    BY <1>1, <2>2, <2>3
  <2>6. Flat!Read(a)
    BY <1>2, <2>4, <2>5 DEF Flat!Read
  <2> QED BY <1>2, <2>6 DEF Flat!Next
<1>5. CASE \E a \in Aligned, word \in Word, enable \in SUBSET Lanes : Write(a, word, enable)
  <2>1. PICK a \in Aligned, word \in Word, enable \in SUBSET Lanes : Write(a, word, enable)
    BY <1>5
  <2>2. /\ \A i \in enable : At(page_map', a + i) = word[i]
        /\ \A b \in Addr \ {a + i : i \in enable} :
             At(page_map, b) # Undefined => At(page_map', b) = At(page_map, b)
    BY <2>1, WriteStep
  <2>3. \A i \in enable : a + i \in Addr
    BY WordInPage, WithinPage
  <2>4. Flat!OnlyChanges({a + i : i \in enable})
    BY <1>1, <2>2 DEF Flat!OnlyChanges
  <2>5. \A i \in enable : mem'[a + i] = word[i]
    BY <1>1, <2>2, <2>3
  <2>6. response' = word
    BY <2>1 DEF Write
  <2>7. Flat!Write(a, word, enable)
    BY <2>4, <2>5, <2>6 DEF Flat!Write
  <2> QED BY <1>2, <2>7 DEF Flat!Next
<1>6. CASE UNCHANGED vars
  <2>1. page_map' = page_map /\ response' = response
    BY <1>6 DEF vars
  <2>2. mem' = mem
    BY <2>1 DEF Contents, PageNumber, PageOffset
  <2> QED BY <2>1, <2>2 DEF Flat!vars
<1> QED BY <1>3, <1>4, <1>5, <1>6 DEF Next

\* Every behaviour of the pages is one of a flat array of bytes: allocating a
\* page when it is first touched is never seen by the bus.
THEOREM Refinement == Spec => ImplementsFlatMemory
<1>1. Init => Flat!Init
  <2> SUFFICES ASSUME Init PROVE Flat!Init
    OBVIOUS
  <2>1. \A a \in Addr : Contents(a) = Undefined
    BY DEF Init, Contents
  <2> QED BY <2>1 DEF Init, Flat!Init, Flat!Lanes, Lanes
<1>2. MemoryInv /\ [Next]_vars => [Flat!Next]_(Flat!vars)
  BY StepImplements
<1> QED BY <1>1, <1>2, Invariance, PTL DEF Spec, ImplementsFlatMemory, Flat!Spec
=============================================================================

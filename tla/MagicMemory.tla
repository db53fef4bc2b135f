---------------------------- MODULE MagicMemory ----------------------------
(***************************************************************************)
(* magic_memory: a sparse memory of pages that are allocated when first    *)
(* touched and not initialised.  sc_main first lets load_memory copy a     *)
(* file to it, page by page; then response_thread executes the reads and   *)
(* writes of the bus.  Accesses are word-aligned, as the hardware makes    *)
(* them (the code has "TODO alignment" where it would matter).             *)
(***************************************************************************)
EXTENDS Naturals, Sequences

CONSTANTS
  PageSize,   \* 4096 in the code
  NumPages,   \* pages in the address space (2^20 in the code)
  WordSize,   \* bytes in a word (4 in the code)
  Byte,       \* the values of a byte
  Undefined,  \* no byte: not yet allocated
  MaxFile     \* bound on the length of the loaded file

ASSUME MagicMemoryAssumption ==
  /\ PageSize \in Nat \ {0} /\ NumPages \in Nat \ {0} /\ WordSize \in Nat \ {0}
  /\ PageSize % WordSize = 0
  /\ Byte # {} /\ Undefined \notin Byte
  /\ MaxFile \in Nat

AddrLimit == PageSize * NumPages
Addr == 0 .. AddrLimit - 1
Offset == 0 .. PageSize - 1
Lanes == 0 .. WordSize - 1
Word == [Lanes -> Byte]
Page == [Offset -> Byte]
Aligned == {a \in Addr : a % WordSize = 0}

VARIABLES
  page_map,  \* page_map: from the numbers of the allocated pages to Page
  response,  \* data of the last transaction response_thread answered
  loading,   \* TRUE while load_memory runs
  address,   \* its address
  file,      \* the contents of the file (forgotten at the first access)
  base,      \* history: the address the file is loaded to
  pos        \* how much of the file was read

loadVars == <<loading, address, file, base, pos>>
vars == <<page_map, response, loadVars>>

Init ==
  /\ page_map = [n \in {} |-> Undefined]
  /\ response = [i \in Lanes |-> Undefined]
  /\ loading = TRUE
  /\ base \in Addr
  /\ file \in {f \in UNION {[1 .. n -> Byte] : n \in 0 .. MaxFile} : base + Len(f) <= AddrLimit}
  /\ address = base /\ pos = 0

-----------------------------------------------------------------------------
(* get_or_create_address.                                                  *)

\* Mutated form: one bit too many is masked off the page number.
PageNumberShort(a) == (a \div PageSize) \div 2
PageNumber(a) == a \div PageSize
PageOffset(a) == a % PageSize

\* The page tables it may leave: a new page holds whatever
\* new uint8_t[page_size] returned.
Touched(a) ==
  IF PageNumber(a) \in DOMAIN page_map
    THEN {page_map}
    ELSE {[n \in DOMAIN page_map \cup {PageNumber(a)} |->
             IF n = PageNumber(a) THEN garbage ELSE page_map[n]] : garbage \in Page}

-----------------------------------------------------------------------------
(* load_memory: one iteration of its loop.                                 *)

\* Mutated form: always a whole page.
ChunkWholePage(a) == PageSize
\* Up to the end of the page.
Chunk(a) == ((PageNumber(a) * PageSize) + PageSize) - a

\* Mutated form: the address does not wrap.
NextChunkNoWrap(a) == a + Chunk(a)
NextChunk(a) == (a + Chunk(a)) % AddrLimit

\* The file is one that can be opened and read, as load_memory asserts.
LoadChunk ==
  /\ loading
  /\ LET room == Len(file) - pos
         size == IF Chunk(address) <= room THEN Chunk(address) ELSE room
         first == PageOffset(address)
     IN  /\ \E pages \in Touched(address) :
              page_map' = [pages EXCEPT ![PageNumber(address)] =
                             [o \in Offset |-> IF o \in first .. first + size - 1
                                                 THEN file[pos + (o - first) + 1] ELSE @[o]]]
         /\ pos' = pos + size
         /\ loading' = (size = Chunk(address))  \* a short read sets eof
  /\ address' = NextChunk(address)
  /\ UNCHANGED <<response, file, base>>

-----------------------------------------------------------------------------
(* response_thread: one iteration of its loop.                             *)

\* From now on the file is a thing of the past.
ForgetFile == file' = <<>> /\ base' = 0 /\ pos' = 0 /\ address' = 0 /\ UNCHANGED loading

Read(a) ==
  /\ ~loading
  /\ page_map' \in Touched(a)
  /\ response' = [i \in Lanes |-> page_map'[PageNumber(a)][PageOffset(a) + i]]
  /\ ForgetFile

\* Mutated form: the byte enables are ignored.
StoredIgnoringEnables(page, offset, word, enable) ==
  [o \in Offset |-> IF o - offset \in Lanes THEN word[o - offset] ELSE page[o]]
Stored(page, offset, word, enable) ==
  [o \in Offset |-> IF \E i \in enable : o = offset + i THEN word[o - offset] ELSE page[o]]

Write(a, word, enable) ==
  /\ ~loading
  /\ \E pages \in Touched(a) :
       page_map' = [pages EXCEPT ![PageNumber(a)] = Stored(@, PageOffset(a), word, enable)]
  /\ response' = word
  /\ ForgetFile

Next ==
  \/ LoadChunk
  \/ \E a \in Aligned : Read(a)
  \/ \E a \in Aligned, word \in Word, enable \in SUBSET Lanes : Write(a, word, enable)

Spec == Init /\ [][Next]_vars

-----------------------------------------------------------------------------
(* Properties.                                                             *)

\* Type invariant of the page table and of the loader.
TypeOK ==
  /\ DOMAIN page_map \subseteq 0 .. NumPages - 1
  /\ page_map \in [DOMAIN page_map -> Page]
  /\ response \in [Lanes -> Byte \cup {Undefined}]
  /\ loading \in BOOLEAN /\ address \in Addr /\ base \in Addr
  /\ file \in Seq(Byte) /\ pos \in 0 .. Len(file)

\* The byte at an address.
Contents(a) ==
  IF PageNumber(a) \in DOMAIN page_map THEN page_map[PageNumber(a)][PageOffset(a)] ELSE Undefined

\* Whatever its length and wherever it is loaded, what was read of the file
\* is in memory byte for byte, across page boundaries and up to a file or a
\* memory that ends with a page; and nothing is left out when loading ends.
FileIsLoaded ==
  /\ \A k \in 1 .. pos : Contents(base + k - 1) = file[k]
  /\ ~loading => pos = Len(file)

\* Pages are not visible: the memory is one flat array, in which a byte keeps
\* its value until its own address is written.
Flat == INSTANCE FlatMemory WITH mem <- [a \in Addr |-> Contents(a)]

ImplementsFlatMemory == Flat!Spec
=============================================================================

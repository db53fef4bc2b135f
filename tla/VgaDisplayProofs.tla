-------------------------- MODULE VgaDisplayProofs --------------------------
(***************************************************************************)
(* ShowsLastWrite for screens of any size.  The two threads share the      *)
(* arrays without a lock, so nothing can be said of a picture drawn while  *)
(* a write is going on; the invariant says what is known of one drawn      *)
(* since the last queue_draw.                                              *)
(***************************************************************************)
EXTENDS VgaDisplay, TLAPS

\* The shape of the GTK thread's variables.
GtkShape ==
  /\ cell \in Cells \cup {None} /\ pass \in {1, 2}
  /\ m_pix = [c \in Cells |-> m_pix[c]]
  /\ cell = None => color = None

\* Writes happen, and end, only after the constructor.
WritesAfterConstruct == (write # None => built) /\ (exposed => built)

\* No write is going on and none has ended since the last redraw began.
Settled == exposed /\ write = None /\ ~invalid

\* What has been drawn since then is current: the cells before the one that is
\* being drawn, the color that has been read for it, and, once the first pass
\* is over, the window.
DrawnIsCurrent ==
  Settled =>
    /\ cell = None \/ pass = 2 => ScreenCurrent
    /\ cell # None /\ pass = 1 =>
         /\ \A c \in Cells : c < cell => m_pix[c] = Picture(c)
         /\ color # None => color = Picture(cell)[1]

DrawInv == GtkShape /\ WritesAfterConstruct /\ DrawnIsCurrent

\* Before the constructor has run there is nothing to show.
LEMMA InitDraws == Init => DrawInv
  BY VgaDisplayAssumption
  DEF Init, DrawInv, GtkShape, WritesAfterConstruct, DrawnIsCurrent, Settled, Unpainted

\* While a write is going on nothing is claimed, and when it ends queue_draw
\* has been called.
LEMMA WriterKeepsDraw ==
  ASSUME DrawInv, WriterStep \/ Construct PROVE DrawInv'
<1>1. CASE StoreLane
  BY <1>1 DEF StoreLane, DrawInv, GtkShape, WritesAfterConstruct, DrawnIsCurrent, Settled, gtkVars
<1>2. CASE FinishWrite
  BY <1>2 DEF FinishWrite, DrawQueuedAt, DrawInv, GtkShape, WritesAfterConstruct,
    DrawnIsCurrent, Settled, gtkVars
<1>3. CASE Construct
  BY <1>3 DEF Construct, DrawInv, GtkShape, WritesAfterConstruct, DrawnIsCurrent, Settled, gtkVars
<1> QED BY <1>1, <1>2, <1>3 DEF WriterStep

\* The constructor is still running, so no write has ended.
LEMMA CopyKeepsDraw ==
  ASSUME DrawInv, NEW b \in Font \cup Palette, CopyDefault(b) PROVE DrawInv'
BY DEF CopyDefault, DrawInv, GtkShape, WritesAfterConstruct, DrawnIsCurrent, Settled, gtkVars

\* A write that begins changes no byte yet.
LEMMA BeginWriteKeepsDraw ==
  ASSUME DrawInv, NEW a, NEW word, NEW enable, BeginWrite(a, word, enable) PROVE DrawInv'
<1>1. UNCHANGED <<array, built, exposed, invalid, cell, color, pass, m_pix, screen>>
  BY DEF BeginWrite, gtkVars
<1>2. write = None /\ built
  BY DEF BeginWrite
<1>3. ScreenCurrent' <=> ScreenCurrent
  BY <1>1 DEF ScreenCurrent, Picture, Attribute, Character
<1>4. \A c : Picture(c)' = Picture(c)
  BY <1>1 DEF Picture, Attribute, Character
<1> QED BY <1>1, <1>2, <1>3, <1>4
  DEF DrawInv, GtkShape, WritesAfterConstruct, DrawnIsCurrent, Settled

\* A redraw starts with nothing drawn.
LEMMA BeginDrawKeepsDraw ==
  ASSUME DrawInv, BeginDraw PROVE DrawInv'
<1>1. cell' = 0 /\ pass' = 1 /\ cell = None /\ UNCHANGED <<built, write, exposed, color, m_pix>>
  BY DEF BeginDraw
<1>2. 0 \in Cells /\ None \notin Cells /\ \A c \in Cells : ~(c < 0)
  BY VgaDisplayAssumption DEF Cells
<1> QED BY <1>1, <1>2 DEF DrawInv, GtkShape, WritesAfterConstruct, DrawnIsCurrent, Settled

\* The color is read from arrays that do not change while the state is settled.
LEMMA ReadColorKeepsDraw ==
  ASSUME DrawInv, ReadColor PROVE DrawInv'
<1>1. /\ cell # None /\ color' = Picture(cell)[1]
      /\ UNCHANGED <<array, built, write, exposed, invalid, cell, pass, m_pix, screen>>
  BY DEF ReadColor, Picture
<1>2. \A c : Picture(c)' = Picture(c)
  BY <1>1 DEF Picture, Attribute, Character
<1>3. ScreenCurrent' <=> ScreenCurrent
  BY <1>1, <1>2 DEF ScreenCurrent
<1> QED BY <1>1, <1>2, <1>3 DEF DrawInv, GtkShape, WritesAfterConstruct, DrawnIsCurrent, Settled

\* A cell drawn with a current color is current; with the last one the whole
\* image is, and it is painted.
LEMMA DrawCellKeepsDraw ==
  ASSUME DrawInv, DrawCell PROVE DrawInv'
<1>1. /\ cell \in Cells /\ color # None /\ color' = None
      /\ UNCHANGED <<array, built, write, exposed, invalid>>
  BY DEF DrawCell, DrawInv, GtkShape
<1>2. \A c : Picture(c)' = Picture(c)
  BY <1>1 DEF Picture, Attribute, Character
<1>3. /\ m_pix' = [c \in Cells |-> m_pix'[c]]
      /\ m_pix'[cell][1] = color
      /\ m_pix'[cell] = <<color, Picture(cell)[2]>>
      /\ \A c \in Cells : c # cell => m_pix'[c] = m_pix[c]
  BY <1>1 DEF DrawCell, DrawInv, GtkShape, Picture
<1>4. WritesAfterConstruct'
  BY <1>1 DEF DrawInv, WritesAfterConstruct
<1>5. None \notin Cells /\ 0 \in Cells /\ NumCells \in Nat
             /\ \A c : c \in Cells <=> c \in Int /\ 0 <= c /\ c <= NumCells - 1
  BY VgaDisplayAssumption DEF Cells
<1>6. ASSUME Settled', pass = 1 PROVE \A c \in Cells : c <= cell => m_pix'[c] = Picture(c)
  <2>1. Settled
    BY <1>1, <1>6 DEF Settled
  <2>2. color = Picture(cell)[1] /\ \A c \in Cells : c < cell => m_pix[c] = Picture(c)
    BY <2>1, <1>1, <1>5, <1>6 DEF DrawInv, DrawnIsCurrent
  <2>3. m_pix'[cell] = Picture(cell)
    BY <2>2, <1>3 DEF Picture
  <2>4. \A c \in Cells : c <= cell <=> c < cell \/ c = cell
    BY <1>1, <1>5
  <2> QED BY <2>2, <2>3, <2>4, <1>3
<1>7. CASE cell < NumCells - 1
  <2>1. cell' = cell + 1 /\ pass' = pass /\ screen' = screen
    BY <1>7 DEF DrawCell
  <2>2. cell' \in Cells /\ cell' # None
    BY <2>1, <1>1, <1>5, <1>7
  <2>3. GtkShape'
    BY <2>1, <2>2, <1>1, <1>3 DEF DrawInv, GtkShape
  <2>4. ASSUME Settled', pass = 2 PROVE ScreenCurrent'
    BY <2>1, <2>4, <1>1, <1>2 DEF DrawInv, DrawnIsCurrent, Settled, ScreenCurrent
  <2>5. ASSUME Settled', pass = 1 PROVE \A c \in Cells : c < cell' => m_pix'[c] = Picture(c)'
    BY <2>1, <2>5, <1>1, <1>2, <1>5, <1>6
  <2> QED BY <2>1, <2>2, <2>3, <2>4, <2>5, <1>1, <1>4 DEF DrawInv, DrawnIsCurrent
<1>8. CASE ~(cell < NumCells - 1) /\ pass = 1
  <2>1. cell' = 0 /\ pass' = 2 /\ screen' = m_pix'
    BY <1>8 DEF DrawCell
  <2>2. GtkShape'
    BY <2>1, <1>1, <1>3, <1>5 DEF DrawInv, GtkShape
  <2>3. ASSUME Settled' PROVE ScreenCurrent'
    BY <2>1, <2>3, <1>1, <1>2, <1>5, <1>6, <1>8 DEF ScreenCurrent
  <2> QED BY <2>1, <2>2, <2>3, <1>4 DEF DrawInv, DrawnIsCurrent
<1>9. CASE ~(cell < NumCells - 1) /\ pass = 2
  <2>1. cell' = None /\ pass' = 1 /\ screen' = screen
    BY <1>9 DEF DrawCell
  <2>2. GtkShape'
    BY <2>1, <1>1, <1>3 DEF DrawInv, GtkShape
  <2>3. ASSUME Settled' PROVE ScreenCurrent'
    BY <2>1, <2>3, <1>1, <1>2, <1>9 DEF DrawInv, DrawnIsCurrent, Settled, ScreenCurrent
  <2> QED BY <2>1, <2>2, <2>3, <1>4 DEF DrawInv, DrawnIsCurrent
<1> QED BY <1>7, <1>8, <1>9 DEF DrawInv, GtkShape

LEMMA NextKeepsDraw == DrawInv /\ [Next]_vars => DrawInv'
<1> SUFFICES ASSUME DrawInv, [Next]_vars PROVE DrawInv'
  OBVIOUS
<1>1. CASE UNCHANGED vars
  BY <1>1 DEF vars, gtkVars, DrawInv, GtkShape, WritesAfterConstruct, DrawnIsCurrent, Settled,
    ScreenCurrent, Picture, Attribute, Character
<1>2. CASE Construct \/ WriterStep
  BY <1>2, WriterKeepsDraw
<1>5. CASE \E b \in Font \cup Palette : CopyDefault(b)
  BY <1>5, CopyKeepsDraw
<1>3. CASE GtkNext
  BY <1>3, BeginDrawKeepsDraw, ReadColorKeepsDraw, DrawCellKeepsDraw DEF GtkNext
<1>4. CASE \E a \in Aligned, word \in [Lanes -> Byte], enable \in SUBSET Lanes :
             BeginWrite(a, word, enable)
  BY <1>4, BeginWriteKeepsDraw
<1> QED BY <1>1, <1>2, <1>3, <1>4, <1>5 DEF Next

\* However the stores of target_thread and the redraw of the GTK thread
\* interleave, once a write is complete and its redraw is done, the window shows
\* the arrays: for every number of cells, characters and colors.
THEOREM LastWriteShown == Spec => []ShowsLastWrite
<1>1. DrawInv => ShowsLastWrite
  BY DEF DrawInv, DrawnIsCurrent, Settled, ShowsLastWrite
<1> QED BY <1>1, InitDraws, NextKeepsDraw, PTL DEF Spec

-----------------------------------------------------------------------------
(* The type invariant: a store stays inside the array it was aimed at.     *)

\* An aligned word that begins before the end of an array of whole words ends
\* before it as well.
LEMMA WordFits ==
  ASSUME NEW w \in Nat \ {0}, NEW base \in Nat, NEW size \in Nat, NEW a \in Nat,
         NEW i \in 0 .. w - 1,
         base % w = 0, size % w = 0, a % w = 0, In(a, base, size)
  PROVE  a - base \in Nat /\ a - base + i \in 0 .. size - 1
<1> DEFINE m == a \div w
           b == base \div w
           n == size \div w
<1>1. a = w * m /\ base = w * b /\ size = w * n /\ m \in Nat /\ b \in Nat /\ n \in Nat
  OBVIOUS
<1>2. w * b <= w * m /\ w * m < w * b + w * n
  BY <1>1 DEF In
<1> HIDE DEF m, b, n
<1>3. m < b + n
  <2> SUFFICES ASSUME m >= b + n PROVE FALSE
    BY <1>1
  <2>1. PICK k \in Nat : m = b + n + k
    BY <1>1
  <2>2. w * m = w * b + w * n + w * k
    BY <1>1, <2>1
  <2>3. w * k \in Nat
    BY <2>1
  <2> QED BY <2>2, <2>3, <1>1, <1>2
<1>4. PICK k \in Nat : b + n = m + 1 + k
  BY <1>1, <1>3
<1>5. w * b + w * n = w * m + w + w * k
  BY <1>1, <1>4
<1>6. w * k \in Nat
  BY <1>4
<1> QED BY <1>1, <1>2, <1>5, <1>6 DEF In

\* What the assumption says, in the form the steps below use.
LEMMA Layout ==
  /\ NumCells \in Nat \ {0} /\ NumChars \in Nat \ {0} /\ NumColors \in Nat \ {0}
  /\ WordSize \in Nat \ {0} /\ AddrLimit \in Nat
  /\ FontBase \in Nat /\ ColorBase \in Nat /\ TextBase \in Nat
  /\ None \notin Byte /\ None \notin Cells /\ 0 \in Cells
  /\ Default \in [Font \cup Palette -> Byte]
<1>1. None \notin Byte /\ None \notin Cells
  BY VgaDisplayAssumption
<1>2. FontBase \in Nat /\ ColorBase \in Nat /\ TextBase \in Nat
  BY VgaDisplayAssumption
<1>3. 0 \in Cells
  BY VgaDisplayAssumption DEF Cells
<1> QED BY <1>1, <1>2, <1>3, VgaDisplayAssumption

\* The bytes of an aligned word that get_address finds are bytes of one array.
LEMMA AddressInArray ==
  ASSUME NEW a \in Aligned, GetAddress(a) # None, NEW i \in Lanes
  PROVE  <<GetAddress(a)[1], GetAddress(a)[2] + i>> \in Bytes
<1>1. a \in Nat /\ a % WordSize = 0 /\ i \in 0 .. WordSize - 1
  BY Layout DEF Aligned, Lanes
<1>2. /\ FontBase % WordSize = 0 /\ ColorBase % WordSize = 0 /\ TextBase % WordSize = 0
      /\ NumChars % WordSize = 0 /\ NumColors % WordSize = 0 /\ (2 * NumCells) % WordSize = 0
      /\ 2 * NumCells \in Nat
  BY VgaDisplayAssumption
<1>3. CASE In(a, FontBase, NumChars)
  <2>1. GetAddress(a) = <<"font_data", a - FontBase>>
    BY <1>3 DEF GetAddress
  <2>2. (a - FontBase) + i \in 0 .. NumChars - 1
    BY <1>1, <1>2, <1>3, Layout, WordFits
  <2> QED BY <2>1, <2>2 DEF Bytes, Font
<1>4. CASE ~In(a, FontBase, NumChars) /\ In(a, TextBase, 2 * NumCells)
  <2>1. GetAddress(a) = <<"text_array", a - TextBase>>
    BY <1>4 DEF GetAddress
  <2>2. (a - TextBase) + i \in 0 .. 2 * NumCells - 1
    BY <1>1, <1>2, <1>4, Layout, WordFits
  <2> QED BY <2>1, <2>2 DEF Bytes, Text
<1>5. CASE ~In(a, FontBase, NumChars) /\ ~In(a, TextBase, 2 * NumCells) /\ In(a, ColorBase, NumColors)
  <2>1. GetAddress(a) = <<"color_palette", a - ColorBase>>
    BY <1>5 DEF GetAddress
  <2>2. (a - ColorBase) + i \in 0 .. NumColors - 1
    BY <1>1, <1>2, <1>5, Layout, WordFits
  <2> QED BY <2>1, <2>2 DEF Bytes, Palette
<1> QED BY <1>3, <1>4, <1>5 DEF GetAddress

\* The entry of the palette an attribute selects, the row of the font a
\* character selects.
LEMMA PictureType ==
  ASSUME array \in [Bytes -> Byte], NEW c \in Cells
  PROVE  /\ array[<<"color_palette", Attribute(c) % NumColors>>] \in Byte
         /\ array[<<"font_data", Character(c) % NumChars>>] \in Byte
<1>1. 2 * c \in 0 .. 2 * NumCells - 1 /\ (2 * c) + 1 \in 0 .. 2 * NumCells - 1
  BY Layout DEF Cells
<1>2. <<"text_array", 2 * c>> \in Bytes /\ <<"text_array", (2 * c) + 1>> \in Bytes
  BY <1>1 DEF Bytes, Text
<1>3. Attribute(c) \in Nat /\ Character(c) \in Nat
  BY <1>2, Layout DEF Attribute, Character, Byte
<1>4. Attribute(c) % NumColors \in 0 .. NumColors - 1 /\ Character(c) % NumChars \in 0 .. NumChars - 1
  BY <1>3, Layout
<1>5. <<"color_palette", Attribute(c) % NumColors>> \in Bytes
  BY <1>4 DEF Bytes, Palette
<1>6. <<"font_data", Character(c) % NumChars>> \in Bytes
  BY <1>4 DEF Bytes, Font
<1> QED BY <1>5, <1>6

\* The arrays, the write and the lane.
LEMMA WriterKeepsType ==
  ASSUME TypeOK, WriterStep \/ Construct PROVE TypeOK'
<1>1. CASE StoreLane
  <2>1. write # None /\ lane \in Lanes /\ lane' \in 0 .. WordSize
    BY <1>1, Layout DEF StoreLane, TypeOK, Lanes
  <2>2. write.word[lane] \in Byte
    BY <2>1 DEF TypeOK
  <2>3. array' \in [Bytes -> Byte]
    BY <1>1, <2>2 DEF StoreLane, TypeOK
  <2> QED BY <1>1, <2>1, <2>3 DEF StoreLane, TypeOK, gtkVars
<1>2. CASE FinishWrite
  BY <1>2, Layout DEF FinishWrite, TypeOK, gtkVars
<1>3. CASE Construct
  BY <1>3 DEF Construct, TypeOK, gtkVars
<1> QED BY <1>1, <1>2, <1>3 DEF WriterStep

LEMMA CopyKeepsType ==
  ASSUME TypeOK, NEW b \in Font \cup Palette, CopyDefault(b) PROVE TypeOK'
<1>1. Default[b] \in Byte
  BY Layout
<1>2. array' \in [Bytes -> Byte]
  BY <1>1 DEF CopyDefault, TypeOK
<1> QED BY <1>2 DEF CopyDefault, TypeOK, gtkVars

LEMMA BeginWriteKeepsType ==
  ASSUME TypeOK, NEW a \in Aligned, NEW word \in [Lanes -> Byte], NEW enable \in SUBSET Lanes,
         BeginWrite(a, word, enable)
  PROVE  TypeOK'
<1>1. UNCHANGED <<array, cell, color, pass, m_pix, screen>>
  BY DEF BeginWrite, gtkVars
<1>2. CASE GetAddress(a) = None
  BY <1>1, <1>2 DEF BeginWrite, TypeOK
<1>3. CASE GetAddress(a) # None
  <2>1. write' = [at |-> GetAddress(a), word |-> word, enable |-> enable] /\ lane' = 0
    BY <1>3 DEF BeginWrite
  <2>2. \A i \in Lanes : <<write'.at[1], write'.at[2] + i>> \in Bytes
    BY <1>3, <2>1, AddressInArray
  <2>3. write'.word \in [Lanes -> Byte] /\ write'.enable \subseteq Lanes /\ lane' \in 0 .. WordSize
    BY <2>1, Layout
  <2> QED BY <1>1, <2>2, <2>3 DEF TypeOK
<1> QED BY <1>2, <1>3

\* The redraw.
LEMMA GtkKeepsType ==
  ASSUME TypeOK, GtkNext PROVE TypeOK'
<1>1. CASE BeginDraw
  BY <1>1, Layout DEF BeginDraw, TypeOK
<1>2. CASE ReadColor
  <2>1. cell \in Cells
    BY <1>2 DEF ReadColor, TypeOK
  <2>2. color' \in Byte
    BY <1>2, <2>1, PictureType DEF ReadColor, TypeOK
  <2> QED BY <1>2, <2>2 DEF ReadColor, TypeOK
<1>3. CASE DrawCell
  <2>1. cell \in Cells /\ color \in Byte
    BY <1>3 DEF DrawCell, TypeOK
  <2>2. m_pix' \in [Cells -> (Byte \X Byte) \cup {None}]
    BY <1>3, <2>1, PictureType DEF DrawCell, TypeOK
  <2>3. cell < NumCells - 1 => cell + 1 \in Cells
    BY <2>1, Layout DEF Cells
  <2>4. cell' \in Cells \cup {None} /\ pass' \in {1, 2}
        /\ screen' \in [Cells -> (Byte \X Byte) \cup {None}]
    BY <1>3, <2>2, <2>3, Layout DEF DrawCell, TypeOK
  <2> QED BY <1>3, <2>2, <2>4 DEF DrawCell, TypeOK
<1> QED BY <1>1, <1>2, <1>3 DEF GtkNext

\* The arrays and the variables of both threads keep their types, and a store
\* never leaves the array that get_address found for its address.
THEOREM TypeCorrect == Spec => []TypeOK
<1>1. Init => TypeOK
  BY Layout DEF Init, TypeOK, Unpainted
<1>2. TypeOK /\ [Next]_vars => TypeOK'
  <2> SUFFICES ASSUME TypeOK, [Next]_vars PROVE TypeOK'
    OBVIOUS
  <2>1. CASE UNCHANGED vars
    BY <2>1 DEF vars, gtkVars, TypeOK
  <2>2. CASE Next
    BY <2>2, WriterKeepsType, CopyKeepsType, BeginWriteKeepsType, GtkKeepsType DEF Next
  <2> QED BY <2>1, <2>2
<1> QED BY <1>1, <1>2, PTL DEF Spec
=============================================================================

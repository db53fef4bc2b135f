----------------------------- MODULE VgaDisplay -----------------------------
(***************************************************************************)
(* The vga target and the window that shows it.  Two threads share the     *)
(* three arrays without a lock: target_thread (a SystemC thread) stores    *)
(* the bytes of a write one by one and then calls queue_draw; the GTK      *)
(* thread, started by vga's constructor before the arrays are initialised, *)
(* redraws the window cell by cell while the stores go on.                 *)
(* Scaled down: a cell's picture is the palette entry its attribute byte   *)
(* selects and the glyph its character byte selects, one byte each.        *)
(***************************************************************************)
EXTENDS Integers, Sequences, FiniteSets

CONSTANTS
  NumCells,    \* text_rows * text_cols
  NumChars,    \* 256 in the code
  NumColors,   \* num_colors
  WordSize,    \* bytes of a bus word (4 in the code)
  FontBase, ColorBase, TextBase,  \* font_base, color_base, text_base
  AddrLimit,   \* the addresses the bus sends here: 0 .. AddrLimit - 1
  Default,     \* default_font_data and default_color_palette
  None         \* nothing drawn yet

Cells == 0 .. NumCells - 1
Lanes == 0 .. WordSize - 1
Byte == 0 .. (IF NumChars > NumColors THEN NumChars ELSE NumColors) - 1
Aligned == {a \in 0 .. AddrLimit - 1 : a % WordSize = 0}

\* The bytes of the three arrays: an array and an index into it.
Font == {<<"font_data", n>> : n \in 0 .. NumChars - 1}
Palette == {<<"color_palette", n>> : n \in 0 .. NumColors - 1}
Text == {<<"text_array", n>> : n \in 0 .. 2 * NumCells - 1}
Bytes == Font \cup Palette \cup Text

ASSUME VgaDisplayAssumption ==
  /\ NumCells \in Nat \ {0} /\ NumChars \in Nat \ {0} /\ NumColors \in Nat \ {0}
  /\ WordSize \in Nat \ {0} /\ AddrLimit \in Nat
  /\ NumChars % WordSize = 0 /\ NumColors % WordSize = 0 /\ (2 * NumCells) % WordSize = 0
  /\ \A b \in {FontBase, ColorBase, TextBase} : b \in Nat /\ b % WordSize = 0
  /\ Cardinality(FontBase .. FontBase + NumChars - 1
                   \cup ColorBase .. ColorBase + NumColors - 1
                   \cup TextBase .. TextBase + 2 * NumCells - 1)
       = NumChars + NumColors + 2 * NumCells
  /\ Default \in [Font \cup Palette -> Byte] /\ None \notin Byte \cup Cells

VARIABLES
  array,      \* the arrays: Bytes -> Byte
  built,      \* vga's constructor has run to its end
  write,      \* the write target_thread is executing, or None
  lane,       \* the lane it stores next
  halted,     \* an assertion failed
  exposed,    \* history: a write has been completed
  invalid,    \* GTK: queue_draw was called and no draw began since
  cell,       \* GTK: the cell draw_chars draws next, or None
  color,      \* GTK: fg_color, read for that cell, or None
  pass,       \* GTK: which of on_draw's two calls of draw_chars this is
  m_pix,      \* GTK: the image draw_chars fills
  screen      \* what the window shows

gtkVars == <<cell, color, pass, m_pix, screen>>
vars == <<array, built, write, lane, halted, exposed, invalid, gtkVars>>

Unpainted == [c \in Cells |-> None]

\* new does not initialise the arrays.
Init ==
  /\ array \in [Bytes -> Byte]
  /\ built = FALSE
  /\ write = None /\ lane = 0 /\ halted = FALSE /\ exposed = FALSE
  /\ invalid = TRUE  \* the window is drawn when it is first shown
  /\ cell = None /\ color = None /\ pass = 1 /\ m_pix = Unpainted /\ screen = Unpainted

\* The rest of the constructor copies the font and the palette byte by byte, in
\* an order that is the compiler's, while the GTK thread may be drawing.
CopyDefault(b) ==
  /\ ~built
  /\ array' = [array EXCEPT ![b] = Default[b]]
  /\ UNCHANGED <<built, write, lane, halted, exposed, invalid, gtkVars>>

\* Then it asserts that both have arrived; target_thread starts after it.
Construct ==
  /\ ~built /\ \A b \in Font \cup Palette : array[b] = Default[b]
  /\ built' = TRUE
  /\ UNCHANGED <<array, write, lane, halted, exposed, invalid, gtkVars>>

-----------------------------------------------------------------------------
(* vga::target_thread.                                                     *)

\* Mutated form: the address just after an array is taken for one inside.
InInclusive(a, first, size) == first <= a /\ a <= first + size
In(a, first, size) == first <= a /\ a < first + size

\* get_address: where an address of the bus points, None if nowhere.
GetAddress(a) ==
  IF In(a, FontBase, NumChars) THEN <<"font_data", a - FontBase>>
  ELSE IF In(a, TextBase, 2 * NumCells) THEN <<"text_array", a - TextBase>>
  ELSE IF In(a, ColorBase, NumColors) THEN <<"color_palette", a - ColorBase>>
  ELSE None

\* Mutated form: queue_draw is called before the stores.
DrawQueuedFirst == 0
\* Mutated form: queue_draw is not called.
DrawNeverQueued == WordSize + 1
\* The step of a write at which it calls queue_draw: after its last store.
DrawQueuedAt == WordSize

\* A read of an address outside the arrays ends the program like this write;
\* any other read changes nothing here.
BeginWrite(a, word, enable) ==
  /\ built /\ write = None /\ ~halted
  /\ IF GetAddress(a) = None
       THEN halted' = TRUE /\ UNCHANGED <<write, lane>>
       ELSE /\ write' = [at |-> GetAddress(a), word |-> word, enable |-> enable]
            /\ lane' = 0
            /\ UNCHANGED halted
  /\ UNCHANGED <<array, built, exposed, invalid, gtkVars>>

\* address[i] = (wdata >> (i*8)) & 0xff, for an enabled lane.
StoreLane ==
  /\ write # None /\ lane < WordSize
  /\ array' = IF lane \in write.enable
                THEN [array EXCEPT ![<<write.at[1], write.at[2] + lane>>] = write.word[lane]]
                ELSE array
  /\ invalid' = (invalid \/ lane = DrawQueuedAt)
  /\ lane' = lane + 1
  /\ UNCHANGED <<built, write, halted, exposed, gtkVars>>

\* queue_draw and the response.
FinishWrite ==
  /\ write # None /\ lane = WordSize
  /\ invalid' = (invalid \/ lane = DrawQueuedAt)
  /\ exposed' = TRUE
  /\ write' = None /\ lane' = 0
  /\ UNCHANGED <<array, built, halted, gtkVars>>

-----------------------------------------------------------------------------
(* vgpu::on_draw and draw_chars, in the GTK thread.                        *)

Attribute(c) == array[<<"text_array", (2 * c) + 1>>]
Character(c) == array[<<"text_array", 2 * c>>]

BeginDraw ==
  /\ invalid /\ cell = None /\ ~halted
  /\ invalid' = FALSE
  /\ cell' = 0 /\ pass' = 1
  /\ UNCHANGED <<array, built, write, lane, halted, exposed, color, m_pix, screen>>

\* attribute_byte and fg_color.
ReadColor ==
  /\ cell # None /\ color = None /\ ~halted
  /\ color' = array[<<"color_palette", Attribute(cell) % NumColors>>]
  /\ UNCHANGED <<array, built, write, lane, halted, exposed, invalid, cell, pass, m_pix, screen>>

\* character, its row_data, and the pixels of the cell.  After the first pass
\* the image is painted to the window; the second pass is never shown.
DrawCell ==
  /\ cell # None /\ color # None /\ ~halted
  /\ m_pix' = [m_pix EXCEPT ![cell] = <<color, array[<<"font_data", Character(cell) % NumChars>>]>>]
  /\ color' = None
  /\ IF cell < NumCells - 1
       THEN cell' = cell + 1 /\ UNCHANGED <<pass, screen>>
       ELSE IF pass = 1 THEN cell' = 0 /\ pass' = 2 /\ screen' = m_pix'
                        ELSE cell' = None /\ pass' = 1 /\ UNCHANGED screen
  /\ UNCHANGED <<array, built, write, lane, halted, exposed, invalid>>

GtkNext == BeginDraw \/ ReadColor \/ DrawCell
WriterStep == StoreLane \/ FinishWrite

Next ==
  \/ Construct \/ WriterStep \/ GtkNext
  \/ \E b \in Font \cup Palette : CopyDefault(b)
  \/ \E a \in Aligned, word \in [Lanes -> Byte], enable \in SUBSET Lanes :
       BeginWrite(a, word, enable)

Spec == Init /\ [][Next]_vars

\* Both threads run on: neither ever waits for the other.
FairSpec == Spec /\ WF_vars(GtkNext) /\ WF_vars(WriterStep)

-----------------------------------------------------------------------------
(* Properties.                                                             *)

Picture(c) ==
  <<array[<<"color_palette", Attribute(c) % NumColors>>],
    array[<<"font_data", Character(c) % NumChars>>]>>

\* Type invariant of the arrays and of the two threads; a store never leaves
\* the array that get_address found.
TypeOK ==
  /\ array \in [Bytes -> Byte]
  /\ write = None \/ /\ \A i \in Lanes : <<write.at[1], write.at[2] + i>> \in Bytes
                     /\ write.word \in [Lanes -> Byte] /\ write.enable \subseteq Lanes
  /\ lane \in 0 .. WordSize
  /\ cell \in Cells \cup {None} /\ color \in Byte \cup {None} /\ pass \in {1, 2}
  /\ m_pix \in [Cells -> (Byte \X Byte) \cup {None}]
  /\ screen \in [Cells -> (Byte \X Byte) \cup {None}]

ScreenCurrent == \A c \in Cells : screen[c] = Picture(c)

\* However the stores and the drawing interleave, once a write is complete
\* and no redraw is due or in its first pass, the window shows the arrays.
ShowsLastWrite ==
  exposed /\ write = None /\ ~invalid /\ (cell = None \/ pass = 2) => ScreenCurrent

\* If the program stops writing, the window ends up showing what it wrote.
WindowConverges ==
  <>exposed /\ <>[](write = None /\ ~halted) => <>[]ScreenCurrent
=============================================================================

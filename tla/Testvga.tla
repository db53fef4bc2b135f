------------------------------- MODULE Testvga -------------------------------
(***************************************************************************)
(* The program testvga.c.  It draws a test pattern, exchanges the palette  *)
(* of the vga with its own, draws a picture in the attributes of the text, *)
(* scrolls random characters down over it cell by cell through a buffer of *)
(* one row, exchanges the palettes again and draws the pattern again.      *)
(* Every access to text_array and color_palette is a transaction; the      *)
(* window may be redrawn after each of them.                               *)
(***************************************************************************)
EXTENDS Integers

CONSTANTS TextRows, TextCols, NumColors,
          ScrollPasses,  \* 30 in the code
          NoByte         \* a byte that nobody has written yet

ASSUME TestvgaAssumption ==
  /\ {TextRows, TextCols, NumColors, ScrollPasses} \subseteq Nat \ {0}
  /\ TextRows # 1  \* the scroll has a second row
  /\ NoByte \notin (0 .. 255) \cup ({"puskar"} \X Nat \X Nat)

Rows == 0 .. TextRows - 1
Cols == 0 .. TextCols - 1
Colors == 0 .. NumColors - 1
Cell == Rows \X Cols

VARIABLES
  stage,           \* which loop of the program runs
  row, col, pass,  \* its counters i, j and x
  characters,      \* the even bytes of text_array
  attributes,      \* the odd bytes
  color_palette,   \* the vga's
  palette_RGB,     \* the program's
  buffer,          \* one character for each column
  random           \* the low byte of random, all that is ever used of it

vgaVars == <<stage, row, col, pass, characters, attributes, color_palette,
             palette_RGB, buffer, random>>

VgaInit ==
  /\ stage = "pattern" /\ row = 0 /\ col = 0 /\ pass = 0
  /\ characters = [c \in Cell |-> NoByte] /\ attributes = characters
  /\ color_palette = [n \in Colors |-> <<"default", n>>]
  /\ palette_RGB = [n \in Colors |-> <<"program", n>>]
  /\ buffer = [c \in Cols |-> NoByte]
  /\ random = 159

\* Mutated form: i <= text_rows, one row too many.
CountOneRowMore(next, first) ==
  /\ col' = (col + 1) % TextCols
  /\ row' = IF col < TextCols - 1 THEN row ELSE IF row < TextRows THEN row + 1 ELSE first
  /\ stage' = IF <<row, col>> = <<TextRows, TextCols - 1>> THEN next ELSE stage
\* The counters of a loop over the cells from the row first on; after the last
\* cell the program goes on with the stage next.
CountCells(next, first) ==
  /\ col' = (col + 1) % TextCols
  /\ row' = IF col < TextCols - 1 THEN row ELSE IF row < TextRows - 1 THEN row + 1 ELSE first
  /\ stage' = IF <<row, col>> = <<TextRows - 1, TextCols - 1>> THEN next ELSE stage

\* draw_test_pattern, one cell.
PatternCharacter(r, c) == (r * TextCols + c) % 256
PatternAttribute(r, c) == (c % 16) + 16 * (r % 8)
DrawPattern ==
  /\ stage \in {"pattern", "pattern_again"}
  /\ characters' = [characters EXCEPT ![<<row, col>>] = PatternCharacter(row, col)]
  /\ attributes' = [attributes EXCEPT ![<<row, col>>] = PatternAttribute(row, col)]
  /\ CountCells(IF stage = "pattern" THEN "exchange" ELSE "wfi", 0)
  /\ UNCHANGED <<pass, color_palette, palette_RGB, buffer, random>>

\* Mutated form: tmp is not used.
ExchangedWithoutTmp(n) ==
  /\ palette_RGB' = [palette_RGB EXCEPT ![n] = color_palette[n]]
  /\ color_palette' = [color_palette EXCEPT ![n] = palette_RGB'[n]]
Exchanged(n) ==
  /\ palette_RGB' = [palette_RGB EXCEPT ![n] = color_palette[n]]
  /\ color_palette' = [color_palette EXCEPT ![n] = palette_RGB[n]]

\* draw_puskar's first and last loop, one color; the counter is row.
ExchangeColor ==
  /\ stage \in {"exchange", "exchange_back"}
  /\ Exchanged(row)
  /\ IF row < NumColors - 1 THEN row' = row + 1 /\ UNCHANGED stage
     ELSE row' = 0 /\ stage' = IF stage = "exchange" THEN "picture" ELSE "pattern_again"
  /\ UNCHANGED <<col, pass, characters, attributes, buffer, random>>

\* The picture, one cell, each in an attribute of its own.
PictureAttribute(r, c) == <<"puskar", c, r>>
DrawPicture ==
  /\ stage = "picture"
  /\ attributes' = [attributes EXCEPT ![<<row, col>>] = PictureAttribute(row, col)]
  /\ characters' = [characters EXCEPT ![<<row, col>>] = 0]
  /\ CountCells("top_row", 0)
  /\ UNCHANGED <<pass, color_palette, palette_RGB, buffer, random>>

\* random * 1103515245 + 12345, modulo 256: the low byte depends on no other.
Next8(byte) == (byte * 109 + 57) % 256

\* The top row of a pass of the scroll, one cell.
ScrollTop ==
  /\ stage = "top_row"
  /\ buffer' = [buffer EXCEPT ![col] = characters[<<0, col>>]]
  /\ characters' = [characters EXCEPT ![<<0, col>>] = random]
  /\ random' = Next8(random)
  /\ col' = (col + 1) % TextCols
  /\ IF col < TextCols - 1 THEN UNCHANGED <<stage, row>> ELSE stage' = "scroll" /\ row' = 1
  /\ UNCHANGED <<pass, attributes, color_palette, palette_RGB>>

\* Mutated form: the buffer is filled from the cell after the store.
BufferedLate == characters'[<<row, col>>]
Buffered == characters[<<row, col>>]

\* Another row of a pass, one cell.
ScrollRow ==
  /\ stage = "scroll"
  /\ characters' = [characters EXCEPT ![<<row, col>>] = buffer[col]]
  /\ buffer' = [buffer EXCEPT ![col] = Buffered]
  /\ IF <<row, col>> # <<TextRows - 1, TextCols - 1>>
       THEN CountCells("scroll", 0) /\ UNCHANGED pass
       ELSE /\ row' = 0 /\ col' = 0
            /\ pass' = (pass + 1) % ScrollPasses
            /\ stage' = IF pass < ScrollPasses - 1 THEN "top_row" ELSE "exchange_back"
  /\ UNCHANGED <<attributes, color_palette, palette_RGB, random>>

VgaNext == DrawPattern \/ ExchangeColor \/ DrawPicture \/ ScrollTop \/ ScrollRow

VgaSpec == VgaInit /\ [][VgaNext]_vgaVars

-----------------------------------------------------------------------------
(* Properties.                                                             *)

\* Type invariant: whatever loop runs, its counters are indices of the arrays it
\* uses, a row and a column of the text or a color of the palettes; and after
\* the first pattern no byte of the text is one that nobody wrote.
VgaTypeOK ==
  /\ stage \in {"pattern", "exchange", "picture", "top_row", "scroll", "exchange_back",
                "pattern_again", "wfi"}
  /\ stage \in {"pattern", "picture", "top_row", "scroll", "pattern_again"} => row \in Rows
  /\ stage \in {"exchange", "exchange_back"} => row \in Colors
  /\ col \in Cols /\ pass \in 0 .. ScrollPasses - 1 /\ random \in 0 .. 255
  /\ stage # "pattern" => /\ characters \in [Cell -> 0 .. 255]
                          /\ \A c \in Cell : attributes[c] # NoByte

\* The two palettes are exchanged color by color and each color is in exactly
\* one of them; after the second exchange the vga has its own again.
PalettesExchanged ==
  \A n \in Colors :
    LET exchanged == \/ stage \in {"picture", "top_row", "scroll"}
                     \/ stage = "exchange" /\ n < row
                     \/ stage = "exchange_back" /\ n >= row
    IN  /\ color_palette[n] = <<IF exchanged THEN "program" ELSE "default", n>>
        /\ palette_RGB[n] = <<IF exchanged THEN "default" ELSE "program", n>>

\* The k-th random character, and what a row holds after p passes of the
\* scroll: the top row of the pass that is one row older for each row.
RandomCharacter(k) ==
  LET byte[n \in Nat] == IF n = 0 THEN 159 ELSE Next8(byte[n - 1]) IN byte[k]
Scrolled(r, c, p) == IF p > r THEN RandomCharacter((p - 1 - r) * TextCols + c) ELSE 0

\* At every cell of a pass the rows above have been moved down by one, the
\* buffer holds for each column the one character that is overwritten but not
\* yet written again, and the picture below the characters stays.
ScrollExact ==
  stage \in {"top_row", "scroll"} =>
    /\ \A r \in Rows, c \in Cols :
         LET done == r < row \/ (r = row /\ c < col)
         IN  /\ characters[<<r, c>>] = Scrolled(r, c, pass + (IF done THEN 1 ELSE 0))
             /\ attributes[<<r, c>>] = PictureAttribute(r, c)
    /\ \A c \in Cols :
         LET next == IF c < col THEN row + 1 ELSE row
         IN  next > 0 => buffer[c] = Scrolled(next - 1, c, pass)
=============================================================================

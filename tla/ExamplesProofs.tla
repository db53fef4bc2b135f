--------------------------- MODULE ExamplesProofs ---------------------------
(* Proofs about the programs of examples/.                                  *)
EXTENDS Examples, DataLemmas, FiniteSetTheorems, TLAPS

-----------------------------------------------------------------------------
(* testuart.c.                                                              *)

\* What _start and handler have sent after k of their stores.
Greeting(k) == [n \in 1 .. k |-> [from |-> "_start", byte |-> n]]
Answers(k) == [n \in 1 .. k |-> [from |-> "handler", byte |-> (typed[n] + 1) % 256]]

\* index counts the characters answered.  The one being handled comes next,
\* and the ones in the receive fifo after it; it is on the screen once it has
\* been stored.
Handled == IF handling = "no" THEN index ELSE index + 1
Shown == IF handling \in {"attribute", "echo"} THEN index + 1 ELSE index

Message == [from : {"_start", "handler"}, byte : 0 .. 255]

UartTyped ==
  /\ greeted \in 0 .. GreetingLength
  /\ typed \in Seq(TypedBytes) /\ uart_in \in Seq(TypedBytes) /\ text \in Seq(TypedBytes)
  /\ uart_out \in Seq([from : {"_start", "handler"}, byte : 0 .. 255])
  /\ handling \in {"no", "text", "attribute", "echo"}
  /\ in_byte \in 0 .. 255 /\ index \in 0 .. TextCells /\ aborted \in BOOLEAN

UartInv ==
  /\ UartTyped
  /\ SentBy("_start") = Greeting(greeted)
  /\ SentBy("handler") = Answers(index)
  /\ Len(typed) = Handled + Len(uart_in)
  /\ \A n \in 1 .. Len(uart_in) : uart_in[n] = typed[Handled + n]
  /\ handling # "no" => in_byte = typed[Handled]
  /\ Len(text) = Shown /\ Shown <= TextCells
  /\ \A n \in 1 .. Shown : text[n] = typed[n]
  /\ aborted => handling = "text" /\ index = TextCells

LEMMA UartInitial == UartInit => UartInv
<1> SUFFICES ASSUME UartInit PROVE UartInv
  OBVIOUS
<1>1. SentBy("_start") = <<>> /\ SentBy("handler") = <<>>
  BY OnlyEmpty DEF UartInit, SentBy
<1>2. Greeting(0) = <<>> /\ Answers(0) = <<>>
  BY DEF Greeting, Answers
<1>3. /\ <<>> \in Seq(TypedBytes) /\ <<>> \in Seq(Message)
      /\ Len(<<>>) = 0 /\ 0 \in 0 .. GreetingLength /\ 0 \in 0 .. TextCells
  BY TestuartAssumption
<1>4. UartTyped
  <2>1. aborted \in BOOLEAN /\ handling \in {"no", "text", "attribute", "echo"}
    BY DEF UartInit
  <2>2. /\ uart_out \in Seq([from : {"_start", "handler"}, byte : 0 .. 255])
        /\ typed \in Seq(TypedBytes) /\ uart_in \in Seq(TypedBytes) /\ text \in Seq(TypedBytes)
    BY <1>3 DEF UartInit, Message
  <2>3. greeted \in 0 .. GreetingLength /\ in_byte \in 0 .. 255 /\ index \in 0 .. TextCells
    BY <1>3 DEF UartInit
  <2>4. QED
    BY <2>1, <2>2, <2>3 DEF UartTyped
<1>5. Handled = 0 /\ Shown = 0
  BY DEF UartInit, Handled, Shown
<1>6. QED
  BY <1>1, <1>2, <1>3, <1>4, <1>5, TestuartAssumption DEF UartInit, UartInv

\* A message sent goes behind those of its sender and leaves the other's alone.
LEMMA SentOne ==
  ASSUME uart_out \in Seq(Message), NEW who \in {"_start", "handler"}, NEW v \in 0 .. 255,
         uart_out' = Append(uart_out, [from |-> who, byte |-> v])
  PROVE  /\ uart_out' \in Seq(Message)
         /\ SentBy(who)' = Append(SentBy(who), [from |-> who, byte |-> v])
         /\ \A other \in {"_start", "handler"} : other # who => SentBy(other)' = SentBy(other)
<1> DEFINE m == [from |-> who, byte |-> v]
           Kept(w) == [from : {w}, byte : Nat]
<1>1. m \in Message /\ m \in Kept(who) /\ \A w : w # who => m \notin Kept(w)
  BY DEF Message
<1>2. SentBy(who)' = Only(Append(uart_out, m), Kept(who)) /\ SentBy(who) = Only(uart_out, Kept(who))
      /\ \A w : /\ SentBy(w)' = Only(Append(uart_out, m), Kept(w))
                /\ SentBy(w) = Only(uart_out, Kept(w))
  BY DEF SentBy
<1>3. uart_out' = Append(uart_out, m)
  OBVIOUS
<1> HIDE DEF m, Kept
<1>4. uart_out' \in Seq(Message)
  BY <1>1, <1>3, AppendProperties
<1>5. \A w : Only(Append(uart_out, m), Kept(w))
               = IF m \in Kept(w) THEN Append(Only(uart_out, Kept(w)), m)
                 ELSE Only(uart_out, Kept(w))
  BY <1>1, OnlyAppend
<1>6. SentBy(who)' = Append(SentBy(who), m)
  BY <1>1, <1>2, <1>5
<1>7. ASSUME NEW w, w # who PROVE SentBy(w)' = SentBy(w)
  BY <1>1, <1>2, <1>5, <1>7
<1> QED BY <1>4, <1>6, <1>7 DEF m

LEMMA GreetingGrows ==
  ASSUME NEW k \in Nat
  PROVE  Greeting(k + 1) = Append(Greeting(k), [from |-> "_start", byte |-> k + 1])
  BY DEF Greeting

LEMMA AnswersGrow ==
  ASSUME NEW k \in Nat
  PROVE  Answers(k + 1)
           = Append(Answers(k), [from |-> "handler", byte |-> (typed[k + 1] + 1) % 256])
  BY DEF Answers

LEMMA TypeKeepsInv == UartInv /\ Type => UartInv'
<1> SUFFICES ASSUME UartInv, Type PROVE UartInv'
  OBVIOUS
<1>1. PICK c \in TypedBytes : typed' = Append(typed, c) /\ uart_in' = Append(uart_in, c)
  BY DEF Type
<1>2. UNCHANGED <<greeted, uart_out, handling, in_byte, index, text, aborted>>
  BY DEF Type
<1>3. UartTyped /\ index \in Nat /\ Handled \in Nat /\ Shown \in Nat /\ Shown <= Handled
  BY TestuartAssumption DEF UartInv, UartTyped, Handled, Shown
<1>4. /\ typed' \in Seq(TypedBytes) /\ uart_in' \in Seq(TypedBytes)
      /\ Len(typed) \in Nat /\ Len(typed') = Len(typed) + 1
      /\ Len(uart_in) \in Nat /\ Len(uart_in') = Len(uart_in) + 1
      /\ \A n \in 1 .. Len(typed) : typed'[n] = typed[n]
      /\ \A n \in 1 .. Len(uart_in) : uart_in'[n] = uart_in[n]
      /\ typed'[Len(typed) + 1] = c /\ uart_in'[Len(uart_in) + 1] = c
  BY <1>1, <1>3, AppendProperties, LenProperties DEF UartTyped
<1>5. Handled' = Handled /\ Shown' = Shown /\ Len(typed) = Handled + Len(uart_in)
  BY <1>2 DEF Handled, Shown, UartInv
<1>6. UartTyped'
  BY <1>2, <1>3, <1>4 DEF UartTyped
<1>7. SentBy("_start")' = Greeting(greeted)' /\ SentBy("handler")' = Answers(index)'
  <2>1. index <= Len(typed)
    BY <1>3, <1>4, <1>5 DEF Handled
  <2>2. Answers(index)' = Answers(index)
    BY <1>2, <1>3, <1>4, <2>1 DEF Answers
  <2>3. QED
    BY <1>2, <2>2 DEF SentBy, Greeting, UartInv
<1>8. ASSUME NEW n \in 1 .. Len(uart_in') PROVE uart_in'[n] = typed'[Handled + n]
  <2>1. CASE n \in 1 .. Len(uart_in)
    <3>1. Handled + n \in 1 .. Len(typed) /\ uart_in[n] = typed[Handled + n]
      BY <1>3, <1>4, <1>5, <2>1 DEF UartInv
    <3>2. QED
      BY <1>4, <2>1, <3>1
  <2>2. CASE n = Len(uart_in) + 1
    <3>1. Handled + n = Len(typed) + 1
      BY <1>3, <1>4, <1>5, <2>2
    <3>2. QED
      BY <1>4, <2>2, <3>1
  <2>3. QED
    BY <1>4, <2>1, <2>2
<1>9. handling # "no" => Handled \in 1 .. Len(typed)
  BY <1>3, <1>4, <1>5 DEF Handled
<1>10. QED
  BY <1>2, <1>3, <1>4, <1>5, <1>6, <1>7, <1>8, <1>9 DEF UartInv

LEMMA GreetKeepsInv == UartInv /\ Greet => UartInv'
<1> SUFFICES ASSUME UartInv, Greet PROVE UartInv'
  OBVIOUS
<1>1. /\ greeted \in Nat /\ greeted' = greeted + 1 /\ greeted' \in 0 .. GreetingLength
      /\ greeted' \in 0 .. 255 /\ uart_out \in Seq(Message)
      /\ uart_out' = Append(uart_out, [from |-> "_start", byte |-> greeted'])
      /\ UNCHANGED <<typed, uart_in, handling, in_byte, index, text, aborted>>
  BY TestuartAssumption DEF UartInv, UartTyped, Greet, Message
<1>2. /\ uart_out' \in Seq(Message)
      /\ SentBy("_start")' = Append(SentBy("_start"), [from |-> "_start", byte |-> greeted'])
      /\ SentBy("handler")' = SentBy("handler")
  BY <1>1, SentOne
<1>3. SentBy("_start")' = Greeting(greeted)'
  BY <1>1, <1>2, GreetingGrows DEF UartInv, Greeting
<1>4. SentBy("handler")' = Answers(index)'
  BY <1>1, <1>2 DEF UartInv, Answers
<1>5. UartTyped'
  BY <1>1, <1>2 DEF UartInv, UartTyped, Message
<1>6. QED
  BY <1>1, <1>3, <1>4, <1>5 DEF UartInv, Handled, Shown

LEMMA EnterKeepsInv == UartInv /\ EnterHandler => UartInv'
<1> SUFFICES ASSUME UartInv, EnterHandler PROVE UartInv'
  OBVIOUS
<1>1. /\ uart_in # <<>> /\ handling = "no" /\ handling' = "text" /\ ~aborted
      /\ in_byte' = Head(uart_in) /\ uart_in' = Tail(uart_in)
      /\ UNCHANGED <<greeted, typed, uart_out, index, text, aborted>>
      /\ UartTyped /\ index \in Nat /\ index <= TextCells
  BY TestuartAssumption DEF EnterHandler, UartInv, UartTyped
<1>2. /\ Len(uart_in) \in Nat \ {0} /\ uart_in' \in Seq(TypedBytes)
      /\ Len(uart_in') = Len(uart_in) - 1 /\ in_byte' = uart_in[1]
      /\ \A n \in 1 .. Len(uart_in') : uart_in'[n] = uart_in[n + 1]
      /\ in_byte' \in TypedBytes
  BY <1>1, HeadTailProperties, LenProperties, EmptySeq DEF UartTyped
<1>3. Handled = index /\ Handled' = index + 1 /\ Shown' = index /\ Shown = index
  BY <1>1 DEF Handled, Shown
<1>4. UartTyped'
  BY <1>1, <1>2, TestuartAssumption DEF UartTyped
<1>5. /\ Len(typed) = Handled' + Len(uart_in')
      /\ \A n \in 1 .. Len(uart_in') : uart_in'[n] = typed[Handled' + n]
      /\ in_byte' = typed[Handled']
  BY <1>1, <1>2, <1>3 DEF UartInv
<1>6. SentBy("_start")' = Greeting(greeted)' /\ SentBy("handler")' = Answers(index)'
  BY <1>1 DEF UartInv, Answers, Greeting, SentBy
<1>7. QED
  BY <1>1, <1>3, <1>4, <1>5, <1>6 DEF UartInv

LEMMA StoreKeepsInv == UartInv /\ StoreCharacter => UartInv'
<1> SUFFICES ASSUME UartInv, StoreCharacter PROVE UartInv'
  OBVIOUS
<1>1. /\ handling = "text" /\ UNCHANGED <<greeted, typed, uart_in, uart_out, in_byte, index>>
      /\ UartTyped /\ index \in Nat /\ index <= TextCells /\ Shown = index
      /\ Handled = index + 1 /\ in_byte = typed[index + 1] /\ Len(text) = index
  BY TestuartAssumption DEF StoreCharacter, UartInv, UartTyped, Handled, Shown
<1>2. SentBy("_start")' = Greeting(greeted)' /\ SentBy("handler")' = Answers(index)'
  BY <1>1 DEF UartInv, Answers, Greeting, SentBy
<1>3. CASE index < TextCells
  <2>1. text' = Append(text, in_byte) /\ handling' = "attribute" /\ aborted' = aborted
    BY <1>3 DEF StoreCharacter
  <2>2. in_byte \in TypedBytes
    <3>1. index + 1 \in 1 .. Len(typed) /\ typed \in Seq(TypedBytes)
      BY <1>1, LenProperties DEF UartInv, UartTyped
    <3>2. QED
      BY <1>1, <3>1, ElementOfSeq
  <2>3. /\ text' \in Seq(TypedBytes) /\ Len(text') = index + 1
        /\ \A n \in 1 .. index : text'[n] = text[n]
        /\ text'[index + 1] = in_byte
    BY <1>1, <2>1, <2>2, AppendProperties DEF UartTyped
  <2>4. Shown' = index + 1 /\ Handled' = index + 1 /\ Shown' <= TextCells
    BY <1>1, <1>3, <2>1, TestuartAssumption DEF Shown, Handled
  <2>5. \A n \in 1 .. index + 1 : text'[n] = typed[n]
    BY <1>1, <2>3 DEF UartInv
  <2>6. UartTyped'
    BY <1>1, <2>1, <2>3 DEF UartTyped
  <2>7. QED
    BY <1>1, <1>2, <2>1, <2>3, <2>4, <2>5, <2>6 DEF UartInv, StoreCharacter
<1>4. CASE ~(index < TextCells)
  <2>1. aborted' = TRUE /\ text' = text /\ handling' = handling
    BY <1>4 DEF StoreCharacter
  <2>2. index = TextCells
    BY <1>1, <1>4, TestuartAssumption
  <2>3. UartTyped'
    BY <1>1, <2>1 DEF UartTyped
  <2>4. QED
    BY <1>1, <1>2, <2>1, <2>2, <2>3 DEF UartInv, Shown, Handled
<1>5. QED
  BY <1>3, <1>4

LEMMA EchoKeepsInv == UartInv /\ Echo => UartInv'
<1> SUFFICES ASSUME UartInv, Echo PROVE UartInv'
  OBVIOUS
<1>1. /\ handling = "echo" /\ handling' = "no" /\ index' = index + 1
      /\ uart_out' = Append(uart_out, [from |-> "handler", byte |-> Successor])
      /\ UNCHANGED <<greeted, typed, uart_in, in_byte, text, aborted>>
      /\ UartTyped /\ index \in Nat /\ index + 1 <= TextCells /\ Shown = index + 1
      /\ Handled = index + 1 /\ in_byte = typed[index + 1] /\ uart_out \in Seq(Message)
  BY TestuartAssumption DEF Echo, NextIndex, UartInv, UartTyped, Handled, Shown, Message
<1>2. Successor = (typed[index + 1] + 1) % 256 /\ Successor \in 0 .. 255
  <2>1. in_byte \in 0 .. 255
    BY <1>1 DEF UartTyped
  <2>2. Successor \in 0 .. 255
    BY <2>1 DEF Successor
  <2>3. Successor = (typed[index + 1] + 1) % 256
    BY <1>1, Zenon DEF Successor
  <2>4. QED
    BY <2>2, <2>3
<1>3. /\ uart_out' \in Seq(Message)
      /\ SentBy("handler")' = Append(SentBy("handler"), [from |-> "handler", byte |-> Successor])
      /\ SentBy("_start")' = SentBy("_start")
  BY <1>1, <1>2, SentOne
<1>4. SentBy("handler")' = Answers(index)'
  <2>1. Answers(index)' = Answers(index + 1)
    BY <1>1 DEF Answers
  <2>2. SentBy("handler") = Answers(index)
    BY DEF UartInv
  <2>3. QED
    BY <1>1, <1>2, <1>3, <2>1, <2>2, AnswersGrow
<1>5. SentBy("_start")' = Greeting(greeted)'
  BY <1>1, <1>3 DEF UartInv, Greeting
<1>6. Shown' = index + 1 /\ Handled' = index + 1
  BY <1>1 DEF Shown, Handled
<1>7. UartTyped'
  BY <1>1, <1>3, TestuartAssumption DEF UartTyped, Message
<1>8. QED
  BY <1>1, <1>4, <1>5, <1>6, <1>7 DEF UartInv

LEMMA UartStep == UartInv /\ [UartNext]_uartVars => UartInv'
<1> SUFFICES ASSUME UartInv, [UartNext]_uartVars PROVE UartInv'
  OBVIOUS
<1>1. CASE StoreAttribute
  BY <1>1 DEF StoreAttribute, UartInv, UartTyped, Handled, Shown, Greeting, Answers, SentBy
<1>2. CASE UNCHANGED uartVars
  BY <1>2 DEF uartVars, UartInv, UartTyped, Handled, Shown, Greeting, Answers, SentBy
<1>3. QED
  BY <1>1, <1>2, TypeKeepsInv, GreetKeepsInv, EnterKeepsInv, StoreKeepsInv, EchoKeepsInv
  DEF UartNext

LEMMA UartSafe == UartInv => UartTypeOK /\ OutputsAreMerged
<1> SUFFICES ASSUME UartInv PROVE UartTypeOK /\ OutputsAreMerged
  OBVIOUS
<1>1. UartTyped /\ index \in Nat /\ Handled \in Nat /\ Shown \in Nat /\ Shown <= Handled
  BY TestuartAssumption DEF UartInv, UartTyped, Handled, Shown
<1>2. Len(SentBy("handler")) = index
  BY <1>1 DEF UartInv, Answers
<1>3. SentBy("handler")
       = [n \in 1 .. Len(SentBy("handler")) |-> [from |-> "handler", byte |-> (typed[n] + 1) % 256]]
  BY <1>2 DEF UartInv, Answers
<1>4. text = SubSeq(typed, 1, Len(text))
  <2>1. /\ Len(text) = Shown /\ Shown <= Len(typed) /\ Len(typed) \in Nat
        /\ typed \in Seq(TypedBytes) /\ text \in Seq(TypedBytes)
    BY <1>1, LenProperties DEF UartInv, UartTyped
  <2>2. SubSeq(typed, 1, Shown) = [n \in 1 .. Shown |-> typed[n]]
    BY <1>1, <2>1
  <2>3. text = [n \in 1 .. Shown |-> text[n]]
    BY <2>1
  <2>4. QED
    BY <2>1, <2>2, <2>3 DEF UartInv
<1>5. aborted => Len(typed) > TextCells
  BY <1>1, LenProperties, TestuartAssumption DEF UartInv, UartTyped, Handled
<1>6. UartTypeOK
  <2>1. Len(uart_in) \in Nat /\ Len(typed) = Handled + Len(uart_in) /\ Len(text) <= TextCells
    BY <1>1, LenProperties DEF UartInv, UartTyped
  <2>2. Len(uart_in) <= Len(typed)
    BY <1>1, <2>1
  <2> QED BY <1>1, <2>1, <2>2 DEF UartTypeOK, UartTyped
<1>7. OutputsAreMerged
  BY <1>1, <1>2, <1>3, <1>4, <1>5 DEF OutputsAreMerged, UartInv, Greeting, Handled
<1> QED BY <1>6, <1>7

-----------------------------------------------------------------------------
(* testvga.c: the loops and what is stored.                                 *)

Byte == 0 .. 255
Character == Byte \cup {NoByte}
Attribute == {NoByte} \cup Byte \cup ({"puskar"} \X Nat \X Nat)
Entry == {"default", "program"} \X Colors

\* The cells that the loop over the cells has visited.
Before(m, n) == m < row \/ (m = row /\ n < col)

\* The counters stay inside the arrays of the loop that runs.
VgaTyped ==
  /\ stage \in {"pattern", "exchange", "picture", "top_row", "scroll", "exchange_back",
                "pattern_again", "wfi"}
  /\ col \in Cols /\ pass \in 0 .. ScrollPasses - 1 /\ random \in Byte
  /\ stage \in {"pattern", "picture", "pattern_again"} => row \in Rows
  /\ stage \in {"exchange", "exchange_back"} => row \in Colors /\ col = 0
  /\ stage \in {"top_row", "wfi"} => row = 0
  /\ stage = "scroll" => row \in Rows \ {0}
  /\ characters \in [Cell -> Character]
  /\ attributes \in [Cell -> Attribute]
  /\ buffer \in [Cols -> Character]
  /\ color_palette \in [Colors -> Entry] /\ palette_RGB \in [Colors -> Entry]

\* The first pattern writes every byte of the text.
Written(m, n) == characters[<<m, n>>] \in Byte /\ attributes[<<m, n>>] # NoByte
PatternWrites ==
  \A m \in Rows, n \in Cols : stage = "pattern" /\ Before(m, n) => Written(m, n)
FirstWrites ==
  \A m \in Rows, n \in Cols : stage # "pattern" => Written(m, n)

\* The picture leaves no character, and the scroll takes its characters from
\* the generator in the order of the cells it fills.
PictureDrawn ==
  stage = "picture" =>
    \A m \in Rows, n \in Cols :
      Before(m, n) => characters[<<m, n>>] = 0 /\ attributes[<<m, n>>] = PictureAttribute(m, n)
GeneratorInStep ==
  /\ stage \in {"pattern", "exchange", "picture"} => pass = 0 /\ random = RandomCharacter(0)
  /\ stage = "top_row" => random = RandomCharacter(pass * TextCols + col)
  /\ stage = "scroll" => random = RandomCharacter((pass + 1) * TextCols)

VgaInv ==
  /\ VgaTyped /\ PatternWrites /\ FirstWrites /\ PalettesExchanged
  /\ PictureDrawn /\ GeneratorInStep /\ ScrollExact

LEMMA Sizes ==
  /\ TextRows \in Nat /\ TextRows >= 2 /\ TextCols \in Nat \ {0}
  /\ NumColors \in Nat \ {0} /\ ScrollPasses \in Nat \ {0}
  /\ NoByte \notin Byte /\ NoByte \notin {"puskar"} \X Nat \X Nat
  /\ 0 \in Rows /\ 1 \in Rows \ {0} /\ 0 \in Cols /\ 0 \in Colors
  BY TestvgaAssumption DEF Byte, Rows, Cols, Colors

LEMMA NextColumn ==
  ASSUME NEW n \in Cols
  PROVE  (n + 1) % TextCols = IF n < TextCols - 1 THEN n + 1 ELSE 0
<1>1. n \in Nat /\ TextCols \in Nat \ {0} /\ n < TextCols
  BY Sizes DEF Cols
<1>2. CASE n < TextCols - 1
  <2>1. n + 1 \in 0 .. TextCols - 1
    BY <1>1, <1>2
  <2> QED BY <1>1, <1>2, <2>1
<1>3. CASE n = TextCols - 1
  <2>1. n + 1 = TextCols /\ TextCols % TextCols = 0
    BY <1>1, <1>3
  <2> QED BY <1>1, <1>3, <2>1
<1> QED BY <1>1, <1>2, <1>3

LEMMA NextPass ==
  ASSUME NEW n \in 0 .. ScrollPasses - 1
  PROVE  (n + 1) % ScrollPasses = IF n < ScrollPasses - 1 THEN n + 1 ELSE 0
<1>1. n \in Nat /\ ScrollPasses \in Nat \ {0} /\ n < ScrollPasses
  BY Sizes
<1>2. CASE n < ScrollPasses - 1
  BY <1>1, <1>2
<1>3. CASE n = ScrollPasses - 1
  <2>1. n + 1 = ScrollPasses /\ ScrollPasses % ScrollPasses = 0
    BY <1>1, <1>3
  <2> QED BY <1>1, <1>3, <2>1
<1> QED BY <1>1, <1>2, <1>3

\* A loop over the cells visits one cell more, or it has visited all.
LastCell == row = TextRows - 1 /\ col = TextCols - 1

LEMMA CellsCounted ==
  ASSUME row \in Rows, col \in Cols, NEW next, CountCells(next, 0)
  PROVE  /\ col' \in Cols /\ row' \in Rows
         /\ LastCell => row' = 0 /\ col' = 0 /\ stage' = next
         /\ ~LastCell => stage' = stage /\ row <= row'
         /\ \A m \in Rows, n \in Cols :
              IF LastCell THEN Before(m, n) \/ (m = row /\ n = col)
              ELSE Before(m, n)' <=> Before(m, n) \/ (m = row /\ n = col)
<1>1. /\ row \in Nat /\ row < TextRows /\ col \in Nat /\ col < TextCols
      /\ TextRows \in Nat /\ TextCols \in Nat
  BY Sizes DEF Rows, Cols
<1>2. /\ col' = IF col < TextCols - 1 THEN col + 1 ELSE 0
      /\ row' = IF col < TextCols - 1 THEN row ELSE IF row < TextRows - 1 THEN row + 1 ELSE 0
      /\ stage' = IF LastCell THEN next ELSE stage
  BY NextColumn DEF CountCells, LastCell
<1>3. col' \in Cols /\ row' \in Rows
  BY <1>1, <1>2 DEF Cols, Rows
<1>4. /\ LastCell => row' = 0 /\ col' = 0 /\ stage' = next
      /\ ~LastCell => stage' = stage /\ row <= row'
  BY <1>1, <1>2 DEF LastCell
<1>5. ASSUME NEW m \in Rows, NEW n \in Cols
      PROVE  IF LastCell THEN Before(m, n) \/ (m = row /\ n = col)
             ELSE Before(m, n)' <=> Before(m, n) \/ (m = row /\ n = col)
  BY <1>1, <1>2 DEF Before, LastCell, Rows, Cols
<1> QED BY <1>3, <1>4, <1>5

\* A store of v into the cell of the loop makes g of f.
Stores(f, g, v) == g = [f EXCEPT ![<<row, col>>] = v]
Stored(f, g, v, S) ==
  /\ g \in [Cell -> S]
  /\ \A m \in Rows, n \in Cols : g[<<m, n>>] = IF m = row /\ n = col THEN v ELSE f[<<m, n>>]

LEMMA CellStored ==
  ASSUME NEW S, NEW f \in [Cell -> S], NEW v \in S, row \in Rows, col \in Cols,
         NEW g, Stores(f, g, v)
  PROVE  Stored(f, g, v, S)
  BY DEF Cell, Stores, Stored

\* The colors that have changed places.
IsExchanged(n) ==
  \/ stage \in {"picture", "top_row", "scroll"}
  \/ stage = "exchange" /\ n < row
  \/ stage = "exchange_back" /\ n >= row

Placed(n) ==
  /\ color_palette[n] = <<IF IsExchanged(n) THEN "program" ELSE "default", n>>
  /\ palette_RGB[n] = <<IF IsExchanged(n) THEN "default" ELSE "program", n>>

LEMMA ColorsPlaced ==
  /\ PalettesExchanged <=> \A n \in Colors : Placed(n)
  /\ PalettesExchanged' <=> \A n \in Colors : Placed(n)'
  BY DEF PalettesExchanged, Placed, IsExchanged

\* A loop over the cells touches no color.
LEMMA PalettesKept ==
  ASSUME PalettesExchanged, UNCHANGED <<color_palette, palette_RGB>>,
         \A n \in Colors : IsExchanged(n)' <=> IsExchanged(n)
  PROVE  PalettesExchanged'
  BY ColorsPlaced DEF Placed

LEMMA PatternStored ==
  ASSUME NEW m \in Rows, NEW n \in Cols
  PROVE  PatternCharacter(m, n) \in Byte /\ PatternAttribute(m, n) \in Byte
<1>1. m \in Nat /\ n \in Nat /\ m * TextCols + n \in Nat
  BY Sizes DEF Rows, Cols
<1>2. n % 16 \in 0 .. 15 /\ m % 8 \in 0 .. 7
  BY <1>1
<1>3. (m * TextCols + n) % 256 \in 0 .. 255
  BY <1>1
<1> QED BY <1>2, <1>3 DEF PatternCharacter, PatternAttribute, Byte

\* The generator of random characters is the recursion it says.
LEMMA RandomCharacters ==
  /\ RandomCharacter(0) = 159
  /\ \A k \in Nat : /\ RandomCharacter(k) \in Byte
                    /\ RandomCharacter(k + 1) = Next8(RandomCharacter(k))
<1> DEFINE step == [x \in Byte \X Nat |-> Next8(x[1])]
           E(f) == [n \in Nat |-> IF n = 0 THEN 159 ELSE Next8(f[n - 1])]
<1>1. \A v \in Byte : Next8(v) \in Byte
  BY DEF Next8, Byte
<1>2. 159 \in Byte /\ step \in [Byte \X Nat -> Byte]
  <2>1. 159 \in Byte
    BY DEF Byte
  <2>2. \A x \in Byte \X Nat : Next8(x[1]) \in Byte
    BY <1>1
  <2> QED BY <2>1, <2>2
<1>3. \A v \in Byte : \A n \in Nat : step[<<v, n>>] = Next8(v)
  OBVIOUS
<1> HIDE DEF step
<1>4. PICK f : Solves(f, Byte, 159, step)
  BY <1>2, Recursion
<1>5. f = E(f)
  <2>1. ASSUME NEW n \in Nat PROVE f[n] = E(f)[n]
    <3>1. CASE n = 0
      BY <1>4, <3>1 DEF Solves
    <3>2. CASE n # 0
      <4>1. n - 1 \in Nat /\ (n - 1) + 1 = n
        BY <3>2
      <4>2. f[n - 1] \in Byte /\ f[n] = step[<<f[n - 1], n - 1>>]
        BY <1>4, <4>1 DEF Solves
      <4> QED BY <1>3, <3>2, <4>1, <4>2
    <3> QED BY <3>1, <3>2
  <2> QED BY <1>4, <2>1 DEF Solves
<1> DEFINE g == CHOOSE h : h = E(h)
<1>6. g = E(g)
  BY <1>5
<1>7. \A k : RandomCharacter(k) = g[k]
  BY DEF RandomCharacter
<1> HIDE DEF g
<1>8. g[0] = 159
  BY <1>6
<1>9. ASSUME NEW n \in Nat PROVE g[n + 1] = Next8(g[n])
  <2>1. n + 1 \in Nat /\ n + 1 # 0 /\ (n + 1) - 1 = n
    OBVIOUS
  <2> QED BY <1>6, <2>1
<1>10. \A n \in Nat : g[n] \in Byte
  <2> DEFINE U == {n \in Nat : g[n] \in Byte}
  <2>1. 0 \in U
    BY <1>2, <1>8
  <2>2. ASSUME NEW n \in Nat, n \in U PROVE n + 1 \in U
    BY <1>1, <1>9, <2>2
  <2> HIDE DEF U
  <2>3. Nat \subseteq U
    BY <2>1, <2>2, Induction
  <2> QED BY <2>3 DEF U
<1> QED BY <1>7, <1>8, <1>9, <1>10

\* What the scroll puts into a cell, and into the cell below it a pass later.
LEMMA ScrolledFacts ==
  ASSUME NEW m \in Nat, NEW n \in Nat, NEW p \in Nat
  PROVE  /\ Scrolled(m, n, p) \in Byte
         /\ Scrolled(m, n, 0) = 0
         /\ Scrolled(m + 1, n, p + 1) = Scrolled(m, n, p)
         /\ Scrolled(0, n, p + 1) = RandomCharacter(p * TextCols + n)
<1>1. TextCols \in Nat
  BY Sizes
<1>2. p > m => p - 1 - m \in Nat /\ (p - 1 - m) * TextCols + n \in Nat
  BY <1>1
<1>3. Scrolled(m, n, p) \in Byte
  BY <1>2, RandomCharacters DEF Scrolled, Byte
<1>4. Scrolled(m, n, 0) = 0
  BY DEF Scrolled
<1>5. Scrolled(m + 1, n, p + 1) = Scrolled(m, n, p)
  <2>1. (p + 1) - 1 - (m + 1) = p - 1 - m /\ (p + 1 > m + 1 <=> p > m)
    OBVIOUS
  <2> QED BY <2>1 DEF Scrolled
<1>6. Scrolled(0, n, p + 1) = RandomCharacter(p * TextCols + n)
  <2>1. (p + 1) - 1 - 0 = p /\ p + 1 > 0
    OBVIOUS
  <2> QED BY <2>1 DEF Scrolled
<1> QED BY <1>3, <1>4, <1>5, <1>6

\* A cell that the running pass has reached is one pass further.
Passes(m, n) == pass + (IF Before(m, n) THEN 1 ELSE 0)
CellScrolled(m, n) ==
  /\ characters[<<m, n>>] = Scrolled(m, n, Passes(m, n))
  /\ attributes[<<m, n>>] = PictureAttribute(m, n)

\* The row whose next character a column waits for.
NextIn(n) == IF n < col THEN row + 1 ELSE row
ColumnBuffered(n) == NextIn(n) > 0 => buffer[n] = Scrolled(NextIn(n) - 1, n, pass)

AllScrolled ==
  /\ \A m \in Rows, n \in Cols : CellScrolled(m, n)
  /\ \A n \in Cols : ColumnBuffered(n)

LEMMA ScrollParts ==
  /\ ScrollExact <=> (stage \in {"top_row", "scroll"} => AllScrolled)
  /\ ScrollExact' <=> (stage' \in {"top_row", "scroll"} => AllScrolled')
  BY DEF ScrollExact, AllScrolled, CellScrolled, Passes, Before, ColumnBuffered, NextIn

LEMMA VgaInitial == VgaInit => VgaInv
<1> SUFFICES ASSUME VgaInit PROVE VgaInv
  OBVIOUS
<1>1. VgaTyped
  <2>1. /\ 0 \in 0 .. ScrollPasses - 1 /\ 159 \in Byte
        /\ \A n \in Colors : <<"default", n>> \in Entry /\ <<"program", n>> \in Entry
    BY Sizes DEF Byte, Entry
  <2>2. NoByte \in Character /\ NoByte \in Attribute
    BY DEF Attribute, Character
  <2>3. /\ characters \in [Cell -> Character] /\ attributes \in [Cell -> Attribute]
        /\ buffer \in [Cols -> Character]
        /\ color_palette \in [Colors -> Entry] /\ palette_RGB \in [Colors -> Entry]
    BY <2>1, <2>2 DEF VgaInit
  <2> QED BY <2>1, <2>3, Sizes DEF VgaInit, VgaTyped
<1>2. PatternWrites
  BY Sizes DEF VgaInit, PatternWrites, Before, Rows, Cols
<1>3. FirstWrites /\ PictureDrawn /\ ScrollExact
  BY DEF VgaInit, FirstWrites, PictureDrawn, ScrollExact
<1>4. PalettesExchanged
  BY DEF VgaInit, PalettesExchanged
<1>5. GeneratorInStep
  BY RandomCharacters DEF VgaInit, GeneratorInStep
<1> QED BY <1>1, <1>2, <1>3, <1>4, <1>5 DEF VgaInv

LEMMA PatternKeepsInv == VgaInv /\ DrawPattern => VgaInv'
<1> SUFFICES ASSUME VgaInv, DrawPattern PROVE VgaInv'
  OBVIOUS
<1> DEFINE next == IF stage = "pattern" THEN "exchange" ELSE "wfi"
<1>1. /\ stage \in {"pattern", "pattern_again"} /\ row \in Rows /\ col \in Cols /\ VgaTyped
      /\ CountCells(next, 0)
      /\ characters' = [characters EXCEPT ![<<row, col>>] = PatternCharacter(row, col)]
      /\ attributes' = [attributes EXCEPT ![<<row, col>>] = PatternAttribute(row, col)]
      /\ UNCHANGED <<pass, color_palette, palette_RGB, buffer, random>>
  BY DEF DrawPattern, VgaInv, VgaTyped
<1> HIDE DEF next
<1>2. /\ PatternCharacter(row, col) \in Byte /\ PatternAttribute(row, col) \in Byte
      /\ PatternAttribute(row, col) # NoByte /\ PatternAttribute(row, col) \in Attribute
  BY <1>1, PatternStored, Sizes DEF Attribute
<1>s. /\ Stores(characters, characters', PatternCharacter(row, col))
      /\ Stores(attributes, attributes', PatternAttribute(row, col))
  BY <1>1 DEF Stores
<1>3. /\ characters' \in [Cell -> Character]
      /\ \A m \in Rows, n \in Cols :
           characters'[<<m, n>>]
             = IF m = row /\ n = col THEN PatternCharacter(row, col) ELSE characters[<<m, n>>]
  <2>1. characters \in [Cell -> Character] /\ PatternCharacter(row, col) \in Character
    BY <1>1, <1>2 DEF VgaTyped, Character
  <2>2. Stored(characters, characters', PatternCharacter(row, col), Character)
    BY <1>1, <1>s, <2>1, CellStored
  <2> QED BY <2>2 DEF Stored
<1>4. /\ attributes' \in [Cell -> Attribute]
      /\ \A m \in Rows, n \in Cols :
           attributes'[<<m, n>>]
             = IF m = row /\ n = col THEN PatternAttribute(row, col) ELSE attributes[<<m, n>>]
  <2>1. attributes \in [Cell -> Attribute]
    BY <1>1 DEF VgaTyped
  <2>2. Stored(attributes, attributes', PatternAttribute(row, col), Attribute)
    BY <1>1, <1>2, <1>s, <2>1, CellStored
  <2> QED BY <2>2 DEF Stored
<1>5. /\ col' \in Cols /\ row' \in Rows
      /\ LastCell => row' = 0 /\ col' = 0 /\ stage' = next
      /\ ~LastCell => stage' = stage /\ row <= row'
      /\ \A m \in Rows, n \in Cols :
           IF LastCell THEN Before(m, n) \/ (m = row /\ n = col)
           ELSE Before(m, n)' <=> Before(m, n) \/ (m = row /\ n = col)
  BY <1>1, CellsCounted
<1>6. /\ stage = "pattern" => next = "exchange"
      /\ stage = "pattern_again" => next = "wfi"
  BY DEF next
<1>7. stage' \in {"pattern", "exchange", "pattern_again", "wfi"}
  BY <1>1, <1>5, <1>6
<1>8. VgaTyped'
  BY <1>1, <1>3, <1>4, <1>5, <1>6, Sizes DEF VgaTyped
<1>9. ASSUME NEW m \in Rows, NEW n \in Cols,
             stage = "pattern" => Before(m, n) \/ (m = row /\ n = col)
      PROVE  Written(m, n)'
  <2>1. (m = row /\ n = col) \/ Written(m, n)
    BY <1>9 DEF VgaInv, PatternWrites, FirstWrites
  <2> QED BY <1>2, <1>3, <1>4, <2>1 DEF Written
<1>10. PatternWrites' /\ FirstWrites'
  BY <1>1, <1>5, <1>6, <1>9 DEF PatternWrites, FirstWrites
<1>11. PalettesExchanged'
  <2>0. stage' = "exchange" => row' = 0
    BY <1>1, <1>5, <1>6
  <2>1. ASSUME NEW n \in Colors PROVE ~IsExchanged(n) /\ ~IsExchanged(n)'
    <3>1. ~(n < 0)
      BY Sizes DEF Colors
    <3> QED BY <1>1, <1>7, <2>0, <3>1 DEF IsExchanged
  <2> QED BY <1>1, <2>1, PalettesKept DEF VgaInv
<1>12. GeneratorInStep'
  BY <1>1, <1>5, <1>6 DEF VgaInv, GeneratorInStep
<1>13. PictureDrawn' /\ ScrollExact'
  BY <1>7 DEF PictureDrawn, ScrollExact
<1> QED BY <1>8, <1>10, <1>11, <1>12, <1>13 DEF VgaInv

LEMMA ExchangeKeepsInv == VgaInv /\ ExchangeColor => VgaInv'
<1> SUFFICES ASSUME VgaInv, ExchangeColor PROVE VgaInv'
  OBVIOUS
<1>1. /\ stage \in {"exchange", "exchange_back"} /\ row \in Colors /\ col = 0 /\ VgaTyped
  BY DEF ExchangeColor, VgaInv, VgaTyped
<1>2. row \in Nat /\ NumColors \in Nat /\ row <= NumColors - 1
  <2>1. row \in 0 .. NumColors - 1 /\ NumColors \in Nat
    BY <1>1, Sizes DEF Colors
  <2> QED BY <2>1
<1>3. /\ palette_RGB' = [palette_RGB EXCEPT ![row] = color_palette[row]]
      /\ color_palette' = [color_palette EXCEPT ![row] = palette_RGB[row]]
      /\ UNCHANGED <<col, pass, characters, attributes, buffer, random>>
  BY DEF ExchangeColor, Exchanged
<1>4. /\ row < NumColors - 1 => row' = row + 1 /\ stage' = stage
      /\ ~(row < NumColors - 1) =>
           row' = 0 /\ stage' = IF stage = "exchange" THEN "picture" ELSE "pattern_again"
  BY Zenon DEF ExchangeColor
<1>5. color_palette' \in [Colors -> Entry] /\ palette_RGB' \in [Colors -> Entry]
  BY <1>1, <1>3 DEF VgaTyped
<1>6. PalettesExchanged'
  <2>1. ASSUME NEW n \in Colors PROVE Placed(n)'
    <3>1. n \in Nat /\ n <= NumColors - 1 /\ Placed(n)
      BY <1>2, ColorsPlaced DEF VgaInv, Colors
    <3>2. CASE n = row
      <4>1. /\ color_palette'[n] = palette_RGB[n] /\ palette_RGB'[n] = color_palette[n]
        BY <1>1, <1>3, <3>2 DEF VgaTyped
      <4>2. IsExchanged(n)' <=> ~IsExchanged(n)
        <5>1. CASE row < NumColors - 1
          BY <1>1, <1>2, <1>4, <3>2, <5>1 DEF IsExchanged
        <5>2. CASE ~(row < NumColors - 1)
          BY <1>1, <1>2, <1>4, <3>2, <5>2 DEF IsExchanged
        <5> QED BY <5>1, <5>2
      <4> QED BY <3>1, <4>1, <4>2 DEF Placed
    <3>3. CASE n # row
      <4>1. /\ color_palette'[n] = color_palette[n] /\ palette_RGB'[n] = palette_RGB[n]
        BY <1>1, <1>3, <3>3 DEF VgaTyped
      <4>2. IsExchanged(n)' <=> IsExchanged(n)
        <5>1. CASE row < NumColors - 1
          BY <1>1, <1>2, <1>4, <3>1, <3>3, <5>1 DEF IsExchanged
        <5>2. CASE ~(row < NumColors - 1)
          BY <1>1, <1>2, <1>4, <3>1, <3>3, <5>2 DEF IsExchanged
        <5> QED BY <5>1, <5>2
      <4> QED BY <3>1, <4>1, <4>2 DEF Placed
    <3> QED BY <3>2, <3>3
  <2> QED BY <2>1, ColorsPlaced
<1>7. /\ stage' \in {"exchange", "exchange_back"} => row' \in Colors
      /\ stage' \in {"exchange", "exchange_back", "picture", "pattern_again"}
      /\ stage' = "picture" => stage = "exchange"
      /\ stage' = "exchange" => stage = "exchange"
      /\ stage' \in {"picture", "pattern_again"} => row' = 0
  <2>1. CASE row < NumColors - 1
    <3>1. row + 1 \in Colors
      BY <1>2, <2>1 DEF Colors
    <3> QED BY <1>1, <1>4, <2>1, <3>1
  <2>2. CASE ~(row < NumColors - 1)
    BY <1>1, <1>4, <2>2
  <2> QED BY <2>1, <2>2
<1>8. VgaTyped'
  BY <1>1, <1>3, <1>5, <1>7, Sizes DEF VgaTyped
<1>9. PatternWrites' /\ FirstWrites'
  BY <1>1, <1>3, <1>7 DEF VgaInv, PatternWrites, FirstWrites, Written
<1>10. GeneratorInStep'
  BY <1>1, <1>3, <1>7 DEF VgaInv, GeneratorInStep
<1>11. PictureDrawn'
  <2>1. stage' = "picture" => row' = 0 /\ col' = 0
    BY <1>1, <1>3, <1>7
  <2>2. \A m \in Rows, n \in Cols : ~(m < 0 \/ (m = 0 /\ n < 0))
    BY Sizes DEF Rows, Cols
  <2> QED BY <2>1, <2>2 DEF PictureDrawn, Before
<1>12. ScrollExact'
  BY <1>7 DEF ScrollExact
<1> QED BY <1>6, <1>8, <1>9, <1>10, <1>11, <1>12 DEF VgaInv

LEMMA PictureKeepsInv == VgaInv /\ DrawPicture => VgaInv'
<1> SUFFICES ASSUME VgaInv, DrawPicture PROVE VgaInv'
  OBVIOUS
<1>1. /\ stage = "picture" /\ row \in Rows /\ col \in Cols /\ VgaTyped /\ pass = 0
      /\ CountCells("top_row", 0) /\ random = RandomCharacter(0)
      /\ characters' = [characters EXCEPT ![<<row, col>>] = 0]
      /\ attributes' = [attributes EXCEPT ![<<row, col>>] = PictureAttribute(row, col)]
      /\ UNCHANGED <<pass, color_palette, palette_RGB, buffer, random>>
  BY DEF DrawPicture, VgaInv, VgaTyped, GeneratorInStep
<1>2. /\ 0 \in Character /\ PictureAttribute(row, col) \in Attribute
      /\ \A m \in Rows, n \in Cols : PictureAttribute(m, n) # NoByte /\ 0 \in Byte
  <2>1. \A m \in Rows, n \in Cols : PictureAttribute(m, n) \in {"puskar"} \X Nat \X Nat
    BY Sizes DEF PictureAttribute, Rows, Cols
  <2>2. 0 \in Byte
    BY DEF Byte
  <2> QED BY <1>1, <2>1, <2>2, Sizes DEF Attribute, Character
<1>s. /\ Stores(characters, characters', 0)
      /\ Stores(attributes, attributes', PictureAttribute(row, col))
  BY <1>1 DEF Stores
<1>3. /\ characters' \in [Cell -> Character]
      /\ \A m \in Rows, n \in Cols :
           characters'[<<m, n>>] = IF m = row /\ n = col THEN 0 ELSE characters[<<m, n>>]
  <2>1. characters \in [Cell -> Character] /\ 0 \in Character
    BY <1>1, <1>2 DEF VgaTyped, Character
  <2>2. Stored(characters, characters', 0, Character)
    BY <1>1, <1>s, <2>1, CellStored
  <2> QED BY <2>2 DEF Stored
<1>4. /\ attributes' \in [Cell -> Attribute]
      /\ \A m \in Rows, n \in Cols :
           attributes'[<<m, n>>]
             = IF m = row /\ n = col THEN PictureAttribute(row, col) ELSE attributes[<<m, n>>]
  <2>1. attributes \in [Cell -> Attribute]
    BY <1>1 DEF VgaTyped
  <2>2. Stored(attributes, attributes', PictureAttribute(row, col), Attribute)
    BY <1>1, <1>2, <1>s, <2>1, CellStored
  <2> QED BY <2>2 DEF Stored
<1>5. /\ col' \in Cols /\ row' \in Rows
      /\ LastCell => row' = 0 /\ col' = 0 /\ stage' = "top_row"
      /\ ~LastCell => stage' = stage
      /\ \A m \in Rows, n \in Cols :
           IF LastCell THEN Before(m, n) \/ (m = row /\ n = col)
           ELSE Before(m, n)' <=> Before(m, n) \/ (m = row /\ n = col)
  BY <1>1, CellsCounted
<1>6. VgaTyped'
  BY <1>1, <1>3, <1>4, <1>5, Sizes DEF VgaTyped
<1>7. ASSUME NEW m \in Rows, NEW n \in Cols, Before(m, n) \/ (m = row /\ n = col)
      PROVE  characters'[<<m, n>>] = 0 /\ attributes'[<<m, n>>] = PictureAttribute(m, n)
  <2>1. \/ m = row /\ n = col
        \/ characters[<<m, n>>] = 0 /\ attributes[<<m, n>>] = PictureAttribute(m, n)
    BY <1>1, <1>7 DEF VgaInv, PictureDrawn
  <2> QED BY <1>3, <1>4, <2>1
<1>8. PictureDrawn'
  BY <1>1, <1>5, <1>7 DEF PictureDrawn
<1>9. FirstWrites' /\ PatternWrites'
  <2>1. \A m \in Rows, n \in Cols : Written(m, n)
    BY <1>1 DEF VgaInv, FirstWrites
  <2>2. \A m \in Rows, n \in Cols : Written(m, n)'
    BY <1>2, <1>3, <1>4, <2>1 DEF Written
  <2> QED BY <1>1, <1>5, <2>2 DEF FirstWrites, PatternWrites
<1>10. PalettesExchanged'
  <2>1. ASSUME NEW n \in Colors PROVE IsExchanged(n) /\ IsExchanged(n)'
    BY <1>1, <1>5 DEF IsExchanged
  <2> QED BY <1>1, <2>1, PalettesKept DEF VgaInv
<1>11. GeneratorInStep'
  BY <1>1, <1>5, Sizes DEF GeneratorInStep
<1>12. ScrollExact'
  <2> SUFFICES ASSUME stage' \in {"top_row", "scroll"} PROVE AllScrolled'
    BY ScrollParts
  <2>1. LastCell /\ row' = 0 /\ col' = 0 /\ pass' = 0
    BY <1>1, <1>5
  <2>2. \A m \in Rows, n \in Cols :
          characters'[<<m, n>>] = 0 /\ attributes'[<<m, n>>] = PictureAttribute(m, n)
    BY <1>5, <1>7, <2>1
  <2>3. ASSUME NEW m \in Rows, NEW n \in Cols
        PROVE  /\ Scrolled(m, n, 0) = 0 /\ ~(m < 0 \/ (m = 0 /\ n < 0))
               /\ m \in Nat /\ n \in Nat
    <3>1. m \in Nat /\ n \in Nat
      BY Sizes DEF Rows, Cols
    <3> QED BY <3>1, ScrolledFacts
  <2>4. \A m \in Rows, n \in Cols : CellScrolled(m, n)'
    <3>1. \A m \in Rows, n \in Cols : Passes(m, n)' = 0
      BY <2>1, <2>3 DEF Passes, Before
    <3> QED BY <2>2, <2>3, <3>1 DEF CellScrolled
  <2>5. \A n \in Cols : ColumnBuffered(n)'
    BY <2>1, <2>3, Sizes DEF ColumnBuffered, NextIn
  <2> QED BY <2>4, <2>5 DEF AllScrolled
<1> QED BY <1>6, <1>8, <1>9, <1>10, <1>11, <1>12 DEF VgaInv

LEMMA TopRowKeepsInv == VgaInv /\ ScrollTop => VgaInv'
<1> SUFFICES ASSUME VgaInv, ScrollTop PROVE VgaInv'
  OBVIOUS
<1>1. /\ stage = "top_row" /\ row = 0 /\ col \in Cols /\ VgaTyped /\ pass \in Nat
      /\ buffer' = [buffer EXCEPT ![col] = characters[<<0, col>>]]
      /\ UNCHANGED <<pass, attributes, color_palette, palette_RGB>>
      /\ random = RandomCharacter(pass * TextCols + col) /\ random' = Next8(random)
      /\ AllScrolled
  BY ScrollParts DEF ScrollTop, VgaInv, VgaTyped, GeneratorInStep
<1>2. /\ col \in Nat /\ col < TextCols /\ TextCols \in Nat /\ row \in Rows
  BY <1>1, Sizes DEF Cols
<1>3. /\ col < TextCols - 1 => row' = 0 /\ stage' = "top_row" /\ col' = col + 1
      /\ ~(col < TextCols - 1) => row' = 1 /\ stage' = "scroll" /\ col' = 0 /\ col + 1 = TextCols
  <2>1. col' = IF col < TextCols - 1 THEN col + 1 ELSE 0
    BY <1>1, NextColumn DEF ScrollTop
  <2>2. /\ col < TextCols - 1 => row' = 0 /\ stage' = "top_row"
        /\ ~(col < TextCols - 1) => row' = 1 /\ stage' = "scroll"
    BY <1>1, Zenon DEF ScrollTop
  <2> QED BY <1>2, <2>1, <2>2
<1>4. random \in Byte /\ random \in Character /\ random' \in Byte
      /\ random' = RandomCharacter(pass * TextCols + col + 1)
  <2>1. pass * TextCols + col \in Nat
    BY <1>1, <1>2
  <2> QED BY <1>1, <2>1, RandomCharacters DEF Character
<1>5. /\ characters' \in [Cell -> Character]
      /\ \A m \in Rows, n \in Cols :
           characters'[<<m, n>>] = IF m = 0 /\ n = col THEN random ELSE characters[<<m, n>>]
  <2>1. Stores(characters, characters', random)
    BY <1>1 DEF ScrollTop, Stores
  <2>2. Stored(characters, characters', random, Character)
    BY <1>1, <1>2, <1>4, <2>1, CellStored DEF VgaTyped
  <2> QED BY <1>1, <2>2 DEF Stored
<1>6. /\ characters[<<0, col>>] \in Character /\ buffer' \in [Cols -> Character]
      /\ \A n \in Cols : buffer'[n] = IF n = col THEN characters[<<0, col>>] ELSE buffer[n]
  <2>1. characters[<<0, col>>] \in Character
    BY <1>1, <1>2 DEF VgaTyped, Cell
  <2> QED BY <1>1, <2>1 DEF VgaTyped
<1>7. VgaTyped'
  <2>1. col' \in Cols
    BY <1>2, <1>3 DEF Cols
  <2> QED BY <1>1, <1>3, <1>4, <1>5, <1>6, <2>1, Sizes DEF VgaTyped
<1>8. PatternWrites' /\ FirstWrites'
  <2>1. \A m \in Rows, n \in Cols : Written(m, n)
    BY <1>1 DEF VgaInv, FirstWrites
  <2>2. \A m \in Rows, n \in Cols : Written(m, n)'
    BY <1>1, <1>4, <1>5, <2>1 DEF Written
  <2> QED BY <1>3, <2>2 DEF FirstWrites, PatternWrites
<1>9. PalettesExchanged'
  <2>1. ASSUME NEW n \in Colors PROVE IsExchanged(n) /\ IsExchanged(n)'
    BY <1>1, <1>3 DEF IsExchanged
  <2> QED BY <1>1, <2>1, PalettesKept DEF VgaInv
<1>10. PictureDrawn'
  BY <1>3 DEF PictureDrawn
<1>11. GeneratorInStep'
  <2>1. CASE col < TextCols - 1
    <3>1. pass * TextCols + col + 1 = pass * TextCols + (col + 1)
      BY <1>1, <1>2
    <3> QED BY <1>1, <1>3, <1>4, <2>1, <3>1 DEF GeneratorInStep
  <2>2. CASE ~(col < TextCols - 1)
    <3>1. pass * TextCols + col + 1 = (pass + 1) * TextCols
      BY <1>1, <1>2, <1>3, <2>2
    <3> QED BY <1>1, <1>3, <1>4, <2>2, <3>1 DEF GeneratorInStep
  <2> QED BY <2>1, <2>2
<1>12. ASSUME NEW m \in Rows, NEW n \in Cols PROVE CellScrolled(m, n)'
  <2>1. m \in Nat /\ n \in Nat /\ n < TextCols
    BY Sizes DEF Rows, Cols
  <2>2. CellScrolled(m, n)
    BY <1>1 DEF AllScrolled
  <2>3. CASE m = 0 /\ n = col
    <3>1. Before(m, n)'
      BY <1>2, <1>3, <2>3 DEF Before
    <3>2. Passes(m, n)' = pass + 1
      BY <1>1, <3>1 DEF Passes
    <3>3. Scrolled(0, col, pass + 1) = random
      BY <1>1, <1>2, ScrolledFacts
    <3> QED BY <1>1, <1>5, <2>2, <2>3, <3>2, <3>3 DEF CellScrolled
  <2>4. CASE ~(m = 0 /\ n = col)
    <3>1. Before(m, n)' <=> Before(m, n)
      <4>1. Before(m, n) <=> m = 0 /\ n < col
        BY <1>1, <2>1 DEF Before
      <4>2. CASE col < TextCols - 1
        <5>1. Before(m, n)' <=> m = 0 /\ n < col + 1
          BY <1>3, <2>1, <4>2 DEF Before
        <5> QED BY <1>2, <2>1, <2>4, <4>1, <5>1
      <4>3. CASE ~(col < TextCols - 1)
        <5>1. Before(m, n)' <=> m = 0
          BY <1>3, <2>1, <4>3 DEF Before
        <5> QED BY <1>2, <1>3, <2>1, <2>4, <4>1, <4>3, <5>1
      <4> QED BY <4>2, <4>3
    <3>2. Passes(m, n)' = Passes(m, n)
      BY <1>1, <3>1 DEF Passes
    <3> QED BY <1>1, <1>5, <2>2, <2>4, <3>2 DEF CellScrolled
  <2> QED BY <2>3, <2>4
<1>13. ASSUME NEW n \in Cols PROVE ColumnBuffered(n)'
  <2>1. n \in Nat /\ n < TextCols
    BY Sizes DEF Cols
  <2>2. CASE n = col
    <3>1. NextIn(n)' = 1
      BY <1>2, <1>3, <2>2 DEF NextIn
    <3>2. ~Before(0, col) /\ CellScrolled(0, col)
      BY <1>1, <1>2, Sizes DEF Before, AllScrolled
    <3>3. Passes(0, col) = pass
      BY <1>1, <3>2 DEF Passes
    <3>4. characters[<<0, col>>] = Scrolled(0, col, pass)
      BY <3>2, <3>3 DEF CellScrolled
    <3>5. buffer'[n] = Scrolled(NextIn(n)' - 1, n, pass')
      BY <1>1, <1>6, <2>2, <3>1, <3>4
    <3> QED BY <3>5 DEF ColumnBuffered
  <2>3. CASE n # col
    <3>1. NextIn(n)' = NextIn(n) \/ NextIn(n)' = 0
      BY <1>1, <1>2, <1>3, <2>1, <2>3 DEF NextIn
    <3>2. ColumnBuffered(n) /\ buffer'[n] = buffer[n]
      BY <1>1, <1>6, <2>3 DEF AllScrolled
    <3> QED BY <1>1, <3>1, <3>2 DEF ColumnBuffered
  <2> QED BY <2>2, <2>3
<1>14. ScrollExact'
  BY <1>12, <1>13, ScrollParts DEF AllScrolled
<1> QED BY <1>7, <1>8, <1>9, <1>10, <1>11, <1>14 DEF VgaInv

LEMMA ScrollKeepsInv == VgaInv /\ ScrollRow => VgaInv'
<1> SUFFICES ASSUME VgaInv, ScrollRow PROVE VgaInv'
  OBVIOUS
<1>1. /\ stage = "scroll" /\ row \in Rows \ {0} /\ col \in Cols /\ VgaTyped
      /\ pass \in 0 .. ScrollPasses - 1
      /\ characters' = [characters EXCEPT ![<<row, col>>] = buffer[col]]
      /\ buffer' = [buffer EXCEPT ![col] = characters[<<row, col>>]]
      /\ UNCHANGED <<attributes, color_palette, palette_RGB, random>>
      /\ AllScrolled /\ random = RandomCharacter((pass + 1) * TextCols)
  BY ScrollParts DEF ScrollRow, Buffered, VgaInv, VgaTyped, GeneratorInStep
<1>2. /\ col \in Nat /\ row \in Nat \ {0} /\ row < TextRows /\ pass \in Nat /\ row \in Rows
      /\ TextRows \in Nat /\ TextCols \in Nat /\ ScrollPasses \in Nat \ {0}
      /\ col < TextCols /\ row - 1 \in Rows
  BY <1>1, Sizes DEF Cols, Rows
<1>3. /\ ~LastCell => CountCells("scroll", 0) /\ pass' = pass
      /\ LastCell => /\ row' = 0 /\ col' = 0 /\ pass' = (pass + 1) % ScrollPasses
                     /\ stage' = IF pass < ScrollPasses - 1 THEN "top_row" ELSE "exchange_back"
  <2>1. <<row, col>> # <<TextRows - 1, TextCols - 1>> <=> ~LastCell
    BY DEF LastCell
  <2> QED BY <2>1, Zenon DEF ScrollRow
<1>4. /\ ~LastCell => /\ col' \in Cols /\ row' \in Rows /\ stage' = "scroll" /\ row <= row'
      /\ LastCell => /\ pass' = IF pass < ScrollPasses - 1 THEN pass + 1 ELSE 0
      /\ \A m \in Rows, n \in Cols :
           IF LastCell THEN Before(m, n) \/ (m = row /\ n = col)
           ELSE Before(m, n)' <=> Before(m, n) \/ (m = row /\ n = col)
  <2>1. CASE ~LastCell
    BY <1>1, <1>2, <1>3, <2>1, CellsCounted
  <2>2. CASE LastCell
    <3>1. ASSUME NEW m \in Rows, NEW n \in Cols PROVE Before(m, n) \/ (m = row /\ n = col)
      BY <2>2, Sizes DEF LastCell, Before, Rows, Cols
    <3> QED BY <1>1, <1>3, <2>2, <3>1, NextPass
  <2> QED BY <2>1, <2>2
<1>5. buffer[col] = Scrolled(row - 1, col, pass) /\ buffer[col] \in Byte
  <2>1. NextIn(col) = row /\ ColumnBuffered(col)
    BY <1>1, <1>2 DEF NextIn, AllScrolled
  <2>2. row - 1 \in Nat
    BY <1>2
  <2>3. buffer[col] = Scrolled(row - 1, col, pass)
    BY <1>2, <2>1 DEF ColumnBuffered
  <2>4. Scrolled(row - 1, col, pass) \in Byte
    BY <1>2, <2>2, ScrolledFacts
  <2> QED BY <2>3, <2>4
<1>6. /\ characters' \in [Cell -> Character]
      /\ \A m \in Rows, n \in Cols :
           characters'[<<m, n>>] = IF m = row /\ n = col THEN buffer[col] ELSE characters[<<m, n>>]
  <2>1. Stores(characters, characters', buffer[col]) /\ buffer[col] \in Character
    BY <1>1, <1>5 DEF Stores, Character
  <2>2. Stored(characters, characters', buffer[col], Character)
    BY <1>1, <2>1, CellStored DEF VgaTyped
  <2> QED BY <2>2 DEF Stored
<1>7. /\ characters[<<row, col>>] \in Character /\ buffer' \in [Cols -> Character]
      /\ \A n \in Cols : buffer'[n] = IF n = col THEN characters[<<row, col>>] ELSE buffer[n]
  <2>1. characters[<<row, col>>] \in Character
    BY <1>1, <1>2 DEF VgaTyped, Cell
  <2> QED BY <1>1, <2>1 DEF VgaTyped
<1>8. pass' \in 0 .. ScrollPasses - 1
  BY <1>1, <1>2, <1>3, <1>4
<1>9. VgaTyped'
  <2>1. CASE ~LastCell
    <3>1. row' \in Rows \ {0}
      BY <1>2, <1>4, <2>1 DEF Rows
    <3> QED BY <1>1, <1>4, <1>6, <1>7, <1>8, <2>1, <3>1 DEF VgaTyped
  <2>2. CASE LastCell
    BY <1>1, <1>3, <1>6, <1>7, <1>8, <2>2, Sizes DEF VgaTyped
  <2> QED BY <2>1, <2>2
<1>10. PatternWrites' /\ FirstWrites'
  <2>1. \A m \in Rows, n \in Cols : Written(m, n)
    BY <1>1 DEF VgaInv, FirstWrites
  <2>2. ASSUME NEW m \in Rows, NEW n \in Cols PROVE Written(m, n)'
    <3>1. attributes' = attributes
      BY <1>1
    <3>2. CASE m = row /\ n = col
      <4>1. characters'[<<m, n>>] = buffer[col]
        BY <1>6, <3>2
      <4> QED BY <1>5, <2>1, <3>1, <4>1 DEF Written
    <3>3. CASE ~(m = row /\ n = col)
      <4>1. characters'[<<m, n>>] = characters[<<m, n>>]
        BY <1>6, <3>3
      <4> QED BY <2>1, <3>1, <4>1 DEF Written
    <3> QED BY <3>2, <3>3
  <2> QED BY <1>3, <1>4, <2>2 DEF FirstWrites, PatternWrites
<1>11. PalettesExchanged'
  <2>1. ASSUME NEW n \in Colors PROVE IsExchanged(n) /\ IsExchanged(n)'
    <3>1. n >= 0
      BY Sizes DEF Colors
    <3> QED BY <1>1, <1>3, <1>4, <3>1 DEF IsExchanged
  <2> QED BY <1>1, <2>1, PalettesKept DEF VgaInv
<1>12. PictureDrawn'
  BY <1>3, <1>4 DEF PictureDrawn
<1>13. GeneratorInStep'
  <2>1. CASE ~LastCell
    BY <1>1, <1>3, <1>4, <2>1 DEF GeneratorInStep
  <2>2. CASE LastCell
    <3>1. (pass + 1) * TextCols + 0 = (pass + 1) * TextCols
      BY <1>2
    <3> QED BY <1>1, <1>3, <1>4, <2>2, <3>1 DEF GeneratorInStep
  <2> QED BY <2>1, <2>2
<1>14. ASSUME NEW m \in Rows, NEW n \in Cols
       PROVE  /\ Before(m, n) \/ (m = row /\ n = col) =>
                   characters'[<<m, n>>] = Scrolled(m, n, pass + 1)
              /\ ~(Before(m, n) \/ (m = row /\ n = col)) =>
                   characters'[<<m, n>>] = Scrolled(m, n, pass)
              /\ attributes'[<<m, n>>] = PictureAttribute(m, n)
  <2>1. CellScrolled(m, n)
    BY <1>1 DEF AllScrolled
  <2>2. Passes(m, n) = IF Before(m, n) THEN pass + 1 ELSE pass
    BY <1>2 DEF Passes
  <2>3. Scrolled(row, col, pass + 1) = Scrolled(row - 1, col, pass)
    <3>1. row - 1 \in Nat /\ (row - 1) + 1 = row
      BY <1>2
    <3> QED BY <1>2, <3>1, ScrolledFacts
  <2> QED BY <1>1, <1>5, <1>6, <2>1, <2>2, <2>3 DEF CellScrolled
<1>15. CASE ~LastCell
  <2>1. ASSUME NEW m \in Rows, NEW n \in Cols PROVE CellScrolled(m, n)'
    <3>1. Passes(m, n)' = IF Before(m, n) \/ (m = row /\ n = col) THEN pass + 1 ELSE pass
      BY <1>2, <1>3, <1>4, <1>15 DEF Passes
    <3> QED BY <1>14, <3>1 DEF CellScrolled
  <2>2. ASSUME NEW n \in Cols PROVE ColumnBuffered(n)'
    <3>1. n \in Nat /\ n < TextCols
      BY Sizes DEF Cols
    <3>2. /\ col' = IF col < TextCols - 1 THEN col + 1 ELSE 0
          /\ row' = IF col < TextCols - 1 THEN row ELSE row + 1
      BY <1>1, <1>2, <1>3, <1>15, NextColumn DEF CountCells, LastCell
    <3>3. CASE n = col
      <4>1. NextIn(n)' = row + 1 /\ NextIn(n)' - 1 = row
        BY <1>2, <3>2, <3>3 DEF NextIn
      <4>2. ~Before(row, col) /\ CellScrolled(row, col)
        BY <1>1, <1>2 DEF Before, AllScrolled
      <4>3. Passes(row, col) = pass
        BY <1>2, <4>2 DEF Passes
      <4>4. characters[<<row, col>>] = Scrolled(row, col, pass)
        BY <4>2, <4>3 DEF CellScrolled
      <4> QED BY <1>3, <1>7, <1>15, <3>3, <4>1, <4>4 DEF ColumnBuffered
    <3>4. CASE n # col
      <4>1. NextIn(n)' = NextIn(n)
        BY <1>2, <3>1, <3>2, <3>4 DEF NextIn
      <4>2. ColumnBuffered(n) /\ buffer'[n] = buffer[n]
        BY <1>1, <1>7, <3>4 DEF AllScrolled
      <4> QED BY <1>3, <1>15, <4>1, <4>2 DEF ColumnBuffered
    <3> QED BY <3>3, <3>4
  <2>3. ScrollExact'
    BY <2>1, <2>2, ScrollParts DEF AllScrolled
  <2> QED BY <1>9, <1>10, <1>11, <1>12, <1>13, <2>3 DEF VgaInv
<1>16. CASE LastCell
  <2> SUFFICES ASSUME stage' \in {"top_row", "scroll"} PROVE AllScrolled'
    BY <1>9, <1>10, <1>11, <1>12, <1>13, ScrollParts DEF VgaInv
  <2>1. row' = 0 /\ col' = 0 /\ pass' = pass + 1
    BY <1>3, <1>4, <1>16
  <2>2. ASSUME NEW m \in Rows, NEW n \in Cols PROVE CellScrolled(m, n)'
    <3>1. m \in Nat /\ n \in Nat
      BY Sizes DEF Rows, Cols
    <3>2. Passes(m, n)' = pass + 1
      BY <1>2, <2>1, <3>1 DEF Passes, Before
    <3>3. Before(m, n) \/ (m = row /\ n = col)
      BY <1>4, <1>16
    <3> QED BY <1>14, <3>2, <3>3 DEF CellScrolled
  <2>3. ASSUME NEW n \in Cols PROVE ColumnBuffered(n)'
    <3>1. NextIn(n)' = 0
      BY <2>1, Sizes DEF NextIn, Cols
    <3> QED BY <3>1 DEF ColumnBuffered
  <2> QED BY <2>2, <2>3 DEF AllScrolled
<1> QED BY <1>15, <1>16

LEMMA VgaStep == VgaInv /\ [VgaNext]_vgaVars => VgaInv'
<1>1. VgaInv /\ UNCHANGED vgaVars => VgaInv'
  <2> SUFFICES ASSUME VgaInv, UNCHANGED vgaVars PROVE VgaInv'
    OBVIOUS
  <2>1. UNCHANGED <<stage, row, col, pass, characters, attributes, color_palette,
                    palette_RGB, buffer, random>>
    BY DEF vgaVars
  <2>2. VgaTyped' /\ PatternWrites' /\ FirstWrites' /\ PictureDrawn' /\ GeneratorInStep'
    BY <2>1 DEF VgaInv, VgaTyped, PatternWrites, FirstWrites, Written, Before, PictureDrawn,
                GeneratorInStep
  <2>3. PalettesExchanged'
    BY <2>1, PalettesKept DEF VgaInv, IsExchanged
  <2>4. ScrollExact'
    BY <2>1, ScrollParts
    DEF VgaInv, AllScrolled, CellScrolled, Passes, Before, ColumnBuffered, NextIn
  <2> QED BY <2>2, <2>3, <2>4 DEF VgaInv
<1> QED BY <1>1, PatternKeepsInv, ExchangeKeepsInv, PictureKeepsInv, TopRowKeepsInv,
           ScrollKeepsInv DEF VgaNext

LEMMA VgaSafe == VgaInv => VgaTypeOK /\ PalettesExchanged /\ ScrollExact
<1> SUFFICES ASSUME VgaInv PROVE VgaTypeOK
  BY DEF VgaInv
<1>1. VgaTyped
  BY DEF VgaInv
<1>2. ASSUME stage # "pattern"
      PROVE  characters \in [Cell -> Byte] /\ \A c \in Cell : attributes[c] # NoByte
  <2>1. ASSUME NEW c \in Cell PROVE characters[c] \in Byte /\ attributes[c] # NoByte
    <3>1. PICK m \in Rows, n \in Cols : c = <<m, n>>
      BY DEF Cell
    <3> QED BY <1>2, <3>1 DEF VgaInv, FirstWrites, Written
  <2> QED BY <1>1, <2>1 DEF VgaTyped
<1>3. /\ stage \in {"pattern", "picture", "top_row", "scroll", "pattern_again"} => row \in Rows
      /\ stage \in {"exchange", "exchange_back"} => row \in Colors
  BY <1>1, Sizes DEF VgaTyped, Rows
<1> QED BY <1>1, <1>2, <1>3 DEF VgaTyped, VgaTypeOK, Byte

-----------------------------------------------------------------------------
(* testcode.c: the arithmetic routines.  Words have at most 32 bits, so the *)
(* powers of two that occur are known one by one.                           *)

Power(k) == 2 ^ k
Exponent == 0 .. 32

LEMMA PowerDoubles ==
  ASSUME NEW k \in 0 .. 31
  PROVE  Power(k + 1) = 2 * Power(k) /\ Power(k) \in Nat \ {0}
<1> SUFFICES 2 ^ (k + 1) = 2 * 2 ^ k /\ 2 ^ k \in Nat \ {0}
  BY DEF Power
<1>1. CASE k = 0 BY <1>1
<1>2. CASE k = 1 BY <1>2
<1>3. CASE k = 2 BY <1>3
<1>4. CASE k = 3 BY <1>4
<1>5. CASE k = 4 BY <1>5
<1>6. CASE k = 5 BY <1>6
<1>7. CASE k = 6 BY <1>7
<1>8. CASE k = 7 BY <1>8
<1>9. CASE k = 8 BY <1>9
<1>10. CASE k = 9 BY <1>10
<1>11. CASE k = 10 BY <1>11
<1>12. CASE k = 11 BY <1>12
<1>13. CASE k = 12 BY <1>13
<1>14. CASE k = 13 BY <1>14
<1>15. CASE k = 14 BY <1>15
<1>16. CASE k = 15 BY <1>16
<1>17. CASE k = 16 BY <1>17
<1>18. CASE k = 17 BY <1>18
<1>19. CASE k = 18 BY <1>19
<1>20. CASE k = 19 BY <1>20
<1>21. CASE k = 20 BY <1>21
<1>22. CASE k = 21 BY <1>22
<1>23. CASE k = 22 BY <1>23
<1>24. CASE k = 23 BY <1>24
<1>25. CASE k = 24 BY <1>25
<1>26. CASE k = 25 BY <1>26
<1>27. CASE k = 26 BY <1>27
<1>28. CASE k = 27 BY <1>28
<1>29. CASE k = 28 BY <1>29
<1>30. CASE k = 29 BY <1>30
<1>31. CASE k = 30 BY <1>31
<1>32. CASE k = 31 BY <1>32
<1> QED BY <1>1, <1>2, <1>3, <1>4, <1>5, <1>6, <1>7, <1>8, <1>9, <1>10, <1>11, <1>12,
           <1>13, <1>14, <1>15, <1>16, <1>17, <1>18, <1>19, <1>20, <1>21, <1>22, <1>23,
           <1>24, <1>25, <1>26, <1>27, <1>28, <1>29, <1>30, <1>31, <1>32

LEMMA PowerBase == Power(0) = 1 /\ Power(1) = 2 /\ Power(2) = 4
  BY DEF Power

LEMMA PowerPositive ==
  ASSUME NEW k \in Exponent
  PROVE  Power(k) \in Nat \ {0}
<1>1. CASE k = 32
  BY <1>1 DEF Power
<1>2. CASE k # 32
  BY <1>2, PowerDoubles DEF Exponent
<1> QED BY <1>1, <1>2

LEMMA PowerSplits ==
  ASSUME NEW j \in Nat, NEW k \in Nat, j + k \in Exponent
  PROVE  Power(j + k) = Power(j) * Power(k)
<1> DEFINE T == {n \in Nat : j + n <= 32 => Power(j + n) = Power(j) * Power(n)}
<1>1. 0 \in T
  <2> SUFFICES ASSUME j + 0 <= 32 PROVE Power(j + 0) = Power(j) * Power(0)
    OBVIOUS
  <2>1. Power(j) \in Nat
    BY PowerPositive DEF Exponent
  <2> QED BY <2>1, PowerBase
<1>2. ASSUME NEW n \in Nat, n \in T PROVE n + 1 \in T
  <2> SUFFICES ASSUME j + (n + 1) <= 32 PROVE Power(j + (n + 1)) = Power(j) * Power(n + 1)
    OBVIOUS
  <2>1. j + n \in 0 .. 31 /\ n \in 0 .. 31 /\ j \in Exponent /\ j + (n + 1) = (j + n) + 1
    BY DEF Exponent
  <2>2. Power(j + (n + 1)) = 2 * Power(j + n) /\ Power(n + 1) = 2 * Power(n)
    BY <2>1, PowerDoubles
  <2>3. Power(j + n) = Power(j) * Power(n)
    BY <1>2, <2>1
  <2>4. Power(j) \in Nat /\ Power(n) \in Nat
    BY <2>1, PowerPositive, PowerDoubles
  <2>5. \A x \in Nat, y \in Nat : 2 * (x * y) = x * (2 * y)
    OBVIOUS
  <2> QED BY <2>2, <2>3, <2>4, <2>5
<1> HIDE DEF T
<1>3. Nat \subseteq T
  BY <1>1, <1>2, Induction
<1> QED BY <1>3 DEF T, Exponent

LEMMA PowerGrows ==
  ASSUME NEW j \in Nat, NEW k \in Exponent, j <= k
  PROVE  Power(j) <= Power(k)
<1>1. k - j \in Nat /\ k - j \in Exponent /\ j \in Exponent /\ j + (k - j) = k
  BY DEF Exponent
<1>2. Power(k) = Power(j) * Power(k - j)
  BY <1>1, PowerSplits
<1>3. Power(j) \in Nat /\ Power(k - j) - 1 \in Nat
  BY <1>1, PowerPositive
<1>4. \A x \in Nat, y \in Nat : x * (y + 1) = x * y + x /\ x * y \in Nat
  OBVIOUS
<1>5. Power(j) * ((Power(k - j) - 1) + 1) = Power(j) * (Power(k - j) - 1) + Power(j)
      /\ Power(j) * (Power(k - j) - 1) \in Nat
  BY <1>3, <1>4
<1>6. (Power(k - j) - 1) + 1 = Power(k - j)
  <2>1. \A x \in Nat \ {0} : (x - 1) + 1 = x
    OBVIOUS
  <2>2. Power(k - j) \in Nat \ {0}
    BY <1>1, PowerPositive
  <2> QED BY <2>1, <2>2
<1> QED BY <1>2, <1>3, <1>5, <1>6

\* The number of values of a word, and where its sign bit begins.
Modulus == Power(WordBits)
Half == Power(WordBits - 1)

LEMMA WordFacts ==
  /\ WordBits \in Exponent /\ WordBits >= 2
  /\ Half \in Nat \ {0} /\ Modulus = 2 * Half /\ Modulus \in Nat /\ Modulus >= 4
  /\ Word = 0 .. Modulus - 1
  /\ \A v : Wrap(v) = v % Modulus /\ (Negative(v) <=> v >= Half)
<1>1. WordBits \in 2 .. 32 /\ WordBits - 1 \in 0 .. 31 /\ (WordBits - 1) + 1 = WordBits
  BY SoftArithAssumption
<1>2. Half \in Nat \ {0} /\ Modulus = 2 * Half
  BY <1>1, PowerDoubles DEF Half, Modulus
<1>3. Modulus >= 4
  BY <1>1, PowerGrows, PowerBase DEF Modulus, Exponent
<1>4. Word = 0 .. Modulus - 1
  BY DEF Word, Modulus, Power
<1>5. \A v : Wrap(v) = v % Modulus /\ (Negative(v) <=> v >= Half)
  BY DEF Wrap, Negative, Modulus, Half, Power
<1> QED BY <1>1, <1>2, <1>3, <1>4, <1>5 DEF Exponent

\* Integers that are the same word.
Same(x, y) == \E k \in Int : x = y + k * Modulus

LEMMA WrapSame ==
  ASSUME NEW v \in Int
  PROVE  Wrap(v) \in 0 .. Modulus - 1 /\ Same(v, Wrap(v))
<1>1. Modulus \in Nat /\ Modulus > 0 /\ Wrap(v) = v % Modulus
  BY WordFacts
<1>2. /\ v % Modulus \in 0 .. Modulus - 1 /\ v \div Modulus \in Int
      /\ v = (v % Modulus) + (v \div Modulus) * Modulus
  BY <1>1
<1> QED BY <1>1, <1>2 DEF Same

LEMMA SameWord ==
  ASSUME NEW v \in Int, NEW u \in 0 .. Modulus - 1, Same(v, u)
  PROVE  Wrap(v) = u
<1>1. Modulus \in Nat /\ Modulus > 0
  BY WordFacts
<1>2. PICK k \in Int : v = u + k * Modulus
  BY DEF Same
<1> DEFINE m == Wrap(v)
<1>3. PICK j \in Int : v = m + j * Modulus
  BY WrapSame DEF Same
<1>4. m \in 0 .. Modulus - 1
  BY WrapSame
<1> HIDE DEF m
<1>5. \A x \in Nat : (x + 1) * Modulus = x * Modulus + Modulus /\ x * Modulus \in Nat
  BY <1>1
<1>6. u - m = (j - k) * Modulus /\ m - u = (k - j) * Modulus
  BY <1>1, <1>2, <1>3, <1>4
<1>7. ~(j > k)
  <2> SUFFICES ASSUME j > k PROVE FALSE
    OBVIOUS
  <2>1. j - k - 1 \in Nat /\ (j - k - 1) + 1 = j - k
    OBVIOUS
  <2> QED BY <1>1, <1>4, <1>5, <1>6, <2>1
<1>8. ~(k > j)
  <2> SUFFICES ASSUME k > j PROVE FALSE
    OBVIOUS
  <2>1. k - j - 1 \in Nat /\ (k - j - 1) + 1 = k - j
    OBVIOUS
  <2> QED BY <1>1, <1>4, <1>5, <1>6, <2>1
<1>9. j = k
  BY <1>7, <1>8
<1>10. m = u
  BY <1>1, <1>2, <1>3, <1>4, <1>9
<1> QED BY <1>10 DEF m

LEMMA WrapOfWord ==
  ASSUME NEW v \in 0 .. Modulus - 1
  PROVE  Wrap(v) = v
<1>1. v \in Int /\ v = v + 0 * Modulus
  BY WordFacts
<1> QED BY <1>1, SameWord DEF Same

\* What __clzsi2 does with one half of the bits.
HalfDropped(k, p) ==
  IF p[1] < Power(k) THEN <<p[1], p[2] + k>> ELSE <<p[1] \div Power(k), p[2]>>

Counts(f, w) ==
  /\ f[WordBits] = <<w, 0>>
  /\ \A k \in Halves : k # WordBits => f[k] = HalfDropped(k, f[2 * k])
  /\ clzsi2(w) = f[2][2] + ClzLast(f[2][1])

LEMMA ClzComputed ==
  ASSUME NEW w
  PROVE  \E f : Counts(f, w)
<1> DEFINE S(k, p) == HalfDropped(k, p)
           v == <<w, 0>>
           E(f) == [k \in Halves |-> IF k = WordBits THEN v ELSE S(k, f[2 * k])]
           G(k) == IF k = WordBits THEN v
                   ELSE IF 2 * k = WordBits THEN S(k, v)
                   ELSE IF 4 * k = WordBits THEN S(k, S(2 * k, v))
                   ELSE IF 8 * k = WordBits THEN S(k, S(2 * k, S(4 * k, v)))
                   ELSE S(k, S(2 * k, S(4 * k, S(8 * k, v))))
           h == [k \in Halves |-> G(k)]
           g == CHOOSE f : f = E(f)
<1>1. clzsi2(w) = g[2][2] + ClzLast(g[2][1])
  BY DEF clzsi2, HalfDropped, Power
<1> HIDE DEF S, v
<1>2. ASSUME NEW k \in Halves, k # WordBits PROVE 2 * k \in Halves /\ G(k) = S(k, G(2 * k))
  <2>1. /\ WordBits \in {2, 4, 8, 16, 32} /\ k \in {2, 4, 8, 16, 32} /\ k < WordBits
    BY <1>2, SoftArithAssumption DEF Halves
  <2>2. 2 * k \in Halves
    BY <2>1 DEF Halves
  <2>3. /\ 2 * k = WordBits \/ 4 * k = WordBits \/ 8 * k = WordBits \/ 16 * k = WordBits
        /\ 2 * (2 * k) = 4 * k /\ 4 * (2 * k) = 8 * k /\ 8 * (2 * k) = 16 * k /\ k > 0
    BY <2>1
  <2>4. CASE 2 * k = WordBits
    BY <1>2, <2>2, <2>4
  <2>5. CASE 4 * k = WordBits
    BY <1>2, <2>1, <2>2, <2>3, <2>5
  <2>6. CASE 8 * k = WordBits
    BY <1>2, <2>1, <2>2, <2>3, <2>6
  <2>7. CASE 16 * k = WordBits
    BY <1>2, <2>1, <2>2, <2>3, <2>7
  <2> QED BY <2>2, <2>3, <2>4, <2>5, <2>6, <2>7
<1>3. WordBits \in Halves
  BY SoftArithAssumption DEF Halves
<1>4. h = E(h)
  <2>1. ASSUME NEW k \in Halves PROVE G(k) = IF k = WordBits THEN v ELSE S(k, h[2 * k])
    BY <1>2
  <2> HIDE DEF G
  <2> QED BY <2>1
<1> HIDE DEF G, h
<1>5. g = E(g)
  BY <1>4
<1> HIDE DEF g
<1>6. g[WordBits] = v /\ \A k \in Halves : k # WordBits => g[k] = S(k, g[2 * k])
  BY <1>3, <1>5
<1>7. Counts(g, w)
  BY <1>1, <1>6 DEF S, v, Counts
<1> QED BY <1>7

\* What is left of w with k bits to go: its highest bits, of which the first is
\* among the k, after c zeros have been counted.
Highest(w, k, p) ==
  /\ p[1] \in Nat \ {0} /\ p[1] < Power(k) /\ p[2] \in Nat /\ k + p[2] <= WordBits
  /\ p[1] * Power(WordBits - k - p[2]) <= w
  /\ w < (p[1] + 1) * Power(WordBits - k - p[2])

LEMMA ProductKeepsOrder ==
  ASSUME NEW x \in Nat, NEW y \in Nat, NEW z \in Nat, x <= y
  PROVE  x * z \in Nat /\ y * z \in Nat /\ x * z <= y * z
<1>1. y - x \in Nat /\ x + (y - x) = y
  OBVIOUS
<1>2. \A u \in Nat : (x + u) * z = x * z + u * z /\ u * z \in Nat /\ x * z \in Nat
  OBVIOUS
<1> QED BY <1>1, <1>2

LEMMA HalfKeepsHighest ==
  ASSUME NEW w \in Nat, NEW k \in Nat \ {0}, NEW p, Highest(w, 2 * k, p)
  PROVE  Highest(w, k, HalfDropped(k, p))
<1> DEFINE x == p[1]
           c == p[2]
           e == WordBits - 2 * k - c
<1>1. /\ x \in Nat \ {0} /\ x < Power(2 * k) /\ c \in Nat /\ e \in Nat /\ WordBits <= 32
      /\ WordBits \in Nat /\ x * Power(e) <= w /\ w < (x + 1) * Power(e) /\ e + k + k + c = WordBits
  BY WordFacts DEF Highest, Exponent
<1>2. CASE x < Power(k)
  <2>1. HalfDropped(k, p) = <<x, c + k>> /\ WordBits - k - (c + k) = e
    BY <1>1, <1>2 DEF HalfDropped
  <2> DEFINE d == HalfDropped(k, p)
  <2>2. d[1] = x /\ d[2] = c + k
    BY <2>1
  <2> HIDE DEF d, x, c, e
  <2>3. d[2] \in Nat /\ k + d[2] <= WordBits /\ WordBits - k - d[2] = e
    BY <1>1, <2>1, <2>2
  <2>4. Highest(w, k, d)
    BY <1>1, <1>2, <2>2, <2>3 DEF Highest
  <2> QED BY <2>4 DEF d
<1>3. CASE ~(x < Power(k))
  <2> DEFINE y == x \div Power(k)
             z == x % Power(k)
             d == HalfDropped(k, p)
  <2>1. d[1] = y /\ d[2] = c
    BY <1>3 DEF HalfDropped
  <2>2. WordBits - k - c = e + k
    BY <1>1
  <2> HIDE DEF x, c, e, d
  <2>3. k \in Exponent /\ e \in Exponent /\ e + k \in Exponent /\ k + k \in Exponent
    BY <1>1 DEF Exponent
  <2>4. /\ Power(k) \in Nat \ {0} /\ Power(e) \in Nat /\ Power(e + k) = Power(e) * Power(k)
        /\ Power(2 * k) = Power(k) * Power(k)
    <3>1. 2 * k = k + k
      OBVIOUS
    <3> QED BY <1>1, <2>3, <3>1, PowerPositive, PowerSplits
  <2>5. y \in Nat /\ z \in Nat /\ z < Power(k) /\ x = Power(k) * y + z /\ Power(k) * y \in Nat
    <3>1. x \in Nat /\ Power(k) \in Nat /\ Power(k) > 0
      BY <1>1, <2>4
    <3> QED BY <3>1, Division
  <2> HIDE DEF y, z
  <2>6. y # 0
    <3> SUFFICES ASSUME y = 0 PROVE FALSE
      OBVIOUS
    <3>1. Power(k) * 0 = 0
      BY <2>4
    <3> QED BY <1>1, <1>3, <2>4, <2>5, <3>1
  <2>7. y < Power(k)
    <3> SUFFICES ASSUME Power(k) <= y PROVE FALSE
      BY <2>4, <2>5
    <3>1. Power(k) * Power(k) <= y * Power(k)
      BY <2>4, <2>5, ProductKeepsOrder
    <3>2. y * Power(k) = Power(k) * y
      BY <2>4, <2>5
    <3> QED BY <1>1, <2>4, <2>5, <3>1, <3>2
  <2>8. y * Power(e + k) <= w
    <3>1. Power(k) * y * Power(e) <= x * Power(e) /\ x * Power(e) \in Nat
          /\ Power(k) * y * Power(e) \in Nat
      BY <1>1, <2>4, <2>5, ProductKeepsOrder
    <3>2. \A u, v \in Nat : y * (v * u) = u * y * v
      BY <2>5
    <3>3. y * Power(e + k) = Power(k) * y * Power(e)
      BY <2>4, <3>2
    <3> QED BY <1>1, <3>1, <3>3
  <2>9. w < (y + 1) * Power(e + k)
    <3>1. x + 1 <= Power(k) * y + Power(k)
      BY <1>1, <2>4, <2>5
    <3>2. (x + 1) * Power(e) <= (Power(k) * y + Power(k)) * Power(e)
      BY <1>1, <2>4, <2>5, <3>1, ProductKeepsOrder
    <3>3. \A u, v \in Nat : (y + 1) * (v * u) = (u * y + u) * v /\ (y + 1) * (v * u) \in Nat
      BY <2>5
    <3>4. (y + 1) * Power(e + k) = (Power(k) * y + Power(k)) * Power(e)
      BY <2>4, <3>3
    <3>5. (x + 1) * Power(e) \in Nat /\ (y + 1) * Power(e + k) \in Nat
      BY <1>1, <2>4, <2>5
    <3> QED BY <1>1, <3>2, <3>4, <3>5
  <2>10. Highest(w, k, d)
    BY <1>1, <2>1, <2>2, <2>5, <2>6, <2>7, <2>8, <2>9 DEF Highest
  <2> QED BY <2>10 DEF d
<1> QED BY <1>2, <1>3

\* __clzsi2 finds the highest bit of a word.
LEMMA ClzExact ==
  ASSUME NEW w \in 1 .. Modulus - 1
  PROVE  /\ clzsi2(w) \in 0 .. WordBits - 1
         /\ Power(WordBits - 1 - clzsi2(w)) <= w /\ w < Power(WordBits - clzsi2(w))
<1>0. PICK f : Counts(f, w)
  BY ClzComputed
<1>1. /\ f[WordBits] = <<w, 0>>
      /\ \A k \in Halves : k # WordBits => f[k] = HalfDropped(k, f[2 * k])
      /\ clzsi2(w) = f[2][2] + ClzLast(f[2][1])
  BY <1>0 DEF Counts
<1>2. w \in Nat \ {0} /\ w < Power(WordBits) /\ Modulus \in Nat
  BY WordFacts DEF Modulus
<1>3. Highest(w, WordBits, f[WordBits])
  <2>1. WordBits - WordBits - 0 = 0 /\ WordBits \in Nat
    BY WordFacts DEF Exponent
  <2>2. w * 1 = w /\ (w + 1) * 1 = w + 1
    BY <1>2
  <2> QED BY <1>1, <1>2, <2>1, <2>2, PowerBase DEF Highest
<1>4. ASSUME NEW k \in {2, 4, 8, 16}, k < WordBits, Highest(w, 2 * k, f[2 * k])
      PROVE  Highest(w, k, f[k])
  <2>1. k \in Halves /\ k # WordBits /\ k \in Nat \ {0}
    BY <1>4, SoftArithAssumption DEF Halves
  <2>2. f[k] = HalfDropped(k, f[2 * k])
    BY <1>1, <2>1
  <2>3. Highest(w, k, HalfDropped(k, f[2 * k]))
    BY <1>2, <1>4, <2>1, HalfKeepsHighest
  <2> QED BY <2>2, <2>3
<1>5. Highest(w, 2, f[2])
  <2>1. CASE WordBits = 2
    BY <1>3, <2>1
  <2>2. CASE WordBits = 4
    BY <1>3, <1>4, <2>2
  <2>3. CASE WordBits = 8
    <3>1. Highest(w, 4, f[4])
      BY <1>3, <1>4, <2>3
    <3> QED BY <1>4, <2>3, <3>1
  <2>4. CASE WordBits = 16
    <3>1. Highest(w, 8, f[8])
      BY <1>3, <1>4, <2>4
    <3>2. Highest(w, 4, f[4])
      BY <1>4, <2>4, <3>1
    <3> QED BY <1>4, <2>4, <3>2
  <2>5. CASE WordBits = 32
    <3>1. Highest(w, 16, f[16])
      BY <1>3, <1>4, <2>5
    <3>2. Highest(w, 8, f[8])
      BY <1>4, <2>5, <3>1
    <3>3. Highest(w, 4, f[4])
      BY <1>4, <2>5, <3>2
    <3> QED BY <1>4, <2>5, <3>3
  <2> QED BY <2>1, <2>2, <2>3, <2>4, <2>5, SoftArithAssumption
<1> DEFINE x == f[2][1]
           c == f[2][2]
           e == WordBits - 2 - c
<1>6. /\ x \in Nat \ {0} /\ x < 4 /\ c \in Nat /\ e \in Nat /\ e + 2 + c = WordBits
      /\ x * Power(e) <= w /\ w < (x + 1) * Power(e) /\ WordBits \in Exponent
  BY <1>5, PowerBase, WordFacts DEF Highest, Exponent
<1>7. clzsi2(w) = IF x >= 2 THEN c ELSE c + 1
  BY <1>1, <1>6 DEF ClzLast
<1> HIDE DEF x, c, e
<1>8. /\ Power(e) \in Nat /\ Power(e + 1) = 2 * Power(e) /\ Power(e + 2) = 4 * Power(e)
  <2>1. e \in 0 .. 31 /\ e + 1 \in 0 .. 31 /\ (e + 1) + 1 = e + 2
    BY <1>6 DEF Exponent
  <2> QED BY <2>1, PowerDoubles
<1>9. CASE x >= 2
  <2>1. WordBits - 1 - c = e + 1 /\ WordBits - c = e + 2 /\ c \in 0 .. WordBits - 1
    BY <1>6
  <2>2. 2 * Power(e) <= x * Power(e) /\ (x + 1) * Power(e) <= 4 * Power(e)
    BY <1>6, <1>8, <1>9, ProductKeepsOrder
  <2>3. x * Power(e) \in Nat /\ (x + 1) * Power(e) \in Nat
    BY <1>6, <1>8
  <2> QED BY <1>6, <1>7, <1>8, <1>9, <2>1, <2>2, <2>3
<1>10. CASE x = 1
  <2>1. WordBits - 1 - (c + 1) = e /\ WordBits - (c + 1) = e + 1 /\ c + 1 \in 0 .. WordBits - 1
    BY <1>6
  <2>2. 1 * Power(e) = Power(e) /\ (1 + 1) * Power(e) = 2 * Power(e)
    BY <1>8
  <2> QED BY <1>6, <1>7, <1>8, <1>10, <2>1, <2>2
<1> QED BY <1>6, <1>9, <1>10

\* The highest of the bits n % (2 * t) moves from the rest to the quotient.
TopBit(n, t) == IF n % (2 * t) >= t THEN 1 ELSE 0

LEMMA BitMoves ==
  ASSUME NEW n \in Nat, NEW t \in Nat \ {0}
  PROVE  /\ TopBit(n, t) \in {0, 1}
         /\ n % (2 * t) \in Nat /\ n \div (2 * t) \in Nat
         /\ n % t \in Nat /\ n % t < t /\ n % (2 * t) = (n % t) + TopBit(n, t) * t
         /\ n \div t = 2 * (n \div (2 * t)) + TopBit(n, t)
<1> DEFINE D == n \div (2 * t)
           top == n % (2 * t)
           bit == TopBit(n, t)
<1>1. 2 * t \in Nat /\ 2 * t > 0
  OBVIOUS
<1>2. D \in Nat /\ top \in Nat /\ top < 2 * t /\ (2 * t) * D \in Nat /\ n = (2 * t) * D + top
  BY <1>1, Division
<1>3. bit = IF top >= t THEN 1 ELSE 0
  BY DEF TopBit
<1> HIDE DEF D, top, bit
<1>4. bit \in {0, 1} /\ top - bit * t \in Nat /\ top - bit * t < t /\ 2 * D + bit \in Nat
  BY <1>2, <1>3
<1>5. n = t * (2 * D + bit) + (top - bit * t)
  <2>1. \A x, y \in Nat : t * (2 * x + y) + (top - y * t) = (2 * t) * x + top
    BY <1>2
  <2> QED BY <1>2, <1>4, <2>1
<1>6. n \div t = 2 * D + bit /\ n % t = top - bit * t
  <2> DEFINE u == 2 * D + bit
             v == top - bit * t
  <2>1. u \in Nat /\ v \in Nat /\ v < t /\ n = t * u + v
    BY <1>4, <1>5
  <2> HIDE DEF u, v
  <2>2. n \div t = u /\ n % t = v
    BY <2>1, DivisionUnique
  <2> QED BY <2>2 DEF u, v
<1>7. bit * t \in Nat
  BY <1>4
<1> QED BY <1>2, <1>4, <1>6, <1>7 DEF D, top, bit

\* The shift register of __udivsi3 holds in x what is not yet divided, the last
\* of t being the highest, above the quotient, whose last digit is c; y is the
\* rest.
Divides(n, d, t, p, x, y, c) ==
  /\ y \in 0 .. d - 1
  /\ \E low \in 0 .. p - 1 :
       x = (n % t) * p + low /\ n \div t = (2 * low + c) * d + y

\* All but t of the dividend lie in the register, above the digits low.
Lies(n, t, p, low, x) == 2 * t * p = Modulus /\ x = (n % (2 * t)) * p + low

\* And after a shift.
Shifted(n, t, p, low, c, x) ==
  /\ Negative(x) <=> TopBit(n, t) = 1
  /\ 2 * low + c \in 0 .. 2 * p - 1
  /\ Wrap(2 * x) + c = (n % t) * (2 * p) + (2 * low + c)

\* Shifting the register moves one bit out of the dividend and one quotient
\* digit in, and nothing is lost at either end.
LEMMA RegisterShifts ==
  ASSUME NEW n \in Nat, NEW t \in Nat \ {0}, NEW p \in Nat \ {0},
         NEW low \in 0 .. p - 1, NEW c \in {0, 1}, NEW x \in Nat, Lies(n, t, p, low, x)
  PROVE  Shifted(n, t, p, low, c, x)
<1> DEFINE top == n % (2 * t)
           rest == n % t
           bit == TopBit(n, t)
<1>1. /\ bit \in {0, 1} /\ top \in Nat /\ rest \in Nat /\ rest < t /\ top = rest + bit * t
  BY BitMoves
<1> HIDE DEF top, rest, bit
<1>2. x = top * p + low /\ 2 * t * p = Modulus
  BY DEF top, Lies
<1>3. Half = t * p /\ t * p \in Nat /\ Half \in Nat /\ Modulus = 2 * Half /\ Modulus \in Nat
  <2>1. 2 * t * p = 2 * (t * p) /\ t * p \in Nat
    OBVIOUS
  <2> QED BY <1>2, <2>1, WordFacts
<1>4. rest * p \in Nat /\ rest * p + p <= t * p
  <2>1. rest + 1 <= t /\ rest + 1 \in Nat
    BY <1>1
  <2>2. (rest + 1) * p <= t * p
    BY <1>1, <2>1, ProductKeepsOrder
  <2>3. (rest + 1) * p = rest * p + p /\ rest * p \in Nat
    BY <1>1
  <2> QED BY <2>2, <2>3
<1>5. x = rest * p + bit * (t * p) + low
  <2>1. \A u, v \in Nat : (u + v * t) * p = u * p + v * (t * p)
    OBVIOUS
  <2> QED BY <1>1, <1>2, <2>1
<1>6. x \in Nat /\ (x >= Half <=> bit = 1)
  BY <1>1, <1>3, <1>4, <1>5
<1>7. Wrap(2 * x) = rest * (2 * p) + 2 * low
  <2>1. rest * (2 * p) = 2 * (rest * p)
    BY <1>1
  <2>2. rest * (2 * p) + 2 * low \in 0 .. Modulus - 1
    BY <1>3, <1>4, <2>1
  <2>3. 2 * x = (rest * (2 * p) + 2 * low) + bit * Modulus
    BY <1>1, <1>3, <1>4, <1>5, <2>1
  <2>4. Same(2 * x, rest * (2 * p) + 2 * low)
    BY <1>1, <2>3 DEF Same
  <2> QED BY <1>6, <2>2, <2>4, SameWord
<1>8. 2 * low + c \in 0 .. 2 * p - 1
  OBVIOUS
<1>9. Negative(x) <=> x >= Half
  BY WordFacts
<1>10. Wrap(2 * x) + c = rest * (2 * p) + (2 * low + c)
  <2>1. rest * (2 * p) \in Nat
    BY <1>1
  <2> QED BY <1>7, <2>1
<1> QED BY <1>6, <1>8, <1>9, <1>10 DEF Shifted, rest, bit

\* The sign of d - y - 1 tells whether d fits into y, as long as the two are not
\* further apart than half of the words.
LEMMA SignCompares ==
  ASSUME NEW d \in Nat, NEW y \in Nat, d - y - 1 < Half, y - d < Half
  PROVE  Negative(Wrap(d - y - 1)) <=> d <= y
<1> DEFINE v == d - y - 1
<1>1. /\ v \in Int /\ v < Half /\ v >= -Half /\ (v < 0 <=> d <= y)
      /\ Half \in Nat /\ Modulus = 2 * Half
  BY WordFacts
<1> HIDE DEF v
<1>2. CASE v < 0
  <2>1. v + Modulus \in 0 .. Modulus - 1 /\ v + Modulus >= Half
    BY <1>1, <1>2
  <2>2. v = (v + Modulus) + (-1) * Modulus
    BY <1>1
  <2>3. Wrap(v) = v + Modulus
    BY <1>1, <2>1, <2>2, SameWord DEF Same
  <2> QED BY <1>1, <1>2, <2>1, <2>3, WordFacts DEF v
<1>3. CASE v >= 0
  <2>1. Wrap(v) = v
    BY <1>1, <1>3, WrapOfWord
  <2> QED BY <1>1, <1>3, <2>1, WordFacts DEF v
<1> QED BY <1>1, <1>2, <1>3

\* The rest with the next bit of the dividend.
Extended(x, y) == Wrap(2 * y) + (IF Negative(x) THEN 1 ELSE 0)

\* An iteration of __udivsi3 brings one more bit of the dividend to the rest and
\* finds the next digit of the quotient.  Neither the doubled rest nor the
\* comparison overflows: a divisor with the sign bit set fits at most once, and
\* only when all bits are there.
LEMMA DigitFound ==
  ASSUME NEW n \in 0 .. Modulus - 1, NEW d \in 1 .. Modulus - 1,
         NEW t \in Nat \ {0}, NEW p \in Nat \ {0}, 2 * t * p = Modulus,
         NEW x, NEW y, NEW c \in {0, 1}, Divides(n, d, 2 * t, p, x, y, c),
         d >= Half => t = 1 /\ n >= Half
  PROVE  /\ Negative(Wrap(d - Extended(x, y) - 1)) <=> d <= Extended(x, y)
         /\ d <= Extended(x, y) =>
              Divides(n, d, t, 2 * p, Wrap(2 * x) + c, Wrap(Extended(x, y) - d), 1)
         /\ ~(d <= Extended(x, y)) =>
              Divides(n, d, t, 2 * p, Wrap(2 * x) + c, Extended(x, y), 0)
<1>0. Modulus \in Nat /\ Half \in Nat /\ Modulus = 2 * Half /\ n \in Nat /\ d \in Nat \ {0}
  BY WordFacts
<1>1. PICK low \in 0 .. p - 1 :
        x = (n % (2 * t)) * p + low /\ n \div (2 * t) = (2 * low + c) * d + y
  BY DEF Divides
<1>a. /\ Negative(x) <=> TopBit(n, t) = 1
      /\ 2 * low + c \in 0 .. 2 * p - 1
      /\ Wrap(2 * x) + c = (n % t) * (2 * p) + (2 * low + c)
  <2>1. Lies(n, t, p, low, x) /\ x \in Nat
    <3>1. n % (2 * t) \in Nat
      BY <1>0
    <3>2. (n % (2 * t)) * p \in Nat
      BY <3>1
    <3> QED BY <1>1, <3>2 DEF Lies
  <2>2. Shifted(n, t, p, low, c, x)
    BY <1>0, <2>1, RegisterShifts
  <2> QED BY <2>2 DEF Shifted
<1> DEFINE bit == TopBit(n, t)
           found == 2 * low + c
           X == Wrap(2 * x) + c
           rest == Extended(x, y)
           upper == n \div t
           D == n \div (2 * t)
<1>2. /\ bit \in {0, 1} /\ D \in Nat /\ upper = 2 * D + bit
  BY <1>0, BitMoves
<1>3. /\ Negative(x) <=> bit = 1
      /\ found \in 0 .. 2 * p - 1
      /\ X = (n % t) * (2 * p) + found
  BY <1>a
<1>4. y \in Nat /\ y < d
  BY <1>0 DEF Divides
<1>5. upper \in Nat /\ upper <= n
  <2>1. upper \in Nat /\ n % t \in Nat /\ t * upper \in Nat /\ n = t * upper + (n % t)
    BY <1>0, Division
  <2>2. 1 * upper <= t * upper
    BY <2>1, ProductKeepsOrder
  <2> QED BY <1>0, <2>1, <2>2
<1>6. D = found * d + y /\ found \in Nat
  BY <1>1, <1>3
<1>7. (t = 1) => upper = n
  BY <1>0
<1>8. Extended(x, y) = Wrap(2 * y) + bit
  BY <1>2, <1>3 DEF Extended
<1> HIDE DEF bit, found, X, rest, upper, D
<1>9. found * d \in Nat /\ y <= D
  BY <1>0, <1>4, <1>6
<1>10. 2 * y + bit < Modulus
  BY <1>0, <1>2, <1>4, <1>5, <1>9
<1>11. rest = 2 * y + bit
  <2>1. 2 * y \in 0 .. Modulus - 1
    BY <1>0, <1>2, <1>4, <1>10
  <2>2. Wrap(2 * y) = 2 * y
    BY <2>1, WrapOfWord
  <2> QED BY <1>8, <2>2 DEF rest
<1>12. rest \in Nat /\ rest < Modulus /\ rest < 2 * d /\ upper = 2 * (found * d) + rest
  BY <1>0, <1>2, <1>4, <1>6, <1>9, <1>10, <1>11
<1>13. d - rest - 1 < Half /\ rest - d < Half
  <2>1. CASE d <= Half
    BY <1>0, <1>12, <2>1
  <2>2. CASE d > Half
    <3>1. found = 0
      <4> SUFFICES ASSUME found >= 1 PROVE FALSE
        BY <1>6
      <4>1. 1 * d <= found * d
        BY <1>0, <1>6, ProductKeepsOrder
      <4> QED BY <1>0, <1>5, <1>9, <1>12, <2>2, <4>1
    <3>2. rest = n /\ n >= Half
      BY <1>0, <1>7, <1>12, <2>2, <3>1
    <3> QED BY <1>0, <1>12, <2>2, <3>2
  <2> QED BY <1>0, <2>1, <2>2
<1>14. Negative(Wrap(d - rest - 1)) <=> d <= rest
  BY <1>0, <1>12, <1>13, SignCompares
<1>15. ASSUME d <= rest PROVE Divides(n, d, t, 2 * p, X, Wrap(rest - d), 1)
  <2>1. rest - d \in 0 .. d - 1 /\ rest - d \in 0 .. Modulus - 1
    BY <1>0, <1>12, <1>15
  <2>2. Wrap(rest - d) = rest - d
    BY <2>1, WrapOfWord
  <2>3. (2 * found + 1) * d = 2 * (found * d) + d
    BY <1>0, <1>6
  <2>4. upper = (2 * found + 1) * d + (rest - d)
    BY <1>0, <1>9, <1>12, <2>3
  <2> QED BY <1>3, <2>1, <2>2, <2>4 DEF Divides, upper
<1>16. ASSUME ~(d <= rest) PROVE Divides(n, d, t, 2 * p, X, rest, 0)
  <2>1. rest \in 0 .. d - 1
    BY <1>0, <1>12, <1>16
  <2>2. (2 * found + 0) * d = 2 * (found * d)
    BY <1>0, <1>6
  <2>3. upper = (2 * found + 0) * d + rest
    BY <1>12, <2>2
  <2> QED BY <1>3, <2>1, <2>3 DEF Divides, upper
<1> QED BY <1>14, <1>15, <1>16 DEF rest, X

LEMMA RegistersAreWords ==
  ASSUME NEW n \in Nat, NEW d \in 1 .. Modulus - 1, NEW t \in Nat \ {0}, NEW p \in Nat \ {0},
         t * p = Modulus, NEW x, NEW y, NEW c, Divides(n, d, t, p, x, y, c)
  PROVE  x \in 0 .. Modulus - 1 /\ y \in 0 .. Modulus - 1
<1>1. PICK low \in 0 .. p - 1 : x = (n % t) * p + low
  BY DEF Divides
<1>2. n % t \in Nat /\ (n % t) + 1 <= t
  <2>1. t > 0 /\ n \in Nat /\ t \in Nat
    OBVIOUS
  <2>2. n % t \in Nat /\ n % t < t
    BY <2>1, Division
  <2> QED BY <2>2
<1> DEFINE u == n % t
<1> HIDE DEF u
<1>3. u \in Nat /\ u + 1 <= t /\ x = u * p + low
  BY <1>1, <1>2 DEF u
<1>4. (u + 1) * p <= t * p
  BY <1>3, ProductKeepsOrder
<1>5. (u + 1) * p = u * p + p /\ u * p \in Nat
  BY <1>3
<1>6. y \in 0 .. d - 1 /\ Modulus \in Nat
  BY WordFacts DEF Divides
<1> QED BY <1>3, <1>4, <1>5, <1>6

\* Words are computed with as integers are.
LEMMA SameValues ==
  ASSUME NEW x \in Int, NEW y \in Int, NEW u \in Int, NEW v \in Int, Same(x, y), Same(u, v)
  PROVE  Same(y, x) /\ Same(x - u, y - v) /\ Same(x + u, y + v) /\ Same(x * u, y * v)
<1>1. Modulus \in Int
  BY WordFacts
<1>2. PICK j \in Int : x = y + j * Modulus
  BY DEF Same
<1>3. PICK k \in Int : u = v + k * Modulus
  BY DEF Same
<1>4. y = x + (-j) * Modulus /\ -j \in Int
  BY <1>1, <1>2
<1>5. x - u = (y - v) + (j - k) * Modulus /\ j - k \in Int
  BY <1>1, <1>2, <1>3
<1>6. x + u = (y + v) + (j + k) * Modulus /\ j + k \in Int
  BY <1>1, <1>2, <1>3
<1>7. x * u = y * v + (j * v + k * y + j * k * Modulus) * Modulus
      /\ j * v + k * y + j * k * Modulus \in Int
  BY <1>1, <1>2, <1>3
<1> QED BY <1>4, <1>5, <1>6, <1>7 DEF Same

LEMMA SameWrap ==
  ASSUME NEW x \in Int, NEW y \in Int, Same(x, y)
  PROVE  Wrap(x) = Wrap(y)
<1> DEFINE u == Wrap(y)
<1>1. u \in 0 .. Modulus - 1 /\ Same(y, u)
  BY WrapSame
<1> HIDE DEF u
<1>2. PICK j \in Int : x = y + j * Modulus
  BY DEF Same
<1>3. PICK k \in Int : y = u + k * Modulus
  BY <1>1 DEF Same
<1>4. x = u + (j + k) * Modulus /\ j + k \in Int
  BY <1>1, <1>2, <1>3, WordFacts
<1>5. Wrap(x) = u
  BY <1>1, <1>4, SameWord DEF Same
<1> QED BY <1>5 DEF u

LEMMA SameItself ==
  ASSUME NEW x \in Int
  PROVE  Same(x, x)
<1>1. x = x + 0 * Modulus
  BY WordFacts
<1> QED BY <1>1 DEF Same

LEMMA NegationExact ==
  ASSUME NEW w \in 0 .. Modulus - 1, NEW s \in BOOLEAN
  PROVE  /\ NegatedIf(s, w) \in 0 .. Modulus - 1
         /\ Same(NegatedIf(s, w), IF s THEN -w ELSE w)
<1>0. w \in Int /\ -w \in Int /\ Modulus \in Nat
  BY WordFacts
<1>1. Wrap(-w) \in 0 .. Modulus - 1 /\ Same(-w, Wrap(-w)) /\ Wrap(-w) \in Int
  BY <1>0, WrapSame
<1>2. Same(Wrap(-w), -w)
  BY <1>0, <1>1, SameValues
<1>3. Same(w, w)
  BY <1>0, SameItself
<1> QED BY <1>1, <1>2, <1>3 DEF NegatedIf

\* __divsi3 divides absolute values, which for the smallest integer is the word
\* itself.
LEMMA AbsoluteValue ==
  ASSUME NEW w \in 0 .. Modulus - 1
  PROVE  /\ Signed(w) \in Int /\ Same(w, Signed(w)) /\ (Negative(w) <=> Signed(w) < 0)
         /\ NegatedIf(Negative(w), w) = IF Signed(w) < 0 THEN -Signed(w) ELSE Signed(w)
<1>0. /\ Modulus \in Nat /\ Half \in Nat /\ Modulus = 2 * Half /\ Half > 0
      /\ (Negative(w) <=> w >= Half) /\ w \in Nat
  BY WordFacts
<1>1. Signed(w) = IF w >= Half THEN w - Modulus ELSE w
  BY <1>0 DEF Signed, Modulus, Power
<1>2. CASE w >= Half
  <2>1. Signed(w) = w - Modulus /\ w = Signed(w) + 1 * Modulus /\ Signed(w) \in Int /\ Signed(w) < 0
    BY <1>0, <1>1, <1>2
  <2>2. -w = (Modulus - w) + (-1) * Modulus /\ Modulus - w \in 0 .. Modulus - 1 /\ -w \in Int
    BY <1>0, <1>2
  <2>3. Wrap(-w) = Modulus - w
    BY <2>2, SameWord DEF Same
  <2>4. NegatedIf(Negative(w), w) = Modulus - w /\ Modulus - w = -Signed(w)
    BY <1>0, <1>2, <2>1, <2>3 DEF NegatedIf
  <2>5. Same(w, Signed(w))
    BY <2>1 DEF Same
  <2> QED BY <1>0, <1>2, <2>1, <2>4, <2>5
<1>3. CASE ~(w >= Half)
  <2>1. Signed(w) = w /\ NegatedIf(Negative(w), w) = w
    BY <1>0, <1>1, <1>3 DEF NegatedIf
  <2>2. Same(w, w)
    BY <1>0, SameItself
  <2> QED BY <1>0, <1>3, <2>1, <2>2
<1> QED BY <1>2, <1>3

\* The quotients that __udivsi3 is to find and __mulsi3 is to multiply by b.
Quot == IF Divisor = 0 THEN 0 ELSE Dividend \div Divisor
SignedQuotient == NegatedIf(QuotientNegative, Quot)

\* A divisor with the sign bit set leaves one iteration, if any.
WideDivisor == Divisor >= Half /\ sr > 0 => sr = 1 /\ Dividend >= Half

Dividing ==
  /\ Divisor \in 1 .. Modulus - 1 /\ WideDivisor
  /\ Divides(Dividend, Divisor, Power(sr), Power(WordBits - sr), q, r, carry)

Multiplying ==
  call = "__modsi3" /\ Wrap(sum + factor * addend) = Wrap(SignedQuotient * b)

Answered ==
  result = IF call = "__udivsi3" THEN Quot ELSE Wrap(a - SignedQuotient * b)

ArithInv ==
  /\ ArithTypeOK
  /\ at = "divide" => Dividing
  /\ at = "multiply" => Multiplying
  /\ at = "returned" => Answered

LEMMA OperandsAreWords ==
  ASSUME ArithTypeOK
  PROVE  /\ a \in 0 .. Modulus - 1 /\ b \in 0 .. Modulus - 1
         /\ Dividend \in 0 .. Modulus - 1 /\ Divisor \in 0 .. Modulus - 1
         /\ Quot \in 0 .. Modulus - 1 /\ SignedQuotient \in 0 .. Modulus - 1
<1>1. a \in 0 .. Modulus - 1 /\ b \in 0 .. Modulus - 1
  BY WordFacts DEF ArithTypeOK
<1>2. Negative(a) \in BOOLEAN /\ Negative(b) \in BOOLEAN /\ QuotientNegative \in BOOLEAN
  BY DEF Negative, QuotientNegative
<1>3. Dividend \in 0 .. Modulus - 1 /\ Divisor \in 0 .. Modulus - 1
  <2>1. /\ NegatedIf(Negative(a), a) \in 0 .. Modulus - 1
        /\ NegatedIf(Negative(b), b) \in 0 .. Modulus - 1
    BY <1>1, <1>2, NegationExact
  <2> QED BY <1>1, <2>1 DEF Dividend, Divisor
<1>4. Quot \in 0 .. Modulus - 1
  <2>1. CASE Divisor = 0
    BY <2>1, WordFacts DEF Quot
  <2>2. CASE Divisor # 0
    <3> DEFINE n == Dividend
               d == Divisor
               k == n \div d
    <3>1. n \in Nat /\ d \in Nat /\ d > 0 /\ n < Modulus /\ Modulus \in Nat
      BY <1>3, <2>2, WordFacts
    <3> HIDE DEF n, d
    <3>2. k \in Nat /\ n % d \in Nat /\ n = d * k + (n % d) /\ d * k \in Nat
      BY <3>1, Division
    <3>3. 1 * k <= d * k
      BY <3>1, <3>2, ProductKeepsOrder
    <3>4. k \in 0 .. Modulus - 1
      BY <3>1, <3>2, <3>3
    <3> QED BY <2>2, <3>4 DEF Quot, n, d
  <2> QED BY <2>1, <2>2
<1>5. SignedQuotient \in 0 .. Modulus - 1
  BY <1>2, <1>4, NegationExact DEF SignedQuotient
<1> QED BY <1>1, <1>3, <1>4, <1>5

LEMMA ArithInitial ==
  ASSUME ArithInit
  PROVE  ArithInv
<1>1. 0 \in Word /\ 0 \in 0 .. WordBits - 1
  BY WordFacts DEF Exponent
<1> QED BY <1>1 DEF ArithInit, ArithInv, ArithTypeOK

LEMMA CallStep ==
  ASSUME ArithInv, Call
  PROVE  ArithInv'
<1>1. ArithTypeOK'
  BY DEF ArithInv, ArithTypeOK, Call, Word
<1>2. at' = "entered"
  BY DEF Call
<1> QED BY <1>1, <1>2 DEF ArithInv

LEMMA ReturnStep ==
  ASSUME ArithInv, Return
  PROVE  ArithInv'
<1>1. 0 \in Word /\ 0 \in 0 .. WordBits - 1
  BY WordFacts DEF Exponent
<1>2. ArithTypeOK'
  BY <1>1 DEF ArithInv, ArithTypeOK, Return, Word
<1>3. at' = "idle"
  BY DEF Return
<1> QED BY <1>2, <1>3 DEF ArithInv

\* __udivsi3 has found the quotient.
LEMMA QuotientFound ==
  ASSUME ArithInv, NEW v, v = Quot, Quotient(v), UNCHANGED <<call, a, b>>,
         q' \in Word, r' \in Word, sr' = sr, carry' = carry
  PROVE  ArithInv'
<1>1. v \in Word /\ SignedQuotient \in Word /\ a \in Word /\ b \in Word /\ 0 \in Word
  BY OperandsAreWords, WordFacts DEF ArithInv
<1>2. Quot' = Quot /\ SignedQuotient' = SignedQuotient /\ call' = call /\ b' = b /\ a' = a
  BY DEF Quot, SignedQuotient, QuotientNegative, Dividend, Divisor
<1>3. ArithTypeOK
  BY DEF ArithInv
<1>4. CASE call = "__udivsi3"
  <2>1. at' = "returned" /\ result' = v /\ UNCHANGED <<factor, addend, sum>>
    BY <1>4 DEF Quotient
  <2>2. ArithTypeOK'
    BY <1>1, <1>2, <1>3, <2>1 DEF ArithTypeOK, Word
  <2>3. Answered'
    BY <1>2, <1>4, <2>1 DEF Answered
  <2> QED BY <2>1, <2>2, <2>3 DEF ArithInv
<1>5. CASE call # "__udivsi3"
  <2>1. /\ at' = "multiply" /\ UNCHANGED result
        /\ factor' = SignedQuotient /\ addend' = b /\ sum' = 0 /\ call = "__modsi3"
    BY <1>3, <1>5 DEF Quotient, SignedQuotient, ArithTypeOK
  <2>2. ArithTypeOK'
    BY <1>1, <1>2, <1>3, <2>1 DEF ArithTypeOK, Word
  <2>3. sum' + factor' * addend' = SignedQuotient * b
    <3>1. SignedQuotient * b \in Int
      BY OperandsAreWords, <1>3, WordFacts
    <3> QED BY <2>1, <3>1
  <2>4. Multiplying'
    BY <1>2, <2>1, <2>3 DEF Multiplying
  <2> QED BY <2>1, <2>2, <2>4 DEF ArithInv
<1> QED BY <1>4, <1>5

LEMMA Widths ==
  ASSUME NEW k \in 0 .. WordBits - 1
  PROVE  /\ Power(k) \in Nat \ {0} /\ Power(WordBits - k) \in Nat \ {0}
         /\ Power(k) * Power(WordBits - k) = Modulus
<1>1. k \in Nat /\ WordBits - k \in Nat /\ k + (WordBits - k) = WordBits /\ WordBits \in Exponent
  BY WordFacts DEF Exponent
<1>2. k \in Exponent /\ WordBits - k \in Exponent
  BY <1>1 DEF Exponent
<1>3. Power(k + (WordBits - k)) = Power(k) * Power(WordBits - k)
  BY <1>1, PowerSplits
<1> QED BY <1>1, <1>2, <1>3, PowerPositive DEF Modulus

\* What the numbers of leading zeros tell of the operands.
LEMMA ShiftEnough ==
  ASSUME NEW n \in 1 .. Modulus - 1, NEW d \in 1 .. Modulus - 1
  PROVE  LET shift == clzsi2(d) - clzsi2(n) IN
         /\ shift \in -WordBits .. WordBits - 1
         /\ shift < 0 => n < d
         /\ shift = WordBits - 1 => d = 1
         /\ shift \in 0 .. WordBits - 2 => n \div Power(shift + 1) < d
         /\ shift >= 0 /\ d >= Half => shift = 0 /\ n >= Half
<1> DEFINE y == clzsi2(d)
           x == clzsi2(n)
<1>1. /\ y \in 0 .. WordBits - 1 /\ Power(WordBits - 1 - y) <= d /\ d < Power(WordBits - y)
      /\ x \in 0 .. WordBits - 1 /\ Power(WordBits - 1 - x) <= n /\ n < Power(WordBits - x)
  BY ClzExact
<1> HIDE DEF x, y
<1>2. WordBits \in Exponent /\ WordBits \in Nat /\ WordBits >= 2 /\ n \in Nat /\ d \in Nat \ {0}
  BY WordFacts DEF Exponent
<1>3. \A k \in 0 .. WordBits : k \in Nat /\ k \in Exponent /\ Power(k) \in Nat \ {0}
  BY <1>2, PowerPositive DEF Exponent
<1>4. y - x \in -WordBits .. WordBits - 1
  BY <1>1, <1>2
<1>5. ASSUME y - x < 0 PROVE n < d
  <2>1. WordBits - x <= WordBits - 1 - y /\ WordBits - x \in 0 .. WordBits
        /\ WordBits - 1 - y \in 0 .. WordBits
    BY <1>1, <1>2, <1>5
  <2>2. Power(WordBits - x) <= Power(WordBits - 1 - y)
    BY <1>3, <2>1, PowerGrows
  <2> QED BY <1>1, <1>2, <1>3, <2>1, <2>2
<1>6. ASSUME y - x = WordBits - 1 PROVE d = 1
  <2>1. y = WordBits - 1 /\ WordBits - y = 1
    BY <1>1, <1>2, <1>6
  <2> QED BY <1>1, <1>2, <2>1, PowerBase
<1>7. ASSUME y - x \in 0 .. WordBits - 2 PROVE n \div Power((y - x) + 1) < d
  <2> DEFINE k == (y - x) + 1
             e == WordBits - 1 - y
  <2>1. k \in 0 .. WordBits /\ e \in 0 .. WordBits /\ k + e = WordBits - x
        /\ WordBits - x \in 0 .. WordBits
    BY <1>1, <1>2, <1>7
  <2> HIDE DEF k, e
  <2>2. Power(k + e) = Power(k) * Power(e)
    BY <1>3, <2>1, PowerSplits
  <2> DEFINE t == Power(k)
             u == n \div t
  <2>3. t \in Nat /\ t > 0
    BY <1>3, <2>1
  <2> HIDE DEF t
  <2>4. u \in Nat /\ t * u \in Nat /\ n % t \in Nat /\ n = t * u + (n % t)
    BY <1>2, <2>3, Division
  <2> HIDE DEF u
  <2>5. n < t * Power(e) /\ Power(e) <= d /\ Power(e) \in Nat
    BY <1>1, <1>3, <2>1, <2>2 DEF t, e
  <2>6. u < Power(e)
    <3> SUFFICES ASSUME Power(e) <= u PROVE FALSE
      BY <2>4, <2>5
    <3>1. Power(e) * t <= u * t
      BY <2>3, <2>4, <2>5, ProductKeepsOrder
    <3>2. Power(e) * t = t * Power(e) /\ u * t = t * u
      BY <2>3, <2>4, <2>5
    <3> QED BY <1>2, <2>3, <2>4, <2>5, <3>1, <3>2
  <2>7. u < d
    BY <1>2, <2>4, <2>5, <2>6
  <2> QED BY <2>7 DEF u, t, k
<1>8. ASSUME y - x >= 0, d >= Half PROVE y - x = 0 /\ n >= Half
  <2>1. y = 0
    <3> SUFFICES ASSUME y >= 1 PROVE FALSE
      BY <1>1, <1>2
    <3>1. WordBits - y \in 0 .. WordBits /\ WordBits - 1 \in 0 .. WordBits
          /\ WordBits - y <= WordBits - 1
      BY <1>1, <1>2
    <3>2. Power(WordBits - y) <= Half
      BY <1>3, <3>1, PowerGrows DEF Half
    <3> QED BY <1>1, <1>2, <1>3, <1>8, <3>1, <3>2 DEF Half
  <2>2. x = 0 /\ WordBits - 1 - x = WordBits - 1
    BY <1>1, <1>2, <1>8, <2>1
  <2> QED BY <1>1, <2>1, <2>2 DEF Half
<1> QED BY <1>4, <1>5, <1>6, <1>7, <1>8 DEF x, y

\* Before the first iteration r holds the bits of the dividend that the divisor
\* exceeds, and q the others.
LEMMA RegisterLoaded ==
  ASSUME NEW n \in Nat, NEW d \in Nat, NEW t \in Nat \ {0}, NEW p \in Nat \ {0},
         t * p = Modulus, n \div t < d
  PROVE  Divides(n, d, t, p, Wrap(n * p), n \div t, 0)
<1> DEFINE u == n \div t
           v == n % t
<1>1. u \in Nat /\ v \in Nat /\ v + 1 <= t /\ n = t * u + v /\ t * u \in Nat
  <2>1. t \in Nat /\ t > 0
    OBVIOUS
  <2>2. u \in Nat /\ v \in Nat /\ v < t /\ n = t * u + v /\ t * u \in Nat
    BY <2>1, Division
  <2> QED BY <2>2
<1>2. u < d
  OBVIOUS
<1> HIDE DEF u, v
<1>3. n * p = v * p + u * Modulus /\ n * p \in Int
  <2>1. \A x, y \in Nat : (t * x + y) * p = y * p + x * (t * p)
    OBVIOUS
  <2> QED BY <1>1, <2>1
<1>4. v * p \in 0 .. Modulus - 1
  <2>1. (v + 1) * p <= t * p /\ t * p \in Nat
    BY <1>1, ProductKeepsOrder
  <2>2. (v + 1) * p = v * p + p /\ v * p \in Nat
    BY <1>1
  <2> QED BY <2>1, <2>2
<1>5. Wrap(n * p) = v * p
  BY <1>1, <1>3, <1>4, SameWord DEF Same
<1>6. u \in 0 .. d - 1 /\ 0 \in 0 .. p - 1 /\ v * p = v * p + 0 /\ u = (2 * 0 + 0) * d + u
  BY <1>1, <1>2, <1>4
<1>7. Wrap(n * p) = v * p + 0
  BY <1>5, <1>6
<1> QED BY <1>6, <1>7 DEF Divides, u, v

LEMMA EnterDivisionStep ==
  ASSUME ArithInv, EnterDivision
  PROVE  ArithInv'
<1> DEFINE n == Dividend
           d == Divisor
           shift == clzsi2(d) - clzsi2(n)
<1>1. n \in 0 .. Modulus - 1 /\ d \in 0 .. Modulus - 1 /\ Modulus \in Nat /\ ArithTypeOK
      /\ WordBits \in Nat /\ WordBits >= 2
  BY OperandsAreWords, WordFacts DEF ArithInv, Exponent
<1>2. UNCHANGED <<call, a, b>>
  BY DEF EnterDivision
<1>3. CASE d = 0 \/ n = 0
  <2>1. Quotient(0) /\ UNCHANGED <<q, r, sr, carry>>
    BY <1>3 DEF EnterDivision
  <2>2. Quot = 0
    BY <1>1, <1>3 DEF Quot
  <2> QED BY <1>1, <1>2, <2>1, <2>2, QuotientFound DEF ArithTypeOK
<1>4. CASE d # 0 /\ n # 0
  <2>1. n \in 1 .. Modulus - 1 /\ d \in 1 .. Modulus - 1 /\ n \in Nat /\ d \in Nat
    BY <1>1, <1>4
  <2> HIDE DEF n, d
  <2>2. /\ shift \in -WordBits .. WordBits - 1
        /\ shift < 0 => n < d
        /\ shift = WordBits - 1 => d = 1
        /\ shift \in 0 .. WordBits - 2 => n \div Power(shift + 1) < d
        /\ shift >= 0 /\ d >= Half => shift = 0 /\ n >= Half
    BY <2>1, ShiftEnough
  <2>3. /\ shift < 0 => Quotient(0) /\ UNCHANGED <<q, r, sr, carry>>
        /\ ~(shift < 0) /\ shift = WordBits - 1 => Quotient(n) /\ UNCHANGED <<q, r, sr, carry>>
        /\ ~(shift < 0) /\ shift # WordBits - 1 =>
             /\ at' = "divide" /\ sr' = shift + 1 /\ carry' = 0
             /\ q' = Wrap(n * Power(WordBits - sr')) /\ r' = n \div Power(sr')
             /\ UNCHANGED <<factor, addend, sum, result>>
    BY <1>4 DEF EnterDivision, DivisorIsOne, Power, n, d
  <2>4. Quot = n \div d
    BY <1>4 DEF Quot, n, d
  <2> HIDE DEF shift
  <2>5. CASE shift < 0
    <3>1. n \div d = 0
      BY <2>1, <2>2, <2>5
    <3> QED BY <1>1, <1>2, <2>3, <2>4, <2>5, <3>1, QuotientFound DEF ArithTypeOK
  <2>6. CASE shift >= 0 /\ shift = WordBits - 1
    <3>1. n \div d = n
      BY <2>1, <2>2, <2>6
    <3> QED BY <1>1, <1>2, <2>2, <2>3, <2>4, <2>6, <3>1, QuotientFound DEF ArithTypeOK
  <2>7. CASE shift >= 0 /\ shift # WordBits - 1
    <3> DEFINE t == Power(shift + 1)
               p == Power(WordBits - (shift + 1))
    <3>1. shift + 1 \in 0 .. WordBits - 1 /\ shift \in 0 .. WordBits - 2
      BY <1>1, <2>2, <2>7
    <3>2. t \in Nat \ {0} /\ p \in Nat \ {0} /\ t * p = Modulus
      BY <3>1, Widths
    <3>3. /\ at' = "divide" /\ sr' = shift + 1 /\ carry' = 0
          /\ q' = Wrap(n * p) /\ r' = n \div t
          /\ UNCHANGED <<factor, addend, sum, result>>
      BY <2>2, <2>3, <2>7
    <3>4. n \div t < d
      BY <2>2, <3>1
    <3>5. Power(sr') = t /\ Power(WordBits - sr') = p
      BY <3>3
    <3> HIDE DEF t, p
    <3>6. Divides(n, d, t, p, Wrap(n * p), n \div t, 0)
      BY <2>1, <3>2, <3>4, RegisterLoaded
    <3>7. Divides(n, d, t, p, q', r', carry')
      BY <3>3, <3>6
    <3>8. q' \in 0 .. Modulus - 1 /\ r' \in 0 .. Modulus - 1
      BY <2>1, <3>2, <3>7, RegistersAreWords
    <3>9. Dividend' = n /\ Divisor' = d
      BY <1>2 DEF n, d, Dividend, Divisor
    <3>10. ArithTypeOK'
      <4>1. q' \in Word /\ r' \in Word
        BY <3>8, WordFacts
      <4> QED BY <1>1, <1>2, <3>1, <3>3, <4>1 DEF ArithTypeOK, Word
    <3>11. WideDivisor'
      <4>1. d >= Half => sr' = 1 /\ n >= Half
        BY <2>2, <2>7, <3>3
      <4> QED BY <3>9, <4>1 DEF WideDivisor, Half, Power
    <3>12. Divides(Dividend, Divisor, Power(sr), Power(WordBits - sr), q, r, carry)'
      BY <3>5, <3>7, <3>9 DEF Divides, Power
    <3>13. (Divisor \in 1 .. Modulus - 1)'
      BY <2>1, <3>9 DEF Modulus, Power
    <3>14. Dividing'
      BY <3>11, <3>12, <3>13 DEF Dividing
    <3> QED BY <3>3, <3>10, <3>14 DEF ArithInv
  <2> QED BY <2>2, <2>5, <2>6, <2>7
<1> QED BY <1>3, <1>4

LEMMA DivideStepStep ==
  ASSUME ArithInv, DivideStep
  PROVE  ArithInv'
<1> DEFINE n == Dividend
           d == Divisor
           t == Power(sr - 1)
           p == Power(WordBits - sr)
           rest == Extended(q, r)
           x == Wrap(2 * q) + carry
<1>1. /\ n \in 0 .. Modulus - 1 /\ Modulus \in Nat /\ ArithTypeOK /\ Dividing
      /\ WordBits \in Nat /\ sr \in 0 .. WordBits - 1 /\ sr > 0 /\ carry \in {0, 1}
      /\ WordBits \in Exponent
  BY OperandsAreWords, WordFacts DEF ArithInv, Exponent, DivideStep, ArithTypeOK
<1>2. /\ at = "divide" /\ q' = x /\ sr' = sr - 1
      /\ UNCHANGED <<at, call, a, b, factor, addend, sum, result>>
      /\ Negative(Wrap(d - rest - 1)) => carry' = 1 /\ r' = Wrap(rest - d)
      /\ ~Negative(Wrap(d - rest - 1)) => carry' = 0 /\ r' = rest
  BY DEF DivideStep, Fits, Extended
<1>3. sr - 1 \in 0 .. WordBits - 1 /\ sr - 1 \in 0 .. 31 /\ (sr - 1) + 1 = sr
      /\ WordBits - (sr - 1) = (WordBits - sr) + 1 /\ WordBits - sr \in 0 .. 31
  BY <1>1 DEF Exponent
<1>4. /\ t \in Nat \ {0} /\ p \in Nat \ {0} /\ Power(sr) = 2 * t /\ 2 * t * p = Modulus
      /\ Power(WordBits - (sr - 1)) = 2 * p
  <2>1. Power(sr) = 2 * t /\ Power(WordBits - (sr - 1)) = 2 * p
    BY <1>3, PowerDoubles
  <2>2. t \in Nat \ {0} /\ p \in Nat \ {0} /\ Power(sr) * p = Modulus
    BY <1>1, <1>3, Widths
  <2> QED BY <2>1, <2>2
<1>5. /\ d \in 1 .. Modulus - 1 /\ Divides(n, d, 2 * t, p, q, r, carry)
      /\ d >= Half => sr = 1 /\ n >= Half
  BY <1>1, <1>4 DEF Dividing, WideDivisor
<1>6. d >= Half => t = 1 /\ n >= Half
  <2>1. sr = 1 => sr - 1 = 0
    OBVIOUS
  <2> QED BY <1>5, <2>1, PowerBase
<1> HIDE DEF n, d, t, p, x, rest
<1>7. /\ Negative(Wrap(d - Extended(q, r) - 1)) <=> d <= Extended(q, r)
      /\ d <= Extended(q, r) =>
           Divides(n, d, t, 2 * p, Wrap(2 * q) + carry, Wrap(Extended(q, r) - d), 1)
      /\ ~(d <= Extended(q, r)) =>
           Divides(n, d, t, 2 * p, Wrap(2 * q) + carry, Extended(q, r), 0)
  BY <1>1, <1>4, <1>5, <1>6, DigitFound
<1>8. Divides(n, d, t, 2 * p, q', r', carry') /\ carry' \in {0, 1}
  BY <1>2, <1>7 DEF rest, x
<1>9. Dividend' = n /\ Divisor' = d
  BY <1>2 DEF n, d, Dividend, Divisor
<1>10. q' \in 0 .. Modulus - 1 /\ r' \in 0 .. Modulus - 1
  <2> DEFINE p2 == 2 * p
  <2>1. p2 \in Nat \ {0} /\ t * p2 = Modulus /\ n \in Nat
    BY <1>1, <1>4
  <2>2. Divides(n, d, t, p2, q', r', carry')
    BY <1>8
  <2> HIDE DEF p2
  <2> QED BY <1>4, <1>5, <2>1, <2>2, RegistersAreWords
<1>11. ArithTypeOK'
  <2>1. q' \in Word /\ r' \in Word
    BY <1>10, WordFacts
  <2>2. sr' \in 0 .. WordBits - 1
    BY <1>2, <1>3
  <2> QED BY <1>1, <1>2, <1>8, <2>1, <2>2 DEF ArithTypeOK, Word
<1>12. Divides(Dividend, Divisor, Power(sr), Power(WordBits - sr), q, r, carry)'
  <2>1. Power(sr') = t /\ Power(WordBits - sr') = 2 * p
    BY <1>2, <1>4 DEF t
  <2> QED BY <1>8, <1>9, <2>1 DEF Divides, Power
<1>13. (Divisor \in 1 .. Modulus - 1)'
  BY <1>5, <1>9 DEF Modulus, Power
<1>14. WideDivisor'
  <2>1. d >= Half => ~(sr' > 0)
    BY <1>2, <1>5
  <2> QED BY <1>9, <2>1 DEF WideDivisor, Half, Power
<1>15. Dividing'
  BY <1>12, <1>13, <1>14 DEF Dividing
<1> QED BY <1>2, <1>11, <1>15 DEF ArithInv

LEMMA LeaveDivisionStep ==
  ASSUME ArithInv, LeaveDivision
  PROVE  ArithInv'
<1> DEFINE n == Dividend
           d == Divisor
<1>1. /\ n \in 0 .. Modulus - 1 /\ n \in Nat /\ Modulus \in Nat /\ Modulus > 0 /\ ArithTypeOK
      /\ Dividing /\ sr = 0 /\ carry \in {0, 1} /\ WordBits - 0 = WordBits
      /\ Quot \in 0 .. Modulus - 1
  BY OperandsAreWords, WordFacts DEF ArithInv, Exponent, LeaveDivision, ArithTypeOK
<1>2. /\ q' = Wrap(2 * q) + carry /\ Quotient(q')
      /\ UNCHANGED <<call, a, b>> /\ UNCHANGED <<r, sr, carry>>
  BY DEF LeaveDivision
<1>3. Divides(n, d, 1, Modulus, q, r, carry) /\ d \in 1 .. Modulus - 1
  BY <1>1, PowerBase DEF Dividing, Modulus
<1>4. Quot = n \div d
  BY <1>3 DEF Quot
<1> HIDE DEF n, d
<1>5. PICK low \in 0 .. Modulus - 1 :
        q = (n % 1) * Modulus + low /\ n \div 1 = (2 * low + carry) * d + r
  BY <1>3 DEF Divides
<1>6. n % 1 = 0 /\ n \div 1 = n /\ 0 * Modulus = 0
  BY <1>1
<1> DEFINE v == 2 * low + carry
<1>7. q = low /\ v \in Nat /\ r \in Nat /\ r < d /\ d \in Nat /\ d > 0
  BY <1>1, <1>3, <1>5, <1>6 DEF Divides
<1>8. n = d * v + r
  <2>1. v * d = d * v /\ d * v \in Nat
    BY <1>7
  <2>2. n = v * d + r
    BY <1>5, <1>6
  <2> QED BY <2>1, <2>2
<1>9. Wrap(2 * q) = 2 * low \/ ~(v < Modulus)
  <2> SUFFICES ASSUME v < Modulus PROVE Wrap(2 * q) = 2 * low
    OBVIOUS
  <2>1. 2 * low \in 0 .. Modulus - 1
    BY <1>1, <1>5, <1>7
  <2>2. Wrap(2 * low) = 2 * low
    BY <2>1, WrapOfWord
  <2> QED BY <1>7, <2>2
<1>10. 2 * low + carry = v
  OBVIOUS
<1> HIDE DEF v
<1>11. n \div d = v
  BY <1>1, <1>7, <1>8, DivisionUnique
<1>12. q' = Quot /\ q' \in Word
  BY <1>1, <1>2, <1>4, <1>9, <1>10, <1>11, WordFacts
<1> QED BY <1>1, <1>2, <1>12, QuotientFound DEF ArithTypeOK, Word

LEMMA MultiplyStepStep ==
  ASSUME ArithInv, MultiplyStep
  PROVE  ArithInv'
<1> DEFINE h == factor \div 2
           bit == factor % 2
           s == sum + bit * addend
           e == 2 * addend
<1>1. /\ factor \in 0 .. Modulus - 1 /\ addend \in 0 .. Modulus - 1 /\ sum \in 0 .. Modulus - 1
      /\ Modulus \in Nat /\ ArithTypeOK /\ Multiplying /\ b \in Nat /\ SignedQuotient \in Nat
  BY OperandsAreWords, WordFacts DEF ArithInv, MultiplyStep, ArithTypeOK
<1>2. /\ sum' = IF bit = 1 THEN Wrap(sum + addend) ELSE sum
      /\ factor' = h /\ addend' = Wrap(e) /\ at' = "multiply"
      /\ UNCHANGED <<at, call, a, b, q, r, sr, carry, result>>
  BY DEF MultiplyStep, Doubled
<1>3. h \in Nat /\ h <= factor /\ bit \in {0, 1} /\ factor = 2 * h + bit
  BY <1>1
<1> HIDE DEF h, bit
<1>4. s \in Int /\ e \in Int
  BY <1>1, <1>3
<1>5. Same(s, sum') /\ sum' \in 0 .. Modulus - 1
  <2>1. CASE bit = 1
    <3>1. s = sum + addend
      BY <1>1, <2>1
    <3>2. sum' = Wrap(s)
      BY <1>2, <2>1, <3>1
    <3> HIDE DEF s
    <3> QED BY <1>4, <3>2, WrapSame
  <2>2. CASE bit = 0
    <3>1. s = sum /\ sum' = sum
      BY <1>1, <1>2, <2>2
    <3> QED BY <1>1, <1>4, <3>1, SameItself
  <2> QED BY <1>3, <2>1, <2>2
<1>6. Same(e, addend') /\ addend' \in 0 .. Modulus - 1
  BY <1>2, <1>4, WrapSame
<1>7. s + h * e = sum + factor * addend
  BY <1>1, <1>3
<1> HIDE DEF s, e
<1>8. Same(h, h) /\ sum' \in Int /\ addend' \in Int /\ h \in Int
  BY <1>1, <1>3, <1>5, <1>6, SameItself
<1>9. Same(h * e, h * addend') /\ h * e \in Int /\ h * addend' \in Int
  <2>1. PICK c : c = addend'
    OBVIOUS
  <2>2. c \in Int /\ Same(e, c)
    BY <1>6, <1>8, <2>1
  <2>3. Same(h * e, h * c) /\ h * e \in Int /\ h * c \in Int
    BY <1>4, <1>8, <2>2, SameValues
  <2> QED BY <2>1, <2>3
<1> DEFINE u == h * e
           v == h * addend'
<1> HIDE DEF u, v
<1>10. Same(s + u, sum' + v) /\ s + u \in Int /\ sum' + v \in Int
  <2>1. u \in Int /\ v \in Int /\ Same(u, v)
    BY <1>9 DEF u, v
  <2>2. PICK c : c = sum'
    OBVIOUS
  <2>3. c \in Int /\ Same(s, c)
    BY <1>5, <1>8, <2>2
  <2>4. Same(s + u, c + v) /\ s + u \in Int /\ c + v \in Int
    BY <1>4, <2>1, <2>3, SameValues
  <2> QED BY <2>2, <2>4
<1>11. Wrap(sum + factor * addend) = Wrap(sum' + v)
  <2>1. s + u = sum + factor * addend
    BY <1>7 DEF u
  <2> DEFINE x == s + u
             y == sum' + v
  <2>2. x \in Int /\ y \in Int /\ Same(x, y)
    BY <1>10
  <2> HIDE DEF x, y
  <2>3. Wrap(x) = Wrap(y)
    BY <2>2, SameWrap
  <2> QED BY <2>1, <2>3 DEF x, y
<1>12. Multiplying'
  <2>1. SignedQuotient' = SignedQuotient /\ b' = b /\ call' = call
    BY <1>2 DEF Quot, SignedQuotient, QuotientNegative, Dividend, Divisor
  <2>2. v = factor' * addend'
    BY <1>2 DEF v
  <2> QED BY <1>1, <1>11, <2>1, <2>2, <1>2 DEF Multiplying
<1>13. ArithTypeOK'
  <2>1. sum' \in Word /\ addend' \in Word /\ factor' \in Word
    BY <1>1, <1>2, <1>3, <1>5, <1>6, WordFacts
  <2> QED BY <1>1, <1>2, <2>1 DEF ArithTypeOK, Word
<1> QED BY <1>2, <1>12, <1>13 DEF ArithInv

LEMMA LeaveMultiplicationStep ==
  ASSUME ArithInv, LeaveMultiplication
  PROVE  ArithInv'
<1> DEFINE product == SignedQuotient * b
<1>1. /\ addend \in 0 .. Modulus - 1 /\ sum \in 0 .. Modulus - 1 /\ factor = 0
      /\ Modulus \in Nat /\ ArithTypeOK /\ Multiplying /\ b \in Nat /\ a \in Int
      /\ SignedQuotient \in Nat
  BY OperandsAreWords, WordFacts DEF ArithInv, LeaveMultiplication, ArithTypeOK
<1>2. /\ result' = Wrap(a - sum) /\ at' = "returned"
      /\ UNCHANGED <<call, a, b, q, r, sr, carry, factor, addend, sum>>
  BY DEF LeaveMultiplication
<1>3. product \in Int /\ sum \in Int
  BY <1>1
<1>4. sum + factor * addend = sum
  BY <1>1
<1>5. Wrap(product) = sum
  BY <1>1, <1>4, WrapOfWord DEF Multiplying
<1> HIDE DEF product
<1>6. Same(sum, product) /\ Same(a, a)
  BY <1>1, <1>3, <1>5, WrapSame, SameValues, SameItself
<1>7. Same(a - sum, a - product)
  BY <1>1, <1>3, <1>6, SameValues
<1> DEFINE x == a - sum
           y == a - product
<1>8. x \in Int /\ y \in Int /\ Same(x, y)
  BY <1>1, <1>3, <1>7
<1> HIDE DEF x, y
<1>9. Wrap(x) = Wrap(y)
  BY <1>8, SameWrap
<1>10. SignedQuotient' = SignedQuotient /\ b' = b /\ a' = a /\ call' = call
  BY <1>2 DEF Quot, SignedQuotient, QuotientNegative, Dividend, Divisor
<1>11. Answered'
  <2>1. call # "__udivsi3"
    BY <1>1 DEF Multiplying
  <2>2. result' = Wrap(a - product)
    BY <1>2, <1>9 DEF x, y
  <2> QED BY <1>10, <2>1, <2>2 DEF Answered, Wrap, product
<1>12. ArithTypeOK'
  <2>1. result' \in Word
    <3>1. result' = Wrap(x)
      BY <1>2 DEF x
    <3> QED BY <1>8, <3>1, WrapSame, WordFacts
  <2> QED BY <1>1, <1>2, <2>1 DEF ArithTypeOK, Word
<1> QED BY <1>2, <1>11, <1>12 DEF ArithInv

LEMMA ArithStep ==
  ASSUME ArithInv, [ArithNext]_arithVars
  PROVE  ArithInv'
<1>1. CASE Call
  BY <1>1, CallStep
<1>2. CASE EnterDivision
  BY <1>2, EnterDivisionStep
<1>3. CASE DivideStep
  BY <1>3, DivideStepStep
<1>4. CASE LeaveDivision
  BY <1>4, LeaveDivisionStep
<1>5. CASE MultiplyStep
  BY <1>5, MultiplyStepStep
<1>6. CASE LeaveMultiplication
  BY <1>6, LeaveMultiplicationStep
<1>7. CASE Return
  BY <1>7, ReturnStep
<1>8. CASE UNCHANGED arithVars
  BY <1>8 DEF arithVars, ArithInv, ArithTypeOK, Dividing, WideDivisor, Divides, Multiplying,
    Answered, Quot, SignedQuotient, QuotientNegative, Dividend, Divisor, Word,
    Modulus, Half, Power, Wrap, NegatedIf, Negative
<1> QED BY <1>1, <1>2, <1>3, <1>4, <1>5, <1>6, <1>7, <1>8 DEF ArithNext

\* The quotient has the sign of the operands and the remainder that of the
\* dividend, so that the remainder is what the product leaves of the dividend.
LEMMA RemainderExact ==
  ASSUME NEW A \in Int, NEW B \in Int, NEW n \in Nat, NEW d \in Nat, d # 0
  PROVE  n = (IF A < 0 THEN -A ELSE A) /\ d = (IF B < 0 THEN -B ELSE B) =>
         A - (IF (A < 0) # (B < 0) THEN -(n \div d) ELSE n \div d) * B = Remainder(A, B)
<1>1. d > 0
  OBVIOUS
<1>2. /\ n \div d \in Nat /\ n % d \in Nat
      /\ n = d * (n \div d) + (n % d) /\ d * (n \div d) \in Nat
  BY <1>1, Division
<1> SUFFICES ASSUME n = (IF A < 0 THEN -A ELSE A), d = (IF B < 0 THEN -B ELSE B)
             PROVE  A - (IF (A < 0) # (B < 0) THEN -(n \div d) ELSE n \div d) * B = Remainder(A, B)
  OBVIOUS
<1>3. Remainder(A, B) = IF A < 0 THEN -(n % d) ELSE n % d
  BY DEF Remainder
<1>4. PICK k, m : k = n \div d /\ m = n % d
  OBVIOUS
<1>5. k \in Nat /\ m \in Nat /\ n = d * k + m /\ d * k \in Nat
  BY <1>2, <1>4
<1> DEFINE rest == IF A < 0 THEN -m ELSE m
<1>6. A - (IF (A < 0) # (B < 0) THEN -k ELSE k) * B = rest
  <2>1. CASE A < 0 /\ B < 0
    <3>1. k * B = -(d * k) /\ A = -(d * k) - m
      BY <1>5, <2>1
    <3> QED BY <1>5, <2>1, <3>1
  <2>2. CASE A < 0 /\ ~(B < 0)
    <3>1. (-k) * B = -(d * k) /\ A = -(d * k) - m
      BY <1>5, <2>2
    <3> QED BY <1>5, <2>2, <3>1
  <2>3. CASE ~(A < 0) /\ B < 0
    <3>1. (-k) * B = d * k /\ A = d * k + m
      BY <1>5, <2>3
    <3> QED BY <1>5, <2>3, <3>1
  <2>4. CASE ~(A < 0) /\ ~(B < 0)
    <3>1. k * B = d * k /\ A = d * k + m
      BY <1>5, <2>4
    <3> QED BY <1>5, <2>4, <3>1
  <2> QED BY <2>1, <2>2, <2>3, <2>4
<1> QED BY <1>3, <1>4, <1>6

LEMMA ArithSafe ==
  ASSUME ArithInv
  PROVE  ArithTypeOK /\ DivisionExact
<1>1. ArithTypeOK
  BY DEF ArithInv
<1>2. ASSUME at = "divide" PROVE LoopInvariant
  <2> DEFINE n == Dividend
             d == Divisor
             t == Power(sr)
             p == Power(WordBits - sr)
  <2>1. /\ d \in 1 .. Modulus - 1 /\ Divides(n, d, t, p, q, r, carry) /\ n \in Nat
        /\ Modulus \in Nat /\ t \in Nat \ {0} /\ p \in Nat \ {0} /\ t * p = Modulus
    BY <1>1, <1>2, OperandsAreWords, Widths, WordFacts DEF ArithInv, Dividing, ArithTypeOK
  <2>2. carry \in {0, 1}
    BY <1>1 DEF ArithTypeOK
  <2> DEFINE u == n % t
             v == n \div t
  <2>3. u \in Nat /\ v \in Nat
    <3>1. t \in Nat /\ t > 0
      BY <2>1
    <3> QED BY <2>1, <3>1, Division
  <2> HIDE DEF n, d, t, p
  <2>4. PICK low \in 0 .. p - 1 : q = u * p + low /\ v = (2 * low + carry) * d + r
    BY <2>1 DEF Divides
  <2>5. r \in Nat /\ r < d /\ d \in Nat /\ d > 0 /\ p \in Nat /\ p > 0
    BY <2>1 DEF Divides
  <2> HIDE DEF u, v
  <2>6. q \div p = u /\ q % p = low
    <3>1. q = p * u + low /\ low \in Nat /\ low < p /\ q \in Nat
      BY <2>3, <2>4, <2>5
    <3> QED BY <2>3, <2>5, <3>1, DivisionUnique
  <2> DEFINE k == 2 * low + carry
  <2>7. k \in Nat /\ v = d * k + r
    BY <2>2, <2>4, <2>5
  <2> HIDE DEF k
  <2>8. v \div d = k /\ v % d = r
    BY <2>3, <2>5, <2>7, DivisionUnique
  <2> QED BY <2>6, <2>8 DEF LoopInvariant, Power, n, d, t, p, u, v, k
<1>3. ASSUME at = "returned", call = "__udivsi3"
      PROVE  result = IF b = 0 THEN 0 ELSE a \div b
  BY <1>3 DEF ArithInv, Answered, Quot, Dividend, Divisor
<1>4. ASSUME at = "returned", call # "__udivsi3"
      PROVE  result = IF b = 0 THEN a ELSE Wrap(Remainder(Signed(a), Signed(b)))
  <2> DEFINE A == Signed(a)
             B == Signed(b)
             n == Dividend
             d == Divisor
             k == n \div d
             z == SignedQuotient
  <2>1. /\ call = "__modsi3" /\ result = Wrap(a - z * b)
        /\ a \in 0 .. Modulus - 1 /\ b \in 0 .. Modulus - 1 /\ z \in 0 .. Modulus - 1
        /\ Quot \in 0 .. Modulus - 1 /\ Modulus \in Nat
        /\ n \in 0 .. Modulus - 1 /\ d \in 0 .. Modulus - 1
    BY <1>1, <1>4, OperandsAreWords, WordFacts DEF ArithInv, Answered, ArithTypeOK
  <2>2. /\ A \in Int /\ Same(a, A) /\ (Negative(a) <=> A < 0) /\ n = IF A < 0 THEN -A ELSE A
        /\ B \in Int /\ Same(b, B) /\ (Negative(b) <=> B < 0) /\ d = IF B < 0 THEN -B ELSE B
    BY <2>1, AbsoluteValue DEF Dividend, Divisor
  <2>3. z = NegatedIf(QuotientNegative, Quot) /\ (QuotientNegative <=> (A < 0) # (B < 0))
        /\ QuotientNegative \in BOOLEAN
    BY <2>2 DEF SignedQuotient, QuotientNegative, Negative
  <2>4. b = 0 <=> d = 0
    <3>1. b = 0 => B = 0
      BY WordFacts DEF Signed
    <3>2. d = 0 => B = 0
      BY <2>2
    <3>3. B = 0 => d = 0
      BY <2>2
    <3>4. B = 0 => b = 0
      <4>1. B = 0 => NegatedIf(Negative(b), b) = 0 /\ ~Negative(b)
        BY <2>1, <2>2, AbsoluteValue
      <4> QED BY <4>1 DEF NegatedIf
    <3> QED BY <3>1, <3>2, <3>3, <3>4
  <2>5. CASE b = 0
    <3>1. a - z * b = a
      BY <2>1, <2>5
    <3> QED BY <2>1, <2>5, <3>1, WrapOfWord
  <2>6. CASE b # 0
    <3> DEFINE signed == IF (A < 0) # (B < 0) THEN -k ELSE k
    <3>1. d # 0 /\ B # 0 /\ Quot = k /\ k \in Nat /\ n \in Nat /\ d \in Nat
      BY <2>1, <2>2, <2>4, <2>6 DEF Quot
    <3>2. Same(z, signed) /\ signed \in Int /\ z \in Int
      <4>1. Same(z, IF QuotientNegative THEN -Quot ELSE Quot)
        BY <2>1, <2>3, NegationExact
      <4> QED BY <2>1, <2>3, <3>1, <4>1
    <3>3. A - signed * B = Remainder(A, B)
      <4> HIDE DEF A, B, n, d
      <4> QED BY <2>2, <3>1, RemainderExact
    <3> HIDE DEF signed, A, B, z
    <3>4. a \in Int /\ b \in Int
      BY <2>1
    <3> DEFINE x == z * b
               y == signed * B
    <3>5. Same(x, y) /\ x \in Int /\ y \in Int
      BY <2>2, <3>2, <3>4, SameValues
    <3> HIDE DEF x, y
    <3> DEFINE v == a - x
               w == A - y
    <3>6. Same(v, w) /\ v \in Int /\ w \in Int
      BY <2>2, <3>4, <3>5, SameValues
    <3> HIDE DEF v, w
    <3>7. Wrap(v) = Wrap(w)
      BY <3>6, SameWrap
    <3>8. result = Wrap(v) /\ w = Remainder(A, B)
      BY <2>1, <3>3 DEF v, w, x, y
    <3> QED BY <2>6, <3>7, <3>8 DEF A, B
  <2> QED BY <2>5, <2>6
<1>5. LoopInvariant
  BY <1>2 DEF LoopInvariant
<1> QED BY <1>1, <1>3, <1>4, <1>5 DEF DivisionExact

-----------------------------------------------------------------------------
(* testcode.c: the disjoint set.                                           *)

\* The parents P of the vertices D are those of trees: from each vertex it is
\* depth edges up to the root top of its tree.
Forest(P, D, top, depth) ==
  /\ P \in [D -> Int] /\ top \in [D -> D] /\ depth \in [D -> Nat]
  /\ \A e \in D : IF P[e] < 0
                    THEN top[e] = e /\ depth[e] = 0
                    ELSE P[e] \in D /\ top[e] = top[P[e]] /\ depth[e] = depth[P[e]] + 1

Tree(D, top, e) == {w \in D : top[w] = e}

Sized(P, D, top) == \A e \in D : P[e] < 0 => -P[e] = Cardinality(Tree(D, top, e))
Shallow(P, D, top, depth) == \A e \in D : PowerOfTwo(depth[e]) <= -P[top[e]]
Trees(D, top) == {Tree(D, top, top[v]) : v \in D}

\* foo and the depths of SearchIsShort, for any parents.
Find(P, D, elem) ==
  LET find[e \in D] == IF P[e] < 0 THEN e ELSE find[P[e]]
  IN  find[elem]
Depth(P, D, elem) ==
  LET depth[e \in D] == IF P[e] < 0 THEN 0 ELSE 1 + depth[P[e]]
  IN  depth[elem]

LEMMA TopIsRoot ==
  ASSUME NEW P, NEW D, NEW top, NEW depth, Forest(P, D, top, depth), NEW e \in D
  PROVE  top[e] \in D /\ P[top[e]] < 0 /\ top[top[e]] = top[e]
<1> DEFINE S == {n \in Nat : \A v \in D : depth[v] = n => P[top[v]] < 0}
<1>1. 0 \in S
  BY DEF Forest
<1>2. ASSUME NEW n \in Nat, n \in S PROVE n + 1 \in S
  <2> SUFFICES ASSUME NEW v \in D, depth[v] = n + 1 PROVE P[top[v]] < 0
    OBVIOUS
  <2>1. P[v] \in D /\ top[v] = top[P[v]] /\ depth[v] = depth[P[v]] + 1 /\ depth[P[v]] \in Nat
    BY <1>2 DEF Forest
  <2>2. depth[P[v]] = n
    BY <2>1
  <2> QED BY <1>2, <2>1, <2>2
<1> HIDE DEF S
<1>3. depth[e] \in S
  BY <1>1, <1>2, Induction DEF Forest
<1>4. P[top[e]] < 0
  BY <1>3 DEF S
<1> QED BY <1>4 DEF Forest

\* foo ends, and at the root.
LEMMA FindIsTop ==
  ASSUME NEW P, NEW D, NEW top, NEW depth, Forest(P, D, top, depth), NEW e \in D
  PROVE  Find(P, D, e) = top[e]
<1> DEFINE E(f) == [v \in D |-> IF P[v] < 0 THEN v ELSE f[P[v]]]
           g == CHOOSE f : f = E(f)
<1>1. top = E(top)
  BY DEF Forest
<1>2. g = E(g)
  BY <1>1
<1>3. Find(P, D, e) = g[e]
  BY DEF Find
<1> HIDE DEF g
<1>4. \A v \in D : g[v] = IF P[v] < 0 THEN v ELSE g[P[v]]
  BY <1>2
<1> DEFINE S == {n \in Nat : \A v \in D : depth[v] = n => g[v] = top[v]}
<1>5. 0 \in S
  BY <1>4 DEF Forest
<1>6. ASSUME NEW n \in Nat, n \in S PROVE n + 1 \in S
  <2> SUFFICES ASSUME NEW v \in D, depth[v] = n + 1 PROVE g[v] = top[v]
    OBVIOUS
  <2>1. P[v] \in D /\ top[v] = top[P[v]] /\ depth[v] = depth[P[v]] + 1
        /\ depth[P[v]] \in Nat /\ ~(P[v] < 0)
    BY <1>6 DEF Forest
  <2>2. depth[P[v]] = n
    BY <2>1
  <2> QED BY <1>4, <1>6, <2>1, <2>2
<1> HIDE DEF S
<1>7. depth[e] \in S
  BY <1>5, <1>6, Induction DEF Forest
<1> QED BY <1>3, <1>7 DEF S

LEMMA DepthIsDepth ==
  ASSUME NEW P, NEW D, NEW top, NEW depth, Forest(P, D, top, depth), NEW e \in D
  PROVE  Depth(P, D, e) = depth[e]
<1> DEFINE E(f) == [v \in D |-> IF P[v] < 0 THEN 0 ELSE 1 + f[P[v]]]
           g == CHOOSE f : f = E(f)
<1>1. depth = E(depth)
  BY DEF Forest
<1>2. g = E(g)
  BY <1>1
<1>3. Depth(P, D, e) = g[e]
  BY DEF Depth
<1> HIDE DEF g
<1>4. \A v \in D : g[v] = IF P[v] < 0 THEN 0 ELSE 1 + g[P[v]]
  BY <1>2
<1> DEFINE S == {n \in Nat : \A v \in D : depth[v] = n => g[v] = depth[v]}
<1>5. 0 \in S
  BY <1>4 DEF Forest
<1>6. ASSUME NEW n \in Nat, n \in S PROVE n + 1 \in S
  <2> SUFFICES ASSUME NEW v \in D, depth[v] = n + 1 PROVE g[v] = depth[v]
    OBVIOUS
  <2>1. P[v] \in D /\ depth[v] = depth[P[v]] + 1 /\ depth[P[v]] \in Nat /\ ~(P[v] < 0)
    BY <1>6 DEF Forest
  <2>2. depth[P[v]] = n
    BY <2>1
  <2> QED BY <1>4, <1>6, <2>1, <2>2
<1> HIDE DEF S
<1>7. depth[e] \in S
  BY <1>5, <1>6, Induction DEF Forest
<1> QED BY <1>3, <1>7 DEF S

\* The trees when the tree of child has been hooked below parent.
TopAfter(D, top, child, parent) == [e \in D |-> IF top[e] = child THEN parent ELSE top[e]]
DepthAfter(D, top, depth, child) == [e \in D |-> IF top[e] = child THEN depth[e] + 1 ELSE depth[e]]

Hooks(P, Q, child, parent) == Q = [P EXCEPT ![parent] = @ + P[child], ![child] = parent]

LEMMA HookKeepsForest ==
  ASSUME NEW P, NEW D \in SUBSET Nat, NEW top, NEW depth, Forest(P, D, top, depth),
         NEW child \in D, NEW parent \in D, child # parent, P[child] < 0, P[parent] < 0,
         NEW Q, Hooks(P, Q, child, parent)
  PROVE  /\ Forest(Q, D, TopAfter(D, top, child, parent), DepthAfter(D, top, depth, child))
         /\ Q[parent] = P[parent] + P[child]
         /\ \A e \in D : Q[e] < 0 <=> P[e] < 0 /\ e # child
         /\ \A e \in D \ {child, parent} : Q[e] = P[e]
<1> DEFINE up == TopAfter(D, top, child, parent)
           down == DepthAfter(D, top, depth, child)
<1>1. Q \in [D -> Int] /\ Q[child] = parent /\ Q[parent] = P[parent] + P[child]
      /\ \A e \in D \ {child, parent} : Q[e] = P[e]
  BY DEF Forest, Hooks
<1>2. up \in [D -> D] /\ down \in [D -> Nat]
      /\ \A e \in D : /\ up[e] = IF top[e] = child THEN parent ELSE top[e]
                      /\ down[e] = IF top[e] = child THEN depth[e] + 1 ELSE depth[e]
  BY DEF Forest, TopAfter, DepthAfter
<1> HIDE DEF up, down
<1>3. top[child] = child /\ top[parent] = parent /\ depth[child] = 0 /\ depth[parent] = 0
  BY DEF Forest
<1>4. P[parent] \in Int /\ P[child] \in Int /\ Q[parent] < 0 /\ ~(Q[child] < 0)
  BY <1>1 DEF Forest
<1>5. ASSUME NEW e \in D
      PROVE  IF Q[e] < 0
               THEN up[e] = e /\ down[e] = 0
               ELSE Q[e] \in D /\ up[e] = up[Q[e]] /\ down[e] = down[Q[e]] + 1
  <2>1. CASE e = child
    BY <1>1, <1>2, <1>3, <1>4, <2>1
  <2>2. CASE e = parent
    BY <1>1, <1>2, <1>3, <1>4, <2>2
  <2>3. CASE e # child /\ e # parent
    <3>1. Q[e] = P[e]
      BY <1>1, <2>3
    <3>2. CASE P[e] < 0
      BY <1>2, <2>3, <3>1, <3>2 DEF Forest
    <3>3. CASE ~(P[e] < 0)
      <4>1. P[e] \in D /\ top[e] = top[P[e]] /\ depth[e] = depth[P[e]] + 1 /\ depth[P[e]] \in Nat
        BY <3>3 DEF Forest
      <4> QED BY <1>2, <3>1, <3>3, <4>1
    <3> QED BY <3>2, <3>3
  <2> QED BY <2>1, <2>2, <2>3
<1>6. \A e \in D : Q[e] < 0 <=> P[e] < 0 /\ e # child
  BY <1>1, <1>4
<1>7. Forest(Q, D, up, down)
  BY <1>1, <1>2, <1>5 DEF Forest
<1> QED BY <1>1, <1>6, <1>7 DEF up, down

LEMMA PowerOfTwoFacts ==
  /\ PowerOfTwo(0) = 1
  /\ \A k \in Nat : PowerOfTwo(k) \in Nat /\ PowerOfTwo(k + 1) = 2 * PowerOfTwo(k)
<1> DEFINE D == Nat
           base == 1
           step == [x \in D \X Nat |-> 2 * x[1]]
           E(f) == [n \in Nat |-> IF n = 0 THEN 1 ELSE 2 * f[n - 1]]
<1>1. base \in D /\ step \in [D \X Nat -> D] /\ \A d \in D : \A n \in Nat : step[<<d, n>>] = 2 * d
  OBVIOUS
<1>0. base = 1
  OBVIOUS
<1> HIDE DEF base, step
<1>3. PICK f : Solves(f, D, base, step)
  BY <1>1, Recursion
<1>4. f = E(f)
  <2>1. ASSUME NEW n \in Nat PROVE f[n] = E(f)[n]
    <3>1. CASE n = 0
      BY <1>0, <1>3, <3>1 DEF Solves
    <3>2. CASE n # 0
      <4>1. n - 1 \in Nat /\ (n - 1) + 1 = n
        BY <3>2
      <4>2. f[n] = step[<<f[n - 1], n - 1>>] /\ f[n - 1] \in D
        BY <1>3, <4>1 DEF Solves
      <4>3. f[n] = 2 * f[n - 1]
        BY <1>1, <4>1, <4>2
      <4> QED BY <3>2, <4>3
    <3> QED BY <3>1, <3>2
  <2> QED BY <1>3, <2>1 DEF Solves
<1> DEFINE g == CHOOSE h : h = E(h)
<1>5. g = E(g)
  BY <1>4
<1>6. \A k : PowerOfTwo(k) = g[k]
  BY DEF PowerOfTwo
<1> HIDE DEF g
<1>7. g[0] = 1
  BY <1>5
<1>8. \A k \in Nat : g[k + 1] = 2 * g[k]
  <2> TAKE k \in Nat
  <2>1. k + 1 \in Nat /\ k + 1 # 0 /\ (k + 1) - 1 = k
    OBVIOUS
  <2>2. g[k + 1] = 2 * g[(k + 1) - 1]
    BY <1>5, <2>1
  <2> QED BY <2>1, <2>2
<1> DEFINE S == {k \in Nat : g[k] \in Nat}
<1>9. Nat \subseteq S
  <2>1. 0 \in S
    BY <1>7
  <2>2. ASSUME NEW k \in Nat, k \in S PROVE k + 1 \in S
    BY <1>8, <2>2
  <2> HIDE DEF S
  <2> QED BY <2>1, <2>2, Induction
<1> QED BY <1>6, <1>7, <1>8, <1>9

\* A tree never has fewer vertices than the powers of two of its depths call
\* for when the smaller tree becomes the child.
LEMMA HookKeepsSizes ==
  ASSUME NEW P, NEW D \in SUBSET Nat, IsFiniteSet(D), NEW top, NEW depth,
         Forest(P, D, top, depth), Sized(P, D, top), Shallow(P, D, top, depth),
         NEW child \in D, NEW parent \in D, child # parent,
         P[child] < 0, P[parent] < 0, P[parent] <= P[child],
         NEW Q, Hooks(P, Q, child, parent)
  PROVE  /\ Sized(Q, D, TopAfter(D, top, child, parent))
         /\ Shallow(Q, D, TopAfter(D, top, child, parent), DepthAfter(D, top, depth, child))
<1> DEFINE up == TopAfter(D, top, child, parent)
           down == DepthAfter(D, top, depth, child)
<1>1. /\ Forest(Q, D, up, down)
      /\ Q[parent] = P[parent] + P[child]
      /\ \A e \in D : Q[e] < 0 <=> P[e] < 0 /\ e # child
      /\ \A e \in D \ {child, parent} : Q[e] = P[e]
  BY HookKeepsForest
<1>2. \A e \in D : /\ up[e] = IF top[e] = child THEN parent ELSE top[e]
                   /\ down[e] = IF top[e] = child THEN depth[e] + 1 ELSE depth[e]
  BY DEF TopAfter, DepthAfter
<1> HIDE DEF up, down
<1>3. P[child] \in Int /\ P[parent] \in Int
  BY DEF Forest
<1>4. ASSUME NEW e \in D, Q[e] < 0 PROVE -Q[e] = Cardinality(Tree(D, up, e))
  <2>1. P[e] < 0 /\ e # child
    BY <1>1, <1>4
  <2>2. CASE e = parent
    <3> DEFINE S == Tree(D, top, parent)
               T == Tree(D, top, child)
    <3>1. Tree(D, up, e) = S \cup T /\ S \cap T = {}
      BY <1>2, <2>2 DEF Tree
    <3>2. -P[parent] = Cardinality(S) /\ -P[child] = Cardinality(T)
      BY DEF Sized
    <3>3. IsFiniteSet(S) /\ IsFiniteSet(T)
      BY FS_Subset DEF Tree
    <3> HIDE DEF S, T
    <3>4. Cardinality(S \cup T) = Cardinality(S) + Cardinality(T) - Cardinality(S \cap T)
      BY <3>3, FS_Union
    <3>5. Cardinality(S \cap T) = 0
      BY <3>1, FS_EmptySet
    <3> QED BY <1>1, <1>3, <2>2, <3>1, <3>2, <3>4, <3>5
  <2>3. CASE e # parent
    <3>1. Tree(D, up, e) = Tree(D, top, e)
      BY <1>2, <2>1, <2>3 DEF Tree
    <3>2. Q[e] = P[e]
      BY <1>1, <2>1, <2>3
    <3> QED BY <2>1, <3>1, <3>2 DEF Sized
  <2> QED BY <2>2, <2>3
<1>5. ASSUME NEW e \in D PROVE PowerOfTwo(down[e]) <= -Q[up[e]]
  <2>1. /\ PowerOfTwo(depth[e]) <= -P[top[e]] /\ depth[e] \in Nat /\ PowerOfTwo(depth[e]) \in Nat
        /\ PowerOfTwo(depth[e] + 1) = 2 * PowerOfTwo(depth[e])
    BY PowerOfTwoFacts DEF Shallow, Forest
  <2>2. top[e] \in D /\ P[top[e]] < 0
    BY TopIsRoot
  <2>3. CASE top[e] = child
    <3>1. PowerOfTwo(down[e]) = 2 * PowerOfTwo(depth[e])
      BY <1>2, <2>1, <2>3
    <3>2. Q[up[e]] = P[parent] + P[child] /\ PowerOfTwo(depth[e]) <= -P[child]
      BY <1>1, <1>2, <2>1, <2>3
    <3> QED BY <1>3, <2>1, <3>1, <3>2
  <2>4. CASE top[e] = parent
    <3>1. PowerOfTwo(down[e]) = PowerOfTwo(depth[e])
      BY <1>2, <2>4
    <3>2. Q[up[e]] = P[parent] + P[child] /\ PowerOfTwo(depth[e]) <= -P[parent]
      BY <1>1, <1>2, <2>1, <2>4
    <3> QED BY <1>3, <2>1, <3>1, <3>2
  <2>5. CASE top[e] # child /\ top[e] # parent
    BY <1>1, <1>2, <2>1, <2>2, <2>5
  <2> QED BY <2>3, <2>4, <2>5
<1> QED BY <1>4, <1>5 DEF Sized, Shallow, up, down

\* The two trees that an edge touches become one.
LEMMA HookMerges ==
  ASSUME NEW P, NEW D \in SUBSET Nat, NEW top, NEW depth, Forest(P, D, top, depth),
         NEW child, NEW parent, child # parent, NEW ends, ends[1] \in D, ends[2] \in D,
         {top[ends[1]], top[ends[2]]} = {child, parent}
  PROVE  Trees(D, TopAfter(D, top, child, parent)) = Merged(ends, Trees(D, top))
<1> DEFINE up == TopAfter(D, top, child, parent)
           S == Tree(D, top, child)
           T == Tree(D, top, parent)
           h == ends[1]
           t == ends[2]
<1>1. \A e \in D : /\ up[e] = IF top[e] = child THEN parent ELSE top[e]
                   /\ top[e] \in D /\ top[top[e]] = top[e]
  BY TopIsRoot DEF TopAfter
<1>2. /\ h \in D /\ t \in D /\ child \in D /\ parent \in D
      /\ top[child] = child /\ top[parent] = parent
      /\ \/ top[h] = child /\ top[t] = parent
         \/ top[h] = parent /\ top[t] = child
  BY <1>1
<1> HIDE DEF up, h, t
<1>3. \A c \in Trees(D, top) : h \in c \/ t \in c <=> c = S \/ c = T
  BY <1>2 DEF Trees, Tree
<1>4. S \in Trees(D, top) /\ T \in Trees(D, top)
  BY <1>2 DEF Trees
<1>5. {c \in Trees(D, top) : h \in c \/ t \in c} = {S, T}
  BY <1>3, <1>4
<1>6. Merged(ends, Trees(D, top)) = (Trees(D, top) \ {S, T}) \cup {S \cup T}
  BY <1>5 DEF Merged, h, t
<1>7. Tree(D, up, parent) = S \cup T
  BY <1>1 DEF Tree
<1>8. \A v \in D : top[v] # child /\ top[v] # parent =>
        up[v] = top[v] /\ Tree(D, up, up[v]) = Tree(D, top, top[v])
  BY <1>1 DEF Tree
<1>9. \A v \in D : top[v] = child \/ top[v] = parent => up[v] = parent
  BY <1>1
<1>10. \A v \in D : Tree(D, top, top[v]) = S <=> top[v] = child
  <2> TAKE v \in D
  <2>1. v \in Tree(D, top, top[v]) /\ \A w \in S : top[w] = child
    BY DEF Tree
  <2> QED BY <2>1
<1>11. \A v \in D : Tree(D, top, top[v]) = T <=> top[v] = parent
  <2> TAKE v \in D
  <2>1. v \in Tree(D, top, top[v]) /\ \A w \in T : top[w] = parent
    BY DEF Tree
  <2> QED BY <2>1
<1> HIDE DEF S, T
<1>12. \A c : c \in Trees(D, top) <=> \E v \in D : c = Tree(D, top, top[v])
  BY DEF Trees
<1>13. \A c : c \in Trees(D, up) <=> \E v \in D : c = Tree(D, up, up[v])
  BY DEF Trees
<1>14. ASSUME NEW c \in Trees(D, up) PROVE c \in (Trees(D, top) \ {S, T}) \cup {S \cup T}
  <2>1. PICK v \in D : c = Tree(D, up, up[v])
    BY <1>13
  <2>2. CASE top[v] = child \/ top[v] = parent
    BY <1>7, <1>9, <2>1, <2>2
  <2>3. CASE top[v] # child /\ top[v] # parent
    <3>1. c = Tree(D, top, top[v])
      BY <1>8, <2>1, <2>3
    <3> QED BY <1>10, <1>11, <1>12, <2>3, <3>1
  <2> QED BY <2>2, <2>3
<1>15. ASSUME NEW c \in (Trees(D, top) \ {S, T}) \cup {S \cup T} PROVE c \in Trees(D, up)
  <2>1. CASE c = S \cup T
    <3>1. up[parent] = parent
      BY <1>1, <1>2
    <3> QED BY <1>2, <1>7, <1>13, <2>1, <3>1
  <2>2. CASE c # S \cup T
    <3>1. PICK v \in D : c = Tree(D, top, top[v])
      BY <1>12, <2>2
    <3>2. top[v] # child /\ top[v] # parent
      BY <1>10, <1>11, <2>2, <3>1
    <3> QED BY <1>8, <1>13, <3>1, <3>2
  <2> QED BY <2>1, <2>2
<1>16. Trees(D, up) = Merged(ends, Trees(D, top))
  BY <1>6, <1>14, <1>15
<1> QED BY <1>16 DEF up

\* An edge inside a tree changes nothing.
LEMMA InsideMerges ==
  ASSUME NEW P, NEW D \in SUBSET Nat, NEW top, NEW depth, Forest(P, D, top, depth),
         NEW ends, ends[1] \in D, ends[2] \in D, top[ends[1]] = top[ends[2]]
  PROVE  Trees(D, top) = Merged(ends, Trees(D, top))
<1> DEFINE h == ends[1]
           t == ends[2]
           S == Tree(D, top, top[h])
<1>1. h \in D /\ t \in D /\ top[h] = top[t]
  OBVIOUS
<1> HIDE DEF h, t
<1>2. \A c \in Trees(D, top) : h \in c \/ t \in c <=> c = S
  BY <1>1 DEF Trees, Tree
<1>3. S \in Trees(D, top)
  BY <1>1 DEF Trees
<1>4. {c \in Trees(D, top) : h \in c \/ t \in c} = {S}
  BY <1>2, <1>3
<1> HIDE DEF S
<1>5. Merged(ends, Trees(D, top)) = (Trees(D, top) \ {S}) \cup {S}
  BY <1>4 DEF Merged, h, t
<1> QED BY <1>3, <1>5

\* The recursion in Components.
Merges(m) ==
  /\ m[0] = {{v} : v \in Elements}
  /\ \A k \in Nat : m[k + 1] = Merged(Edge(3 * N - (k + 1)), m[k])

LEMMA ComponentsComputed ==
  \E m : Merges(m) /\ Components = m[3 * N - 1 - edge]
<1> DEFINE D == SUBSET SUBSET Elements
           base == {{v} : v \in Elements}
           step == [x \in D \X Nat |-> Merged(Edge(3 * N - (x[2] + 1)), x[1])]
           E(f) == [k \in Nat |->
                      IF k = 0 THEN base ELSE Merged(Edge(3 * N - k), f[k - 1])]
<1>1. base \in D
  OBVIOUS
<1>2. ASSUME NEW classes \in D, NEW ends PROVE Merged(ends, classes) \in D
  BY DEF Merged
<1>3. step \in [D \X Nat -> D]
  <2> HIDE DEF D
  <2> QED BY <1>2
<1>4. \A d \in D : \A n \in Nat : step[<<d, n>>] = Merged(Edge(3 * N - (n + 1)), d)
  <2> HIDE DEF D
  <2> QED OBVIOUS
<1> HIDE DEF D, base, step
<1>5. PICK f : Solves(f, D, base, step)
  BY <1>1, <1>3, Recursion
<1>6. f = E(f)
  <2>1. ASSUME NEW n \in Nat PROVE f[n] = E(f)[n]
    <3>1. CASE n = 0
      BY <1>5, <3>1 DEF Solves
    <3>2. CASE n # 0
      <4>1. n - 1 \in Nat /\ (n - 1) + 1 = n
        BY <3>2
      <4>2. f[n] = step[<<f[n - 1], n - 1>>] /\ f[n - 1] \in D
        BY <1>5, <4>1 DEF Solves
      <4>3. f[n] = Merged(Edge(3 * N - n), f[n - 1])
        BY <1>4, <4>1, <4>2
      <4> QED BY <3>2, <4>3
    <3> QED BY <3>1, <3>2
  <2> QED BY <1>5, <2>1 DEF Solves
<1> DEFINE g == CHOOSE h : h = E(h)
<1>7. g = E(g)
  BY <1>6
<1>8. Components = g[3 * N - 1 - edge]
  BY DEF Components, base
<1> HIDE DEF g
<1>9. g[0] = base
  BY <1>7
<1>10. ASSUME NEW k \in Nat PROVE g[k + 1] = Merged(Edge(3 * N - (k + 1)), g[k])
  <2>1. k + 1 \in Nat /\ k + 1 # 0 /\ (k + 1) - 1 = k
    OBVIOUS
  <2>2. g[k + 1] = Merged(Edge(3 * N - (k + 1)), g[(k + 1) - 1])
    BY <1>7, <2>1
  <2> QED BY <2>1, <2>2
<1>11. Merges(g)
  BY <1>9, <1>10 DEF Merges, base
<1> QED BY <1>8, <1>11

\* The edges considered so far.
Considered == edge + 1 .. 3 * N - 1

\* No edge considered so far leaves the set.
Closed(S) == \A e \in Considered : Edge(e)[1] \in S <=> Edge(e)[2] \in S

CodeTyped ==
  /\ N \in Nat /\ K \in Nat /\ edge \in -1 .. 3 * N - 1 /\ root \in Elements \cup {-1}
  /\ \/ N = 0 /\ K = 0
     \/ 0 < K /\ 2 * K < N

CodeForest(top, depth) ==
  /\ Forest(nodes, Elements, top, depth)
  /\ Sized(nodes, Elements, top)
  /\ Shallow(nodes, Elements, top, depth)
  /\ \A m : Merges(m) => Trees(Elements, top) = m[3 * N - 1 - edge]
  /\ \A e \in Considered : top[Edge(e)[1]] = top[Edge(e)[2]]
  /\ \A S : Closed(S) => \A v, w \in Elements : top[v] = top[w] /\ v \in S => w \in S

CodeInv == CodeTyped /\ \E top, depth : CodeForest(top, depth)

LEMMA VerticesFinite ==
  ASSUME CodeTyped
  PROVE  /\ Elements \in SUBSET Nat /\ IsFiniteSet(Elements)
         /\ Cardinality(Elements) = 2 * N
<1>1. N \in Nat /\ 0 \in Int /\ 2 * N - 1 \in Int
  BY DEF CodeTyped
<1>2. /\ IsFiniteSet(0 .. 2 * N - 1)
      /\ Cardinality(0 .. 2 * N - 1) = IF 0 > 2 * N - 1 THEN 0 ELSE (2 * N - 1) - 0 + 1
  BY <1>1, FS_Interval
<1> QED BY <1>1, <1>2 DEF Elements

LEMMA EndsAreVertices ==
  ASSUME CodeTyped, NEW e \in 0 .. 3 * N - 1
  PROVE  Edge(e)[1] \in Elements /\ Edge(e)[2] \in Elements
<1>1. N \in Nat /\ N > 0 /\ K \in Nat /\ e \in Nat
  BY DEF CodeTyped
<1>2. \A x \in Int : x % N \in 0 .. N - 1
  BY <1>1
<1>3. CASE e < N
  <2>1. Edge(e) = <<e, (e + 1) % N>>
    BY <1>1, <1>3 DEF Edge
  <2> QED BY <1>1, <1>2, <1>3, <2>1 DEF Elements
<1>4. CASE N <= e /\ e < 2 * N
  <2>1. Edge(e) = <<e - N, e>>
    BY <1>1, <1>4 DEF Edge
  <2> QED BY <1>1, <1>4, <2>1 DEF Elements
<1>5. CASE 2 * N <= e
  <2>1. Edge(e) = <<e - N, ((e - 2 * N + K) % N) + N>>
    BY <1>1, <1>5 DEF Edge
  <2>2. (e - 2 * N + K) % N \in 0 .. N - 1
    BY <1>1, <1>2
  <2> QED BY <1>1, <1>5, <2>1, <2>2 DEF Elements
<1> QED BY <1>1, <1>3, <1>4, <1>5

LEMMA FooIsTop ==
  ASSUME NEW top, NEW depth, Forest(nodes, Elements, top, depth)
  PROVE  \A v \in Elements : foo(v) = top[v]
<1>1. \A v : foo(v) = Find(nodes, Elements, v)
  BY DEF foo, Find
<1> QED BY <1>1, FindIsTop

LEMMA CodeInitial ==
  ASSUME CodeInit
  PROVE  CodeInv
<1>1. N = 0 /\ K = 0 /\ nodes = <<>> /\ edge = -1 /\ root = -1
  BY DEF CodeInit
<1>2. Elements = {} /\ CodeTyped
  BY <1>1 DEF Elements, CodeTyped
<1> DEFINE none == [e \in {} |-> 0]
<1>3. Forest(nodes, Elements, none, none)
  BY <1>1, <1>2 DEF Forest
<1>4. Sized(nodes, Elements, none) /\ Shallow(nodes, Elements, none, none)
  BY <1>2 DEF Sized, Shallow
<1>5. ASSUME NEW m, Merges(m) PROVE Trees(Elements, none) = m[3 * N - 1 - edge]
  <2>1. m[0] = {} /\ 3 * N - 1 - edge = 0
    BY <1>1, <1>2, <1>5 DEF Merges
  <2> QED BY <1>2, <2>1 DEF Trees
<1>6. Considered = {}
  BY <1>1 DEF Considered
<1>7. CodeForest(none, none)
  BY <1>2, <1>3, <1>4, <1>5, <1>6 DEF CodeForest
<1> QED BY <1>2, <1>7 DEF CodeInv

LEMMA FillArraysStep ==
  ASSUME CodeInv, FillArrays
  PROVE  CodeInv'
<1>1. PICK g \in Graphs :
        /\ N' = g[1] /\ K' = g[2]
        /\ nodes' = [e \in 0 .. 2 * N' - 1 |-> -1]
        /\ edge' = 3 * N' - 1
  BY DEF FillArrays
<1>2. N' \in Nat /\ K' \in Nat /\ 0 < K' /\ 2 * K' < N' /\ root' = root /\ root = -1
  <2>1. N = 0 /\ root' = root
    BY DEF FillArrays
  <2>2. Elements = {}
    BY <2>1 DEF Elements
  <2>3. root = -1
    BY <2>2 DEF CodeInv, CodeTyped
  <2> QED BY <1>1, <2>1, <2>3, TestcodeAssumption
<1>3. CodeTyped'
  BY <1>1, <1>2 DEF CodeTyped
<1>0. PICK D : D = Elements'
  OBVIOUS
<1> DEFINE top == [e \in D |-> e]
           depth == [e \in D |-> 0]
<1>4. nodes' = [e \in D |-> -1] /\ D \in SUBSET Nat
  BY <1>0, <1>1, <1>2 DEF Elements
<1>5. Forest(nodes', D, top, depth)
  BY <1>4 DEF Forest
<1>6. \A e \in D : Tree(D, top, e) = {e}
  BY DEF Tree
<1>7. Sized(nodes', D, top)
  BY <1>4, <1>6, FS_Singleton DEF Sized
<1>8. Shallow(nodes', D, top, depth)
  BY <1>4, PowerOfTwoFacts DEF Shallow
<1>9. Trees(D, top) = {{v} : v \in D}
  BY <1>6 DEF Trees
<1>10. 3 * N' - 1 - edge' = 0 /\ Considered' = {}
  <2>1. edge' = 3 * N' - 1 /\ N' \in Nat
    BY <1>1, <1>2
  <2> DEFINE n == 3 * N' - 1
  <2>2. n \in Int /\ edge' = n /\ Considered' = edge' + 1 .. n
    BY <2>1 DEF Considered
  <2> HIDE DEF n
  <2>3. edge' + 1 .. n = {} /\ n - edge' = 0
    BY <2>2
  <2> QED BY <2>2, <2>3 DEF n
<1>11. ASSUME NEW m, Merges(m)' PROVE Trees(D, top) = m[3 * N' - 1 - edge']
  BY <1>0, <1>9, <1>10, <1>11 DEF Merges
<1>12. \A v, w \in D : top[v] = top[w] => v = w
  OBVIOUS
<1> HIDE DEF top, depth
<1>13. CodeForest(top, depth)'
  <2>1. (\A e \in Considered : top[Edge(e)[1]] = top[Edge(e)[2]])'
    BY <1>10
  <2>2. (\A S : Closed(S) => \A v, w \in Elements : top[v] = top[w] /\ v \in S => w \in S)'
    BY <1>0, <1>12
  <2>3. (\A m : Merges(m) => Trees(Elements, top) = m[3 * N - 1 - edge])'
    BY <1>0, <1>11
  <2>4. /\ Forest(nodes, Elements, top, depth)'
        /\ Sized(nodes, Elements, top)'
        /\ Shallow(nodes, Elements, top, depth)'
    BY <1>0, <1>5, <1>7, <1>8
  <2> QED BY <2>1, <2>2, <2>3, <2>4 DEF CodeForest
<1> QED BY <1>3, <1>13 DEF CodeInv

LEMMA ConsiderEdgeStep ==
  ASSUME CodeInv, ConsiderEdge
  PROVE  CodeInv'
<1> DEFINE k == 3 * N - 1 - edge
           old == Considered
<1>0. PICK D, P, ends : D = Elements /\ P = nodes /\ ends = Edge(edge)
  OBVIOUS
<1> DEFINE h == ends[1]
           t == ends[2]
<1>1. /\ N \in Nat /\ N > 0 /\ edge \in 0 .. 3 * N - 1 /\ edge' = edge - 1
      /\ N' = N /\ K' = K /\ root' = root /\ CodeTyped
      /\ nodes' = IF foo(h) # foo(t) THEN bar(h, t) ELSE nodes
  BY <1>0 DEF CodeInv, CodeTyped, ConsiderEdge
<1>2. PICK top, depth : CodeForest(top, depth)
  BY DEF CodeInv
<1>3. D \in SUBSET Nat /\ IsFiniteSet(D) /\ h \in D /\ t \in D
  BY <1>0, <1>1, VerticesFinite, EndsAreVertices
<1>4. /\ Forest(P, D, top, depth) /\ Sized(P, D, top) /\ Shallow(P, D, top, depth)
      /\ \A m : Merges(m) => Trees(D, top) = m[k]
      /\ \A e \in old : top[Edge(e)[1]] = top[Edge(e)[2]]
      /\ \A S : Closed(S) => \A v, w \in D : top[v] = top[w] /\ v \in S => w \in S
  BY <1>0, <1>2 DEF CodeForest
<1>5. foo(h) = top[h] /\ foo(t) = top[t]
  <2>1. Forest(nodes, Elements, top, depth)
    BY <1>2 DEF CodeForest
  <2>2. \A v \in D : foo(v) = top[v]
    BY <1>0, <2>1, FooIsTop
  <2> QED BY <1>3, <2>2
<1>6. D = Elements' /\ CodeTyped'
  BY <1>0, <1>1 DEF Elements, CodeTyped
<1>7. \A e : Edge(e)' = Edge(e)
  BY <1>1 DEF Edge
<1>8. Considered' = old \cup {edge} /\ edge \in Considered' /\ old \subseteq Considered'
  <2>1. Considered' = edge .. 3 * N - 1 /\ old = edge + 1 .. 3 * N - 1
    BY <1>1 DEF Considered
  <2> QED BY <1>1, <2>1
<1> HIDE DEF old
<1>9. ASSUME NEW m, Merges(m)'
      PROVE  Merges(m) /\ m[(3 * N - 1 - edge)'] = Merged(ends, m[k])
  <2>1. Merges(m)
    <3>1. ASSUME NEW i \in Nat PROVE m[i + 1] = Merged(Edge(3 * N - (i + 1)), m[i])
      <4>1. m[i + 1] = Merged(Edge(3 * N - (i + 1))', m[i])
        BY <1>9 DEF Merges
      <4>2. Edge(3 * N - (i + 1))' = Edge(3 * N - (i + 1))
        BY <1>1 DEF Edge
      <4> QED BY <4>1, <4>2
    <3>2. m[0] = {{v} : v \in Elements}
      BY <1>0, <1>6, <1>9 DEF Merges
    <3> QED BY <3>1, <3>2 DEF Merges
  <2>2. k \in Nat /\ (3 * N - 1 - edge)' = k + 1 /\ 3 * N - (k + 1) = edge
    BY <1>1
  <2> HIDE DEF k
  <2>3. m[k + 1] = Merged(Edge(3 * N - (k + 1)), m[k])
    BY <2>1, <2>2 DEF Merges
  <2> QED BY <1>0, <2>1, <2>2, <2>3
<1>10. ASSUME NEW S, Closed(S)' PROVE Closed(S) /\ (h \in S <=> t \in S)
  <2>1. \A e \in Considered' : Edge(e)[1] \in S <=> Edge(e)[2] \in S
    BY <1>7, <1>10 DEF Closed
  <2> QED BY <1>0, <1>8, <2>1 DEF Closed, old
<1> HIDE DEF h, t, k
<1>11. ASSUME NEW Q, NEW up, NEW down, Q = nodes',
              Forest(Q, D, up, down), Sized(Q, D, up), Shallow(Q, D, up, down),
              Trees(D, up) = Merged(ends, Trees(D, top)), up[h] = up[t],
              \A v, w \in D : top[v] = top[w] => up[v] = up[w],
              \A v, w \in D : up[v] = up[w] =>
                \/ top[v] = top[w]
                \/ top[v] = top[h] /\ top[w] = top[t]
                \/ top[v] = top[t] /\ top[w] = top[h]
       PROVE  CodeInv'
  <2>1. \A m : Merges(m)' => Trees(D, up) = m[(3 * N - 1 - edge)']
    BY <1>4, <1>9, <1>11
  <2>2. \A e \in Considered' : up[Edge(e)[1]'] = up[Edge(e)[2]']
    <3> SUFFICES ASSUME NEW e \in Considered' PROVE up[Edge(e)[1]] = up[Edge(e)[2]]
      BY <1>7
    <3>1. CASE e = edge
      BY <1>0, <1>11, <3>1 DEF h, t
    <3>2. CASE e \in old
      <4>1. e \in 0 .. 3 * N - 1
        BY <1>1, <3>2 DEF old, Considered
      <4>2. Edge(e)[1] \in D /\ Edge(e)[2] \in D
        BY <1>0, <1>1, <4>1, EndsAreVertices
      <4> QED BY <1>4, <1>11, <3>2, <4>2
    <3> QED BY <1>8, <3>1, <3>2
  <2>3. ASSUME NEW S, Closed(S)', NEW v \in D, NEW w \in D, up[v] = up[w], v \in S
        PROVE  w \in S
    <3>1. /\ h \in S <=> t \in S
          /\ \A x, y \in D : top[x] = top[y] /\ x \in S => y \in S
      BY <1>4, <1>10, <2>3 DEF h, t
    <3>2. \/ top[v] = top[w]
          \/ top[v] = top[h] /\ top[w] = top[t]
          \/ top[v] = top[t] /\ top[w] = top[h]
      BY <1>11, <2>3
    <3> QED BY <1>3, <2>3, <3>1, <3>2 DEF h, t
  <2>4. /\ Forest(nodes, Elements, up, down)'
        /\ Sized(nodes, Elements, up)'
        /\ Shallow(nodes, Elements, up, down)'
    BY <1>6, <1>11
  <2>5. (\A m : Merges(m) => Trees(Elements, up) = m[3 * N - 1 - edge])'
    BY <1>6, <2>1
  <2>6. (\A S : Closed(S) => \A v, w \in Elements : up[v] = up[w] /\ v \in S => w \in S)'
    BY <1>6, <2>3
  <2>7. (\A e \in Considered : up[Edge(e)[1]] = up[Edge(e)[2]])'
    BY <2>2
  <2>8. CodeForest(up, down)'
    BY <2>4, <2>5, <2>6, <2>7 DEF CodeForest
  <2> QED BY <1>6, <2>8 DEF CodeInv
<1>12. CASE top[h] = top[t]
  <2>1. nodes' = P
    BY <1>0, <1>1, <1>5, <1>12 DEF h, t
  <2>2. Trees(D, top) = Merged(ends, Trees(D, top))
    BY <1>3, <1>4, <1>12, InsideMerges DEF h, t
  <2> QED BY <1>4, <1>11, <1>12, <2>1, <2>2
<1>13. CASE top[h] # top[t]
  <2> DEFINE child == SmallerTree(top[h], top[t])
             parent == IF child = top[h] THEN top[t] ELSE top[h]
             Q == Hooked(child, parent)
             up == TopAfter(D, top, child, parent)
             down == DepthAfter(D, top, depth, child)
  <2>1. nodes' = Q
    BY <1>1, <1>5, <1>13 DEF bar, h, t
  <2>2. top[h] \in D /\ top[t] \in D /\ P[top[h]] < 0 /\ P[top[t]] < 0
        /\ P[top[h]] \in Int /\ P[top[t]] \in Int
    <3>1. top[h] \in D /\ top[t] \in D /\ P[top[h]] < 0 /\ P[top[t]] < 0
      BY <1>3, <1>4, TopIsRoot DEF h, t
    <3> QED BY <1>4, <3>1 DEF Forest
  <2>3. child = IF P[top[h]] > P[top[t]] THEN top[h] ELSE top[t]
    BY <1>0 DEF SmallerTree
  <2>4. Hooks(P, Q, child, parent)
    BY <1>0 DEF Hooked, Hooks
  <2> HIDE DEF Q
  <2>5. /\ child \in D /\ parent \in D /\ child # parent /\ P[child] < 0 /\ P[parent] < 0
        /\ P[parent] <= P[child] /\ {top[h], top[t]} = {child, parent}
        /\ \/ child = top[h] /\ parent = top[t]
           \/ child = top[t] /\ parent = top[h]
    BY <1>13, <2>2, <2>3
  <2> HIDE DEF child, parent
  <2>6. Forest(Q, D, up, down)
    BY <1>3, <1>4, <2>4, <2>5, HookKeepsForest
  <2>7. Sized(Q, D, up) /\ Shallow(Q, D, up, down)
    BY <1>3, <1>4, <2>4, <2>5, HookKeepsSizes
  <2>8. Trees(D, up) = Merged(ends, Trees(D, top))
    BY <1>3, <1>4, <2>5, HookMerges DEF h, t
  <2>9. \A v \in D : up[v] = IF top[v] = child THEN parent ELSE top[v]
    BY DEF TopAfter
  <2> HIDE DEF up, down
  <2>10. up[h] = up[t] /\ \A v, w \in D : top[v] = top[w] => up[v] = up[w]
    BY <1>3, <2>5, <2>9 DEF h, t
  <2>11. \A v, w \in D : up[v] = up[w] =>
           \/ top[v] = top[w]
           \/ top[v] = top[h] /\ top[w] = top[t]
           \/ top[v] = top[t] /\ top[w] = top[h]
    BY <2>5, <2>9
  <2> QED BY <1>11, <2>1, <2>6, <2>7, <2>8, <2>10, <2>11
<1> QED BY <1>12, <1>13

\* CodeForest depends on nothing else.
LEMMA ForestStays ==
  ASSUME NEW top, NEW depth, CodeForest(top, depth), UNCHANGED <<N, K, nodes, edge>>
  PROVE  CodeForest(top, depth)'
<1>1. Elements' = Elements /\ Considered' = Considered /\ \A e : Edge(e)' = Edge(e)
  BY DEF Elements, Considered, Edge
<1>2. /\ Forest(nodes, Elements, top, depth)'
      /\ Sized(nodes, Elements, top)'
      /\ Shallow(nodes, Elements, top, depth)'
  BY <1>1 DEF CodeForest
<1>3. ASSUME NEW m, Merges(m)' PROVE (Trees(Elements, top) = m[3 * N - 1 - edge])'
  <2>1. Merges(m)
    BY <1>1, <1>3 DEF Merges
  <2> QED BY <1>1, <2>1 DEF CodeForest
<1>4. (\A e \in Considered : top[Edge(e)[1]] = top[Edge(e)[2]])'
  BY <1>1 DEF CodeForest
<1>5. ASSUME NEW S, Closed(S)'
      PROVE  (\A v, w \in Elements : top[v] = top[w] /\ v \in S => w \in S)'
  <2>1. Closed(S)
    BY <1>1, <1>5 DEF Closed
  <2> QED BY <1>1, <2>1 DEF CodeForest
<1> QED BY <1>2, <1>3, <1>4, <1>5 DEF CodeForest

LEMMA FindResultStep ==
  ASSUME CodeInv, FindResult
  PROVE  CodeInv'
<1>1. /\ N \in Nat /\ N > 0 /\ root' = foo(K) /\ UNCHANGED <<N, K, nodes, edge>> /\ CodeTyped
  BY DEF FindResult, CodeInv, CodeTyped
<1>2. PICK top, depth : CodeForest(top, depth)
  BY DEF CodeInv
<1>3. Forest(nodes, Elements, top, depth)
  BY <1>2 DEF CodeForest
<1>4. K \in Elements
  BY <1>1 DEF CodeTyped, Elements
<1>5. root' \in Elements
  <2>1. top[K] \in Elements
    BY <1>3, <1>4 DEF Forest
  <2> QED BY <1>1, <1>3, <1>4, <2>1, FooIsTop
<1>6. CodeTyped'
  BY <1>1, <1>5 DEF CodeTyped, Elements
<1>7. CodeForest(top, depth)'
  BY <1>1, <1>2, ForestStays
<1> QED BY <1>6, <1>7 DEF CodeInv

LEMMA CodeStep ==
  ASSUME CodeInv, [CodeNext]_codeVars
  PROVE  CodeInv'
<1>1. CASE UNCHANGED codeVars
  <2>1. UNCHANGED <<N, K, nodes, edge, root>>
    BY <1>1 DEF codeVars
  <2>2. PICK top, depth : CodeForest(top, depth)
    BY DEF CodeInv
  <2>3. CodeForest(top, depth)'
    BY <2>1, <2>2, ForestStays
  <2>4. CodeTyped'
    BY <2>1 DEF CodeInv, CodeTyped, Elements
  <2> QED BY <2>3, <2>4 DEF CodeInv
<1> QED BY <1>1, FillArraysStep, ConsiderEdgeStep, FindResultStep DEF CodeNext

\* Two vertices are connected if no set of vertices that the edges considered
\* so far do not leave holds the one and not the other.
Connected(v, w) == \A S \in SUBSET Elements : Closed(S) /\ v \in S => w \in S

RootsConnect == \A v, w \in Elements : foo(v) = foo(w) <=> Connected(v, w)

LEMMA CodeSafe ==
  ASSUME CodeInv
  PROVE  CodeTypeOK /\ ClassesAreComponents /\ SearchIsShort /\ RootsConnect
<1>1. PICK top, depth : CodeForest(top, depth)
  BY DEF CodeInv
<1>2. /\ Forest(nodes, Elements, top, depth) /\ Sized(nodes, Elements, top)
      /\ Shallow(nodes, Elements, top, depth) /\ CodeTyped
      /\ \A m : Merges(m) => Trees(Elements, top) = m[3 * N - 1 - edge]
      /\ \A e \in Considered : top[Edge(e)[1]] = top[Edge(e)[2]]
      /\ \A S : Closed(S) => \A v, w \in Elements : top[v] = top[w] /\ v \in S => w \in S
  BY <1>1 DEF CodeInv, CodeForest
<1>3. \A v \in Elements : foo(v) = top[v]
  BY <1>2, FooIsTop
<1>4. \A v \in Elements : top[v] \in Elements /\ nodes[top[v]] < 0
  BY <1>2, TopIsRoot
<1>5. CodeTypeOK
  <2>1. ASSUME NEW e \in Elements PROVE nodes[e] \in (-2 * N .. -1) \cup Elements
    <3>1. CASE nodes[e] < 0
      <4> DEFINE T == Tree(Elements, top, e)
      <4>1. -nodes[e] = Cardinality(T) /\ T \in SUBSET Elements
        BY <1>2, <3>1 DEF Sized, Tree
      <4> HIDE DEF T
      <4>2. Cardinality(T) <= 2 * N /\ N \in Nat
        BY <1>2, <4>1, VerticesFinite, FS_Subset DEF CodeTyped
      <4>3. nodes[e] \in Int
        BY <1>2 DEF Forest
      <4> QED BY <3>1, <4>1, <4>2, <4>3
    <3>2. CASE ~(nodes[e] < 0)
      BY <1>2, <3>2 DEF Forest
    <3> QED BY <3>1, <3>2
  <2>2. nodes \in [Elements -> (-2 * N .. -1) \cup Elements]
    BY <1>2, <2>1 DEF Forest
  <2> QED BY <1>2, <2>2 DEF CodeTypeOK, CodeTyped
<1>6. ClassesAreComponents
  <2>1. PICK m : Merges(m) /\ Components = m[3 * N - 1 - edge]
    BY ComponentsComputed
  <2>2. Trees(Elements, top) = Components
    BY <1>2, <2>1
  <2>3. \A v \in Elements : {w \in Elements : foo(w) = foo(v)} = Tree(Elements, top, top[v])
    BY <1>3 DEF Tree
  <2>4. {{w \in Elements : foo(w) = foo(v)} : v \in Elements} = Trees(Elements, top)
    BY <2>3 DEF Trees
  <2> QED BY <2>2, <2>4 DEF ClassesAreComponents
<1>7. SearchIsShort
  <2>2. ASSUME NEW v \in Elements
        PROVE  /\ -nodes[foo(v)] = Cardinality({w \in Elements : foo(w) = foo(v)})
               /\ PowerOfTwo(Depth(nodes, Elements, v)) <= -nodes[foo(v)]
    <3>1. {w \in Elements : foo(w) = foo(v)} = Tree(Elements, top, top[v]) /\ foo(v) = top[v]
      BY <1>3 DEF Tree
    <3>2. -nodes[top[v]] = Cardinality(Tree(Elements, top, top[v]))
      BY <1>2, <1>4 DEF Sized
    <3>3. Depth(nodes, Elements, v) = depth[v] /\ PowerOfTwo(depth[v]) <= -nodes[top[v]]
      BY <1>2, DepthIsDepth DEF Shallow
    <3> QED BY <3>1, <3>2, <3>3
  <2> QED BY <2>2 DEF SearchIsShort, Depth
<1>8. RootsConnect
  <2>1. ASSUME NEW v \in Elements, NEW w \in Elements, top[v] = top[w] PROVE Connected(v, w)
    BY <1>2, <2>1 DEF Connected
  <2>2. ASSUME NEW v \in Elements, NEW w \in Elements, Connected(v, w) PROVE top[v] = top[w]
    <3> DEFINE S == Tree(Elements, top, top[v])
    <3>1. S \in SUBSET Elements /\ v \in S
      BY DEF Tree
    <3>2. Closed(S)
      <4> SUFFICES ASSUME NEW e \in Considered PROVE Edge(e)[1] \in S <=> Edge(e)[2] \in S
        BY DEF Closed
      <4>1. e \in 0 .. 3 * N - 1
        BY <1>2 DEF CodeTyped, Considered
      <4>2. Edge(e)[1] \in Elements /\ Edge(e)[2] \in Elements
        BY <1>2, <4>1, EndsAreVertices
      <4> QED BY <1>2, <4>2 DEF Tree
    <3>3. w \in S
      BY <2>2, <3>1, <3>2 DEF Connected
    <3> QED BY <3>3 DEF Tree
  <2> QED BY <1>3, <2>1, <2>2 DEF RootsConnect
<1> QED BY <1>5, <1>6, <1>7, <1>8

-----------------------------------------------------------------------------
(* The programs as one system, of which one runs.                          *)

ProgramsInv == ArithInv /\ CodeInv /\ VgaInv /\ UartInv

LEMMA ProgramsInvariant == Spec => []ProgramsInv
<1>1. Init => ProgramsInv
  BY ArithInitial, CodeInitial, VgaInitial, UartInitial DEF Init, ProgramsInv
<1>2. ProgramsInv /\ [Next]_vars => ProgramsInv'
  <2> SUFFICES ASSUME ProgramsInv, [Next]_vars PROVE ProgramsInv'
    OBVIOUS
  <2>1. [ArithNext]_arithVars
    BY DEF Next, vars
  <2>2. [CodeNext]_codeVars
    BY DEF Next, vars
  <2>3. [VgaNext]_vgaVars
    BY DEF Next, vars
  <2>4. [UartNext]_uartVars
    BY DEF Next, vars
  <2> QED BY <2>1, <2>2, <2>3, <2>4, ArithStep, CodeStep, VgaStep, UartStep DEF ProgramsInv
<1> QED BY <1>1, <1>2, PTL DEF Spec

\* testuart.c: wherever its interrupt handler interrupts _start, and however
\* many characters are typed, what it sends is a merge of the greeting and of
\* the answers, each of them in order and complete; and only a character for
\* which the screen has no cell left ends the program.
THEOREM OutputsMerge == Spec => []OutputsAreMerged
<1>1. ProgramsInv => OutputsAreMerged
  BY UartSafe DEF ProgramsInv
<1> QED BY <1>1, ProgramsInvariant, PTL

\* testvga.c: the program's palette and the display's are exchanged color by
\* color, and back, and none of the colors is ever lost or in both of them,
\* whatever the number of colors.
THEOREM PalettesAreExchanged == Spec => []PalettesExchanged
<1>1. ProgramsInv => PalettesExchanged
  BY VgaSafe DEF ProgramsInv
<1> QED BY <1>1, ProgramsInvariant, PTL

\* testvga.c: every pass of the scroll moves all rows down by one through a
\* buffer of a single row and loses no character; the top row is what the
\* generator gives, and the attributes stay.  It holds for every size of the
\* screen and every number of passes.
THEOREM ScrollIsExact == Spec => []ScrollExact
<1>1. ProgramsInv => ScrollExact
  BY VgaSafe DEF ProgramsInv
<1> QED BY <1>1, ProgramsInvariant, PTL

\* Division without a divider: for words of 2, 4, 8, 16 or 32 bits, __udivsi3 and
\* __modsi3 of testcode.c return what C says for all operands, and bits that are
\* not yet divided are lost at no iteration, although the comparison of
\* the divisor with the rest may wrap around.
THEOREM DivisionIsExact == Spec => []DivisionExact
<1>1. ProgramsInv => DivisionExact
  BY ArithSafe DEF ProgramsInv
<1> QED BY <1>1, ProgramsInvariant, PTL

\* Type correctness of the programs: each loop of testvga.c stays inside the
\* arrays it uses and leaves no byte of the text unwritten, the parents of
\* testcode.c are vertices and its registers words, and testuart.c's receive
\* fifo holds no more than was typed.
THEOREM TypeCorrect == Spec => []TypeOK
<1>1. ProgramsInv => TypeOK
  BY ArithSafe, CodeSafe, VgaSafe, UartSafe DEF ProgramsInv, TypeOK
<1> QED BY <1>1, ProgramsInvariant, PTL

\* testcode.c: after every iteration of the loop over the edges, for every
\* generalized Petersen graph, foo gives two vertices the same root exactly if
\* they are in the same component of the edges considered so far.
THEOREM RootsAreComponents == Spec => []ClassesAreComponents
<1>1. ProgramsInv => ClassesAreComponents
  BY CodeSafe DEF ProgramsInv
<1> QED BY <1>1, ProgramsInvariant, PTL

\* testcode.c: the same without reference to how components are merged: two
\* vertices have different roots exactly if a set of vertices that no considered
\* edge leaves has one of them and not the other.
THEOREM RootsAreConnected == Spec => []RootsConnect
<1>1. ProgramsInv => RootsConnect
  BY CodeSafe DEF ProgramsInv
<1> QED BY <1>1, ProgramsInvariant, PTL

\* testcode.c: union by size keeps the recursion of foo logarithmic, whatever the
\* number of vertices, and the root of a tree knows its size.
THEOREM RecursionIsShort == Spec => []SearchIsShort
<1>1. ProgramsInv => SearchIsShort
  BY CodeSafe DEF ProgramsInv
<1> QED BY <1>1, ProgramsInvariant, PTL
=============================================================================

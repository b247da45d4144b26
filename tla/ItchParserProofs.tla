--------------------------- MODULE ItchParserProofs ---------------------------
(* Theorems about ItchParser, for every number of frames, every length a     *)
(* length prefix can hold, every cut of the buffer and every set of          *)
(* registered callbacks.                                                     *)
EXTENDS ItchParser, FiniteSums, SequenceTheorems

-----------------------------------------------------------------------------
(* Flattening, which FlattenSeq defines by recursion                         *)

\* The recursive definition of FlattenSeq, for the first n sequences.
FlattensTo(g, seqs, n) ==
  g = [i \in 1 .. n |-> IF i = 1 THEN seqs[i] ELSE g[i - 1] \o seqs[i]]

Flattens(g, seqs) == FlattensTo(g, seqs, Len(seqs))

LEMMA FlattenIsRecursive ==
  ASSUME NEW seqs, Len(seqs) # 0
  PROVE  FlattenSeq(seqs) = (CHOOSE g : Flattens(g, seqs))[Len(seqs)]
BY DEF FlattenSeq, Flattens, FlattensTo

LEMMA FlattenExists ==
  ASSUME NEW S, NEW seqs \in Seq(S)
  PROVE  \E g : Flattens(g, seqs)
<1> DEFINE P == {n \in Nat : \E g : FlattensTo(g, seqs, n)}
<1>1. 0 \in P
  <2>1. FlattensTo(<< >>, seqs, 0)
    BY DEF FlattensTo
  <2> QED BY <2>1
<1>2. ASSUME NEW n \in P PROVE n + 1 \in P
  <2>1. PICK g : FlattensTo(g, seqs, n)
    OBVIOUS
  <2> DEFINE h == [i \in 1 .. n + 1 |-> IF i = 1 THEN seqs[i] ELSE g[i - 1] \o seqs[i]]
  <2>2. \A i \in 1 .. n : g[i] = IF i = 1 THEN seqs[i] ELSE g[i - 1] \o seqs[i]
    BY <2>1 DEF FlattensTo
  <2>3. \A i \in 1 .. n : h[i] = g[i]
    BY <2>2
  <2>4. \A i \in 1 .. n + 1 : i # 1 => i - 1 \in 1 .. n
    OBVIOUS
  <2>5. FlattensTo(h, seqs, n + 1)
    BY <2>3, <2>4 DEF FlattensTo
  <2> HIDE DEF h
  <2> QED BY <2>5
<1>3. P = Nat
  <2>1. P \in SUBSET Nat
    OBVIOUS
  <2> HIDE DEF P
  <2> QED BY <1>1, <1>2, <2>1, Induction
<1>4. Len(seqs) \in P
  <2>1. Len(seqs) \in Nat
    OBVIOUS
  <2> HIDE DEF P
  <2> QED BY <1>3, <2>1
<1> QED BY <1>4 DEF Flattens

\* The values of that recursion are sequences.
LEMMA FlattensType ==
  ASSUME NEW S, NEW seqs \in Seq(Seq(S)), NEW g, Flattens(g, seqs)
  PROVE  \A i \in 1 .. Len(seqs) : g[i] \in Seq(S)
<1> DEFINE P == {i \in Nat : i \in 1 .. Len(seqs) => g[i] \in Seq(S)}
<1>0. \A i \in 1 .. Len(seqs) : g[i] = IF i = 1 THEN seqs[i] ELSE g[i - 1] \o seqs[i]
  BY DEF Flattens, FlattensTo
<1>1. 0 \in P
  OBVIOUS
<1>2. ASSUME NEW i \in P PROVE i + 1 \in P
  <2> SUFFICES ASSUME i + 1 \in 1 .. Len(seqs) PROVE g[i + 1] \in Seq(S)
    OBVIOUS
  <2>1. CASE i = 0
    BY <1>0, <2>1
  <2>2. CASE i # 0
    <3>1. i \in 1 .. Len(seqs) /\ i + 1 # 1 /\ i + 1 - 1 = i
      BY <2>2
    <3>2. PICK t \in Seq(S) : t = g[i]
      BY <3>1
    <3>3. PICK u \in Seq(S) : u = seqs[i + 1]
      BY <3>1
    <3>4. g[i + 1] = g[i] \o seqs[i + 1]
      <4>1. PICK j \in 1 .. Len(seqs) : j = i + 1 /\ j # 1 /\ j - 1 = i
        BY <3>1
      <4>2. g[j] = g[j - 1] \o seqs[j]
        BY <1>0, <4>1
      <4> QED BY <4>1, <4>2
    <3>5. t \o u \in Seq(S)
      OBVIOUS
    <3> QED BY <3>2, <3>3, <3>4, <3>5
  <2> QED BY <2>1, <2>2
<1>3. P = Nat
  <2>1. P \in SUBSET Nat
    OBVIOUS
  <2> HIDE DEF P
  <2> QED BY <1>1, <1>2, <2>1, Induction
<1> QED BY <1>3

\* more goes on where seqs ends.
Extends(more, seqs) ==
  /\ Len(seqs) \in Nat /\ Len(more) \in Nat
  /\ Len(seqs) <= Len(more)
  /\ \A i \in 1 .. Len(seqs) : more[i] = seqs[i]

\* The recursion for a longer sequence goes through the same values.
LEMMA FlattensAgree ==
  ASSUME NEW seqs, NEW more, Extends(more, seqs),
         NEW g, Flattens(g, seqs), NEW h, Flattens(h, more)
  PROVE  \A i \in 1 .. Len(seqs) : h[i] = g[i]
<1> DEFINE P == {i \in Nat : i \in 1 .. Len(seqs) => h[i] = g[i]}
<1>0. \A i \in 1 .. Len(seqs) : /\ g[i] = IF i = 1 THEN seqs[i] ELSE g[i - 1] \o seqs[i]
                                /\ h[i] = IF i = 1 THEN seqs[i] ELSE h[i - 1] \o seqs[i]
  <2> TAKE i \in 1 .. Len(seqs)
  <2>1. i \in 1 .. Len(more)
    BY DEF Extends
  <2> QED BY <2>1 DEF Extends, Flattens, FlattensTo
<1>1. 0 \in P
  OBVIOUS
<1>2. ASSUME NEW i \in P PROVE i + 1 \in P
  <2> SUFFICES ASSUME i + 1 \in 1 .. Len(seqs) PROVE h[i + 1] = g[i + 1]
    OBVIOUS
  <2>1. CASE i = 0
    BY <1>0, <2>1
  <2>2. CASE i # 0
    <3>1. i \in 1 .. Len(seqs) /\ i + 1 # 1 /\ i + 1 - 1 = i
      BY <2>2
    <3> QED BY <1>0, <3>1
  <2> QED BY <2>1, <2>2
<1>3. P = Nat
  <2>1. P \in SUBSET Nat
    OBVIOUS
  <2> HIDE DEF P
  <2> QED BY <1>1, <1>2, <2>1, Induction
<1> QED BY <1>3

\* Flattening none, and one more.
LEMMA FlattenEmpty == FlattenSeq(<< >>) = << >>
BY DEF FlattenSeq

LEMMA FlattenType ==
  ASSUME NEW S, NEW seqs \in Seq(Seq(S))
  PROVE  FlattenSeq(seqs) \in Seq(S)
<1>1. CASE Len(seqs) = 0
  BY <1>1 DEF FlattenSeq
<1>2. CASE Len(seqs) # 0
  <2>1. PICK g : g = CHOOSE f : Flattens(f, seqs)
    OBVIOUS
  <2>2. Flattens(g, seqs)
    BY <2>1, FlattenExists
  <2>3. Len(seqs) \in 1 .. Len(seqs)
    BY <1>2
  <2> QED BY <1>2, <2>1, <2>2, <2>3, FlattensType, FlattenIsRecursive
<1> QED BY <1>1, <1>2

LEMMA FlattenAppend ==
  ASSUME NEW S, NEW seqs \in Seq(Seq(S)), NEW s \in Seq(S)
  PROVE  FlattenSeq(Append(seqs, s)) = FlattenSeq(seqs) \o s
<1>0. PICK more \in Seq(Seq(S)) : more = Append(seqs, s)
  BY AppendProperties
<1>1. /\ Len(more) = Len(seqs) + 1 /\ Len(seqs) \in Nat
      /\ \A i \in 1 .. Len(seqs) : more[i] = seqs[i]
      /\ more[Len(seqs) + 1] = s
  BY <1>0
<1>2. PICK h : h = CHOOSE f : Flattens(f, more)
  OBVIOUS
<1>3. Flattens(h, more)
  BY <1>2, FlattenExists
<1>4. FlattenSeq(more) = h[Len(seqs) + 1]
  BY <1>1, <1>2, FlattenIsRecursive
<1>5. h[Len(seqs) + 1] = IF Len(seqs) = 0 THEN s ELSE h[Len(seqs)] \o s
  <2>1. PICK m \in 1 .. Len(more) : m = Len(seqs) + 1 /\ m - 1 = Len(seqs)
    BY <1>1
  <2>2. h[m] = IF m = 1 THEN more[m] ELSE h[m - 1] \o more[m]
    BY <1>3 DEF Flattens, FlattensTo
  <2>3. more[m] = s
    BY <1>1, <2>1
  <2> QED BY <1>1, <2>1, <2>2, <2>3
<1>6. CASE Len(seqs) = 0
  <2>1. FlattenSeq(seqs) = << >>
    BY <1>6, FlattenEmpty
  <2>2. << >> \o s = s
    OBVIOUS
  <2> QED BY <1>0, <1>4, <1>5, <1>6, <2>1, <2>2
<1>7. CASE Len(seqs) # 0
  <2>1. PICK g : g = CHOOSE f : Flattens(f, seqs)
    OBVIOUS
  <2>2. Flattens(g, seqs)
    BY <2>1, FlattenExists
  <2>3. Len(seqs) \in 1 .. Len(seqs) /\ Len(seqs) <= Len(more)
    BY <1>1, <1>7
  <2>4. h[Len(seqs)] = g[Len(seqs)]
    <3>1. \A i \in 1 .. Len(seqs) : h[i] = g[i]
      <4>1. Extends(more, seqs)
        BY <1>1 DEF Extends
      <4> QED BY <1>3, <2>2, <4>1, FlattensAgree
    <3> QED BY <2>3, <3>1
  <2>5. FlattenSeq(seqs) = g[Len(seqs)]
    BY <1>7, <2>1, FlattenIsRecursive
  <2> QED BY <1>0, <1>4, <1>5, <1>7, <2>4, <2>5
<1> QED BY <1>6, <1>7

-----------------------------------------------------------------------------
(* The layout of the messages                                                *)

\* The parser decodes every message from where the builders put its fields,
\* accepts it at the length it is built with, and the fields lie one after the
\* other behind the type byte.
LEMMA Layout ==
  \A t \in DOMAIN Built :
    /\ t \in DOMAIN Fields
    /\ Fields[t] = Built[t]
    /\ Required[t] = BuiltLength[t]
    /\ BuiltLength[t] \in 19 .. 40
BY DEF Fields, Built, BuiltAdd, BuiltOrder, BuiltHeader, BuiltExecuted, Header, AddFields,
       ExecutedFields, Required, BuiltLength

LEMMA Types == DOMAIN Fields = DOMAIN Built /\ "S" \notin DOMAIN Built
BY DEF Fields, Built

\* The fields of a message: within its length, and at most eight bytes wide.
Placed(fields, length) ==
  /\ \A f \in fields : /\ f.at \in 1 .. 40 /\ f.width \in 1 .. 8
                       /\ f.at + f.width <= length
                       /\ f.name = "stock" => f.width = 8
  /\ \A f, g \in fields : \A i \in Int :
       i - f.at \in 0 .. f.width - 1 /\ i - g.at \in 0 .. g.width - 1 => f = g

LEMMA FieldsPlaced == \A t \in DOMAIN Built : Placed(Built[t], BuiltLength[t])
<1>1. Placed(BuiltOrder, 19)
  BY DEF Placed, BuiltOrder, BuiltHeader, Field
<1>2. Placed(BuiltAdd, 36) /\ Placed(BuiltAdd, 40)
  BY DEF Placed, BuiltAdd, BuiltOrder, BuiltHeader, Field
<1>3. Placed(BuiltExecuted, 31) /\ Placed(BuiltExecuted, 36)
  BY DEF Placed, BuiltExecuted, BuiltOrder, BuiltHeader, Field
<1>4. Placed(Built["R"], 33)
  BY DEF Placed, Built, BuiltHeader, Field
<1>5. Placed(Built["X"], 23)
  BY DEF Placed, Built, BuiltOrder, BuiltHeader, Field
<1>6. Placed(Built["U"], 35)
  BY DEF Placed, Built, BuiltHeader, Field
<1> QED BY <1>1, <1>2, <1>3, <1>4, <1>5, <1>6 DEF Built, BuiltLength

-----------------------------------------------------------------------------
(* Frames                                                                    *)

Bytes == Tags \X (0 .. 255)

LEMMA FrameType ==
  ASSUME NEW frame \in Frame
  PROVE  /\ frame.len \in Nat /\ frame.len <= 65535 /\ frame.symbol \in 0 .. 8
         /\ frame.type \in DOMAIN Built \cup {"S"}
<1>1. CASE \E t \in {"R", "A", "F"}, e \in LengthErrors, n \in SymbolLengths :
             frame = [type |-> t, len |-> BuiltLength[t] + e, symbol |-> n]
  <2>1. PICK t \in {"R", "A", "F"}, e \in LengthErrors, n \in SymbolLengths :
             frame = [type |-> t, len |-> BuiltLength[t] + e, symbol |-> n]
    BY <1>1
  <2>2. t \in DOMAIN Built
    BY DEF Built
  <2>3. BuiltLength[t] \in 19 .. 40
    BY <2>2, Layout
  <2>4. e \in Int /\ 0 <= 19 + e /\ 40 + e <= 65535 /\ n \in 0 .. 8
    BY ParserAssumption
  <2>5. PICK l \in Nat : l = BuiltLength[t] + e /\ l <= 65535
    BY <2>3, <2>4
  <2> QED BY <2>1, <2>2, <2>4, <2>5
<1>2. CASE \E t \in {"E", "C", "X", "D", "U"}, e \in LengthErrors :
             frame = [type |-> t, len |-> BuiltLength[t] + e, symbol |-> 0]
  <2>1. PICK t \in {"E", "C", "X", "D", "U"}, e \in LengthErrors :
             frame = [type |-> t, len |-> BuiltLength[t] + e, symbol |-> 0]
    BY <1>2
  <2>2. t \in DOMAIN Built
    BY DEF Built
  <2>3. BuiltLength[t] \in 19 .. 40
    BY <2>2, Layout
  <2>4. e \in Int /\ 0 <= 19 + e /\ 40 + e <= 65535
    BY ParserAssumption
  <2>5. PICK l \in Nat : l = BuiltLength[t] + e /\ l <= 65535
    BY <2>3, <2>4
  <2> QED BY <2>1, <2>2, <2>5
<1>3. CASE \E n \in {0, 12} : frame = [type |-> "S", len |-> n, symbol |-> 0]
  BY <1>3
<1> QED BY <1>1, <1>2, <1>3 DEF Frame

LEMMA TagsHold ==
  /\ "num" \in Tags /\ " " \in Tags
  /\ \A t \in DOMAIN Built \cup {"S"} : t \in Tags
  /\ \A t \in DOMAIN Built : \A f \in Built[t] : f.name \in Tags
  /\ \A tag \in Tags : <<tag, 0>> \in Bytes
  /\ \A tag \in Tags, n \in 0 .. 255 : <<tag, n>> \in Bytes
<1>1. "num" \in Tags /\ " " \in Tags
  BY DEF Tags
<1>2. \A t \in DOMAIN Built \cup {"S"} : t \in Tags
  BY DEF Tags
<1>3. \A t \in DOMAIN Built : \A f \in Built[t] : f.name \in Tags
  BY DEF Tags
<1>4. \A tag \in Tags, n \in 0 .. 255 : <<tag, n>> \in Bytes
  BY DEF Bytes
<1>5. 0 \in 0 .. 255
  OBVIOUS
<1> QED BY <1>1, <1>2, <1>3, <1>4, <1>5

\* The fields a byte may be of.
Here(type, offset) == {f \in Built[type] : offset - f.at \in 0 .. f.width - 1}

LEMMA BuiltByteIs ==
  ASSUME NEW type, NEW symbol, NEW offset
  PROVE  BuiltByte(type, symbol, offset) =
           IF Here(type, offset) = {} THEN <<"num", 0>>
           ELSE IF AnyOf(Here(type, offset)).name = "stock"
           THEN put_stock(symbol)[offset - AnyOf(Here(type, offset)).at + 1]
           ELSE <<AnyOf(Here(type, offset)).name, offset - AnyOf(Here(type, offset)).at + 1>>
BY DEF BuiltByte, Here, AnyOf

\* A byte of a field is tagged with it and with its place in it.
LEMMA BuiltBytes ==
  ASSUME NEW t \in DOMAIN Built, NEW symbol \in 0 .. 8
  PROVE  /\ \A i \in Nat : BuiltByte(t, symbol, i) \in Bytes
         /\ \A f \in Built[t] : \A k \in 1 .. f.width :
              BuiltByte(t, symbol, f.at + k - 1) =
                IF f.name = "stock" THEN put_stock(symbol)[k] ELSE <<f.name, k>>
<1>1. Placed(Built[t], BuiltLength[t])
  BY FieldsPlaced
<1>2. \A f \in Built[t] : f.name \in Tags
  BY TagsHold
<1>4. ASSUME NEW f \in Built[t], f.name = "stock"
      PROVE  \A k \in 1 .. 8 : put_stock(symbol)[k] \in Bytes
  <2>1. "stock" \in Tags
    BY <1>2, <1>4
  <2>2. Space \in Bytes
    BY TagsHold DEF Space
  <2> TAKE k \in 1 .. 8
  <2>3. <<"stock", k>> \in Bytes
    <3>1. k \in 0 .. 255
      OBVIOUS
    <3> QED BY <2>1, <3>1, TagsHold
  <2>4. put_stock(symbol)[k] = IF k <= symbol THEN <<"stock", k>> ELSE Space
    BY DEF put_stock
  <2> QED BY <2>2, <2>3, <2>4
<1>5. ASSUME NEW i \in Int, NEW f \in Built[t], i - f.at \in 0 .. f.width - 1
      PROVE  BuiltByte(t, symbol, i) =
               IF f.name = "stock" THEN put_stock(symbol)[i - f.at + 1]
               ELSE <<f.name, i - f.at + 1>>
  <2>1. f \in Here(t, i) /\ Here(t, i) # {}
    BY <1>5 DEF Here
  <2>2. AnyOf(Here(t, i)) \in Here(t, i)
    BY <2>1, AnyOfIsIn
  <2>3. \A g \in Here(t, i) : g = f
    BY <1>1, <1>5 DEF Placed, Here
  <2>4. AnyOf(Here(t, i)) = f
    BY <2>2, <2>3
  <2> QED BY <2>1, <2>4, BuiltByteIs
<1>6. ASSUME NEW i \in Nat
      PROVE  BuiltByte(t, symbol, i) \in Bytes
  <2>1. CASE \E f \in Built[t] : i - f.at \in 0 .. f.width - 1
    <3>1. PICK f \in Built[t] : i - f.at \in 0 .. f.width - 1
      BY <2>1
    <3>2. f.at \in 1 .. 40 /\ f.width \in 1 .. 8 /\ i - f.at + 1 \in 1 .. 8
      BY <1>1, <3>1 DEF Placed
    <3>3. PICK k \in 1 .. 8 : k = i - f.at + 1
      BY <3>2
    <3>4. <<f.name, k>> \in Bytes
      <4>1. k \in 0 .. 255
        OBVIOUS
      <4> QED BY <1>2, <4>1, TagsHold
    <3>5. BuiltByte(t, symbol, i) =
            IF f.name = "stock" THEN put_stock(symbol)[k] ELSE <<f.name, k>>
      BY <1>5, <3>1, <3>3
    <3> QED BY <1>4, <3>4, <3>5
  <2>2. CASE ~ \E f \in Built[t] : i - f.at \in 0 .. f.width - 1
    <3>1. Here(t, i) = {}
      BY <2>2 DEF Here
    <3>2. BuiltByte(t, symbol, i) = <<"num", 0>>
      BY <3>1, BuiltByteIs
    <3> QED BY <3>2, TagsHold
  <2> QED BY <2>1, <2>2
<1>7. ASSUME NEW f \in Built[t], NEW k \in 1 .. f.width
      PROVE  BuiltByte(t, symbol, f.at + k - 1) =
                IF f.name = "stock" THEN put_stock(symbol)[k] ELSE <<f.name, k>>
  <2>1. PICK i \in Int : i = f.at + k - 1 /\ i - f.at \in 0 .. f.width - 1 /\ i - f.at + 1 = k
    <3>1. PICK a \in 1 .. 40, w \in 1 .. 8 : a = f.at /\ w = f.width
      BY <1>1 DEF Placed
    <3>2. PICK i \in Int : i = a + k - 1
      BY <3>1
    <3>3. k \in 1 .. w
      BY <3>1
    <3>4. i - a \in 0 .. w - 1 /\ i - a + 1 = k
      BY <3>2, <3>3
    <3> QED BY <3>1, <3>2, <3>4
  <2> QED BY <1>5, <2>1
<1> QED BY <1>6, <1>7

\* A frame is the two bytes of its length and its message.
LEMMA FrameBytesType ==
  ASSUME NEW frame \in Frame
  PROVE  /\ FrameBytes(frame) \in Seq(Bytes)
         /\ Len(FrameBytes(frame)) = frame.len + 2
         /\ FrameBytes(frame)[1][2] * 256 + FrameBytes(frame)[2][2] = frame.len
         /\ \A k \in 1 .. frame.len : FrameBytes(frame)[k + 2] = Body(frame)[k]
<1>0. /\ frame.len \in Nat /\ frame.len <= 65535 /\ frame.symbol \in 0 .. 8
      /\ frame.type \in DOMAIN Built \cup {"S"}
  BY FrameType
<1>1. "num" \in Tags /\ frame.type \in Tags
  <2>1. PICK t \in DOMAIN Built \cup {"S"} : t = frame.type
    BY <1>0
  <2>2. t \in Tags
    BY TagsHold
  <2> QED BY <2>1, <2>2, TagsHold
<1>2. Body(frame) \in Seq(Bytes) /\ Len(Body(frame)) = frame.len
  <2>1. ASSUME NEW k \in 1 .. frame.len
        PROVE  Body(frame)[k] \in Bytes
    <3>1. <<frame.type, 0>> \in Bytes /\ <<"num", 0>> \in Bytes
      BY <1>1, TagsHold
    <3>2. frame.type \in DOMAIN Built => BuiltByte(frame.type, frame.symbol, k - 1) \in Bytes
      <4>1. k - 1 \in Nat
        BY <1>0
      <4> QED BY <1>0, <4>1, BuiltBytes
    <3> QED BY <3>1, <3>2 DEF Body
  <2>2. Body(frame) = [k \in 1 .. frame.len |-> Body(frame)[k]] /\ frame.len \in Nat
    BY <1>0 DEF Body
  <2> QED BY <2>1, <2>2
<1>3. PICK hi, lo : /\ hi = frame.len \div 256 /\ lo = frame.len % 256
                    /\ hi \in 0 .. 255 /\ lo \in 0 .. 255 /\ hi * 256 + lo = frame.len
  <2>1. PICK n \in Nat : n = frame.len /\ n <= 65535
    BY <1>0
  <2>2. n \div 256 \in Nat /\ n \div 256 <= 255 /\ n % 256 \in 0 .. 255
    BY <2>1
  <2>3. (n \div 256) * 256 + (n % 256) = n
    OBVIOUS
  <2>4. n \div 256 \in 0 .. 255
    BY <2>2
  <2> QED BY <2>1, <2>2, <2>3, <2>4
<1>4. PICK prefix : prefix = << <<"num", hi>>, <<"num", lo>> >>
  OBVIOUS
<1>5. prefix \in Seq(Bytes) /\ Len(prefix) = 2
  BY <1>1, <1>3, <1>4 DEF Bytes
<1>6. prefix[1][2] = hi /\ prefix[2][2] = lo
  BY <1>4
<1>7. PICK body \in Seq(Bytes) : body = Body(frame)
  BY <1>2
<1>8. FrameBytes(frame) = prefix \o body
  BY <1>3, <1>4, <1>7 DEF FrameBytes
<1>9. /\ prefix \o body \in Seq(Bytes)
      /\ Len(prefix \o body) = frame.len + 2
      /\ (prefix \o body)[1] = prefix[1] /\ (prefix \o body)[2] = prefix[2]
      /\ \A k \in 1 .. frame.len : (prefix \o body)[k + 2] = body[k]
  <2>1. PICK n \in Nat : n = frame.len /\ Len(body) = n
    BY <1>0, <1>2, <1>7
  <2>2. /\ prefix \o body \in Seq(Bytes)
        /\ Len(prefix \o body) = Len(prefix) + Len(body)
        /\ \A k \in 1 .. Len(prefix) + Len(body) :
             (prefix \o body)[k] = IF k <= Len(prefix) THEN prefix[k] ELSE body[k - Len(prefix)]
    BY <1>5, ConcatProperties
  <2>3. ASSUME NEW k \in 1 .. n PROVE (prefix \o body)[k + 2] = body[k]
    <3>1. PICK j \in 1 .. 2 + n : j = k + 2 /\ ~ (j <= 2) /\ j - 2 = k
      OBVIOUS
    <3> QED BY <1>5, <2>1, <2>2, <3>1
  <2>4. (prefix \o body)[1] = prefix[1] /\ (prefix \o body)[2] = prefix[2]
    BY <1>5, <2>1, <2>2
  <2> QED BY <1>5, <2>1, <2>2, <2>3, <2>4
<1>10. PICK whole : whole = prefix \o body
  OBVIOUS
<1>11. whole[1][2] = hi /\ whole[2][2] = lo
  BY <1>6, <1>9, <1>10
<1>12. whole[1][2] * 256 + whole[2][2] = frame.len
  BY <1>3, <1>11
<1>13. FrameBytes(frame) = whole /\ Body(frame) = body
  BY <1>7, <1>8, <1>10
<1>14. /\ whole \in Seq(Bytes)
       /\ Len(whole) = frame.len + 2
       /\ \A k \in 1 .. frame.len : whole[k + 2] = body[k]
  BY <1>9, <1>10
<1> QED BY <1>12, <1>13, <1>14

-----------------------------------------------------------------------------
(* The buffer                                                                *)

\* Flattening one more sequence of a family.
LEMMA FlattenNext ==
  ASSUME NEW S, NEW n \in Nat, NEW t, \A k \in 1 .. n + 1 : t[k] \in Seq(S)
  PROVE  /\ FlattenSeq([k \in 1 .. n |-> t[k]]) \in Seq(S)
         /\ FlattenSeq([k \in 1 .. n + 1 |-> t[k]]) =
              FlattenSeq([k \in 1 .. n |-> t[k]]) \o t[n + 1]
<1>1. \A k \in 1 .. n : t[k] \in Seq(S)
  OBVIOUS
<1>2. PICK R : R = Seq(S)
  OBVIOUS
<1>3. PICK seqs \in Seq(R) : seqs = [k \in 1 .. n |-> t[k]]
  <2>1. [k \in 1 .. n |-> t[k]] \in [1 .. n -> R]
    BY <1>1, <1>2
  <2>2. [k \in 1 .. n |-> t[k]] \in Seq(R)
    BY <2>1
  <2> QED BY <2>2
<1>4. Len(seqs) = n /\ seqs \in Seq(Seq(S))
  BY <1>2, <1>3
<1>5. PICK s \in Seq(S) : s = t[n + 1]
  OBVIOUS
<1>6. Append(seqs, s) = [k \in 1 .. n + 1 |-> t[k]]
  BY <1>3, <1>4, <1>5
<1>7. FlattenSeq(seqs) \in Seq(S) /\ FlattenSeq(Append(seqs, s)) = FlattenSeq(seqs) \o s
  BY <1>4, FlattenType, FlattenAppend
<1> QED BY <1>3, <1>5, <1>6, <1>7

BufferOf(fs, n) == FlattenSeq([k \in 1 .. n |-> FrameBytes(fs[k])])

LEMMA BufferNext ==
  ASSUME NEW fs \in Seq(Frame), NEW n \in Nat, n < Len(fs)
  PROVE  /\ BufferOf(fs, n) \in Seq(Bytes)
         /\ BufferOf(fs, n + 1) \in Seq(Bytes)
         /\ BufferOf(fs, n + 1) = BufferOf(fs, n) \o FrameBytes(fs[n + 1])
<1>1. PICK t : t = [k \in 1 .. Len(fs) |-> FrameBytes(fs[k])]
  OBVIOUS
<1>2. \A k \in 1 .. Len(fs) : t[k] = FrameBytes(fs[k]) /\ t[k] \in Seq(Bytes)
  BY <1>1, FrameBytesType
<1>3. \A k \in 1 .. n + 1 : k \in 1 .. Len(fs)
  OBVIOUS
<1>4. [k \in 1 .. n |-> t[k]] = [k \in 1 .. n |-> FrameBytes(fs[k])]
  BY <1>2, <1>3
<1>5. [k \in 1 .. n + 1 |-> t[k]] = [k \in 1 .. n + 1 |-> FrameBytes(fs[k])]
  BY <1>2, <1>3
<1>6. \A k \in 1 .. n + 1 : t[k] \in Seq(Bytes)
  BY <1>2, <1>3
<1>7. /\ FlattenSeq([k \in 1 .. n |-> t[k]]) \in Seq(Bytes)
      /\ FlattenSeq([k \in 1 .. n + 1 |-> t[k]]) =
           FlattenSeq([k \in 1 .. n |-> t[k]]) \o t[n + 1]
  BY <1>6, FlattenNext
<1>8. t[n + 1] = FrameBytes(fs[n + 1]) /\ t[n + 1] \in Seq(Bytes)
  BY <1>2, <1>3
<1>9. BufferOf(fs, n) \in Seq(Bytes) /\ BufferOf(fs, n + 1) = BufferOf(fs, n) \o t[n + 1]
  BY <1>4, <1>5, <1>7 DEF BufferOf
<1> QED BY <1>8, <1>9, ConcatProperties

LEMMA BufferType ==
  ASSUME NEW fs \in Seq(Frame), NEW n \in 0 .. Len(fs)
  PROVE  BufferOf(fs, n) \in Seq(Bytes)
<1>1. CASE n = 0
  <2>1. [k \in 1 .. n |-> FrameBytes(fs[k])] = << >>
    BY <1>1
  <2> QED BY <2>1, FlattenEmpty DEF BufferOf
<1>2. CASE n # 0
  <2>1. PICK m \in Nat : n = m + 1 /\ m < Len(fs)
    <3>1. n - 1 \in Nat /\ n = n - 1 + 1 /\ n - 1 < Len(fs)
      BY <1>2
    <3> QED BY <3>1
  <2> QED BY <2>1, BufferNext
<1> QED BY <1>1, <1>2

LEMMA ExtendsConcat ==
  ASSUME NEW S, NEW a \in Seq(S), NEW b \in Seq(S)
  PROVE  Extends(a \o b, a)
BY ConcatProperties DEF Extends

LEMMA ExtendsTransitive ==
  ASSUME NEW a, NEW b, NEW c, Extends(c, b), Extends(b, a)
  PROVE  Extends(c, a)
BY DEF Extends

\* The first frames of a buffer begin it.
LEMMA BufferExtends ==
  ASSUME NEW fs \in Seq(Frame), NEW n \in 0 .. Len(fs), NEW m \in n .. Len(fs)
  PROVE  Extends(BufferOf(fs, m), BufferOf(fs, n))
<1> DEFINE P == {i \in Nat : i \in n .. Len(fs) => Extends(BufferOf(fs, i), BufferOf(fs, n))}
<1>0. Extends(BufferOf(fs, n), BufferOf(fs, n))
  BY BufferType DEF Extends
<1>1. 0 \in P
  BY <1>0
<1>2. ASSUME NEW i \in P PROVE i + 1 \in P
  <2> SUFFICES ASSUME i + 1 \in n .. Len(fs)
               PROVE  Extends(BufferOf(fs, i + 1), BufferOf(fs, n))
    OBVIOUS
  <2>1. CASE i + 1 = n
    BY <1>0, <2>1
  <2>2. CASE i + 1 # n
    <3>1. i \in Nat /\ i \in n .. Len(fs) /\ i < Len(fs)
      BY <2>2
    <3>2. Extends(BufferOf(fs, i), BufferOf(fs, n))
      BY <3>1
    <3>3. /\ BufferOf(fs, i) \in Seq(Bytes)
          /\ BufferOf(fs, i + 1) = BufferOf(fs, i) \o FrameBytes(fs[i + 1])
          /\ FrameBytes(fs[i + 1]) \in Seq(Bytes)
      <4>1. i + 1 \in 1 .. Len(fs)
        BY <3>1
      <4>2. fs[i + 1] \in Frame
        BY <4>1
      <4> QED BY <3>1, <4>2, BufferNext, FrameBytesType
    <3>4. Extends(BufferOf(fs, i + 1), BufferOf(fs, i))
      BY <3>3, ExtendsConcat
    <3> QED BY <3>2, <3>4, ExtendsTransitive
  <2> QED BY <2>1, <2>2
<1>3. P = Nat
  <2>1. P \in SUBSET Nat
    OBVIOUS
  <2> HIDE DEF P
  <2> QED BY <1>1, <1>2, <2>1, Induction
<1>4. m \in Nat
  OBVIOUS
<1> QED BY <1>3, <1>4

-----------------------------------------------------------------------------
(* One message                                                               *)

\* The padding of a symbol, and nothing of the symbol, is trimmed.
LEMMA SymbolTrimmed ==
  ASSUME NEW symbol \in 0 .. 8
  PROVE  parse_stock(put_stock(symbol)) = 1 .. symbol
<1>1. PICK bytes : bytes = put_stock(symbol)
  OBVIOUS
<1>2. /\ DOMAIN bytes = 1 .. 8
      /\ \A k \in 1 .. 8 : bytes[k] # Space <=> k <= symbol
  <2>1. \A k \in 1 .. 8 : <<"stock", k>> # Space
    BY DEF Space
  <2> QED BY <1>1, <2>1 DEF put_stock
<1>3. \A k \in 1 .. 8 : k \in parse_stock(bytes) <=> \E j \in 1 .. 8 : j >= k /\ j <= symbol
  BY <1>2 DEF parse_stock
<1>4. \A k \in 1 .. 8 : k \in parse_stock(bytes) <=> k <= symbol
  BY <1>3
<1>5. PICK kept : kept = parse_stock(bytes)
  OBVIOUS
<1>6. kept \subseteq 1 .. 8
  BY <1>2, <1>5 DEF parse_stock
<1>7. \A k \in kept : k \in 1 .. symbol
  BY <1>4, <1>5, <1>6
<1>8. \A k \in 1 .. symbol : k \in kept
  <2> TAKE k \in 1 .. symbol
  <2>1. k \in 1 .. 8 /\ k <= symbol
    OBVIOUS
  <2> QED BY <1>4, <1>5, <2>1
<1> QED BY <1>1, <1>5, <1>7, <1>8

\* A field of a whole message is decoded to what was written.
LEMMA FieldDecoded ==
  ASSUME NEW frame \in Frame, frame.type \in DOMAIN Built,
         frame.len >= BuiltLength[frame.type],
         NEW m \in Nat, \A j \in 1 .. frame.len : Byte(m + j - 1) = Body(frame)[j],
         NEW f \in Built[frame.type]
  PROVE  Decode(m, f) = Written(frame.symbol, f)
<1>0. frame.len \in Nat /\ frame.symbol \in 0 .. 8
  BY FrameType
<1>1. PICK t \in DOMAIN Built : t = frame.type
  OBVIOUS
<1>2. PICK at \in 1 .. 40, width \in 1 .. 8 :
        /\ at = f.at /\ width = f.width /\ at + width <= frame.len
        /\ f.name = "stock" => width = 8
  <2>1. Placed(Built[t], BuiltLength[t])
    BY FieldsPlaced
  <2>2. /\ f.at \in 1 .. 40 /\ f.width \in 1 .. 8
        /\ f.at + f.width <= BuiltLength[t]
        /\ f.name = "stock" => f.width = 8
    BY <1>1, <2>1 DEF Placed
  <2>3. BuiltLength[t] \in Nat /\ BuiltLength[t] <= frame.len
    BY <1>1, Layout
  <2>4. f.at + f.width <= frame.len
    BY <1>0, <2>2, <2>3
  <2> QED BY <2>2, <2>4
<1>3. PICK bytes : bytes = [k \in 1 .. f.width |-> Byte(m + f.at + k - 1)]
  OBVIOUS
<1>4. DOMAIN bytes = 1 .. width
  BY <1>2, <1>3
<1>5. ASSUME NEW k \in 1 .. width
      PROVE  bytes[k] = IF f.name = "stock" THEN put_stock(frame.symbol)[k] ELSE <<f.name, k>>
  <2>1. PICK j \in 1 .. frame.len :
          j = at + k /\ m + at + k - 1 = m + j - 1 /\ j # 1 /\ j - 1 = at + k - 1
    <3>1. PICK n \in Nat, j \in Nat : n = frame.len /\ j = at + k
      BY <1>0
    <3>2. j \in 1 .. n /\ m + at + k - 1 = m + j - 1 /\ j # 1 /\ j - 1 = at + k - 1
      BY <1>2, <3>1
    <3> QED BY <3>1, <3>2
  <2>2. bytes[k] = Byte(m + j - 1)
    BY <1>2, <1>3, <2>1
  <2>3. bytes[k] = Body(frame)[j]
    BY <2>2
  <2>4. Body(frame)[j] = BuiltByte(frame.type, frame.symbol, j - 1)
    BY <2>1 DEF Body
  <2>5. BuiltByte(frame.type, frame.symbol, j - 1) =
          BuiltByte(frame.type, frame.symbol, f.at + k - 1)
    BY <1>2, <2>1
  <2>6. k \in 1 .. f.width
    BY <1>2
  <2> QED BY <1>0, <2>3, <2>4, <2>5, <2>6, BuiltBytes
<1>6. CASE f.name # "stock"
  <2>1. Decode(m, f) = bytes
    BY <1>3, <1>6 DEF Decode
  <2>2. bytes = [k \in 1 .. width |-> <<f.name, k>>]
    BY <1>2, <1>3, <1>5, <1>6
  <2>3. Written(frame.symbol, f) = [k \in 1 .. width |-> <<f.name, k>>]
    BY <1>2, <1>6 DEF Written
  <2> QED BY <2>1, <2>2, <2>3
<1>7. CASE f.name = "stock"
  <2>1. bytes = put_stock(frame.symbol)
    <3>1. bytes = [k \in 1 .. 8 |-> bytes[k]]
      BY <1>2, <1>3, <1>7
    <3>2. put_stock(frame.symbol) = [k \in 1 .. 8 |-> put_stock(frame.symbol)[k]]
      BY DEF put_stock
    <3>3. \A k \in 1 .. 8 : bytes[k] = put_stock(frame.symbol)[k]
      BY <1>2, <1>5, <1>7
    <3> QED BY <3>1, <3>2, <3>3
  <2>2. Decode(m, f) = [k \in parse_stock(bytes) |-> bytes[k]]
    BY <1>3, <1>7 DEF Decode
  <2>3. parse_stock(bytes) = 1 .. frame.symbol
    BY <1>0, <2>1, SymbolTrimmed
  <2>4. \A k \in 1 .. frame.symbol : bytes[k] = <<"stock", k>>
    <3> TAKE k \in 1 .. frame.symbol
    <3>1. k \in 1 .. 8 /\ k <= frame.symbol
      BY <1>0
    <3> QED BY <2>1, <3>1 DEF put_stock
  <2>5. Written(frame.symbol, f) = [k \in 1 .. frame.symbol |-> <<"stock", k>>]
    BY <1>7 DEF Written
  <2> QED BY <2>2, <2>3, <2>4, <2>5
<1> QED BY <1>6, <1>7

\* What is told of a frame, if anything is.
Call(frame) ==
  [callback |-> Callback[frame.type],
   fields   |-> {[name |-> f.name, bytes |-> Written(frame.symbol, f)] :
                   f \in Built[frame.type]}]

Told(reg, frame) ==
  IF /\ frame.type \in DOMAIN Built
     /\ frame.len >= BuiltLength[frame.type]
     /\ Callback[frame.type] \in reg
  THEN << Call(frame) >>
  ELSE << >>

\* dispatch makes the callback that is expected for the frame it is given.
LEMMA DispatchTells ==
  ASSUME NEW frame \in Frame, NEW m \in Nat,
         \A j \in 1 .. frame.len : Byte(m + j - 1) = Body(frame)[j]
  PROVE  dispatch(m, frame.len) = Told(registered, frame)
<1>0. frame.len \in Nat
  BY FrameType
<1>1. ASSUME frame.len > 0 PROVE Byte(m)[1] = frame.type
  <2>1. 1 \in 1 .. frame.len /\ m + 1 - 1 = m
    BY <1>0, <1>1
  <2>2. Byte(m) = Body(frame)[1]
    BY <2>1
  <2>3. Body(frame)[1] = <<frame.type, 0>>
    BY <2>1 DEF Body
  <2> QED BY <2>2, <2>3
<1>2. \A t \in DOMAIN Built :
        t \in DOMAIN Fields /\ Fields[t] = Built[t] /\ Required[t] = BuiltLength[t]
  BY Layout
<1>3. CASE ~ (frame.len > 0)
  <2>1. dispatch(m, frame.len) = << >>
    BY <1>3 DEF dispatch
  <2>2. ~ (frame.type \in DOMAIN Built /\ frame.len >= BuiltLength[frame.type])
    <3>1. \A t \in DOMAIN Built : BuiltLength[t] \in 19 .. 40
      BY Layout
    <3> QED BY <1>0, <1>3, <3>1
  <2> QED BY <2>1, <2>2 DEF Told
<1>4. CASE /\ frame.len > 0 /\ frame.type \in DOMAIN Built
           /\ frame.len >= BuiltLength[frame.type]
           /\ Callback[frame.type] \in registered
  <2>1. PICK t \in DOMAIN Built : t = frame.type
    BY <1>4
  <2>2. Byte(m)[1] = t /\ t \in DOMAIN Fields /\ Required[t] = BuiltLength[t]
    BY <1>1, <1>2, <1>4, <2>1
  <2>3. dispatch(m, frame.len) =
          << [callback |-> Callback[t],
              fields   |-> {[name |-> f.name, bytes |-> Decode(m, f)] : f \in Fields[t]}] >>
    BY <1>4, <2>1, <2>2 DEF dispatch
  <2>4. Fields[t] = Built[t]
    BY <1>2
  <2>5. \A f \in Built[t] : Decode(m, f) = Written(frame.symbol, f)
    BY <1>4, <2>1, FieldDecoded
  <2>6. {[name |-> f.name, bytes |-> Decode(m, f)] : f \in Fields[t]} =
          {[name |-> f.name, bytes |-> Written(frame.symbol, f)] : f \in Built[t]}
    BY <2>4, <2>5
  <2> QED BY <1>4, <2>1, <2>3, <2>6 DEF Told, Call
<1>5. CASE /\ frame.len > 0
           /\ ~ (/\ frame.type \in DOMAIN Built
                 /\ frame.len >= BuiltLength[frame.type]
                 /\ Callback[frame.type] \in registered)
  <2>1. Byte(m)[1] = frame.type /\ DOMAIN Fields = DOMAIN Built
    BY <1>1, <1>5, Types
  <2>2. dispatch(m, frame.len) = << >>
    BY <1>2, <1>5, <2>1 DEF dispatch
  <2> QED BY <1>5, <2>2 DEF Told
<1> QED BY <1>3, <1>4, <1>5

-----------------------------------------------------------------------------
(* The inductive invariant: the position is where a frame begins, and the    *)
(* frames before it are the ones counted and told.                           *)

\* The callbacks made for the first n frames.
Calls(reg, fs, n) == FlattenSeq([k \in 1 .. n |-> Told(reg, fs[k])])

ParserInv ==
  /\ frames \in Seq(Frame)
  /\ data \in Seq(Bytes)
  /\ Extends(BufferOf(frames, Len(frames)), data)
  /\ registered \in CallbackSets
  /\ pc \in {"parse", "done"}
  /\ count \in 0 .. Len(frames)
  /\ Len(BufferOf(frames, count)) <= size
  /\ pc = "parse" => p = Len(BufferOf(frames, count))
  /\ pc = "done" => /\ p \in 0 .. size
                    /\ count < Len(frames) => size < Len(BufferOf(frames, count + 1))
  /\ delivered = Calls(registered, frames, count)
  /\ delivered \in Seq({Call(frame) : frame \in Frame})
  /\ Len(delivered) <= count

LEMMA ToldType ==
  ASSUME NEW reg, NEW frame \in Frame
  PROVE  /\ Told(reg, frame) \in Seq({Call(f) : f \in Frame})
         /\ Len(Told(reg, frame)) \in 0 .. 1
<1>0. PICK S : S = {Call(f) : f \in Frame}
  OBVIOUS
<1>1. PICK call \in S : call = Call(frame)
  BY <1>0
<1>2. Told(reg, frame) = << call >> \/ Told(reg, frame) = << >>
  BY <1>1 DEF Told
<1>3. << call >> \in Seq(S) /\ Len(<< call >>) = 1
  OBVIOUS
<1>4. << >> \in Seq(S) /\ Len(<< >>) = 0
  OBVIOUS
<1>5. 0 \in 0 .. 1 /\ 1 \in 0 .. 1
  OBVIOUS
<1>6. PICK told : told = Told(reg, frame)
  OBVIOUS
<1>7. told \in Seq(S) /\ Len(told) \in 0 .. 1
  <2>1. CASE told = << call >>
    BY <1>3, <1>5, <2>1
  <2>2. CASE told = << >>
    BY <1>4, <1>5, <2>2
  <2> QED BY <1>2, <1>6, <2>1, <2>2
<1> QED BY <1>0, <1>6, <1>7

LEMMA CallsNext ==
  ASSUME NEW reg, NEW fs \in Seq(Frame), NEW n \in Nat, n < Len(fs)
  PROVE  Calls(reg, fs, n + 1) = Calls(reg, fs, n) \o Told(reg, fs[n + 1])
<1>1. PICK t : t = [k \in 1 .. Len(fs) |-> Told(reg, fs[k])]
  OBVIOUS
<1>2. PICK S : S = {Call(f) : f \in Frame}
  OBVIOUS
<1>3. \A k \in 1 .. Len(fs) : t[k] = Told(reg, fs[k]) /\ t[k] \in Seq(S)
  BY <1>1, <1>2, ToldType
<1>4. \A k \in 1 .. n + 1 : k \in 1 .. Len(fs)
  OBVIOUS
<1>5. [k \in 1 .. n |-> t[k]] = [k \in 1 .. n |-> Told(reg, fs[k])]
  BY <1>3, <1>4
<1>6. [k \in 1 .. n + 1 |-> t[k]] = [k \in 1 .. n + 1 |-> Told(reg, fs[k])]
  BY <1>3, <1>4
<1>7. \A k \in 1 .. n + 1 : t[k] \in Seq(S)
  BY <1>3, <1>4
<1>8. FlattenSeq([k \in 1 .. n + 1 |-> t[k]]) =
        FlattenSeq([k \in 1 .. n |-> t[k]]) \o t[n + 1]
  BY <1>7, FlattenNext
<1>9. t[n + 1] = Told(reg, fs[n + 1])
  BY <1>3, <1>4
<1> QED BY <1>5, <1>6, <1>8, <1>9 DEF Calls

LEMMA BufferIs == \A n : Buffer(n) = BufferOf(frames, n)
BY DEF Buffer, BufferOf

LEMMA ParserInit == Init => ParserInv
<1> SUFFICES ASSUME Init PROVE ParserInv
  OBVIOUS
<1>1. frames \in Seq(Frame)
  <2>1. PICK n \in 0 .. MaxFrames : frames \in [1 .. n -> Frame]
    BY DEF Init
  <2>2. n \in Nat
    BY ParserAssumption
  <2> QED BY <2>1, <2>2
<1>2. PICK whole \in Seq(Bytes) : whole = BufferOf(frames, Len(frames))
  <2>1. Len(frames) \in 0 .. Len(frames)
    BY <1>1
  <2> QED BY <1>1, <2>1, BufferType
<1>3. PICK n \in 0 .. Len(whole) : data = SubSeq(whole, 1, n)
  BY <1>2, BufferIs DEF Init
<1>4. /\ SubSeq(whole, 1, n) \in Seq(Bytes)
      /\ Len(SubSeq(whole, 1, n)) = n
      /\ \A k \in 1 .. n : SubSeq(whole, 1, n)[k] = whole[k]
  OBVIOUS
<1>5. data \in Seq(Bytes) /\ Extends(BufferOf(frames, Len(frames)), data)
  BY <1>2, <1>3, <1>4 DEF Extends
<1>6. /\ registered \in CallbackSets /\ pc = "parse" /\ count = 0 /\ p = 0
      /\ delivered = << >>
  BY DEF Init
<1>7. BufferOf(frames, 0) = << >>
  <2>1. [k \in 1 .. 0 |-> FrameBytes(frames[k])] = << >>
    OBVIOUS
  <2> QED BY <2>1, FlattenEmpty DEF BufferOf
<1>8. Calls(registered, frames, 0) = << >>
  <2>1. [k \in 1 .. 0 |-> Told(registered, frames[k])] = << >>
    OBVIOUS
  <2> QED BY <2>1, FlattenEmpty DEF Calls
<1>9. Len(data) \in Nat /\ Len(frames) \in Nat
  BY <1>1, <1>5
<1> QED BY <1>1, <1>5, <1>6, <1>7, <1>8, <1>9 DEF ParserInv, size

\* At the length prefix of a frame the parser reads the frame's length; the
\* frame fits if all of it is there, and then its bytes follow.
LEMMA AtFrame ==
  ASSUME ParserInv, pc = "parse", HasPrefix
  PROVE  /\ count < Len(frames) /\ frames[count + 1] \in Frame
         /\ p = Len(BufferOf(frames, count)) /\ p \in Nat
         /\ be16(p) = frames[count + 1].len
         /\ Len(BufferOf(frames, count + 1)) = p + 2 + frames[count + 1].len
         /\ Fits(frames[count + 1].len) =>
              \A j \in 1 .. frames[count + 1].len :
                Byte(p + 2 + j - 1) = Body(frames[count + 1])[j]
<1>1. /\ frames \in Seq(Frame) /\ Len(frames) \in Nat
      /\ data \in Seq(Bytes) /\ size = Len(data) /\ size \in Nat
      /\ count \in 0 .. Len(frames)
      /\ p = Len(BufferOf(frames, count))
      /\ Extends(BufferOf(frames, Len(frames)), data)
  BY DEF ParserInv, size
<1>2. p \in Nat /\ p + 2 <= size
  <2>1. BufferOf(frames, count) \in Seq(Bytes)
    BY <1>1, BufferType
  <2> QED BY <1>1, <2>1 DEF HasPrefix
<1>3. count < Len(frames)
  <2>1. size <= Len(BufferOf(frames, Len(frames)))
    BY <1>1 DEF Extends
  <2> QED BY <1>1, <1>2, <2>1
<1>4. PICK frame \in Frame : frame = frames[count + 1]
  <2>1. count + 1 \in 1 .. Len(frames)
    BY <1>1, <1>3
  <2> QED BY <1>1, <2>1
<1>5. PICK len \in Nat : len = frame.len
  BY FrameType
<1>6. PICK before \in Seq(Bytes) : before = BufferOf(frames, count)
  BY <1>1, BufferType
<1>7. PICK fb \in Seq(Bytes) :
        /\ fb = FrameBytes(frame) /\ Len(fb) = len + 2
        /\ fb[1][2] * 256 + fb[2][2] = len
        /\ \A j \in 1 .. len : fb[j + 2] = Body(frame)[j]
  BY <1>5, FrameBytesType
<1>8. PICK after \in Seq(Bytes) :
        after = BufferOf(frames, count + 1) /\ after = before \o fb
  <2>1. count \in Nat
    BY <1>1
  <2>2. /\ BufferOf(frames, count + 1) \in Seq(Bytes)
        /\ BufferOf(frames, count + 1) = BufferOf(frames, count) \o FrameBytes(frames[count + 1])
    BY <1>1, <1>3, <2>1, BufferNext
  <2> QED BY <1>4, <1>6, <1>7, <2>2
<1>9. /\ Len(after) = p + 2 + len
      /\ \A i \in 1 .. len + 2 : after[p + i] = fb[i]
  <2>1. Len(before) = p
    BY <1>1, <1>6
  <2>2. /\ Len(before \o fb) = Len(before) + Len(fb)
        /\ \A k \in 1 .. Len(before) + Len(fb) :
             (before \o fb)[k] = IF k <= Len(before) THEN before[k] ELSE fb[k - Len(before)]
    BY ConcatProperties
  <2>3. ASSUME NEW i \in 1 .. len + 2 PROVE after[p + i] = fb[i]
    <3>1. PICK k \in 1 .. p + (len + 2) : k = p + i /\ ~ (k <= p) /\ k - p = i
      BY <1>2
    <3>2. k \in 1 .. Len(before) + Len(fb)
      BY <1>7, <2>1, <3>1
    <3>3. (before \o fb)[k] = fb[k - p]
      BY <2>1, <2>2, <3>1, <3>2
    <3> QED BY <1>8, <3>1, <3>3
  <2> QED BY <1>2, <1>7, <1>8, <2>1, <2>2, <2>3
<1>10. ASSUME NEW i \in 1 .. len + 2, p + i <= size
       PROVE  Byte(p + i - 1) = fb[i]
  <2>1. PICK k \in Nat : k = p + i /\ k >= 1 /\ k <= size /\ k <= Len(after)
    BY <1>2, <1>9, <1>10
  <2>2. Extends(BufferOf(frames, Len(frames)), after)
    <3>1. count + 1 \in 0 .. Len(frames) /\ Len(frames) \in count + 1 .. Len(frames)
      BY <1>1, <1>3
    <3> QED BY <1>1, <1>8, <3>1, BufferExtends
  <2>3. BufferOf(frames, Len(frames))[k] = data[k]
    BY <1>1, <2>1 DEF Extends
  <2>4. BufferOf(frames, Len(frames))[k] = after[k]
    BY <2>1, <2>2 DEF Extends
  <2>5. Byte(k - 1) = data[k]
    <3>1. k - 1 < size /\ k - 1 + 1 = k
      BY <1>1, <2>1
    <3> QED BY <3>1 DEF Byte
  <2>6. p + i - 1 = k - 1
    BY <1>2, <2>1
  <2> QED BY <1>9, <2>1, <2>3, <2>4, <2>5, <2>6
<1>11. be16(p) = len
  <2>1. Byte(p + 1 - 1) = fb[1] /\ Byte(p + 2 - 1) = fb[2]
    <3>1. 1 \in 1 .. len + 2 /\ 2 \in 1 .. len + 2 /\ p + 1 <= size
      BY <1>1, <1>2
    <3> QED BY <1>2, <1>10, <3>1
  <2>2. p + 1 - 1 = p /\ p + 2 - 1 = p + 1
    BY <1>2
  <2>3. Byte(p) = fb[1] /\ Byte(p + 1) = fb[2]
    BY <2>1, <2>2
  <2> QED BY <1>7, <2>3 DEF be16
<1>12. ASSUME Fits(len), NEW j \in 1 .. len
       PROVE  Byte(p + 2 + j - 1) = Body(frame)[j]
  <2>1. PICK i \in 1 .. len + 2 : i = j + 2 /\ p + i <= size /\ p + i - 1 = p + 2 + j - 1
    BY <1>1, <1>2, <1>12 DEF Fits
  <2>2. Byte(p + i - 1) = fb[i]
    BY <1>10, <2>1
  <2> QED BY <1>7, <2>1, <2>2
<1> QED BY <1>1, <1>2, <1>3, <1>4, <1>5, <1>8, <1>9, <1>11, <1>12

LEMMA MessageInv ==
  ASSUME ParserInv, Message
  PROVE  ParserInv'
<1>1. /\ pc = "parse" /\ HasPrefix
      /\ Fits(be16(p))
      /\ delivered' = delivered \o dispatch(p + 2, be16(p))
      /\ p' = p + 2 + be16(p)
      /\ count' = count + 1
      /\ UNCHANGED <<frames, data, registered, pc>>
  BY DEF Message
<1>2. PICK frame \in Frame :
        /\ frame = frames[count + 1]
        /\ count < Len(frames) /\ p \in Nat
        /\ be16(p) = frame.len
        /\ Len(BufferOf(frames, count + 1)) = p + 2 + frame.len
        /\ \A j \in 1 .. frame.len : Byte(p + 2 + j - 1) = Body(frame)[j]
  BY <1>1, AtFrame
<1>3. PICK told : told = Told(registered, frame)
  OBVIOUS
<1>4. delivered' = delivered \o told
  <2>1. p + 2 \in Nat
    BY <1>2
  <2>2. dispatch(p + 2, frame.len) = Told(registered, frame)
    BY <1>2, <2>1, DispatchTells
  <2> QED BY <1>1, <1>2, <1>3, <2>2
<1>5. PICK S : S = {Call(f) : f \in Frame}
  OBVIOUS
<1>6. told \in Seq(S) /\ Len(told) \in 0 .. 1 /\ delivered \in Seq(S)
  BY <1>3, <1>5, ToldType DEF ParserInv
<1>7. delivered' \in Seq(S) /\ Len(delivered') = Len(delivered) + Len(told)
  BY <1>4, <1>6, ConcatProperties
<1>8. count \in 0 .. Len(frames) /\ Len(frames) \in Nat /\ Len(delivered) <= count
  BY DEF ParserInv
<1>9. Len(delivered') <= count + 1
  <2>1. PICK m \in Nat : m = Len(delivered)
    BY <1>6
  <2>2. PICK n \in 0 .. 1 : n = Len(told)
    BY <1>6
  <2>3. PICK c \in Nat : c = count
    BY <1>8
  <2>4. m <= c
    BY <1>8, <2>1, <2>3
  <2>5. m + n <= c + 1
    BY <2>4
  <2>6. Len(delivered') = m + n
    BY <1>7, <2>1, <2>2
  <2> QED BY <2>3, <2>5, <2>6
<1>10. delivered' = Calls(registered, frames, count + 1)
  <2>1. frames \in Seq(Frame) /\ count \in Nat /\ count < Len(frames)
    BY <1>2, <1>8 DEF ParserInv
  <2>2. delivered = Calls(registered, frames, count)
    BY DEF ParserInv
  <2> QED BY <1>2, <1>3, <1>4, <2>1, <2>2, CallsNext
<1>11. count + 1 \in 0 .. Len(frames)
  BY <1>2, <1>8
<1>12. Len(BufferOf(frames, count + 1)) <= size /\ p' = Len(BufferOf(frames, count + 1))
  BY <1>1, <1>2 DEF Fits
<1> QED BY <1>1, <1>5, <1>7, <1>9, <1>10, <1>11, <1>12 DEF ParserInv, size

LEMMA TruncatedInv ==
  ASSUME ParserInv, Truncated
  PROVE  ParserInv'
<1>1. /\ pc = "parse" /\ HasPrefix /\ ~ Fits(be16(p))
      /\ pc' = "done" /\ p' = p + 2
      /\ UNCHANGED <<frames, data, registered, count, delivered>>
  BY DEF Truncated
<1>2. p \in Nat /\ size \in Nat /\ p + 2 <= size
  BY <1>1, AtFrame DEF HasPrefix, ParserInv, size
<1>3. /\ be16(p) = frames[count + 1].len
      /\ Len(BufferOf(frames, count + 1)) = p + 2 + frames[count + 1].len
      /\ frames[count + 1] \in Frame
  BY <1>1, AtFrame
<1>4. frames[count + 1].len \in Nat
  BY <1>3, FrameType
<1>5. size < Len(BufferOf(frames, count + 1))
  BY <1>1, <1>2, <1>3, <1>4 DEF Fits
<1>6. p' \in 0 .. size
  BY <1>1, <1>2
<1> QED BY <1>1, <1>5, <1>6 DEF ParserInv, size

LEMMA EndOfBufferInv ==
  ASSUME ParserInv, EndOfBuffer
  PROVE  ParserInv'
<1>1. /\ pc = "parse" /\ ~ HasPrefix /\ pc' = "done"
      /\ UNCHANGED <<frames, data, registered, p, count, delivered>>
  BY DEF EndOfBuffer
<1>2. /\ frames \in Seq(Frame) /\ data \in Seq(Bytes) /\ size = Len(data)
      /\ count \in 0 .. Len(frames)
      /\ p = Len(BufferOf(frames, count)) /\ p <= size
  BY <1>1 DEF ParserInv, size
<1>3. BufferOf(frames, count) \in Seq(Bytes)
  BY <1>2, BufferType
<1>4. p \in 0 .. size /\ size \in Nat /\ size < p + 2
  BY <1>1, <1>2, <1>3 DEF HasPrefix
<1>5. ASSUME count < Len(frames)
      PROVE  size < Len(BufferOf(frames, count + 1))
  <2>1. count \in Nat /\ count + 1 \in 1 .. Len(frames)
    BY <1>2, <1>5
  <2>2. PICK frame \in Frame : frame = frames[count + 1]
    BY <1>2, <2>1
  <2>3. PICK fb \in Seq(Bytes) : fb = FrameBytes(frame) /\ Len(fb) >= 2
    <3>1. frame.len \in Nat
      BY FrameType
    <3> QED BY <3>1, FrameBytesType
  <2>4. BufferOf(frames, count + 1) = BufferOf(frames, count) \o fb
    BY <1>2, <1>5, <2>1, <2>2, <2>3, BufferNext
  <2>5. Len(BufferOf(frames, count) \o fb) = p + Len(fb)
    BY <1>2, <1>3, ConcatProperties
  <2> QED BY <1>4, <2>3, <2>4, <2>5
<1> QED BY <1>1, <1>4, <1>5 DEF ParserInv, size

LEMMA ParserStep ==
  ASSUME ParserInv, [Next]_vars
  PROVE  ParserInv'
<1>1. CASE Message
  BY <1>1, MessageInv
<1>2. CASE Truncated
  BY <1>2, TruncatedInv
<1>3. CASE EndOfBuffer
  BY <1>3, EndOfBufferInv
<1>4. CASE UNCHANGED vars
  BY <1>4 DEF vars, ParserInv, size
<1> QED BY <1>1, <1>2, <1>3, <1>4 DEF Next

\* The invariant holds in every state of every behaviour.
LEMMA ParserInvariant == Spec => []ParserInv
BY ParserInit, ParserStep, PTL DEF Spec

-----------------------------------------------------------------------------
(* What it implies                                                           *)

\* Every byte stays one that a frame holds, and the parser's position within
\* the buffer, for every buffer and every cut: parse (itch_parser.h:143-160)
\* never reads on from outside.
THEOREM ParserTypeSafe == Spec => []ParserTypeOK
<1>1. ParserInv => ParserTypeOK
  <2> SUFFICES ASSUME ParserInv PROVE ParserTypeOK
    OBVIOUS
  <2>1. /\ frames \in Seq(Frame) /\ data \in Seq(Tags \X (0 .. 255))
        /\ registered \in CallbackSets /\ count \in 0 .. Len(frames)
        /\ Len(delivered) <= count /\ pc \in {"parse", "done"}
    BY DEF ParserInv, Bytes
  <2>2. p \in 0 .. size
    <3>1. BufferOf(frames, count) \in Seq(Bytes)
      BY <2>1, BufferType
    <3> QED BY <3>1 DEF ParserInv
  <2> QED BY <2>1, <2>2 DEF ParserTypeOK
<1> QED BY <1>1, ParserInvariant, PTL

\* parse counts every frame that is whole in the buffer, and none that is cut
\* off, wherever the buffer ends.
THEOREM ParserCountsMessages == Spec => []CountsMessages
<1>1. ParserInv => CountsMessages
  BY BufferIs DEF ParserInv, CountsMessages
<1> QED BY <1>1, ParserInvariant, PTL

\* The callbacks are those of the frames seen, in their order, and every field
\* dispatch decodes has the bytes the builder wrote (itch_parser.h:163-262,
\* 293-430): no short, unknown or truncated message is decoded, and none
\* disturbs the ones after it.
THEOREM ParserTellsFrames == Spec => []CallsMatchFrames
<1>1. ParserInv => CallsMatchFrames
  <2> SUFFICES ASSUME ParserInv PROVE CallsMatchFrames
    OBVIOUS
  <2>1. \A k : Expected(frames[k]) = Told(registered, frames[k])
    BY DEF Expected, Told, Call
  <2>2. [k \in 1 .. count |-> Expected(frames[k])] =
          [k \in 1 .. count |-> Told(registered, frames[k])]
    BY <2>1
  <2> QED BY <2>2 DEF ParserInv, CallsMatchFrames, Calls
<1> QED BY <1>1, ParserInvariant, PTL

=============================================================================

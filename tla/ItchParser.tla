------------------------------ MODULE ItchParser ------------------------------
(***************************************************************************)
(* The ITCH parser of itch_parser.h: the framing loop of parse, the        *)
(* dispatch by type and length with the fields each message is decoded     *)
(* from, and the message builders of itch_build, which lay out the fields  *)
(* independently of the parser.                                            *)
(*                                                                         *)
(* A byte is a pair <<tag, k>>: <<f, k>> is the k-th byte of field f as it *)
(* was written, <<t, 0>> a type byte, <<"num", n>> a number.  Field values *)
(* matter only in whether all their bytes arrive in order.  Any buffer is  *)
(* a sequence of frames cut off somewhere: the model chooses frames and    *)
(* the cut, and the parser sees only bytes.                                *)
(***************************************************************************)
EXTENDS Integers, SequencesExt

CONSTANTS MaxFrames,      \* frames of the buffer, the cut one included
          SymbolLengths,  \* how long the symbol of a message may be
          LengthErrors,   \* the length of a frame minus the length of its type
          CallbackSets    \* the sets of callbacks that may be registered

ASSUME ParserAssumption ==
  /\ MaxFrames \in Nat
  /\ SymbolLengths \subseteq 0 .. 8
  /\ LengthErrors \subseteq Int
  /\ \A e \in LengthErrors : 0 <= 19 + e /\ 40 + e <= 65535  \* lengths have 16 bits

VARIABLES frames,      \* what the buffer was written from
          data,        \* data, the bytes that are there
          registered,  \* the callbacks that are set
          p,           \* p - data
          count,       \* messages seen
          delivered,   \* the callbacks made
          pc           \* "parse", or "done" when parse has returned

vars == <<frames, data, registered, p, count, delivered, pc>>

size == Len(data)

Space == <<" ", 0>>

Field(name, offset, width) == [name |-> name, at |-> offset, width |-> width]

-----------------------------------------------------------------------------
(* itch_build                                                              *)

BuiltHeader == {Field("stock_locate", 1, 2), Field("timestamp_ns", 5, 6)}

BuiltOrder == BuiltHeader \cup {Field("order_ref", 11, 8)}

BuiltAdd == BuiltOrder \cup {Field("buy_sell", 19, 1), Field("shares", 20, 4),
                             Field("stock", 24, 8), Field("price", 32, 4)}

BuiltExecuted == BuiltOrder \cup {Field("executed_shares", 19, 4),
                                  Field("match_number", 23, 8)}

\* Where the builders put the fields.  F and C have none: an exchange's file
\* has them, laid out as A and E with more fields after them.
Built ==
  [R |-> BuiltHeader \cup {Field("stock", 11, 8)},
   A |-> BuiltAdd,
   F |-> BuiltAdd,
   E |-> BuiltExecuted,
   C |-> BuiltExecuted,
   X |-> BuiltOrder \cup {Field("cancelled_shares", 19, 4)},
   D |-> BuiltOrder,
   U |-> BuiltHeader \cup {Field("orig_order_ref", 11, 8), Field("new_order_ref", 19, 8),
                           Field("shares", 27, 4), Field("price", 31, 4)}]

BuiltLength == [R |-> 33, A |-> 36, F |-> 40, E |-> 31, C |-> 36, X |-> 23, D |-> 19, U |-> 35]

\* put_stock: the symbol, padded with spaces.
put_stock(symbol) ==
  [k \in 1 .. 8 |-> IF k <= symbol THEN <<"stock", k>> ELSE Space]

\* The byte of a message of the given type at an offset.
BuiltByte(type, symbol, offset) ==
  LET here == {f \in Built[type] : offset - f.at \in 0 .. f.width - 1}
      f == CHOOSE g \in here : TRUE
      k == offset - f.at + 1
  IN IF here = {} THEN <<"num", 0>>
     ELSE IF f.name = "stock" THEN put_stock(symbol)[k]
     ELSE <<f.name, k>>

\* A frame of a type that is not the parser's is its type and zeros.
Body(frame) ==
  [k \in 1 .. frame.len |->
     IF k = 1 THEN <<frame.type, 0>>
     ELSE IF frame.type \in DOMAIN Built
          THEN BuiltByte(frame.type, frame.symbol, k - 1)
          ELSE <<"num", 0>>]

\* frame: the length prefix and the message.
FrameBytes(frame) ==
  << <<"num", frame.len \div 256>>, <<"num", frame.len % 256>> >> \o Body(frame)

Buffer(n) == FlattenSeq([k \in 1 .. n |-> FrameBytes(frames[k])])

\* The frames of a buffer: messages of the right length, too short or too long,
\* of another type, and empty ones.
Frame ==
  {[type |-> t, len |-> BuiltLength[t] + e, symbol |-> n] :
     t \in {"R", "A", "F"}, e \in LengthErrors, n \in SymbolLengths}
    \cup {[type |-> t, len |-> BuiltLength[t] + e, symbol |-> 0] :
            t \in {"E", "C", "X", "D", "U"}, e \in LengthErrors}
    \cup {[type |-> "S", len |-> n, symbol |-> 0] : n \in {0, 12}}

-----------------------------------------------------------------------------
(* The parser                                                              *)

Byte(i) == IF i < size THEN data[i + 1] ELSE <<"outside", i>>

be16(i) == Byte(i)[2] * 256 + Byte(i + 1)[2]

\* parse_stock: trailing spaces are trimmed.
parse_stock(bytes) ==
  {k \in DOMAIN bytes : \E j \in DOMAIN bytes : j >= k /\ bytes[j] # Space}

Header == {Field("stock_locate", 1, 2), Field("timestamp_ns", 5, 6)}

AddFields == Header \cup {Field("order_ref", 11, 8), Field("buy_sell", 19, 1),
                          Field("shares", 20, 4), Field("stock", 24, 8),
                          Field("price", 32, 4)}

ExecutedFields == Header \cup {Field("order_ref", 11, 8), Field("executed_shares", 19, 4),
                               Field("match_number", 23, 8)}

\* The fields dispatch decodes for each type.
Fields ==
  [R |-> Header \cup {Field("stock", 11, 8)},
   A |-> AddFields,
   F |-> AddFields,
   E |-> ExecutedFields,
   C |-> ExecutedFields,
   X |-> Header \cup {Field("order_ref", 11, 8), Field("cancelled_shares", 19, 4)},
   D |-> Header \cup {Field("order_ref", 11, 8)},
   U |-> Header \cup {Field("orig_order_ref", 11, 8), Field("new_order_ref", 19, 8),
                      Field("shares", 27, 4), Field("price", 31, 4)}]

RequiredSlip == [R |-> 33, A |-> 36, F |-> 36, E |-> 31, C |-> 36, X |-> 23, D |-> 19, U |-> 35]

\* The shortest message dispatch accepts for each type.
Required == [R |-> 33, A |-> 36, F |-> 40, E |-> 31, C |-> 36, X |-> 23, D |-> 19, U |-> 35]

Callback ==
  [R |-> "on_stock_directory", A |-> "on_add_order", F |-> "on_add_order",
   E |-> "on_order_executed", C |-> "on_order_executed", X |-> "on_order_cancel",
   D |-> "on_order_delete", U |-> "on_order_replace"]

\* One field of a message that starts at msg: its bytes.
Decode(msg, f) ==
  LET bytes == [k \in 1 .. f.width |-> Byte(msg + f.at + k - 1)]
  IN IF f.name = "stock" THEN [k \in parse_stock(bytes) |-> bytes[k]] ELSE bytes

\* dispatch: the callback made for a message, if any.
dispatch(msg, len) ==
  LET type == Byte(msg)[1]
  IN IF /\ len > 0
        /\ type \in DOMAIN Fields
        /\ Callback[type] \in registered
        /\ len >= Required[type]
     THEN << [callback |-> Callback[type],
              fields   |-> {[name |-> f.name, bytes |-> Decode(msg, f)] :
                             f \in Fields[type]}] >>
     ELSE << >>

HasPrefixSlip == p + 2 < size

HasPrefix == p + 2 <= size

FitsSlip(len) == p + len <= size

Fits(len) == p + 2 + len <= size

MessageSlip ==
  /\ pc = "parse"
  /\ HasPrefix
  /\ LET msg_len == be16(p)
     IN /\ msg_len > 0
        /\ Fits(msg_len)
        /\ delivered' = delivered \o dispatch(p + 2, msg_len)
        /\ p' = p + 2 + msg_len
  /\ count' = count + 1
  /\ UNCHANGED <<frames, data, registered, pc>>

\* One pass of the loop of parse.
Message ==
  /\ pc = "parse"
  /\ HasPrefix
  /\ LET msg_len == be16(p)
     IN /\ Fits(msg_len)
        /\ delivered' = delivered \o dispatch(p + 2, msg_len)
        /\ p' = p + 2 + msg_len
  /\ count' = count + 1
  /\ UNCHANGED <<frames, data, registered, pc>>

\* A truncated message: parse stops.
Truncated ==
  /\ pc = "parse"
  /\ HasPrefix
  /\ ~ Fits(be16(p))
  /\ pc' = "done"
  /\ p' = p + 2
  /\ UNCHANGED <<frames, data, registered, count, delivered>>

EndOfBuffer ==
  /\ pc = "parse"
  /\ ~ HasPrefix
  /\ pc' = "done"
  /\ UNCHANGED <<frames, data, registered, p, count, delivered>>

Init ==
  /\ frames \in UNION {[1 .. n -> Frame] : n \in 0 .. MaxFrames}
  /\ \E whole \in {Buffer(Len(frames))} :
       \E n \in 0 .. Len(whole) : data = SubSeq(whole, 1, n)
  /\ registered \in CallbackSets
  /\ p = 0
  /\ count = 0
  /\ delivered = << >>
  /\ pc = "parse"

Next == Message \/ Truncated \/ EndOfBuffer

\* parse is a loop on its caller's thread: it goes on.
Spec == Init /\ [][Next]_vars /\ WF_vars(Next)

-----------------------------------------------------------------------------
(* Properties                                                              *)

\* What a byte may belong to.
Tags == {f.name : f \in UNION {Built[t] : t \in DOMAIN Built}}
          \cup DOMAIN Built \cup {"S", " ", "num"}

\* Every variable has its type; the parser's position never passes the end.
ParserTypeOK ==
  /\ frames \in Seq(Frame)
  /\ data \in Seq(Tags \X (0 .. 255))
  /\ registered \in CallbackSets
  /\ p \in 0 .. size
  /\ count \in 0 .. Len(frames)
  /\ Len(delivered) <= count
  /\ pc \in {"parse", "done"}

\* The bytes of a field as they were written.
Written(symbol, f) ==
  [k \in 1 .. (IF f.name = "stock" THEN symbol ELSE f.width) |-> <<f.name, k>>]

\* What the receiver of a frame is to be told of it.
Expected(frame) ==
  IF /\ frame.type \in DOMAIN Built
     /\ frame.len >= BuiltLength[frame.type]
     /\ Callback[frame.type] \in registered
  THEN << [callback |-> Callback[frame.type],
           fields   |-> {[name |-> f.name, bytes |-> Written(frame.symbol, f)] :
                          f \in Built[frame.type]}] >>
  ELSE << >>

\* The callbacks made are those of the frames seen so far, in their order, with
\* every field as the builder wrote it: no short, unknown or truncated message
\* is decoded, and none disturbs the ones after it.
CallsMatchFrames ==
  delivered = FlattenSeq([k \in 1 .. count |-> Expected(frames[k])])

\* "Returns the total number of messages seen (of any type)"
\* (include/itch_parser.h:142): parse counts every frame that is whole in the
\* buffer, and none that is cut off.
CountsMessages ==
  pc = "done" =>
    /\ Len(Buffer(count)) <= size
    /\ count < Len(frames) => size < Len(Buffer(count + 1))

\* parse returns, empty messages included.
ParseReturns == <>(pc = "done")

=============================================================================

------------------------------ MODULE ReEncode ------------------------------
(***************************************************************************)
(* MpcAbiReEncode: the calldata of a typed call, built from the arguments  *)
(* of a method call after its inputs have been validated.  Each loop of    *)
(* reEncodeWithGt takes a step per argument; then the called function      *)
(* decodes its arguments one by one, as ABI decoders do.                   *)
(*                                                                         *)
(* Lengths of what comes in are in bytes, positions in the calldata in     *)
(* words, since only whole words pass the checks.  A word of calldata is   *)
(* a word of an argument, or a number; contents are left open.             *)
(***************************************************************************)
EXTENDS Integers, Sequences

CONSTANTS
  Calls,                \* method calls: types, declared lengths, bytes of data
  Count,                \* what the words of a slice may hold, read as numbers
  WideWords,            \* words of a 128 or 256 bit gt value
  MAX_IT_STRING_CELLS

Word == 32

StaticType == {"UINT256", "ADDRESS", "BYTES32"}
BytesType == {"STRING", "BYTES"}
FlatArray == {"UINT256_ARRAY", "ADDRESS_ARRAY", "BYTES32_ARRAY"}
NestedArray == {"STRING_ARRAY", "BYTES_ARRAY"}
DynamicType == BytesType \cup FlatArray \cup NestedArray
ItType == {"IT_BOOL", "IT_UINT8", "IT_UINT16", "IT_UINT32", "IT_UINT64"}
WideItType == {"IT_UINT128", "IT_UINT256"}
MpcDataType == StaticType \cup DynamicType \cup ItType \cup WideItType \cup {"IT_STRING"}

\* A datatype with other than its low byte set, or past the last type.
BadType == "bad"

MpcMethodCall ==
  [datatypes : Seq(MpcDataType \cup {BadType}), datalens : Seq(Nat), length : Nat]

ASSUME ReEncodeAssumption ==
  /\ Calls \subseteq MpcMethodCall
  /\ Count \subseteq Nat
  /\ WideWords \in Nat \ {0}
  /\ MAX_IT_STRING_CELLS \in Nat

VARIABLES
  call,           \* the method call
  pc,             \* the loop, or how the call ended
  i,              \* argument at hand
  cursor,         \* bytes of data taken
  processed,      \* arguments as they will be encoded
  totalTailSize, headSize, headCursor, tailCursor,
  recoded,        \* the calldata after its selector
  tails, heads,   \* history: where the tail and the head of an argument begin
  at,             \* how far the callee has come in the heads
  got             \* arguments the callee has decoded

vars == <<call, pc, i, cursor, processed, totalTailSize, headSize, headCursor,
          tailCursor, recoded, tails, heads, at, got>>

argCount == Len(call.datatypes)
Args == 1 .. argCount

\* An encoded argument: its bytes, whether it has a tail, its words if not, and
\* the words a decoder that trusts what they hold will read of a tail.
Arg == [length : Nat, dynamic : BOOLEAN, staticWords : Nat, reads : Nat]

NoArg == [length |-> 0, dynamic |-> FALSE, staticWords |-> 0, reads |-> 0]

\* Word w of argument k, or the number w where arg is 0.
Cell == [arg : Nat, word : Nat]
Data(k, w) == [arg |-> k, word |-> w]
Number(w) == [arg |-> 0, word |-> w]

Init ==
  /\ call \in Calls
  /\ pc = "begin"
  /\ i = 1
  /\ cursor = 0
  /\ processed = [k \in Args |-> NoArg]
  /\ totalTailSize = 0 /\ headSize = 0 /\ headCursor = 0 /\ tailCursor = 0
  /\ recoded = <<>>
  /\ tails = [k \in 1 .. argCount + 1 |-> 0]
  /\ heads = [k \in 1 .. argCount + 1 |-> 0]
  /\ at = 0
  /\ got = [k \in Args |-> <<>>]

-----------------------------------------------------------------------------
(* One argument.                                                           *)

\* offset and n are the first words of the slice.
RequireWellFormedDynamic(type, len, offset, n) ==
  /\ len >= 64 /\ len % Word = 0
  /\ offset = Word
  /\ type \in BytesType => len = 64 + ((n + 31) \div 32) * 32
  /\ type \in FlatArray => len = 64 + n * 32

Static(length, words) ==
  [length |-> length, dynamic |-> FALSE, staticWords |-> words, reads |-> 0]

Dynamic(length, reads) ==
  [length |-> length, dynamic |-> TRUE, staticWords |-> 0, reads |-> reads]

\* Words a decoder reads where a dynamic argument begins: a count and what it
\* counts.  Nested arrays count offsets, which nobody checks: all of them.
TailReads(type, len, n) ==
  CASE type \in BytesType   -> 1 + (n + 31) \div 32
    [] type \in FlatArray   -> 1 + n
    [] type \in NestedArray -> len \div Word - 1

\* A value and a signature, encoded, are no shorter.
ItLength == 128

\* What a slice of len bytes may become; a gt string is an offset, an offset in
\* a struct, a count and a word per cell.
NormalizeArg(type, len) ==
  CASE type \in StaticType  -> {Static(len, 1)}
    [] type \in ItType      -> {Static(Word, 1) : l \in {len} \ 0 .. ItLength - 1}
    [] type \in WideItType  ->
         {Static(WideWords * Word, WideWords) : l \in {len} \ 0 .. ItLength - 1}
    [] type = "IT_STRING"   ->
         {Dynamic((3 + cells) * Word, 2 + cells) :
            cells \in {c \in Count : c <= MAX_IT_STRING_CELLS /\ len >= ItLength}}
    [] type \in DynamicType ->
         {Dynamic(len, TailReads(type, len, n)) :
            n \in {m \in Count : \E offset \in Count :
                                   RequireWellFormedDynamic(type, len, offset, m)}}

\* Mutant: a value may be of any length.
RequireTailsWhole(arg) == arg.dynamic => arg.length >= Word /\ arg.length % Word = 0

\* What holds of an argument that is let through.
RequireWholeWords(arg) ==
  IF arg.dynamic THEN arg.length >= Word /\ arg.length % Word = 0
  ELSE arg.length = arg.staticWords * Word

Words(arg) == arg.length \div Word

\* The first word of a dynamic argument is its own offset, and is dropped.
TailWords(arg) == IF arg.dynamic THEN Words(arg) - 1 ELSE 0

\* As counted from the types, and as written.
HeadWords(arg) == IF arg.dynamic THEN 1 ELSE arg.staticWords
HeadWritten(arg) == IF arg.dynamic THEN 1 ELSE Words(arg)

-----------------------------------------------------------------------------
(* reEncodeWithGt                                                          *)

Loop(loop) == pc = loop /\ i <= argCount
LoopEnds(loop) == pc = loop /\ i = argCount + 1

Begin ==
  /\ pc = "begin"
  /\ pc' = IF Len(call.datalens) = argCount THEN "args" ELSE "reverted"
  /\ UNCHANGED <<call, i, cursor, processed, totalTailSize, headSize, headCursor,
                 tailCursor, recoded, tails, heads, at, got>>

\* The next slice is cut off, validated and measured.
TakeArgument ==
  LET type == call.datatypes[i]
      argLen == call.datalens[i]
  IN  /\ Loop("args")
      /\ cursor + argLen <= call.length
      /\ type # BadType
      /\ \E arg \in NormalizeArg(type, argLen) :
           /\ RequireWholeWords(arg)
           /\ processed' = [processed EXCEPT ![i] = arg]
           /\ totalTailSize' = totalTailSize + TailWords(arg)
           /\ tails' = [tails EXCEPT ![i + 1] = totalTailSize']
      /\ cursor' = cursor + argLen
      /\ i' = i + 1
      /\ UNCHANGED <<call, pc, headSize, headCursor, tailCursor, recoded, heads, at, got>>

\* It is out of bounds, of no known type, or its contents are refused.
RefuseArgument ==
  LET type == call.datatypes[i]
      argLen == call.datalens[i]
  IN  /\ Loop("args")
      /\ \/ cursor + argLen > call.length
         \/ type = BadType
         \/ type \notin StaticType
         \/ argLen # Word
      /\ pc' = "reverted"
      /\ UNCHANGED <<call, i, cursor, processed, totalTailSize, headSize, headCursor,
                     tailCursor, recoded, tails, heads, at, got>>

EndArguments ==
  /\ LoopEnds("args")
  /\ pc' = IF cursor = call.length THEN "heads" ELSE "reverted"
  /\ i' = 1
  /\ UNCHANGED <<call, cursor, processed, totalTailSize, headSize, headCursor,
                 tailCursor, recoded, tails, heads, at, got>>

CountHead ==
  /\ Loop("heads")
  /\ headSize' = headSize + HeadWords(processed[i])
  /\ heads' = [heads EXCEPT ![i + 1] = headSize']
  /\ i' = i + 1
  /\ UNCHANGED <<call, pc, cursor, processed, totalTailSize, headCursor, tailCursor,
                 recoded, tails, at, got>>

Allocate ==
  /\ LoopEnds("heads")
  /\ recoded' = [w \in 0 .. headSize + totalTailSize - 1 |-> Number(0)]
  /\ pc' = "fill"
  /\ i' = 1
  /\ UNCHANGED <<call, cursor, processed, totalTailSize, headSize, headCursor,
                 tailCursor, tails, heads, at, got>>

\* Words of argument k from word "from" on, as they come to lie from destOffset.
CopyWords(dest, destOffset, k, from, words) ==
  [w \in DOMAIN dest |-> IF w \in destOffset .. destOffset + words - 1
                         THEN Data(k, from + w - destOffset) ELSE dest[w]]

Fits(destOffset, words) == words > 0 => destOffset + words <= headSize + totalTailSize

Offset == headSize + tailCursor

\* _copyBytes finds room for the argument at hand, or reverts.
HasRoom ==
  LET arg == processed[i]
  IN  IF arg.dynamic THEN Fits(Offset, TailWords(arg)) ELSE Fits(headCursor, Words(arg))

FillStatic ==
  LET words == Words(processed[i])
  IN  /\ Loop("fill")
      /\ ~processed[i].dynamic
      /\ HasRoom
      /\ recoded' = CopyWords(recoded, headCursor, i, 1, words)
      /\ headCursor' = headCursor + HeadWritten(processed[i])
      /\ i' = i + 1
      /\ UNCHANGED <<call, pc, cursor, processed, totalTailSize, headSize, tailCursor,
                     tails, heads, at, got>>

FillDynamic ==
  LET words == TailWords(processed[i])
      written == [w \in DOMAIN recoded |-> IF w = headCursor THEN Number(Offset) ELSE recoded[w]]
  IN  /\ Loop("fill")
      /\ processed[i].dynamic
      /\ HasRoom
      /\ recoded' = CopyWords(written, Offset, i, 2, words)
      /\ tailCursor' = tailCursor + words
      /\ headCursor' = headCursor + HeadWritten(processed[i])
      /\ i' = i + 1
      /\ UNCHANGED <<call, pc, cursor, processed, totalTailSize, headSize, tails, heads,
                     at, got>>

Return ==
  /\ LoopEnds("fill")
  /\ pc' = "returned"
  /\ i' = 1
  /\ UNCHANGED <<call, cursor, processed, totalTailSize, headSize, headCursor,
                 tailCursor, recoded, tails, heads, at, got>>

-----------------------------------------------------------------------------
(* The function called; its parameters are of the types of the call.       *)

\* Calldata goes on with zeros.
CallDataLoad(w) == IF w \in DOMAIN recoded THEN recoded[w] ELSE Number(0)

DecodeArgument ==
  LET arg == processed[i]
      begin == IF arg.dynamic THEN CallDataLoad(at).word ELSE at
      reads == IF arg.dynamic THEN arg.reads ELSE HeadWords(arg)
  IN  /\ Loop("returned")
      /\ got' = [got EXCEPT ![i] = [w \in 1 .. reads |-> CallDataLoad(begin + w - 1)]]
      /\ at' = at + HeadWords(arg)
      /\ i' = i + 1
      /\ UNCHANGED <<call, pc, cursor, processed, totalTailSize, headSize, headCursor,
                     tailCursor, recoded, tails, heads>>

Next ==
  \/ Begin \/ TakeArgument \/ RefuseArgument \/ EndArguments \/ CountHead \/ Allocate
  \/ FillStatic \/ FillDynamic \/ Return \/ DecodeArgument

Spec == Init /\ [][Next]_vars

-----------------------------------------------------------------------------
(* Types; histories begin where the cursors will be.                       *)
ReEncodeTypeOK ==
  /\ call \in MpcMethodCall
  /\ pc \in {"begin", "args", "heads", "fill", "returned", "reverted"}
  /\ i \in 1 .. argCount + 1
  /\ processed \in [Args -> Arg]
  /\ cursor \in Nat /\ at \in Nat
  /\ totalTailSize \in Nat /\ headSize \in Nat
  /\ headCursor \in Nat /\ tailCursor \in Nat
  /\ tails \in [1 .. argCount + 1 -> Nat]
  /\ heads \in [1 .. argCount + 1 -> Nat]

\* An argument that passed the checks: all its words, or those behind its offset.
Expected(k) ==
  LET arg == processed[k]
  IN  IF arg.dynamic THEN [w \in 1 .. Words(arg) - 1 |-> Data(k, w + 1)]
      ELSE [w \in 1 .. Words(arg) |-> Data(k, w)]

\* The called function decodes the arguments that were validated, each whole and
\* none with words of another one, following heads and offsets: the sizes the
\* three loops count, the words they write and what a decoder reads agree, for
\* arguments of any mix of widths.  No call that passed the checks is refused
\* for lack of room while it is laid out.
CalleeGetsArguments ==
  /\ Loop("fill") => HasRoom
  /\ pc = "returned" => \A k \in 1 .. i - 1 : got[k] = Expected(k)

=============================================================================

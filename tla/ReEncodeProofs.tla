--------------------------- MODULE ReEncodeProofs ---------------------------
(* Proofs about re-encoding, for any calls, contents and widths.           *)
EXTENDS ReEncode, TLAPS

\* Slots one after the other: s[k] is where slot k begins, for the first m.
Layout(s, size, m) ==
  /\ s[1] = 0
  /\ \A k \in 1 .. m : s[k + 1] = s[k] + size[k]
  /\ \A j \in 1 .. m, k \in 1 .. m + 1 : j < k => s[j] + size[j] <= s[k]

TailSizes == [k \in Args |-> TailWords(processed[k])]
HeadSizes == [k \in Args |-> HeadWords(processed[k])]

\* A decoder that trusts the contents of a tail reads what there is of it.
ArgSound(arg) ==
  /\ RequireWholeWords(arg)
  /\ arg.dynamic => arg.reads = Words(arg) - 1

\* Arguments taken, and heads counted.
Taken == IF pc \in {"begin", "args"} THEN i - 1 ELSE argCount
Counted == IF pc \in {"begin", "args"} THEN 0 ELSE IF pc = "heads" THEN i - 1 ELSE argCount

Live == pc # "reverted"

TakenSound ==
  /\ \A k \in 1 .. Taken : ArgSound(processed[k])
  /\ Layout(tails, TailSizes, Taken)
  /\ totalTailSize = tails[Taken + 1]

CountedSound ==
  /\ Layout(heads, HeadSizes, Counted)
  /\ headSize = heads[Counted + 1]

\* Argument k lies where its head and its tail begin.
Written(k) ==
  LET arg == processed[k]
  IN  IF arg.dynamic
      THEN /\ recoded[heads[k]] = Number(headSize + tails[k])
           /\ \A w \in 1 .. TailWords(arg) :
                recoded[headSize + tails[k] + w - 1] = Data(k, w + 1)
      ELSE \A w \in 1 .. Words(arg) : recoded[heads[k] + w - 1] = Data(k, w)

Allocated == DOMAIN recoded = 0 .. headSize + totalTailSize - 1

FillSound ==
  /\ pc \in {"begin", "args", "heads"} => headCursor = 0 /\ tailCursor = 0
  /\ pc = "fill" =>
       /\ headCursor = heads[i] /\ tailCursor = tails[i]
       /\ Allocated
       /\ \A k \in 1 .. i - 1 : Written(k)

DecodeSound ==
  /\ DOMAIN got = Args
  /\ pc # "returned" => at = 0
  /\ pc = "returned" =>
       /\ at = heads[i]
       /\ Allocated
       /\ \A k \in Args : Written(k)
       /\ \A k \in 1 .. i - 1 : got[k] = Expected(k)

ReEncodeInv ==
  /\ ReEncodeTypeOK
  /\ pc \notin {"begin", "reverted"} => Len(call.datalens) = argCount
  /\ Live => TakenSound /\ CountedSound /\ FillSound /\ DecodeSound

-----------------------------------------------------------------------------
(* Arguments.                                                              *)

LEMMA CallType ==
  ASSUME ReEncodeTypeOK
  PROVE  /\ argCount \in Nat
         /\ i \in Nat /\ i >= 1 /\ i <= argCount + 1
         /\ \A k \in Args : call.datatypes[k] \in MpcDataType \cup {BadType}
         /\ Len(call.datalens) = argCount => \A k \in Args : call.datalens[k] \in Nat
<1>1. /\ call.datatypes \in Seq(MpcDataType \cup {BadType})
      /\ call.datalens \in Seq(Nat)
  BY DEF ReEncodeTypeOK, MpcMethodCall
<1>2. argCount \in Nat
  BY <1>1 DEF argCount
<1> QED BY <1>1, <1>2 DEF ReEncodeTypeOK, argCount, Args

\* Sizes of an argument that is let through.
LEMMA ArgSizes ==
  ASSUME NEW arg \in Arg
  PROVE  /\ Words(arg) \in Nat
         /\ HeadWords(arg) \in Nat
         /\ RequireWholeWords(arg) =>
              /\ TailWords(arg) \in Nat
              /\ arg.dynamic => Words(arg) >= 1
              /\ ~arg.dynamic => Words(arg) = arg.staticWords
<1>1. arg.length \in Nat /\ arg.staticWords \in Nat /\ arg.dynamic \in BOOLEAN
  BY DEF Arg
<1>2. Words(arg) \in Nat
  BY <1>1, SMT DEF Words, Word
<1>3. ASSUME RequireWholeWords(arg), arg.dynamic PROVE Words(arg) >= 1
  BY <1>1, <1>3, SMT DEF Words, Word, RequireWholeWords
<1>4. ASSUME RequireWholeWords(arg), ~arg.dynamic PROVE Words(arg) = arg.staticWords
  BY <1>1, <1>4, SMT DEF Words, Word, RequireWholeWords
<1>5. HeadWords(arg) \in Nat
  BY <1>1 DEF HeadWords
<1>6. ASSUME RequireWholeWords(arg) PROVE TailWords(arg) \in Nat
  BY <1>2, <1>3, <1>6 DEF TailWords
<1> QED BY <1>2, <1>3, <1>4, <1>5, <1>6

LEMMA StaticSound ==
  ASSUME NEW length \in Nat, NEW words \in Nat, RequireWholeWords(Static(length, words))
  PROVE  Static(length, words) \in Arg /\ ArgSound(Static(length, words))
BY DEF Static, Arg, ArgSound

LEMMA DynamicSound ==
  ASSUME NEW length \in Nat, NEW reads \in Nat, reads = length \div 32 - 1,
         RequireWholeWords(Dynamic(length, reads))
  PROVE  Dynamic(length, reads) \in Arg /\ ArgSound(Dynamic(length, reads))
BY DEF Dynamic, Arg, ArgSound, Words, Word

\* The kinds of types exclude each other.
LEMMA KindsApart ==
  ASSUME NEW type
  PROVE  /\ type \in StaticType => type \notin ItType \cup WideItType \cup DynamicType \cup {"IT_STRING"}
         /\ type \in ItType => type \notin WideItType \cup DynamicType \cup {"IT_STRING"}
         /\ type \in WideItType => type \notin DynamicType \cup {"IT_STRING"}
         /\ type \in DynamicType => type # "IT_STRING"
         /\ type \in BytesType => type \notin FlatArray \cup NestedArray
         /\ type \in FlatArray => type \notin NestedArray
BY DEF StaticType, ItType, WideItType, DynamicType, BytesType, FlatArray, NestedArray

\* What comes out of a slice that is not refused is sound, whatever it holds.
LEMMA Normalized ==
  ASSUME NEW type \in MpcDataType, NEW len \in Nat,
         NEW arg \in NormalizeArg(type, len), RequireWholeWords(arg)
  PROVE  arg \in Arg /\ ArgSound(arg)
<1>1. CASE type \in StaticType
  <2>1. arg = Static(len, 1)
    BY <1>1, KindsApart DEF NormalizeArg
  <2> QED BY <2>1, StaticSound
<1>2. CASE type \in ItType
  <2>1. arg = Static(Word, 1)
    BY <1>2, KindsApart DEF NormalizeArg
  <2>2. Word \in Nat
    BY DEF Word
  <2> QED BY <2>1, <2>2, StaticSound
<1>3. CASE type \in WideItType
  <2>1. arg = Static(WideWords * Word, WideWords)
    BY <1>3, KindsApart DEF NormalizeArg
  <2>2. WideWords * Word \in Nat /\ WideWords \in Nat
    BY ReEncodeAssumption DEF Word
  <2> QED BY <2>1, <2>2, StaticSound
<1>4. CASE type = "IT_STRING"
  <2>1. PICK cells \in Count : arg = Dynamic((3 + cells) * Word, 2 + cells)
    BY <1>4, KindsApart DEF NormalizeArg
  <2>2. cells \in Nat
    BY ReEncodeAssumption
  <2>3. /\ (3 + cells) * Word \in Nat /\ 2 + cells \in Nat
        /\ 2 + cells = ((3 + cells) * Word) \div 32 - 1
    BY <2>2, SMT DEF Word
  <2> QED BY <2>1, <2>3, DynamicSound
<1>5. CASE type \in DynamicType
  <2>1. PICK n \in Count, offset \in Count :
          /\ RequireWellFormedDynamic(type, len, offset, n)
          /\ arg = Dynamic(len, TailReads(type, len, n))
    BY <1>5, KindsApart DEF NormalizeArg
  <2>2. n \in Nat
    BY ReEncodeAssumption
  <2>3. len >= 64 /\ len % 32 = 0
    BY <2>1 DEF RequireWellFormedDynamic, Word
  <2>4. CASE type \in BytesType
    <3> DEFINE q == (n + 31) \div 32
    <3>1. q \in Nat
      BY <2>2, SMT
    <3>2. len = 64 + q * 32
      BY <2>1, <2>4 DEF RequireWellFormedDynamic
    <3>3. TailReads(type, len, n) = 1 + q
      BY <2>4, KindsApart DEF TailReads
    <3> HIDE DEF q
    <3>4. 1 + q \in Nat /\ 1 + q = len \div 32 - 1
      BY <3>1, <3>2, SMT
    <3> QED BY <2>1, <3>3, <3>4, DynamicSound
  <2>5. CASE type \in FlatArray
    <3>1. len = 64 + n * 32
      BY <2>1, <2>5 DEF RequireWellFormedDynamic
    <3>2. TailReads(type, len, n) = 1 + n
      BY <2>5, KindsApart DEF TailReads
    <3>3. 1 + n \in Nat /\ 1 + n = len \div 32 - 1
      BY <2>2, <3>1, SMT
    <3> QED BY <2>1, <3>2, <3>3, DynamicSound
  <2>6. CASE type \in NestedArray
    <3>1. TailReads(type, len, n) = len \div 32 - 1
      BY <2>6, KindsApart DEF TailReads, Word
    <3>2. len \div 32 - 1 \in Nat
      BY <2>3, SMT
    <3> QED BY <2>1, <3>1, <3>2, DynamicSound
  <2> QED BY <1>5, <2>4, <2>5, <2>6 DEF DynamicType
<1> QED BY <1>1, <1>2, <1>3, <1>4, <1>5 DEF MpcDataType

-----------------------------------------------------------------------------
(* Layouts.                                                                *)

\* A slot more, behind m of n, of sizes[m + 1]; the sizes before it are as they were.
Grows(n, m, s, size, sizes, t) ==
  /\ n \in Nat /\ m \in Nat /\ m < n
  /\ s \in [1 .. n + 1 -> Nat]
  /\ Layout(s, size, m)
  /\ \A k \in 1 .. m : size[k] \in Nat /\ sizes[k] = size[k]
  /\ sizes[m + 1] \in Nat
  /\ t = [s EXCEPT ![m + 2] = s[m + 1] + sizes[m + 1]]

LEMMA LayoutGrows ==
  ASSUME NEW n, NEW m, NEW s, NEW size, NEW sizes, NEW t, Grows(n, m, s, size, sizes, t)
  PROVE  /\ t \in [1 .. n + 1 -> Nat]
         /\ Layout(t, sizes, m + 1)
         /\ t[m + 2] = s[m + 1] + sizes[m + 1]
<1> USE DEF Grows
<1>1. m + 2 \in 1 .. n + 1 /\ m + 1 \in 1 .. n + 1 /\ s[m + 1] \in Nat
  OBVIOUS
<1>2. t \in [1 .. n + 1 -> Nat] /\ t[m + 2] = s[m + 1] + sizes[m + 1]
  BY <1>1
<1>3. \A k \in 1 .. m + 1 : t[k] = s[k] /\ s[k] \in Nat
  OBVIOUS
<1>4. t[1] = 0
  BY <1>3 DEF Layout
<1>5. ASSUME NEW k \in 1 .. m + 1 PROVE t[k + 1] = t[k] + sizes[k]
  <2>1. CASE k = m + 1
    BY <1>2, <1>3, <2>1
  <2>2. CASE k # m + 1
    <3>1. k \in 1 .. m /\ k + 1 \in 1 .. m + 1
      BY <2>2
    <3> QED BY <1>3, <3>1 DEF Layout
  <2> QED BY <2>1, <2>2
<1>6. ASSUME NEW j \in 1 .. m + 1, NEW k \in 1 .. m + 2, j < k
      PROVE  t[j] + sizes[j] <= t[k]
  <2>1. CASE j = m + 1
    <3>1. k = m + 2
      BY <1>6, <2>1
    <3> QED BY <1>2, <1>3, <2>1, <3>1
  <2>2. CASE j # m + 1 /\ k # m + 2
    <3>1. j \in 1 .. m /\ k \in 1 .. m + 1
      BY <2>2
    <3> QED BY <1>3, <1>6, <3>1 DEF Layout
  <2>3. CASE j # m + 1 /\ k = m + 2
    <3>1. j \in 1 .. m /\ m + 1 \in 1 .. m + 1 /\ j < m + 1
      BY <2>3
    <3>2. s[j] + size[j] <= s[m + 1]
      BY <3>1 DEF Layout
    <3>3. s[j] \in Nat /\ size[j] \in Nat /\ t[j] = s[j] /\ sizes[j] = size[j]
      BY <1>3, <3>1
    <3> QED BY SMTT(30), <1>1, <1>2, <2>3, <3>2, <3>3
  <2> QED BY <2>1, <2>2, <2>3
<1> QED BY <1>2, <1>4, <1>5, <1>6 DEF Layout

-----------------------------------------------------------------------------
(* Steps that leave parts of the state alone.                              *)

LEMMA SameTaken ==
  ASSUME TakenSound, UNCHANGED <<call, processed, tails, totalTailSize>>, Taken' = Taken
  PROVE  TakenSound'
<1>1. TailSizes' = TailSizes
  BY DEF TailSizes, Args, argCount
<1> QED BY <1>1 DEF TakenSound

LEMMA SameCounted ==
  ASSUME CountedSound, UNCHANGED <<call, processed, heads, headSize>>, Counted' = Counted
  PROVE  CountedSound'
<1>1. HeadSizes' = HeadSizes
  BY DEF HeadSizes, Args, argCount
<1> QED BY <1>1 DEF CountedSound

LEMMA SameWritten ==
  ASSUME NEW k, Written(k), UNCHANGED <<processed, heads, tails, headSize, recoded>>
  PROVE  Written(k)'
BY DEF Written

\* Where the arguments lie, once all are measured.
Laid == pc \in {"fill", "returned"}

HeadSpots(k) == heads[k] .. heads[k] + HeadWords(processed[k]) - 1
TailSpots(k) ==
  headSize + tails[k] .. headSize + tails[k] + TailWords(processed[k]) - 1
Spots(k) == HeadSpots(k) \cup TailSpots(k)

LEMMA Positions ==
  ASSUME ReEncodeTypeOK, TakenSound, CountedSound, Laid, NEW k \in Args
  PROVE  /\ processed[k] \in Arg /\ ArgSound(processed[k])
         /\ heads[k] \in Nat /\ tails[k] \in Nat
         /\ HeadWords(processed[k]) \in Nat /\ TailWords(processed[k]) \in Nat
         /\ heads[k + 1] = heads[k] + HeadWords(processed[k])
         /\ tails[k + 1] = tails[k] + TailWords(processed[k])
         /\ heads[k] + HeadWords(processed[k]) <= headSize
         /\ tails[k] + TailWords(processed[k]) <= totalTailSize
         /\ \A j \in Args : k < j => /\ heads[k] + HeadWords(processed[k]) <= heads[j]
                                     /\ tails[k] + TailWords(processed[k]) <= tails[j]
<1>1. argCount \in Nat
  BY CallType
<1>2. Taken = argCount /\ Counted = argCount
  BY DEF Laid, Taken, Counted
<1>3. k \in 1 .. argCount /\ k + 1 \in 1 .. argCount + 1 /\ k \in 1 .. argCount + 1
  BY <1>1 DEF Args
<1>4. processed[k] \in Arg /\ ArgSound(processed[k]) /\ heads[k] \in Nat /\ tails[k] \in Nat
  BY <1>2, <1>3 DEF ReEncodeTypeOK, Args, TakenSound
<1>5. HeadWords(processed[k]) \in Nat /\ TailWords(processed[k]) \in Nat
  BY <1>4, ArgSizes DEF ArgSound
<1>6. TailSizes[k] = TailWords(processed[k]) /\ HeadSizes[k] = HeadWords(processed[k])
  BY DEF TailSizes, HeadSizes
<1>7. heads[k + 1] = heads[k] + HeadWords(processed[k])
      /\ tails[k + 1] = tails[k] + TailWords(processed[k])
  BY <1>2, <1>3, <1>6 DEF TakenSound, CountedSound, Layout
<1>8. ASSUME NEW j \in 1 .. argCount + 1, k < j
      PROVE  heads[k] + HeadWords(processed[k]) <= heads[j]
             /\ tails[k] + TailWords(processed[k]) <= tails[j]
  BY <1>2, <1>3, <1>6, <1>8 DEF TakenSound, CountedSound, Layout
<1>9. heads[argCount + 1] = headSize /\ tails[argCount + 1] = totalTailSize
  BY <1>2 DEF TakenSound, CountedSound
<1>10. argCount + 1 \in 1 .. argCount + 1 /\ k < argCount + 1
  BY <1>1, <1>3
<1>11. heads[k] + HeadWords(processed[k]) <= headSize
       /\ tails[k] + TailWords(processed[k]) <= totalTailSize
  BY <1>8, <1>9, <1>10
<1>12. \A j \in Args : j \in 1 .. argCount + 1
  BY <1>1 DEF Args
<1> QED BY <1>4, <1>5, <1>7, <1>8, <1>11, <1>12

\* No two arguments share a word, and there is room for all.
LEMMA SpotsApart ==
  ASSUME ReEncodeTypeOK, TakenSound, CountedSound, Laid, NEW j \in Args, NEW k \in Args
  PROVE  /\ Spots(k) \subseteq 0 .. headSize + totalTailSize - 1
         /\ j # k => Spots(j) \cap Spots(k) = {}
<1>1. headSize \in Nat /\ totalTailSize \in Nat
  BY DEF ReEncodeTypeOK
<1>2. /\ heads[k] \in Nat /\ tails[k] \in Nat /\ heads[j] \in Nat /\ tails[j] \in Nat
      /\ HeadWords(processed[k]) \in Nat /\ TailWords(processed[k]) \in Nat
      /\ HeadWords(processed[j]) \in Nat /\ TailWords(processed[j]) \in Nat
      /\ heads[k] + HeadWords(processed[k]) <= headSize
      /\ tails[k] + TailWords(processed[k]) <= totalTailSize
      /\ heads[j] + HeadWords(processed[j]) <= headSize
      /\ k < j => /\ heads[k] + HeadWords(processed[k]) <= heads[j]
                  /\ tails[k] + TailWords(processed[k]) <= tails[j]
      /\ j < k => /\ heads[j] + HeadWords(processed[j]) <= heads[k]
                  /\ tails[j] + TailWords(processed[j]) <= tails[k]
  BY Positions
<1>3. j # k => j < k \/ k < j
  BY CallType DEF Args
<1>4. Spots(k) \subseteq 0 .. headSize + totalTailSize - 1
  BY <1>1, <1>2 DEF Spots, HeadSpots, TailSpots
<1>5. ASSUME j # k, NEW p \in Spots(j) \cap Spots(k) PROVE FALSE
  <2>1. \/ p \in HeadSpots(j) /\ p \in HeadSpots(k)
        \/ p \in HeadSpots(j) /\ p \in TailSpots(k)
        \/ p \in TailSpots(j) /\ p \in HeadSpots(k)
        \/ p \in TailSpots(j) /\ p \in TailSpots(k)
    BY <1>5 DEF Spots
  <2> QED BY <1>1, <1>2, <1>3, <1>5, <2>1 DEF HeadSpots, TailSpots
<1> QED BY <1>4, <1>5

\* An argument stays where it is when its words are left alone.
LEMMA WrittenKept ==
  ASSUME ReEncodeTypeOK, TakenSound, CountedSound, Laid, NEW k \in Args, Written(k),
         UNCHANGED <<processed, heads, tails, headSize>>,
         \A p \in Spots(k) : recoded'[p] = recoded[p]
  PROVE  Written(k)'
<1> DEFINE arg == processed[k]
<1>1. /\ arg \in Arg /\ ArgSound(arg) /\ heads[k] \in Nat /\ tails[k] \in Nat
      /\ TailWords(arg) \in Nat /\ HeadWords(arg) \in Nat /\ headSize \in Nat
  BY Positions DEF ReEncodeTypeOK
<1>2. CASE arg.dynamic
  <2>1. heads[k] \in Spots(k)
    BY <1>1, <1>2 DEF Spots, HeadSpots, HeadWords
  <2>2. \A w \in 1 .. TailWords(arg) : headSize + tails[k] + w - 1 \in Spots(k)
    BY <1>1 DEF Spots, TailSpots
  <2> QED BY <1>2, <2>1, <2>2 DEF Written
<1>3. CASE ~arg.dynamic
  <2>1. HeadWords(arg) = Words(arg)
    BY <1>1, <1>3, ArgSizes DEF ArgSound, HeadWords
  <2>2. \A w \in 1 .. Words(arg) : heads[k] + w - 1 \in Spots(k)
    BY <1>1, <2>1 DEF Spots, HeadSpots
  <2> QED BY <1>3, <2>2 DEF Written
<1> QED BY <1>2, <1>3

-----------------------------------------------------------------------------
(* The steps.                                                              *)

LEMMA InitInv == Init => ReEncodeInv
<1> SUFFICES ASSUME Init PROVE ReEncodeInv
  OBVIOUS
<1>1. call \in MpcMethodCall
  BY ReEncodeAssumption DEF Init
<1>2. argCount \in Nat
  BY <1>1 DEF MpcMethodCall, argCount
<1>3. NoArg \in Arg
  BY DEF NoArg, Arg
<1>4. ReEncodeTypeOK
  BY <1>1, <1>2, <1>3 DEF Init, ReEncodeTypeOK
<1>5. Taken = 0 /\ Counted = 0
  BY DEF Init, Taken, Counted
<1>6. 1 \in 1 .. argCount + 1
  BY <1>2
<1>7. tails[1] = 0 /\ heads[1] = 0 /\ totalTailSize = 0 /\ headSize = 0
  BY <1>6 DEF Init
<1>8. TakenSound
  BY <1>5, <1>7 DEF TakenSound, Layout
<1>9. CountedSound
  BY <1>5, <1>7 DEF CountedSound, Layout
<1>10. FillSound /\ DecodeSound
  BY DEF Init, FillSound, DecodeSound
<1> QED BY <1>4, <1>8, <1>9, <1>10 DEF ReEncodeInv, Init

LEMMA BeginInv == ReEncodeInv /\ Begin => ReEncodeInv'
<1> SUFFICES ASSUME ReEncodeInv, Begin PROVE ReEncodeInv'
  OBVIOUS
<1>1. ReEncodeTypeOK'
  BY DEF ReEncodeInv, ReEncodeTypeOK, Begin, argCount, Args
<1>2. pc' \notin {"begin", "reverted"} => Len(call'.datalens) = argCount'
  BY DEF Begin, argCount
<1>3. ASSUME pc' = "args" PROVE TakenSound' /\ CountedSound' /\ FillSound' /\ DecodeSound'
  <2>1. TakenSound /\ CountedSound /\ FillSound /\ DecodeSound
    BY DEF ReEncodeInv, Live, Begin
  <2>2. Taken' = Taken /\ Counted' = Counted
    BY <1>3 DEF Begin, Taken, Counted, argCount
  <2>3. TakenSound' /\ CountedSound'
    BY <2>1, <2>2, SameTaken, SameCounted DEF Begin
  <2>4. FillSound' /\ DecodeSound'
    BY <1>3, <2>1 DEF Begin, FillSound, DecodeSound, Args, argCount
  <2> QED BY <2>3, <2>4
<1> QED BY <1>1, <1>2, <1>3 DEF ReEncodeInv, Begin, Live

LEMMA RefuseArgumentInv == ReEncodeInv /\ RefuseArgument => ReEncodeInv'
BY DEF ReEncodeInv, RefuseArgument, ReEncodeTypeOK, argCount, Args, Live

\* An argument more: it is sound, and its tail follows the ones before.
LEMMA TakeArgumentInv == ReEncodeInv /\ TakeArgument => ReEncodeInv'
<1> SUFFICES ASSUME ReEncodeInv, TakeArgument PROVE ReEncodeInv'
  OBVIOUS
<1>1. /\ pc = "args" /\ i <= argCount /\ i' = i + 1
      /\ UNCHANGED <<call, pc, headSize, headCursor, tailCursor, recoded, heads, at, got>>
      /\ cursor' = cursor + call.datalens[i]
      /\ call.datatypes[i] # BadType
  BY DEF TakeArgument, Loop
<1>2. PICK arg \in NormalizeArg(call.datatypes[i], call.datalens[i]) :
        /\ RequireWholeWords(arg)
        /\ processed' = [processed EXCEPT ![i] = arg]
        /\ totalTailSize' = totalTailSize + TailWords(arg)
        /\ tails' = [tails EXCEPT ![i + 1] = totalTailSize']
  BY DEF TakeArgument
<1>3. /\ ReEncodeTypeOK /\ TakenSound /\ CountedSound /\ FillSound /\ DecodeSound
      /\ Len(call.datalens) = argCount
  BY <1>1 DEF ReEncodeInv, Live
<1>4. /\ argCount \in Nat /\ i \in Nat /\ i >= 1 /\ i \in Args /\ Args = 1 .. argCount
      /\ call.datatypes[i] \in MpcDataType /\ call.datalens[i] \in Nat
  BY <1>1, <1>3, CallType DEF Args
<1>5. arg \in Arg /\ ArgSound(arg) /\ TailWords(arg) \in Nat
  BY <1>2, <1>4, Normalized, ArgSizes
<1>6. argCount' = argCount /\ Args' = Args
  BY <1>1 DEF argCount, Args
<1>7. Taken = i - 1 /\ Taken' = i /\ Counted = 0 /\ Counted' = 0
  BY <1>1, <1>4 DEF Taken, Counted
<1>8. processed' \in [Args -> Arg] /\ processed'[i] = arg
      /\ \A k \in Args \ {i} : processed'[k] = processed[k]
  BY <1>2, <1>3, <1>4, <1>5 DEF ReEncodeTypeOK
<1>9. \A k \in 1 .. Taken' : ArgSound(processed'[k])
  <2>1. ASSUME NEW k \in 1 .. i PROVE ArgSound(processed'[k])
    <3>1. CASE k = i
      BY <1>5, <1>8, <3>1
    <3>2. CASE k # i
      <4>1. k \in 1 .. i - 1 /\ k \in Args \ {i}
        BY <1>1, <1>4, <3>2
      <4> QED BY <1>3, <1>7, <1>8, <4>1 DEF TakenSound
    <3> QED BY <3>1, <3>2
  <2> QED BY <1>7, <2>1
<1>10. /\ tails' \in [1 .. argCount + 1 -> Nat]
       /\ Layout(tails', TailSizes', i)
       /\ tails'[i + 1] = totalTailSize'
  <2>1. i - 1 \in Nat /\ i - 1 < argCount
    BY <1>1, <1>4
  <2>2. tails \in [1 .. argCount + 1 -> Nat] /\ Layout(tails, TailSizes, i - 1)
    BY <1>3, <1>7 DEF ReEncodeTypeOK, TakenSound
  <2>3. TailSizes' = [k \in Args |-> TailWords(processed'[k])]
    BY <1>6 DEF TailSizes
  <2>4. ASSUME NEW k \in 1 .. i - 1
        PROVE  TailSizes[k] \in Nat /\ TailSizes'[k] = TailSizes[k]
    <3>1. k \in Args /\ k # i
      BY <1>1, <1>4
    <3>2. processed[k] \in Arg /\ ArgSound(processed[k])
      BY <1>3, <1>7, <3>1 DEF ReEncodeTypeOK, TakenSound
    <3>3. TailWords(processed[k]) \in Nat
      BY <3>2, ArgSizes DEF ArgSound
    <3> QED BY <1>8, <2>3, <3>1, <3>3 DEF TailSizes
  <2>5. TailSizes'[i] = TailWords(arg)
    BY <1>4, <1>8, <2>3
  <2>6. totalTailSize = tails[i]
    BY <1>3, <1>4, <1>7 DEF TakenSound
  <2> DEFINE m == i - 1
             sizes == TailSizes'
  <2>7. m \in Nat /\ m < argCount /\ m + 1 = i /\ m + 2 = i + 1
    BY <1>4, <2>1
  <2>8. sizes[m + 1] \in Nat /\ tails' = [tails EXCEPT ![m + 2] = tails[m + 1] + sizes[m + 1]]
    BY <1>2, <1>5, <2>5, <2>6, <2>7
  <2>9. \A k \in 1 .. m : TailSizes[k] \in Nat /\ sizes[k] = TailSizes[k]
    BY <2>4
  <2>10. Layout(tails, TailSizes, m)
    BY <2>2
  <2> HIDE DEF m, sizes
  <2>12. Grows(argCount, m, tails, TailSizes, sizes, tails')
    BY <1>4, <2>2, <2>7, <2>8, <2>9, <2>10 DEF Grows
  <2>11. /\ tails' \in [1 .. argCount + 1 -> Nat]
         /\ Layout(tails', sizes, m + 1)
         /\ tails'[m + 2] = tails[m + 1] + sizes[m + 1]
    BY <2>12, LayoutGrows
  <2> QED BY <1>2, <1>5, <2>5, <2>6, <2>7, <2>11 DEF sizes
<1>11. TakenSound'
  BY <1>7, <1>9, <1>10 DEF TakenSound
<1>12. CountedSound'
  <2>1. heads' = heads /\ headSize' = headSize
    BY <1>1
  <2> QED BY <1>3, <1>7, <2>1 DEF CountedSound, Layout
<1>13. FillSound' /\ DecodeSound'
  BY <1>1, <1>3, <1>6 DEF FillSound, DecodeSound
<1>14. ReEncodeTypeOK'
  <2>3. totalTailSize \in Nat /\ cursor \in Nat
    BY <1>3 DEF ReEncodeTypeOK
  <2>1. totalTailSize' \in Nat /\ cursor' \in Nat
    BY <1>1, <1>2, <1>4, <1>5, <2>3
  <2>2. i' \in 1 .. argCount' + 1
    BY <1>1, <1>4, <1>6
  <2> QED BY <1>1, <1>3, <1>6, <1>8, <1>10, <2>1, <2>2 DEF ReEncodeTypeOK
<1> QED BY <1>1, <1>3, <1>6, <1>11, <1>12, <1>13, <1>14 DEF ReEncodeInv

LEMMA EndArgumentsInv == ReEncodeInv /\ EndArguments => ReEncodeInv'
<1> SUFFICES ASSUME ReEncodeInv, EndArguments PROVE ReEncodeInv'
  OBVIOUS
<1>1. ReEncodeTypeOK /\ TakenSound /\ CountedSound /\ FillSound /\ DecodeSound
  BY DEF ReEncodeInv, Live, EndArguments, LoopEnds
<1>2. argCount \in Nat /\ argCount' = argCount /\ Args' = Args
  BY <1>1, CallType DEF EndArguments, argCount, Args
<1>3. ReEncodeTypeOK'
  BY <1>1, <1>2 DEF ReEncodeTypeOK, EndArguments
<1>4. pc' \notin {"begin", "reverted"} => Len(call'.datalens) = argCount'
  BY <1>2 DEF EndArguments, LoopEnds, ReEncodeInv
<1>5. ASSUME pc' = "heads" PROVE TakenSound' /\ CountedSound' /\ FillSound' /\ DecodeSound'
  <2>1. Taken' = Taken /\ Counted' = Counted
    BY <1>2, <1>5 DEF EndArguments, LoopEnds, Taken, Counted
  <2>2. TakenSound' /\ CountedSound'
    BY <1>1, <2>1, SameTaken, SameCounted DEF EndArguments
  <2>3. FillSound' /\ DecodeSound'
    BY <1>1, <1>2, <1>5 DEF EndArguments, LoopEnds, FillSound, DecodeSound
  <2> QED BY <2>2, <2>3
<1> QED BY <1>3, <1>4, <1>5 DEF ReEncodeInv, EndArguments, Live

\* A head more, after the ones before.
LEMMA CountHeadInv == ReEncodeInv /\ CountHead => ReEncodeInv'
<1> SUFFICES ASSUME ReEncodeInv, CountHead PROVE ReEncodeInv'
  OBVIOUS
<1>1. /\ pc = "heads" /\ i <= argCount /\ i' = i + 1
      /\ headSize' = headSize + HeadWords(processed[i])
      /\ heads' = [heads EXCEPT ![i + 1] = headSize']
      /\ UNCHANGED <<call, pc, cursor, processed, totalTailSize, headCursor, tailCursor,
                     recoded, tails, at, got>>
  BY DEF CountHead, Loop
<1>2. /\ ReEncodeTypeOK /\ TakenSound /\ CountedSound /\ FillSound /\ DecodeSound
      /\ Len(call.datalens) = argCount
  BY <1>1 DEF ReEncodeInv, Live
<1>3. /\ argCount \in Nat /\ i \in Nat /\ i >= 1 /\ i \in Args /\ Args = 1 .. argCount
  BY <1>1, <1>2, CallType DEF Args
<1>4. argCount' = argCount /\ Args' = Args
  BY <1>1 DEF argCount, Args
<1>5. Taken' = Taken /\ Counted = i - 1 /\ Counted' = i
  BY <1>1, <1>3, <1>4 DEF Taken, Counted
<1>6. \A k \in Args : HeadWords(processed[k]) \in Nat
  BY <1>2, ArgSizes DEF ReEncodeTypeOK
<1>7. HeadSizes' = HeadSizes /\ \A k \in Args : HeadSizes[k] = HeadWords(processed[k])
  BY <1>1, <1>4 DEF HeadSizes
<1>8. /\ heads' \in [1 .. argCount + 1 -> Nat]
      /\ Layout(heads', HeadSizes', i)
      /\ heads'[i + 1] = headSize'
  <2> DEFINE m == i - 1
  <2>1. m \in Nat /\ m < argCount /\ m + 1 = i /\ m + 2 = i + 1
    BY <1>1, <1>3
  <2>2. heads \in [1 .. argCount + 1 -> Nat] /\ Layout(heads, HeadSizes, m)
    BY <1>2, <1>5 DEF ReEncodeTypeOK, CountedSound
  <2>3. headSize = heads[m + 1]
    BY <1>2, <1>3, <1>5 DEF CountedSound
  <2>4. \A k \in 1 .. m + 1 : HeadSizes[k] \in Nat
    BY <1>1, <1>3, <1>6, <1>7
  <2>5. HeadSizes[m + 1] = HeadWords(processed[i])
    BY <1>3, <1>7, <2>1
  <2>6. heads' = [heads EXCEPT ![m + 2] = heads[m + 1] + HeadSizes[m + 1]]
    BY <1>1, <2>1, <2>3, <2>5
  <2>7. m + 1 \in 1 .. m + 1 /\ \A k \in 1 .. m : k \in 1 .. m + 1
    BY <2>1
  <2> HIDE DEF m
  <2>9. Grows(argCount, m, heads, HeadSizes, HeadSizes, heads')
    BY <1>3, <2>1, <2>2, <2>4, <2>6, <2>7 DEF Grows
  <2>8. /\ heads' \in [1 .. argCount + 1 -> Nat]
        /\ Layout(heads', HeadSizes, m + 1)
        /\ heads'[m + 2] = heads[m + 1] + HeadSizes[m + 1]
    BY <2>9, LayoutGrows
  <2> QED BY <1>1, <1>7, <2>1, <2>3, <2>5, <2>8
<1>9. TakenSound'
  BY <1>1, <1>2, <1>5, SameTaken
<1>10. CountedSound'
  BY <1>5, <1>8 DEF CountedSound
<1>11. FillSound' /\ DecodeSound'
  BY <1>1, <1>2, <1>4 DEF FillSound, DecodeSound
<1>12. ReEncodeTypeOK'
  <2>3. headSize \in Nat /\ HeadWords(processed[i]) \in Nat
    BY <1>2, <1>3, <1>6 DEF ReEncodeTypeOK
  <2>1. headSize' \in Nat
    BY <1>1, <2>3
  <2>2. i' \in 1 .. argCount' + 1
    BY <1>1, <1>3, <1>4
  <2> QED BY <1>1, <1>2, <1>4, <1>8, <2>1, <2>2 DEF ReEncodeTypeOK
<1> QED BY <1>1, <1>2, <1>4, <1>9, <1>10, <1>11, <1>12 DEF ReEncodeInv

LEMMA AllocateInv == ReEncodeInv /\ Allocate => ReEncodeInv'
<1> SUFFICES ASSUME ReEncodeInv, Allocate PROVE ReEncodeInv'
  OBVIOUS
<1>1. /\ pc = "heads" /\ i = argCount + 1 /\ i' = 1 /\ pc' = "fill"
      /\ recoded' = [w \in 0 .. headSize + totalTailSize - 1 |-> Number(0)]
      /\ UNCHANGED <<call, cursor, processed, totalTailSize, headSize, headCursor,
                     tailCursor, tails, heads, at, got>>
  BY DEF Allocate, LoopEnds
<1>2. /\ ReEncodeTypeOK /\ TakenSound /\ CountedSound /\ FillSound /\ DecodeSound
      /\ Len(call.datalens) = argCount
  BY <1>1 DEF ReEncodeInv, Live
<1>3. argCount \in Nat /\ argCount' = argCount /\ Args' = Args
  BY <1>1, <1>2, CallType DEF argCount, Args
<1>4. ReEncodeTypeOK'
  BY <1>1, <1>2, <1>3 DEF ReEncodeTypeOK
<1>5. Taken' = Taken /\ Counted' = Counted
  BY <1>1, <1>3 DEF Taken, Counted
<1>6. TakenSound' /\ CountedSound'
  BY <1>1, <1>2, <1>5, SameTaken, SameCounted
<1>7. heads[1] = 0 /\ tails[1] = 0
  BY <1>2 DEF TakenSound, CountedSound, Layout
<1>8. FillSound'
  BY <1>1, <1>2, <1>7 DEF FillSound, Allocated
<1>9. DecodeSound'
  BY <1>1, <1>2, <1>3 DEF DecodeSound
<1> QED BY <1>1, <1>2, <1>3, <1>4, <1>6, <1>8, <1>9 DEF ReEncodeInv

\* While arguments are written or decoded.
LEMMA Laying ==
  ASSUME ReEncodeInv, Laid, i <= argCount
  PROVE  /\ ReEncodeTypeOK /\ TakenSound /\ CountedSound /\ FillSound /\ DecodeSound
         /\ Len(call.datalens) = argCount
         /\ argCount \in Nat /\ Args = 1 .. argCount
         /\ i \in Nat /\ i \in Args /\ i + 1 \in 1 .. argCount + 1
<1>1. /\ ReEncodeTypeOK /\ TakenSound /\ CountedSound /\ FillSound /\ DecodeSound
      /\ Len(call.datalens) = argCount
  BY DEF ReEncodeInv, Live, Laid
<1>2. argCount \in Nat /\ i \in Nat /\ i >= 1
  BY <1>1, CallType
<1> QED BY <1>1, <1>2 DEF Args

\* An argument written in its own words, and nowhere else.
LEMMA FilledInv ==
  ASSUME ReEncodeInv, pc = "fill", i <= argCount, NEW n, n = i, i' = i + 1,
         UNCHANGED <<call, pc, cursor, processed, totalTailSize, headSize, tails, heads,
                     at, got>>,
         headCursor' = headCursor + HeadWords(processed[n]),
         tailCursor' = tailCursor + TailWords(processed[n]),
         DOMAIN recoded' = DOMAIN recoded,
         \A p \in DOMAIN recoded \ Spots(n) : recoded'[p] = recoded[p],
         Written(n)'
  PROVE  ReEncodeInv'
<1>1. Laid
  BY DEF Laid
<1>2. /\ ReEncodeTypeOK /\ TakenSound /\ CountedSound /\ FillSound /\ DecodeSound
      /\ Len(call.datalens) = argCount
      /\ argCount \in Nat /\ Args = 1 .. argCount
      /\ n \in Nat /\ n \in Args /\ n + 1 \in 1 .. argCount + 1
  BY <1>1, Laying
<1>3. argCount' = argCount /\ Args' = Args
  BY DEF argCount, Args
<1>4. /\ heads[n + 1] = headCursor' /\ tails[n + 1] = tailCursor'
      /\ headCursor' \in Nat /\ tailCursor' \in Nat
  <2>1. headCursor = heads[n] /\ tailCursor = tails[n]
    BY <1>2 DEF FillSound
  <2>2. /\ heads[n] \in Nat /\ tails[n] \in Nat
        /\ HeadWords(processed[n]) \in Nat /\ TailWords(processed[n]) \in Nat
        /\ heads[n + 1] = heads[n] + HeadWords(processed[n])
        /\ tails[n + 1] = tails[n] + TailWords(processed[n])
    BY <1>1, <1>2, Positions
  <2> QED BY <2>1, <2>2
<1>5. ReEncodeTypeOK'
  BY <1>2, <1>3, <1>4 DEF ReEncodeTypeOK
<1>6. TakenSound' /\ CountedSound'
  <2>1. Taken' = Taken /\ Counted' = Counted
    BY <1>3 DEF Taken, Counted
  <2> QED BY <1>2, <2>1, SameTaken, SameCounted
<1>7. ASSUME NEW k \in 1 .. n - 1 PROVE Written(k)'
  <2>1. k \in Args /\ k # n /\ Written(k)
    BY <1>2 DEF FillSound
  <2>2. Spots(k) \subseteq DOMAIN recoded \ Spots(n)
    <3>1. Spots(k) \subseteq 0 .. headSize + totalTailSize - 1 /\ Spots(n) \cap Spots(k) = {}
      BY <1>1, <1>2, <2>1, SpotsApart
    <3> QED BY <1>2, <3>1 DEF FillSound, Allocated
  <2>3. \A p \in Spots(k) : recoded'[p] = recoded[p]
    BY <2>2
  <2> QED BY <1>1, <1>2, <2>1, <2>3, WrittenKept
<1>8. FillSound'
  <2>1. Allocated'
    BY <1>2 DEF FillSound, Allocated
  <2>2. i' - 1 = n
    BY <1>2
  <2>3. \A k \in 1 .. n : Written(k)'
    <3>1. \A k \in 1 .. n : k = n \/ k \in 1 .. n - 1
      BY <1>2
    <3> QED BY <1>7, <3>1
  <2>4. \A k \in 1 .. i' - 1 : Written(k)'
    BY <2>2, <2>3
  <2> QED BY <1>4, <2>1, <2>4 DEF FillSound
<1>9. DecodeSound'
  BY <1>2, <1>3 DEF DecodeSound
<1> QED BY <1>2, <1>3, <1>5, <1>6, <1>8, <1>9 DEF ReEncodeInv

LEMMA FillStaticInv == ReEncodeInv /\ FillStatic => ReEncodeInv'
<1> SUFFICES ASSUME ReEncodeInv, FillStatic, NEW n, n = i PROVE ReEncodeInv'
  OBVIOUS
<1> DEFINE arg == processed[n]
<1>1. /\ pc = "fill" /\ i <= argCount /\ ~arg.dynamic
      /\ recoded' = CopyWords(recoded, headCursor, n, 1, Words(arg))
      /\ headCursor' = headCursor + HeadWritten(arg)
      /\ i' = i + 1
      /\ UNCHANGED <<call, pc, cursor, processed, totalTailSize, headSize, tailCursor,
                     tails, heads, at, got>>
  BY DEF FillStatic, Loop
<1>2. Laid
  BY <1>1 DEF Laid
<1>3. /\ ReEncodeTypeOK /\ TakenSound /\ CountedSound /\ FillSound /\ n \in Args
      /\ headCursor = heads[n] /\ tailCursor = tails[n] /\ Allocated
  BY <1>1, <1>2, Laying DEF FillSound
<1>4. /\ arg \in Arg /\ ArgSound(arg) /\ heads[n] \in Nat /\ tails[n] \in Nat
      /\ HeadWords(arg) \in Nat
  BY <1>2, <1>3, Positions
<1>5. TailWords(arg) = 0 /\ HeadWords(arg) = Words(arg) /\ HeadWritten(arg) = HeadWords(arg)
  BY <1>1, <1>4, ArgSizes DEF ArgSound, TailWords, HeadWords, HeadWritten
<1>6. HeadSpots(n) = heads[n] .. heads[n] + Words(arg) - 1
      /\ HeadSpots(n) \subseteq DOMAIN recoded
  <2>1. Spots(n) \subseteq 0 .. headSize + totalTailSize - 1
    BY <1>2, <1>3, SpotsApart
  <2> QED BY <1>3, <1>5, <2>1 DEF Spots, HeadSpots, Allocated
<1>7. recoded' = [p \in DOMAIN recoded |-> IF p \in HeadSpots(n)
                                           THEN Data(n, 1 + p - heads[n]) ELSE recoded[p]]
  BY <1>1, <1>3, <1>6 DEF CopyWords
<1>8. Written(n)'
  <2>1. ASSUME NEW w \in 1 .. Words(arg) PROVE recoded'[heads[n] + w - 1] = Data(n, w)
    <3>1. Words(arg) \in Nat
      BY <1>4, <1>5
    <3>2. heads[n] + w - 1 \in HeadSpots(n) /\ 1 + (heads[n] + w - 1) - heads[n] = w
      BY <1>4, <1>6, <3>1
    <3> QED BY <1>6, <1>7, <3>2
  <2> QED BY <1>1, <2>1 DEF Written
<1>9. DOMAIN recoded' = DOMAIN recoded
      /\ \A p \in DOMAIN recoded \ Spots(n) : recoded'[p] = recoded[p]
  BY <1>7 DEF Spots
<1>10. tailCursor' = tailCursor + TailWords(arg)
  BY <1>1, <1>3, <1>4, <1>5
<1> QED BY <1>1, <1>5, <1>8, <1>9, <1>10, FilledInv

LEMMA FillDynamicInv == ReEncodeInv /\ FillDynamic => ReEncodeInv'
<1> SUFFICES ASSUME ReEncodeInv, FillDynamic, NEW n, n = i PROVE ReEncodeInv'
  OBVIOUS
<1> DEFINE arg == processed[n]
           head == [p \in DOMAIN recoded |-> IF p = headCursor THEN Number(Offset)
                                             ELSE recoded[p]]
<1>1. /\ pc = "fill" /\ i <= argCount /\ arg.dynamic
      /\ recoded' = CopyWords(head, Offset, n, 2, TailWords(arg))
      /\ tailCursor' = tailCursor + TailWords(arg)
      /\ headCursor' = headCursor + HeadWritten(arg)
      /\ i' = i + 1
      /\ UNCHANGED <<call, pc, cursor, processed, totalTailSize, headSize, tails, heads,
                     at, got>>
  BY DEF FillDynamic, Loop
<1>2. Laid
  BY <1>1 DEF Laid
<1>3. /\ ReEncodeTypeOK /\ TakenSound /\ CountedSound /\ FillSound /\ n \in Args
      /\ headCursor = heads[n] /\ tailCursor = tails[n] /\ Allocated
  BY <1>1, <1>2, Laying DEF FillSound
<1>4. /\ heads[n] \in Nat /\ tails[n] \in Nat /\ headSize \in Nat /\ totalTailSize \in Nat
      /\ TailWords(arg) \in Nat
      /\ heads[n] + HeadWords(arg) <= headSize
  BY <1>2, <1>3, Positions DEF ReEncodeTypeOK
<1>5. HeadWords(arg) = 1 /\ HeadWritten(arg) = 1
  BY <1>1 DEF HeadWords, HeadWritten
<1>6. /\ TailSpots(n) \subseteq DOMAIN recoded
      /\ heads[n] \in DOMAIN recoded /\ heads[n] \in Spots(n) /\ heads[n] \notin TailSpots(n)
  <2>1. Spots(n) \subseteq 0 .. headSize + totalTailSize - 1
    BY <1>2, <1>3, SpotsApart
  <2>2. heads[n] \in HeadSpots(n)
    BY <1>4, <1>5 DEF HeadSpots
  <2>3. heads[n] \notin TailSpots(n)
    BY <1>4, <1>5 DEF TailSpots
  <2> QED BY <1>3, <2>1, <2>2, <2>3 DEF Spots, Allocated
<1>7. recoded' = [p \in DOMAIN recoded |->
                    IF p \in TailSpots(n) THEN Data(n, 2 + p - (headSize + tails[n]))
                    ELSE IF p = heads[n] THEN Number(headSize + tails[n]) ELSE recoded[p]]
  BY <1>1, <1>3 DEF CopyWords, TailSpots, Offset
<1>8. Written(n)'
  <2>1. recoded'[heads[n]] = Number(headSize + tails[n])
    BY <1>6, <1>7
  <2>2. ASSUME NEW w \in 1 .. TailWords(arg)
        PROVE  recoded'[headSize + tails[n] + w - 1] = Data(n, w + 1)
    <3>1. /\ headSize + tails[n] + w - 1 \in TailSpots(n)
          /\ 2 + (headSize + tails[n] + w - 1) - (headSize + tails[n]) = w + 1
      BY <1>4 DEF TailSpots
    <3> QED BY <1>6, <1>7, <3>1
  <2>3. TailWords(arg') = TailWords(arg)
    BY <1>1
  <2> QED BY <1>1, <2>1, <2>2, <2>3 DEF Written
<1>9. DOMAIN recoded' = DOMAIN recoded
      /\ \A p \in DOMAIN recoded \ Spots(n) : recoded'[p] = recoded[p]
  BY <1>6, <1>7 DEF Spots
<1>10. headCursor' = headCursor + HeadWords(arg)
  BY <1>1, <1>5
<1> QED BY <1>1, <1>8, <1>9, <1>10, FilledInv

\* There is room.
LEMMA AlwaysRoom == ReEncodeInv /\ Loop("fill") => HasRoom
<1> SUFFICES ASSUME ReEncodeInv, Loop("fill"), NEW n, n = i PROVE HasRoom
  OBVIOUS
<1> DEFINE arg == processed[n]
<1>1. pc = "fill" /\ i <= argCount
  BY DEF Loop
<1>2. Laid
  BY <1>1 DEF Laid
<1>3. /\ ReEncodeTypeOK /\ TakenSound /\ CountedSound /\ n \in Args
      /\ headCursor = heads[n] /\ tailCursor = tails[n]
  BY <1>1, <1>2, Laying DEF FillSound
<1>4. /\ arg \in Arg /\ ArgSound(arg) /\ heads[n] \in Nat /\ tails[n] \in Nat
      /\ headSize \in Nat /\ totalTailSize \in Nat
      /\ HeadWords(arg) \in Nat /\ TailWords(arg) \in Nat
      /\ heads[n] + HeadWords(arg) <= headSize
      /\ tails[n] + TailWords(arg) <= totalTailSize
  BY <1>2, <1>3, Positions DEF ReEncodeTypeOK
<1>5. CASE arg.dynamic
  BY <1>3, <1>4, <1>5 DEF HasRoom, Fits, Offset
<1>6. CASE ~arg.dynamic
  <2>1. HeadWords(arg) = Words(arg)
    BY <1>4, <1>6, ArgSizes DEF ArgSound, HeadWords
  <2> QED BY <1>3, <1>4, <1>6, <2>1 DEF HasRoom, Fits
<1> QED BY <1>5, <1>6

LEMMA ReturnInv == ReEncodeInv /\ Return => ReEncodeInv'
<1> SUFFICES ASSUME ReEncodeInv, Return PROVE ReEncodeInv'
  OBVIOUS
<1>1. /\ pc = "fill" /\ i = argCount + 1 /\ pc' = "returned" /\ i' = 1
      /\ UNCHANGED <<call, cursor, processed, totalTailSize, headSize, headCursor,
                     tailCursor, recoded, tails, heads, at, got>>
  BY DEF Return, LoopEnds
<1>2. /\ ReEncodeTypeOK /\ TakenSound /\ CountedSound /\ FillSound /\ DecodeSound
      /\ Len(call.datalens) = argCount
  BY <1>1 DEF ReEncodeInv, Live
<1>3. argCount \in Nat /\ argCount' = argCount /\ Args' = Args /\ Args = 1 .. i - 1
  BY <1>1, <1>2, CallType DEF argCount, Args
<1>4. ReEncodeTypeOK'
  BY <1>1, <1>2, <1>3 DEF ReEncodeTypeOK
<1>5. TakenSound' /\ CountedSound'
  <2>1. Taken' = Taken /\ Counted' = Counted
    BY <1>1, <1>3 DEF Taken, Counted
  <2> QED BY <1>1, <1>2, <2>1, SameTaken, SameCounted
<1>6. ASSUME NEW k \in Args PROVE Written(k)'
  BY <1>1, <1>2, <1>3, SameWritten DEF FillSound
<1>7. DecodeSound'
  <2>1. Allocated' /\ heads'[i'] = at'
    BY <1>1, <1>2 DEF FillSound, DecodeSound, CountedSound, Layout, Allocated
  <2> QED BY <1>1, <1>2, <1>3, <1>6, <2>1 DEF DecodeSound
<1>8. FillSound'
  BY <1>1 DEF FillSound
<1> QED BY <1>1, <1>2, <1>3, <1>4, <1>5, <1>7, <1>8 DEF ReEncodeInv

LEMMA DecodeArgumentInv == ReEncodeInv /\ DecodeArgument => ReEncodeInv'
<1> SUFFICES ASSUME ReEncodeInv, DecodeArgument, NEW n, n = i PROVE ReEncodeInv'
  OBVIOUS
<1> DEFINE arg == processed[n]
           begin == IF arg.dynamic THEN CallDataLoad(at).word ELSE at
           reads == IF arg.dynamic THEN arg.reads ELSE HeadWords(arg)
           read == [w \in 1 .. reads |-> CallDataLoad(begin + w - 1)]
<1>1. /\ pc = "returned" /\ i <= argCount
      /\ got' = [got EXCEPT ![n] = read]
      /\ at' = at + HeadWords(arg)
      /\ i' = i + 1
      /\ UNCHANGED <<call, pc, cursor, processed, totalTailSize, headSize, headCursor,
                     tailCursor, recoded, tails, heads>>
  BY DEF DecodeArgument, Loop
<1>2. Laid
  BY <1>1 DEF Laid
<1>3. /\ ReEncodeTypeOK /\ TakenSound /\ CountedSound /\ FillSound /\ DecodeSound
      /\ Len(call.datalens) = argCount
      /\ argCount \in Nat /\ Args = 1 .. argCount
      /\ n \in Nat /\ n \in Args /\ n + 1 \in 1 .. argCount + 1
  BY <1>1, <1>2, Laying
<1>4. /\ at = heads[n] /\ Allocated /\ Written(n) /\ DOMAIN got = Args
      /\ \A k \in 1 .. n - 1 : got[k] = Expected(k)
  BY <1>1, <1>3 DEF DecodeSound
<1>5. argCount' = argCount /\ Args' = Args
  BY <1>1 DEF argCount, Args
<1>6. /\ arg \in Arg /\ ArgSound(arg) /\ heads[n] \in Nat /\ tails[n] \in Nat
      /\ headSize \in Nat /\ HeadWords(arg) \in Nat /\ TailWords(arg) \in Nat
      /\ heads[n + 1] = heads[n] + HeadWords(arg)
  BY <1>2, <1>3, Positions DEF ReEncodeTypeOK
<1>7. Spots(n) \subseteq DOMAIN recoded
  BY <1>2, <1>3, <1>4, SpotsApart DEF Allocated
<1>8. read = Expected(n)
  <2>1. CASE arg.dynamic
    <3>1. heads[n] \in DOMAIN recoded
      BY <1>6, <1>7, <2>1 DEF Spots, HeadSpots, HeadWords
    <3>2. recoded[heads[n]] = Number(headSize + tails[n])
      BY <1>4, <2>1 DEF Written
    <3>3. begin = headSize + tails[n]
      BY <1>4, <2>1, <3>1, <3>2 DEF CallDataLoad, Number
    <3>4. reads = Words(arg) - 1 /\ TailWords(arg) = Words(arg) - 1
      BY <1>6, <2>1 DEF ArgSound, TailWords
    <3>5. ASSUME NEW w \in 1 .. TailWords(arg)
          PROVE  CallDataLoad(headSize + tails[n] + w - 1) = Data(n, w + 1)
      <4>1. headSize + tails[n] + w - 1 \in DOMAIN recoded
        BY <1>6, <1>7 DEF Spots, TailSpots
      <4>2. recoded[headSize + tails[n] + w - 1] = Data(n, w + 1)
        BY <1>4, <2>1 DEF Written
      <4> QED BY <4>1, <4>2 DEF CallDataLoad
    <3>6. read = [w \in 1 .. TailWords(arg) |-> CallDataLoad(headSize + tails[n] + w - 1)]
      BY <3>3, <3>4
    <3>7. Expected(n) = [w \in 1 .. TailWords(arg) |-> Data(n, w + 1)]
      BY <2>1, <3>4 DEF Expected
    <3> QED BY <3>5, <3>6, <3>7
  <2>2. CASE ~arg.dynamic
    <3>1. HeadWords(arg) = Words(arg) /\ reads = Words(arg) /\ begin = heads[n]
      BY <1>4, <1>6, <2>2, ArgSizes DEF ArgSound, HeadWords
    <3>2. ASSUME NEW w \in 1 .. Words(arg)
          PROVE  CallDataLoad(heads[n] + w - 1) = Data(n, w)
      <4>1. heads[n] + w - 1 \in DOMAIN recoded
        BY <1>6, <1>7, <3>1 DEF Spots, HeadSpots
      <4>2. recoded[heads[n] + w - 1] = Data(n, w)
        BY <1>4, <2>2 DEF Written
      <4> QED BY <4>1, <4>2 DEF CallDataLoad
    <3>3. read = [w \in 1 .. Words(arg) |-> CallDataLoad(heads[n] + w - 1)]
      BY <3>1
    <3>4. Expected(n) = [w \in 1 .. Words(arg) |-> Data(n, w)]
      BY <2>2 DEF Expected
    <3> QED BY <3>2, <3>3, <3>4
  <2> QED BY <2>1, <2>2
<1> HIDE DEF read
<1>9. \A k \in 1 .. n : got'[k] = Expected(k)'
  <2>1. ASSUME NEW k \in 1 .. n PROVE got'[k] = Expected(k)
    <3>1. CASE k = n
      BY <1>1, <1>3, <1>4, <1>8, <3>1
    <3>2. CASE k # n
      <4>1. k \in 1 .. n - 1 /\ k \in Args
        BY <1>3, <3>2
      <4> QED BY <1>1, <1>4, <3>2, <4>1
    <3> QED BY <3>1, <3>2
  <2>2. ASSUME NEW k \in 1 .. n PROVE Expected(k)' = Expected(k)
    BY <1>1 DEF Expected
  <2> QED BY <2>1, <2>2
<1>10. ReEncodeTypeOK'
  <2>1. at' \in Nat /\ i' \in 1 .. argCount' + 1
    BY <1>1, <1>3, <1>4, <1>5, <1>6
  <2> QED BY <1>1, <1>3, <1>5, <2>1 DEF ReEncodeTypeOK
<1>11. TakenSound' /\ CountedSound'
  <2>1. Taken' = Taken /\ Counted' = Counted
    BY <1>1, <1>5 DEF Taken, Counted
  <2> QED BY <1>1, <1>3, <2>1, SameTaken, SameCounted
<1>12. DecodeSound'
  <2>1. \A k \in Args : Written(k)
    BY <1>1, <1>3 DEF DecodeSound
  <2>2. ASSUME NEW k \in Args PROVE Written(k)'
    BY <1>1, <2>1, SameWritten
  <2>3. Allocated' /\ DOMAIN got' = Args /\ heads'[i'] = at'
    BY <1>1, <1>4, <1>6 DEF Allocated
  <2>4. i' - 1 = n
    BY <1>1, <1>3
  <2>5. \A k \in 1 .. i' - 1 : got'[k] = Expected(k)'
    BY <1>9, <2>4
  <2> QED BY <1>1, <1>5, <2>2, <2>3, <2>5 DEF DecodeSound
<1>13. FillSound'
  BY <1>1, <1>3 DEF FillSound
<1> QED BY <1>1, <1>3, <1>5, <1>10, <1>11, <1>12, <1>13 DEF ReEncodeInv

LEMMA StutterInv == ReEncodeInv /\ UNCHANGED vars => ReEncodeInv'
<1> SUFFICES ASSUME ReEncodeInv, UNCHANGED vars PROVE ReEncodeInv'
  OBVIOUS
<1>1. argCount' = argCount /\ Args' = Args
  BY DEF vars, argCount, Args
<1>2. Taken' = Taken /\ Counted' = Counted
  BY <1>1 DEF vars, Taken, Counted
<1>3. ReEncodeTypeOK'
  BY <1>1 DEF vars, ReEncodeInv, ReEncodeTypeOK
<1>4. ASSUME Live PROVE TakenSound' /\ CountedSound'
  BY <1>2, <1>4, SameTaken, SameCounted DEF vars, ReEncodeInv
<1>5. ASSUME NEW k, Written(k) PROVE Written(k)'
  BY <1>5, SameWritten DEF vars
<1>6. ASSUME NEW k PROVE Expected(k)' = Expected(k)
  BY DEF vars, Expected
<1>7. Allocated' = Allocated
  BY DEF vars, Allocated
<1>8. ASSUME Live PROVE FillSound'
  BY <1>5, <1>7, <1>8 DEF vars, ReEncodeInv, FillSound
<1>9. ASSUME Live PROVE DecodeSound'
  BY <1>1, <1>5, <1>6, <1>7, <1>9 DEF vars, ReEncodeInv, DecodeSound
<1> QED BY <1>1, <1>3, <1>4, <1>8, <1>9 DEF vars, ReEncodeInv, Live

-----------------------------------------------------------------------------
(* The theorems.                                                           *)

LEMMA NextInv == ReEncodeInv /\ [Next]_vars => ReEncodeInv'
BY BeginInv, TakeArgumentInv, RefuseArgumentInv, EndArgumentsInv, CountHeadInv, AllocateInv,
   FillStaticInv, FillDynamicInv, ReturnInv, DecodeArgumentInv, StutterInv
   DEF Next

LEMMA ReEncodeInvariant == Spec => []ReEncodeInv
BY InitInv, NextInv, PTL DEF Spec

\* The cursors of the loops and the histories stay natural, the arguments typed.
THEOREM ReEncodeTypeCorrect == Spec => []ReEncodeTypeOK
<1>1. ReEncodeInv => ReEncodeTypeOK
  BY DEF ReEncodeInv
<1> QED BY <1>1, ReEncodeInvariant, PTL

\* For any list of arguments, whatever their widths and contents: a call that
\* passes the checks is laid out in the room allocated for it, and the called
\* function decodes of every argument all its words, and no other words.
THEOREM CalleeGetsAll == Spec => []CalleeGetsArguments
<1>1. ReEncodeInv => CalleeGetsArguments
  BY AlwaysRoom DEF ReEncodeInv, CalleeGetsArguments, Live, DecodeSound
<1> QED BY <1>1, ReEncodeInvariant, PTL

=============================================================================

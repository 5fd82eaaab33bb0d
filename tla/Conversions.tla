------------------------------ MODULE Conversions ------------------------------
(***************************************************************************)
(* Conversions between the guest's representation and the bridge's, each   *)
(* with what it has to be: JNI signatures and the words of a call          *)
(* (bridges/jni/descriptor.c, native_call.c), strings (runtime/string.c),  *)
(* rows of pixels (bridges/opengl/pixel_store.c), and sizes of textures    *)
(* (bridges/cocos2dx/texture_size.c).                                      *)
(***************************************************************************)
EXTENDS Integers, Sequences, FiniteSets
LOCAL INSTANCE SequencesExt
LOCAL INSTANCE FiniteSetsExt

CONSTANTS
  MaxArgs, MaxSlots,  \* JNI_MAX_CALL_ARGS and 255, scaled down
  MaxDims             \* 255, scaled down

At(s, i) == IF i \in 1..Len(s) THEN s[i] ELSE ""
Wide == {"J", "D"}
Narrow == {"Z", "B", "C", "S", "I", "F"}

-----------------------------------------------------------------------------
\* __parse_type at a position of a signature: the type, and where it ends, or 0.
Fails == [type |-> "", end |-> 0]
ParseType(text, from, void) ==
  LET i == CHOOSE k \in from..Len(text) + 1 : At(text, k) # "[" /\ \A j \in from..k - 1 : text[j] = "["
      dims == i - from
      closes == {k \in i + 1..Len(text) : text[k] = ";" /\ \A j \in i + 1..k - 1 : text[j] \notin {".", "(", "[", ")"}}
      c == At(text, i)
      end == IF c = "L" THEN (IF closes = {} \/ Min(closes) = i + 1 THEN 0 ELSE Min(closes) + 1)
             ELSE IF c = "V" THEN (IF void /\ dims = 0 THEN i + 1 ELSE 0)
             ELSE IF c \in Wide \cup Narrow THEN i + 1 ELSE 0
  IN IF dims > MaxDims \/ end = 0 THEN Fails ELSE [type |-> IF dims > 0 THEN "L" ELSE c, end |-> end]

\* jni_sig_parse.
RECURSIVE ParseArgs(_, _, _)
ParseArgs(text, i, args) ==
  LET a == ParseType(text, i, FALSE)
      more == Append(args, a.type)
      slots == Len(more) + Cardinality({k \in 1..Len(more) : more[k] \in Wide})
  IN IF At(text, i) = ")" THEN [ok |-> TRUE, args |-> args, end |-> i + 1]
     ELSE IF Len(args) = MaxArgs \/ a.end = 0 \/ slots > MaxSlots THEN [ok |-> FALSE]
     ELSE ParseArgs(text, a.end, more)
SigParse(text) ==
  LET args == ParseArgs(text, 2, <<>>)
      ret == ParseType(text, args.end, TRUE)
  IN IF At(text, 1) # "(" \/ ~args.ok THEN [ok |-> FALSE]
     ELSE IF ret.end # Len(text) + 1 THEN [ok |-> FALSE]
     ELSE [ok |-> TRUE, args |-> args.args, ret |-> ret.type]

\* The words jni_native_call passes: where each argument starts, after the environment
\* and the receiver.
\* Mutant: wide arguments are not aligned.
AlignedNot(count, type) == count
Aligned(count, type) == IF type \in Wide THEN ((count + 1) \div 2) * 2 ELSE count
Words(args) ==
  FoldLeft(LAMBDA w, type : LET at == Aligned(w.count, type) IN
             [at |-> Append(w.at, at), count |-> at + (IF type \in Wide THEN 2 ELSE 1)],
           [at |-> <<>>, count |-> 2], args)

\* Where code of the guest looks for them: AAPCS, without floating point registers.
\* Four core registers, r2 and r3 or none for a wide argument if r0 and r1 are taken,
\* and nothing in a register once the stack is used.
Expected(args) ==
  FoldLeft(LAMBDA w, type :
      LET size == IF type \in Wide THEN 2 ELSE 1
          reg == ((w.reg + size - 1) \div size) * size
          stack == ((w.stack + size - 1) \div size) * size
      IN IF reg + size <= 4 THEN [w EXCEPT !.at = Append(@, reg), !.reg = reg + size]
         ELSE [at |-> Append(w.at, 4 + stack), reg |-> 4, stack |-> stack + size],
    [at |-> <<>>, reg |-> 2, stack |-> 0], args).at

\* What a type is: some dimensions, and a letter or the name of a class.
RECURSIVE IsType(_)
IsType(s) ==
  \/ Len(s) = 1 /\ s[1] \in Wide \cup Narrow
  \/ Len(s) >= 3 /\ s[1] = "L" /\ s[Len(s)] = ";" /\ \A k \in 2..Len(s) - 1 : s[k] \notin {";", ".", "(", "[", ")"}
  \/ Len(s) >= 2 /\ s[1] = "[" /\ Cardinality({k \in 1..Len(s) : \A j \in 1..k : s[j] = "["}) <= MaxDims /\ IsType(Tail(s))
RECURSIVE Splits(_)
Splits(s) ==
  IF s = <<>> THEN {<<>>}
  ELSE {<<SubSeq(s, 1, k)>> \o rest : <<k, rest>> \in
         {p \in {n \in 1..Len(s) : IsType(SubSeq(s, 1, n))} \X UNION {Splits(SubSeq(s, n + 1, Len(s))) : n \in 1..Len(s)} :
            p[2] \in Splits(SubSeq(s, p[1] + 1, Len(s)))}}
Slots(split) == Len(split) + Cardinality({k \in 1..Len(split) : split[k][1] \in Wide})
Signatures(text) ==
  {k \in 2..Len(text) : /\ text[1] = "(" /\ text[k] = ")"
                        /\ LET r == SubSeq(text, k + 1, Len(text)) IN IsType(r) \/ r = <<"V">>
                        /\ \E s \in Splits(SubSeq(text, 2, k - 1)) : Len(s) <= MaxArgs /\ Slots(s) <= MaxSlots}

\* A signature is taken if and only if it is one, and the call's words are where the
\* guest's code expects them.
CallsExact(text) ==
  LET sig == SigParse(text) IN
  /\ sig.ok = (Signatures(text) # {})
  /\ sig.ok => Words(sig.args).at = Expected(sig.args)

-----------------------------------------------------------------------------
\* __decode of a byte sequence: the code point and the bytes it took.
Tail6(b) == b \in 128..191
Decode(text, i) ==
  LET a == text[i]
      t(n) == IF i + n <= Len(text) THEN text[i + n] ELSE 0
      c(n) == t(n) - 128
  IN CASE a < 128 -> [code |-> a, size |-> 1]
       [] a \in 192..223 /\ Tail6(t(1)) -> [code |-> (a - 192) * 64 + c(1), size |-> 2]
       [] a \in 224..239 /\ Tail6(t(1)) /\ Tail6(t(2)) -> [code |-> (a - 224) * 4096 + c(1) * 64 + c(2), size |-> 3]
       [] a \in 240..247 /\ Tail6(t(1)) /\ Tail6(t(2)) /\ Tail6(t(3)) ->
            [code |-> (a - 240) * 262144 + c(1) * 4096 + c(2) * 64 + c(3), size |-> 4]
       [] OTHER -> [code |-> 65533, size |-> 1]

\* __utf16.
Units(code) ==
  IF code > 65535 THEN <<55296 + ((code - 65536) \div 1024), 56320 + ((code - 65536) % 1024)>> ELSE <<code>>
RECURSIVE Utf16(_, _)
Utf16(text, i) ==
  IF i > Len(text) THEN <<>>
  ELSE LET d == Decode(text, i) IN Units(d.code) \o Utf16(text, i + d.size)

\* __utf8: modified, so that no byte is zero and none of a character outside the basic
\* plane is encoded as one.
Bytes(unit) ==
  CASE unit > 0 /\ unit < 128 -> <<unit>>
    [] unit < 2048 -> <<192 + unit \div 64, 128 + (unit % 64)>>
    [] OTHER -> <<224 + unit \div 4096, 128 + ((unit \div 64) % 64), 128 + (unit % 64)>>
Utf8(units) == FlattenSeq([i \in 1..Len(units) |-> Bytes(units[i])])

\* Any sequence of units, with zeros and halves of pairs, comes back from its bytes,
\* which fit the space they are given and end where the terminator says.
StringsExact(units) ==
  /\ Utf16(Utf8(units), 1) = units
  /\ \A i \in 1..Len(Utf8(units)) : Utf8(units)[i] \in 1..255
  /\ Len(Utf8(units)) <= 3 * Len(units)

-----------------------------------------------------------------------------
\* __unpack of pixel_store.c: rows as they are, or packed, for a library that takes
\* rows without gaps.  The offset in the guest's pixels of a byte it is given.
Stride(width, size, alignment, rowLength) ==
  LET pixels == IF rowLength = 0 THEN width ELSE rowLength IN
  ((pixels * size + alignment - 1) \div alignment) * alignment
Uploaded(width, size, alignment, rowLength, i) ==
  LET bytes == width * size
      stride == Stride(width, size, alignment, rowLength)
  IN IF stride = bytes THEN i ELSE (i \div bytes) * stride + (i % bytes)

\* What OpenGL ES says of the same byte: k times the alignment that covers a row.
RowsExact(width, height, size, alignment, rowLength) ==
  \A row \in 0..height - 1, column \in 0..width - 1, byte \in 0..size - 1 :
    LET length == (IF rowLength = 0 THEN width ELSE rowLength) * size
        k == CHOOSE n \in 0..length : n * alignment >= length /\ (n = 0 \/ (n - 1) * alignment < length)
    IN Uploaded(width, size, alignment, rowLength, (row * width + column) * size + byte)
         = row * k * alignment + column * size + byte

\* vita_texture_small_size.
Half(n) == (n + 1) \div 2
RECURSIVE Below(_, _)
Below(size, limit) ==
  IF size[1] > limit \/ size[2] > limit THEN Below(<<Half(size[1]), Half(size[2])>>, limit) ELSE size
SmallSize(w, h) ==
  LET small == Min({w, h})  large == Max({w, h}) IN
  Below(IF small >= 64 /\ large >= 256 THEN <<Half(w), Half(h)>> ELSE <<w, h>>, IF small < 64 THEN 4096 ELSE 960)

\* Both sides are halved equally often, no more often than is needed, and rounded up
\* once and not at every step; nothing disappears.
TexturesExact(w, h) ==
  LET s == SmallSize(w, h)
      Side(n, k) == (n + 2^k - 1) \div 2^k
      limit == IF Min({w, h}) < 64 THEN 4096 ELSE 960
      least == IF Min({w, h}) >= 64 /\ Max({w, h}) >= 256 THEN 1 ELSE 0
      ks == {k \in 0..15 : s = <<Side(w, k), Side(h, k)>>}
  IN /\ s[1] \in 1..limit /\ s[2] \in 1..limit
     /\ \E k \in ks : k = least \/ (k > least /\ Max({Side(w, k - 1), Side(h, k - 1)}) > limit)
=============================================================================

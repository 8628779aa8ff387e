-------------------------------- MODULE Utf8 --------------------------------
(***************************************************************************)
(* The UTF-8 codec of sdk/src/internal/utf8.ts, which stands in for the    *)
(* host's TextEncoder and TextDecoder.  A string is a sequence of UTF-16   *)
(* units; bit operations are arithmetic.  codec holds an input: bytes for  *)
(* the decoder, or units for the encoder.                                  *)
(***************************************************************************)
EXTENDS Integers, SequencesExt

CONSTANTS Bytes, Units,       \* what inputs are made of
          MaxBytes, MaxUnits  \* bounds on the inputs

VARIABLE codec

REPLACEMENT_CHARACTER == 65533
Threw == <<-1>>   \* the TypeError of a fatal decoder
BOM == <<239, 187, 191>>

Init == codec = [bytes |-> <<>>, units |-> <<>>]

-----------------------------------------------------------------------------
(* decodeUtf8.  emit splits what is above 16 bits into surrogates.         *)
emit(value) ==
  IF value <= 65535 THEN <<value>>
  ELSE <<55296 + (value - 65536) \div 1024, 56320 + ((value - 65536) % 1024)>>

Fresh(s) == [s EXCEPT !.codePoint = 0, !.bytesNeeded = 0, !.bytesSeen = 0,
                      !.lowerBoundary = 128, !.upperBoundary = 191]

malformed(s) == [Fresh(s) EXCEPT !.result = @ \o emit(REPLACEMENT_CHARACTER), !.flawed = TRUE]

(* A byte that starts a sequence.                                          *)
Lead(s, byte) ==
  LET Starts(needed, codePoint, lower, upper) ==
        [s EXCEPT !.bytesNeeded = needed, !.codePoint = codePoint,
                  !.lowerBoundary = lower, !.upperBoundary = upper]
  IN  CASE byte <= 127 -> [s EXCEPT !.result = @ \o emit(byte)]
        [] byte \in 194 .. 223 -> Starts(1, byte % 32, 128, 191)
        [] byte \in 224 .. 239 -> Starts(2, byte % 16, IF byte = 224 THEN 160 ELSE 128,
                                                       IF byte = 237 THEN 159 ELSE 191)
        [] byte \in 240 .. 244 -> Starts(3, byte % 8, IF byte = 240 THEN 144 ELSE 128,
                                                      IF byte = 244 THEN 143 ELSE 191)
        [] OTHER -> malformed(s)

Continuation(s, byte) ==
  LET codePoint == (s.codePoint * 64) + (byte % 64)
  IN  IF s.bytesSeen + 1 = s.bytesNeeded
      THEN [Fresh(s) EXCEPT !.result = @ \o emit(codePoint)]
      ELSE [s EXCEPT !.codePoint = codePoint, !.bytesSeen = @ + 1,
                     !.lowerBoundary = 128, !.upperBoundary = 191]

(* One turn of the loop; a byte that cannot go on is read again as a lead. *)
(* Faulty variant: it is not.                                              *)
DecodeByteOnce(s, byte) ==
  IF s.bytesNeeded = 0 THEN Lead(s, byte)
  ELSE IF byte < s.lowerBoundary \/ byte > s.upperBoundary THEN malformed(s)
  ELSE Continuation(s, byte)
DecodeByte(s, byte) ==
  IF s.bytesNeeded = 0 THEN Lead(s, byte)
  ELSE IF byte < s.lowerBoundary \/ byte > s.upperBoundary THEN Lead(malformed(s), byte)
  ELSE Continuation(s, byte)

decodeUtf8(input, fatal, ignoreBOM) ==
  LET start == IF ~ignoreBOM /\ IsPrefix(BOM, input) THEN 3 ELSE 0
      s == FoldLeft(DecodeByte,
             [result |-> <<>>, codePoint |-> 0, bytesNeeded |-> 0, bytesSeen |-> 0,
              lowerBoundary |-> 128, upperBoundary |-> 191, flawed |-> FALSE],
             SubSeq(input, start + 1, Len(input)))
      end == IF s.bytesNeeded # 0 THEN malformed(s) ELSE s
  IN  IF fatal /\ end.flawed THEN Threw ELSE end.result

-----------------------------------------------------------------------------
(* The encoder.  An unpaired surrogate is replaced.                        *)
codePointAt(input, i) ==
  LET first  == input[i]
      second == IF i < Len(input) THEN input[i + 1] ELSE 0
  IN  CASE first \in 55296 .. 56319 /\ second \in 56320 .. 57343 ->
             65536 + (first - 55296) * 1024 + (second - 56320)
        [] first \in 55296 .. 57343 /\ ~(first <= 56319 /\ second \in 56320 .. 57343) ->
             REPLACEMENT_CHARACTER
        [] OTHER -> first

Taken(codePoint) == IF codePoint > 65535 THEN 2 ELSE 1   \* units it stands for

byteSize(codePoint) ==
  CASE codePoint <= 127 -> 1 [] codePoint <= 2047 -> 2 [] codePoint <= 65535 -> 3 [] OTHER -> 4

writeCodePoint(codePoint) ==
  LET Six(shift) == 128 + ((codePoint \div shift) % 64)
  IN  CASE byteSize(codePoint) = 1 -> <<codePoint>>
        [] byteSize(codePoint) = 2 -> <<192 + codePoint \div 64, Six(1)>>
        [] byteSize(codePoint) = 3 -> <<224 + codePoint \div 4096, Six(64), Six(1)>>
        [] OTHER -> <<240 + codePoint \div 262144, Six(4096), Six(64), Six(1)>>

utf8ByteLength(input) ==
  LET From[i \in 1 .. Len(input) + 2] ==
        IF i > Len(input) THEN 0
        ELSE byteSize(codePointAt(input, i)) + From[i + Taken(codePointAt(input, i))]
  IN  From[1]

encodeUtf8(input) ==
  LET From[i \in 1 .. Len(input) + 2] ==
        IF i > Len(input) THEN <<>>
        ELSE writeCodePoint(codePointAt(input, i)) \o From[i + Taken(codePointAt(input, i))]
  IN  From[1]

encodeUtf8Into(source, length) ==
  LET From[i \in 1 .. Len(source) + 2, written \in 0 .. length] ==
        LET codePoint == codePointAt(source, i)
        IN  IF i > Len(source) \/ written + byteSize(codePoint) > length
            THEN [read |-> i - 1, written |-> <<>>]
            ELSE LET rest == From[i + Taken(codePoint), written + byteSize(codePoint)]
                 IN  [rest EXCEPT !.written = writeCodePoint(codePoint) \o @]
  IN  From[1, 0]

-----------------------------------------------------------------------------
Read(byte) ==
  /\ codec.units = <<>> /\ Len(codec.bytes) < MaxBytes
  /\ codec' = [codec EXCEPT !.bytes = Append(@, byte)]

Write(unit) ==
  /\ codec.bytes = <<>> /\ Len(codec.units) < MaxUnits
  /\ codec' = [codec EXCEPT !.units = Append(@, unit)]

Next == (\E b \in Bytes : Read(b)) \/ (\E u \in Units : Write(u))

Spec == Init /\ [][Next]_codec
-----------------------------------------------------------------------------
(* Type invariant.                                                         *)
TypeOK ==
  /\ codec.bytes \in Seq(0 .. 255) /\ codec.units \in Seq(0 .. 65535)
  /\ Len(encodeUtf8(codec.units)) = utf8ByteLength(codec.units)

(* The well-formed sequences of the Unicode standard, by first byte: the   *)
(* ranges of their bytes.                                                  *)
WellFormed ==
  LET tail == 128 .. 191
  IN  {<<0 .. 127>>, <<194 .. 223, tail>>, <<{224}, 160 .. 191, tail>>,
       <<225 .. 236, tail, tail>>, <<{237}, 128 .. 159, tail>>, <<238 .. 239, tail, tail>>,
       <<{240}, 144 .. 191, tail, tail>>, <<241 .. 243, tail, tail, tail>>,
       <<{244}, 128 .. 143, tail, tail>>}

(* The reference: at each place the longest run that is, or begins, a      *)
(* well-formed sequence; what is cut short is one replacement.             *)
Reference(input) ==
  LET Fits(row, i, k) == k <= Len(row) /\ \A j \in 1 .. k : input[i + j - 1] \in row[j]
      Runs(i) == {k \in 1 .. 4 : i + k - 1 <= Len(input) /\ \E row \in WellFormed : Fits(row, i, k)}
      Long(i) == IF Runs(i) = {} THEN 1 ELSE CHOOSE k \in Runs(i) : \A l \in Runs(i) : l <= k
      Whole(i, k) == \E row \in WellFormed : Len(row) = k /\ Fits(row, i, k)
      From[i \in 1 .. Len(input) + 1] ==
        IF i > Len(input) THEN [units |-> <<>>, flawed |-> FALSE]
        ELSE LET rest == From[i + Long(i)]
                 code == FoldLeft(LAMBDA v, b : (v * 64) + (b % 64),
                                  input[i] % (<<128, 32, 16, 8>>[Long(i)]),
                                  SubSeq(input, i + 1, i + Long(i) - 1))
             IN  IF Whole(i, Long(i)) THEN [rest EXCEPT !.units = emit(code) \o @]
                 ELSE [units |-> <<REPLACEMENT_CHARACTER>> \o rest.units, flawed |-> TRUE]
  IN  From[1]

(* The string with every unpaired surrogate replaced, and its first n      *)
(* units.                                                                  *)
Scalar(units) ==
  [i \in 1 .. Len(units) |->
     IF \/ units[i] \notin 55296 .. 57343
        \/ units[i] <= 56319 /\ i < Len(units) /\ units[i + 1] \in 56320 .. 57343
        \/ units[i] >= 56320 /\ i > 1 /\ units[i - 1] \in 55296 .. 56319
     THEN units[i] ELSE REPLACEMENT_CHARACTER]

(* The codec is the standard's: bytes decode as the reference says, with   *)
(* or without the byte order mark, and a fatal decoder throws just where   *)
(* it replaces; what is encoded decodes to the string it was made of; and  *)
(* encodeUtf8Into stops between code points, at the first that no longer   *)
(* fits, and counts the units it has read (the loops at 45-86, 107-118).  *)
CodecIsStandard ==
  /\ \A ignoreBOM \in BOOLEAN :
       LET ref == Reference(IF ~ignoreBOM /\ IsPrefix(BOM, codec.bytes)
                            THEN SubSeq(codec.bytes, 4, Len(codec.bytes)) ELSE codec.bytes)
       IN  /\ decodeUtf8(codec.bytes, FALSE, ignoreBOM) = ref.units
           /\ decodeUtf8(codec.bytes, TRUE, ignoreBOM) =
                IF ref.flawed THEN Threw ELSE ref.units
  /\ decodeUtf8(encodeUtf8(codec.units), TRUE, TRUE) = Scalar(codec.units)
  /\ \A length \in 0 .. 4 * MaxUnits :
       LET into == encodeUtf8Into(codec.units, length)
       IN  /\ Len(into.written) <= length
           /\ decodeUtf8(into.written, TRUE, TRUE) = SubSeq(Scalar(codec.units), 1, into.read)
           /\ into.read < Len(codec.units) =>
                Len(into.written) + byteSize(codePointAt(codec.units, into.read + 1)) > length
=============================================================================

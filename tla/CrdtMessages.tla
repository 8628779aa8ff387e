---------------------------- MODULE CrdtMessages ----------------------------
(***************************************************************************)
(* ReadWriteByteBuffer (ecs/src/serialization/ByteBuffer) and the messages *)
(* of ecs/src/serialization/crdt: what is written to a buffer that grows   *)
(* under the writer, and what parseChunkMessage reads of it.               *)
(*                                                                         *)
(* A cell is a 32-bit word, the unit of every header; data is a sequence of*)
(* words.  The Uint8Array of the buffer is memory with an offset, and the  *)
(* DataView has an offset of its own: the headers go through the view and  *)
(* the data through the array.                                             *)
(***************************************************************************)
EXTENDS Integers, FiniteSets, SequencesExt

CONSTANTS
  InitialCapacity,  \* words of a new buffer, and the unit it grows by
  Payloads,         \* the data of messages: sequences of words
  MaxMessages,      \* bound on the messages written between two resets
  MaxResets         \* bound on the resets

VARIABLES buffer

vars == <<buffer>>

Junk == 99          \* what memory holds before it is written
HeaderLength == 2   \* CRDT_MESSAGE_HEADER_LENGTH

PUT_COMPONENT == 1
DELETE_COMPONENT == 2
DELETE_ENTITY == 3
APPEND_VALUE == 4
PUT_COMPONENT_NETWORK == 5
DELETE_COMPONENT_NETWORK == 6
DELETE_ENTITY_NETWORK == 7
Unknown == 8        \* a type of a later protocol, as peers may send

(* An operation: the words of its header, after type and length, and if    *)
(* data follows with its length.                                           *)
PutComponentOperation ==
  [fields |-> <<"entityId", "componentId", "timestamp">>, data |-> TRUE]
AppendValueOperation ==
  [fields |-> <<"entityId", "componentId", "timestamp">>, data |-> TRUE]
DeleteComponent ==
  [fields |-> <<"entityId", "componentId", "timestamp">>, data |-> FALSE]
DeleteEntity == [fields |-> <<"entityId">>, data |-> FALSE]
PutNetworkComponentOperation ==
  [fields |-> <<"entityId", "componentId", "timestamp", "networkId">>, data |-> TRUE]
DeleteComponentNetwork ==
  [fields |-> <<"entityId", "componentId", "timestamp", "networkId">>, data |-> FALSE]
DeleteEntityNetwork == [fields |-> <<"entityId", "networkId">>, data |-> FALSE]
Unheard == [fields |-> <<"entityId">>, data |-> FALSE]

Operation ==
  (PUT_COMPONENT :> PutComponentOperation) @@ (DELETE_COMPONENT :> DeleteComponent)
    @@ (DELETE_ENTITY :> DeleteEntity) @@ (APPEND_VALUE :> AppendValueOperation)
    @@ (PUT_COMPONENT_NETWORK :> PutNetworkComponentOperation)
    @@ (DELETE_COMPONENT_NETWORK :> DeleteComponentNetwork)
    @@ (DELETE_ENTITY_NETWORK :> DeleteEntityNetwork) @@ (Unknown :> Unheard)

Fields == [type \in DOMAIN Operation |-> Operation[type].fields]
HasData(type) == Operation[type].data

(* The words a scene writes in the fields.                                 *)
Written == [entityId |-> 11, componentId |-> 12, timestamp |-> 13, networkId |-> 14]

Blank(n) == [i \in 0 .. n - 1 |-> Junk]

Length(b) == Cardinality(DOMAIN b.memory) - b.base     \* byteLength of the array

BufferInit ==
  buffer = [memory |-> Blank(InitialCapacity),
            base |-> 0, viewBase |-> 0,       \* offsets of array and view
            woffset |-> 0,
            log |-> <<>>,                     \* ghost: the messages written
            resets |-> 0]

Init == BufferInit

TypeOK ==
  /\ DOMAIN buffer.memory = 0 .. buffer.base + Length(buffer) - 1
  /\ buffer.base \in Nat /\ buffer.viewBase \in Nat
  /\ buffer.woffset \in 0 .. Length(buffer)
-----------------------------------------------------------------------------
Bigger(x, y) == IF x > y THEN x ELSE y

getNextSize(current, intended) ==
  LET min == Bigger(current, intended) + InitialCapacity
  IN  ((min + InitialCapacity - 1) \div InitialCapacity) * InitialCapacity

(* Faulty variant: what was written is not taken along.                    *)
WoAddFresh(b, amount) ==
  IF b.woffset + amount <= Length(b) THEN [b EXCEPT !.woffset = @ + amount]
  ELSE [b EXCEPT !.memory = Blank(getNextSize(Length(b), b.woffset + amount)),
                 !.base = 0, !.viewBase = b.base, !.woffset = @ + amount]

(* #woAdd: the new view is at the offset of the old array.                 *)
WoAdd(b, amount) ==
  IF b.woffset + amount <= Length(b) THEN [b EXCEPT !.woffset = @ + amount]
  ELSE LET size == getNextSize(Length(b), b.woffset + amount)
       IN  [b EXCEPT !.memory = [i \in 0 .. size - 1 |->
                                    IF i < Length(b) THEN b.memory[b.base + i] ELSE Junk],
                     !.base = 0, !.viewBase = b.base, !.woffset = @ + amount]

(* setUint32 and getUint32, through the view.                              *)
setUint32(b, offset, word) == [b EXCEPT !.memory[b.viewBase + offset] = word]
getUint32(b, offset) == b.memory[b.viewBase + offset]

(* writeBuffer without length, into the array.                             *)
writeBuffer(b, data) ==
  LET grown == WoAdd(b, Len(data))
      set(memory, i) == [memory EXCEPT ![grown.base + b.woffset + i - 1] = data[i]]
  IN  [grown EXCEPT !.memory = FoldLeftDomain(set, grown.memory, data)]

(* The write of every operation: header and fields reserved, the data, and *)
(* then the words of the header through the view.                          *)
write(b, type, data) ==
  LET fields   == Fields[type]
      reserved == WoAdd(b, HeaderLength + Len(fields) + IF HasData(type) THEN 1 ELSE 0)
      body     == IF HasData(type) THEN writeBuffer(reserved, data) ELSE reserved
      words    == <<body.woffset - b.woffset, type>>
                    \o [i \in DOMAIN fields |-> Written[fields[i]]]
                    \o IF HasData(type) THEN <<Len(data)>> ELSE <<>>
      put(s, i) == setUint32(s, b.woffset + i - 1, words[i])
  IN  FoldLeftDomain(put, body, words)
-----------------------------------------------------------------------------
(* CrdtMessageProtocol.getHeader, of the bytes from r up to the end.       *)
getHeader(b, r, end) ==
  IF end - r < HeaderLength \/ end - r < getUint32(b, r) THEN <<>>
  ELSE <<[length |-> getUint32(b, r), type |-> getUint32(b, r + 1)]>>

(* The read of every operation: readHeader, the fields, and readBuffer.    *)
read(b, r, type) ==
  LET fields == Fields[type]
      length == getUint32(b, r + HeaderLength + Len(fields))
      from   == b.base + r + HeaderLength + Len(fields)
  IN  [type |-> type,
       words |-> [i \in DOMAIN fields |-> getUint32(b, r + HeaderLength + i - 1)],
       data |-> IF HasData(type) THEN [i \in 1 .. length |-> b.memory[from + i]] ELSE <<>>]

(* parseChunkMessage: a message of an unknown type is consumed.            *)
parseChunkMessage(b, end) ==
  LET parsed[r \in 0 .. end] ==
        LET header == getHeader(b, r, end)
        IN  IF header = <<>> THEN <<>>
            ELSE (IF header[1].type \in PUT_COMPONENT .. DELETE_ENTITY_NETWORK
                  THEN <<read(b, r, header[1].type)>> ELSE <<>>)
                   \o parsed[r + header[1].length]
  IN  parsed[0]
-----------------------------------------------------------------------------
Entry(type, data) ==
  [type |-> type, words |-> [i \in DOMAIN Fields[type] |-> Written[Fields[type][i]]],
   data |-> IF HasData(type) THEN data ELSE <<>>]

Write(type, data) ==
  /\ Len(buffer.log) < MaxMessages
  /\ buffer' = [write(buffer, type, data) EXCEPT !.log = Append(@, Entry(type, data))]

resetBuffer ==
  /\ buffer.resets < MaxResets
  /\ buffer' = [buffer EXCEPT !.woffset = 0, !.log = <<>>, !.resets = @ + 1]

Next ==
  \/ resetBuffer
  \/ \E type \in DOMAIN Fields, data \in Payloads : Write(type, data)

Spec == Init /\ [][Next]_vars
-----------------------------------------------------------------------------
Size(m) == HeaderLength + Len(m.words) + IF HasData(m.type) THEN 1 + Len(m.data) ELSE 0

Sizes(log, n) == FoldLeft(LAMBDA total, m : total + Size(m), 0, SubSeq(log, 1, n))

(* Whoever reads the first bytes of a buffer gets the messages that lie in *)
(* them completely, those of unknown types excepted, unchanged and in the  *)
(* order they were written, however often the buffer grew and was reset in *)
(* between.                                                                *)
ReadIsWhatWasWritten ==
  \A length \in 0 .. buffer.woffset :
    LET whole == {n \in 0 .. Len(buffer.log) : Sizes(buffer.log, n) <= length}
        last  == CHOOSE n \in whole : \A k \in whole : k <= n
    IN  parseChunkMessage(buffer, length) =
          SelectSeq(SubSeq(buffer.log, 1, last), LAMBDA m : m.type # Unknown)
=============================================================================

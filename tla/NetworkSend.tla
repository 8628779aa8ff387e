----------------------------- MODULE NetworkSend -----------------------------
(***************************************************************************)
(* How the CRDT messages of a scene leave for the room: the loop of        *)
(* sendMessages that packs them into chunks (ecs/src/systems/crdt/         *)
(* index.ts), the network transport and its message bus (sdk/src/network/  *)
(* message-bus-sync.ts, binary-message-bus.ts), and the answer to a peer   *)
(* that asks for the state (state.ts).                                     *)
(*                                                                         *)
(* A message has a size, and is longer by the network header once it is    *)
(* written for the room.  sendBinary answers later, and the engine's next  *)
(* tick waits for it; what is emitted meanwhile waits in the list of       *)
(* pending messages.                                                       *)
(***************************************************************************)
EXTENDS Naturals, Sequences, SequencesExt

CONSTANTS Sizes,               \* of the messages, without the header
          Header,              \* what localMessageToNetwork adds
          StateHeader,         \* what PutNetworkComponentOperation adds to data
          LIVEKIT_MAX_SIZE,
          MaxTicks, MaxMessages   \* bounds

VARIABLE sending

vars == <<sending>>

NoChunk == <<>>

Init ==
  sending = [phase |-> "idle", queue |-> <<>>, chunk |-> NoChunk, chunks |-> <<>>,
             pending |-> <<>>, room |-> <<>>, transportInitialzed |-> FALSE,
             due |-> <<>>, asked |-> FALSE, state |-> <<>>, ticks |-> 0]

Size(chunk) == FoldLeft(LAMBDA sum, m : sum + m.written, 0, chunk)
TooLarge(size) == size > LIVEKIT_MAX_SIZE

-----------------------------------------------------------------------------
(* The messages of a tick for the network transport, already filtered.     *)
Tick ==
  /\ sending.phase = "idle" /\ sending.ticks < MaxTicks
  /\ \E n \in 0 .. MaxMessages : \E sizes \in [1 .. n -> Sizes] :
       sending' = [sending EXCEPT
         !.phase = "packing", !.ticks = @ + 1, !.chunk = NoChunk, !.chunks = <<>>,
         !.queue = [i \in 1 .. n |->
                      [id |-> <<sending.ticks, i>>, state |-> FALSE, size |-> sizes[i],
                       written |-> sizes[i] + Header]]]

(* One message m of the loop of sendMessages, or of engineToCrdt: a full   *)
(* chunk is put aside, a message too large by itself is left out.  The     *)
(* sizes compared are those of the messages without the header.            *)
(* Faulty variant: the chunk that was put aside is not reset.              *)
PackedKeepingChunk(chunks, chunk, m) ==
  LET full == TooLarge(Size(chunk) + m.size) IN
  [chunks |-> IF full /\ chunk # NoChunk THEN Append(chunks, chunk) ELSE chunks,
   chunk  |-> IF TooLarge(m.size) THEN chunk ELSE Append(chunk, m)]
Packed(chunks, chunk, m) ==
  LET full == TooLarge(Size(chunk) + m.size)
      rest == IF full THEN NoChunk ELSE chunk IN
  [chunks |-> IF full /\ chunk # NoChunk THEN Append(chunks, chunk) ELSE chunks,
   chunk  |-> IF TooLarge(m.size) THEN rest ELSE Append(rest, m)]

PackMessage ==
  /\ sending.phase = "packing" /\ sending.queue # <<>>
  /\ LET m == Head(sending.queue)
         p == Packed(sending.chunks, sending.chunk, m) IN
     sending' = [sending EXCEPT
       !.queue = Tail(@), !.chunks = p.chunks, !.chunk = p.chunk,
       !.due = IF ~TooLarge(m.size) /\ sending.transportInitialzed THEN Append(@, m) ELSE @]

WithRest(chunks, chunk) == IF chunk = NoChunk THEN chunks ELSE Append(chunks, chunk)

(* transport.send up to the await: the chunks are emitted if there was an  *)
(* answer before, and everything pending is handed to sendBinary.          *)
Send ==
  /\ sending.phase = "packing" /\ sending.queue = <<>>
  /\ LET emitted == IF sending.transportInitialzed
                      THEN WithRest(sending.chunks, sending.chunk) ELSE <<>> IN
     sending' = [sending EXCEPT
       !.phase = "waiting", !.room = @ \o sending.pending \o emitted, !.pending = <<>>,
       !.chunk = NoChunk, !.chunks = <<>>]

(* engineToCrdt: the components of network entities, in the same packing;  *)
(* here the sizes compared are those of the data alone.                    *)
engineToCrdt(components) ==
  LET messages == [i \in 1 .. Len(components) |->
                     [id |-> <<0, i>>, state |-> TRUE, size |-> components[i],
                      written |-> components[i] + StateHeader]]
      p == FoldLeft(LAMBDA acc, m : Packed(acc.chunks, acc.chunk, m),
                    [chunks |-> <<>>, chunk |-> NoChunk], messages)
  IN  WithRest(p.chunks, p.chunk)

(* The answer of sendBinary: the messages of peers, among them a request   *)
(* for the state, are handled before the tick goes on.                     *)
ProcessMessages ==
  /\ sending.phase = "waiting"
  /\ \/ sending' = [sending EXCEPT !.phase = "idle", !.transportInitialzed = TRUE]
     \/ /\ ~sending.asked
        /\ \E n \in 0 .. MaxMessages : \E components \in [1 .. n -> Sizes] :
             sending' = [sending EXCEPT
               !.phase = "idle", !.transportInitialzed = TRUE, !.asked = TRUE,
               !.state = components, !.pending = @ \o engineToCrdt(components)]

(* sendBinary rejects: the tick ends with an error.                        *)
SendFails ==
  /\ sending.phase = "waiting"
  /\ sending' = [sending EXCEPT !.phase = "idle"]

Next == Tick \/ PackMessage \/ Send \/ ProcessMessages \/ SendFails

Spec == Init /\ [][Next]_vars
-----------------------------------------------------------------------------
Flat(chunks) == FlattenSeq(chunks)
OfState(m) == m.state

(* Type invariant.                                                         *)
TypeOK ==
  /\ sending.phase \in {"idle", "packing", "waiting"}
  /\ sending.ticks \in 0 .. MaxTicks
  /\ \A i \in 1 .. Len(sending.chunks) : sending.chunks[i] # NoChunk

(* Cut into chunks, the messages leave once each and in order, all but     *)
(* those too large by themselves and those of ticks before the first       *)
(* answer; so does the state for a peer (sendMessages, transport.send and  *)
(* engineToCrdt).                                                          *)
NothingIsLostBetweenChunks ==
  LET out == Flat(sending.room \o sending.pending) IN
  sending.phase # "packing" =>
    /\ SelectSeq(out, LAMBDA m : ~OfState(m)) = sending.due
    /\ LET state == SelectSeq(out, OfState) IN
       [i \in 1 .. Len(state) |-> state[i].size]
         = SelectSeq(sending.state, LAMBDA size : ~TooLarge(size))

(* What the comment on LIVEKIT_MAX_SIZE says: a message to the room has at *)
(* most that size.                                                         *)
ChunksFitTheRoom ==
  \A i \in 1 .. Len(sending.room) : Size(sending.room[i]) <= LIVEKIT_MAX_SIZE
=============================================================================

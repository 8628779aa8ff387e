---------------------------- MODULE StateRequest -----------------------------
(***************************************************************************)
(* When a player asks the others for the state, and when it believes to    *)
(* have it: requestState and the RealmInfo callback of                     *)
(* sdk/src/network/message-bus-sync.ts.                                    *)
(*                                                                         *)
(* Each requestState sends REQ_CRDT_STATE, sleeps five seconds and looks   *)
(* again; all sleep equally long, so they wake in the order they started.  *)
(* The room is the environment: the connection comes and goes, so do the   *)
(* other players, and an answer may come at any time after a request, or   *)
(* never.                                                                  *)
(***************************************************************************)
EXTENDS Naturals, Sequences, SequenceTheorems, TLAPS

CONSTANTS
  MaxRetryCount,   \* the last retryCount that is followed by another request
  MaxChanges       \* bound on the changes of RealmInfo, for model checking

ASSUME RequestAssumption == MaxRetryCount \in Nat /\ MaxChanges \in Nat

VARIABLES
  isConnectedSceneRoom,
  stateIsSyncronized,
  sleeping,      \* retryCount of every requestState that sleeps, oldest first
  alone,         \* no other player in the scene
  everRequested, \* answers may be on their way, of an earlier connection too
  changes

vars == <<isConnectedSceneRoom, stateIsSyncronized, sleeping, alone, everRequested, changes>>

Init ==
  /\ isConnectedSceneRoom = FALSE
  /\ stateIsSyncronized = FALSE
  /\ sleeping = <<>>
  /\ alone \in BOOLEAN
  /\ everRequested = FALSE
  /\ changes = 0

(* A request is sent, and its sleep begins.                                *)
requestState(retryCount, others) ==
  /\ everRequested' = TRUE
  /\ sleeping' = Append(others, retryCount)

(* RealmInfo.onChange with the room connected.  Any field of RealmInfo may *)
(* have changed, so the room may have been connected already.              *)
EnterRoom ==
  /\ changes < MaxChanges /\ changes' = changes + 1
  /\ isConnectedSceneRoom' = TRUE
  /\ IF stateIsSyncronized
     THEN UNCHANGED <<sleeping, everRequested>>
     ELSE requestState(1, sleeping)
  /\ UNCHANGED <<stateIsSyncronized, alone>>

(* RealmInfo.onChange with the room disconnected.                          *)
LeaveRoom ==
  /\ changes < MaxChanges /\ changes' = changes + 1
  /\ isConnectedSceneRoom' = FALSE
  /\ stateIsSyncronized' = FALSE
  /\ UNCHANGED <<sleeping, alone, everRequested>>

(* RES_CRDT_STATE addressed to this player.                                *)
ReceiveState ==
  /\ everRequested /\ isConnectedSceneRoom
  /\ stateIsSyncronized' = TRUE
  /\ UNCHANGED <<isConnectedSceneRoom, sleeping, alone, everRequested, changes>>

(* Faulty variants: attempts without end; no other attempt.                *)
WakeRetriesForEver ==
  /\ sleeping # <<>> /\ isConnectedSceneRoom /\ ~stateIsSyncronized
  /\ requestState(Head(sleeping) + 1, Tail(sleeping))
  /\ UNCHANGED <<isConnectedSceneRoom, stateIsSyncronized, alone, changes>>

WakeForgets ==
  /\ sleeping # <<>>
  /\ sleeping' = Tail(sleeping)
  /\ UNCHANGED <<isConnectedSceneRoom, stateIsSyncronized, alone, everRequested, changes>>

(* The oldest requestState wakes: nothing to do, another request, or the   *)
(* conclusion that there is nobody to answer.                              *)
Wake ==
  /\ sleeping # <<>>
  /\ \/ /\ stateIsSyncronized
        /\ sleeping' = Tail(sleeping)
        /\ UNCHANGED <<stateIsSyncronized, everRequested>>
     \/ /\ ~stateIsSyncronized /\ ~alone /\ Head(sleeping) <= MaxRetryCount
        /\ IF isConnectedSceneRoom
           THEN requestState(Head(sleeping) + 1, Tail(sleeping))
           ELSE /\ sleeping' = Tail(sleeping)
                /\ UNCHANGED everRequested
        /\ UNCHANGED stateIsSyncronized
     \/ /\ ~stateIsSyncronized /\ (alone \/ Head(sleeping) > MaxRetryCount)
        /\ stateIsSyncronized' = TRUE
        /\ sleeping' = Tail(sleeping)
        /\ UNCHANGED <<everRequested>>
  /\ UNCHANGED <<isConnectedSceneRoom, alone, changes>>

(* Another player enters, or the last other one leaves.                    *)
PlayersChange ==
  /\ alone' = ~alone
  /\ UNCHANGED <<isConnectedSceneRoom, stateIsSyncronized, sleeping, everRequested, changes>>

Next == EnterRoom \/ LeaveRoom \/ ReceiveState \/ Wake \/ PlayersChange

(* A sleep ends: sleepSystem runs in every tick of the engine.             *)
Spec == Init /\ [][Next]_vars /\ WF_vars(Wake)
-----------------------------------------------------------------------------
(* retryCount never exceeds the last attempt; every sleep has a request.   *)
TypeOK ==
  /\ {isConnectedSceneRoom, stateIsSyncronized, alone, everRequested} \subseteq BOOLEAN
  /\ sleeping \in Seq(1 .. MaxRetryCount + 1)
  /\ sleeping # <<>> => everRequested

(* Whoever waits in the room for the state has an attempt under way, so    *)
(* that isStateSyncronized cannot stay false for ever (requestState and    *)
(* the RealmInfo callback are the only ones to start one).                 *)
WaitingHasAttempt ==
  isConnectedSceneRoom /\ ~stateIsSyncronized => sleeping # <<>>

(* A player who stays in the room ends up synchronised, answered or not.   *)
EventuallySynchronised ==
  isConnectedSceneRoom ~> (stateIsSyncronized \/ ~isConnectedSceneRoom)
-----------------------------------------------------------------------------
(* Proofs, for every MaxRetryCount and MaxChanges.                         *)

(* The types, and that a player who waits in the room has an attempt under *)
(* way, are inductive together: an attempt that ends without the state is  *)
(* followed by another, or by giving up.                                   *)
IInv == TypeOK /\ WaitingHasAttempt

(* What taking the oldest attempt off the queue, or adding one, keeps.     *)
LEMMA QueueKeepsType ==
  ASSUME NEW S, NEW q \in Seq(S)
  PROVE  /\ q # <<>> => Head(q) \in S /\ Tail(q) \in Seq(S)
         /\ \A x \in S : Append(q, x) \in Seq(S) /\ Append(q, x) # <<>>
<1>1. q # <<>> => Head(q) \in S /\ Tail(q) \in Seq(S)
  BY HeadTailProperties
<1>2. \A x \in S : Append(q, x) \in Seq(S) /\ Append(q, x) # <<>>
  BY AppendProperties
<1> QED
  BY <1>1, <1>2

LEMMA InitEstablishes == Init => IInv
<1> SUFFICES ASSUME Init
             PROVE  IInv
  OBVIOUS
<1>1. sleeping \in Seq(1 .. MaxRetryCount + 1)
  BY EmptySeq DEF Init
<1> QED
  BY <1>1 DEF Init, IInv, TypeOK, WaitingHasAttempt

LEMMA WakeKeeps ==
  ASSUME IInv, Wake
  PROVE  IInv'
<1> USE RequestAssumption DEF IInv, TypeOK, WaitingHasAttempt
<1> DEFINE S == 1 .. MaxRetryCount + 1
<1>1. sleeping \in Seq(S) /\ sleeping # <<>>
  BY DEF Wake
<1>2. Head(sleeping) \in S /\ Tail(sleeping) \in Seq(S)
  BY <1>1, QueueKeepsType
<1>3. everRequested
  BY <1>1
<1>4. CASE /\ stateIsSyncronized
           /\ sleeping' = Tail(sleeping)
           /\ UNCHANGED <<stateIsSyncronized, everRequested>>
  BY <1>2, <1>3, <1>4 DEF Wake
<1>5. CASE /\ ~stateIsSyncronized /\ Head(sleeping) <= MaxRetryCount
           /\ IF isConnectedSceneRoom
              THEN requestState(Head(sleeping) + 1, Tail(sleeping))
              ELSE sleeping' = Tail(sleeping) /\ UNCHANGED everRequested
           /\ UNCHANGED stateIsSyncronized
  <2>1. Head(sleeping) + 1 \in S
    BY <1>2, <1>5
  <2>2. CASE isConnectedSceneRoom
    <3>1. sleeping' = Append(Tail(sleeping), Head(sleeping) + 1) /\ everRequested' = TRUE
      BY <1>5, <2>2 DEF requestState
    <3>2. sleeping' \in Seq(S) /\ sleeping' # <<>>
      <4> HIDE DEF S
      <4> QED
        BY <3>1, <2>1, <1>2, AppendProperties
    <3> QED
      BY <3>1, <3>2, <1>5 DEF Wake
  <2>3. CASE ~isConnectedSceneRoom
    BY <2>3, <1>2, <1>3, <1>5 DEF Wake
  <2> QED
    BY <2>2, <2>3
<1>6. CASE /\ stateIsSyncronized' = TRUE
           /\ sleeping' = Tail(sleeping)
           /\ UNCHANGED everRequested
  BY <1>2, <1>3, <1>6 DEF Wake
<1> QED
  BY <1>4, <1>5, <1>6 DEF Wake

LEMMA EnterRoomKeeps ==
  ASSUME IInv, EnterRoom
  PROVE  IInv'
<1> USE RequestAssumption DEF IInv, TypeOK, WaitingHasAttempt
<1> DEFINE S == 1 .. MaxRetryCount + 1
<1>1. CASE stateIsSyncronized
  BY <1>1 DEF EnterRoom
<1>2. CASE ~stateIsSyncronized
  <2>1. sleeping' = Append(sleeping, 1) /\ everRequested' = TRUE
    BY <1>2 DEF EnterRoom, requestState
  <2>2. 1 \in S /\ sleeping \in Seq(S)
    OBVIOUS
  <2>3. sleeping' \in Seq(S) /\ sleeping' # <<>>
    BY <2>1, <2>2, QueueKeepsType
  <2> QED
    BY <2>1, <2>3, <1>2 DEF EnterRoom
<1> QED
  BY <1>1, <1>2

LEMMA StepKeeps == IInv /\ [Next]_vars => IInv'
<1> SUFFICES ASSUME IInv, [Next]_vars
             PROVE  IInv'
  OBVIOUS
<1>1. CASE EnterRoom
  BY <1>1, EnterRoomKeeps
<1>2. CASE LeaveRoom
  BY <1>2 DEF LeaveRoom, IInv, TypeOK, WaitingHasAttempt
<1>3. CASE ReceiveState
  BY <1>3 DEF ReceiveState, IInv, TypeOK, WaitingHasAttempt
<1>4. CASE Wake
  BY <1>4, WakeKeeps
<1>5. CASE PlayersChange
  BY <1>5 DEF PlayersChange, IInv, TypeOK, WaitingHasAttempt
<1>6. CASE UNCHANGED vars
  BY <1>6 DEF vars, IInv, TypeOK, WaitingHasAttempt
<1> QED
  BY <1>1, <1>2, <1>3, <1>4, <1>5, <1>6 DEF Next

(* requestState and the RealmInfo callback keep their types: no attempt is *)
(* numbered past the last, and nothing sleeps that sent no request.        *)
THEOREM TypeCorrect == Spec => []TypeOK
<1>1. IInv => TypeOK
  BY DEF IInv
<1> QED
  BY <1>1, InitEstablishes, StepKeeps, PTL DEF Spec

(* A player in the room who has not got the state has an attempt under     *)
(* way, whatever connections, other players and answers come and go.       *)
THEOREM WaitingIsCovered == Spec => []WaitingHasAttempt
<1>1. IInv => WaitingHasAttempt
  BY DEF IInv
<1> QED
  BY <1>1, InitEstablishes, StepKeeps, PTL DEF Spec
=============================================================================

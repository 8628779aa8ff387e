---------------------------- MODULE QuestCommand ----------------------------
(***************************************************************************)
(* The quests command (sdk-commands/src/commands/quests, with the prompts  *)
(* of logic/prompts.ts and the linker dApp of run-dapp.ts): it asks for a  *)
(* quest or takes it from a file, lets the author sign the request in the  *)
(* dApp or with DCL_PRIVATE_KEY, sends it to the quests server and stops   *)
(* the dApp 100 ms after it knows how the request ended.                   *)
(***************************************************************************)
EXTENDS Naturals, Sequences

CONSTANTS Commands,   \* a subset of Subcommands
          Items,      \* numbers of reward items an author gives
          MaxPosts    \* bound: requests of the dApp to the command

VARIABLE quest

Subcommands == {"create", "create-from-json", "list", "activate", "deactivate", "manager"}
Asked == {"name", "description", "imageUrl", "definition"}

QuestsAssumption ==
  Commands \subseteq Subcommands /\ Items \subseteq Nat \ {0} /\ MaxPosts \in Nat

Init ==
  \E command \in Commands, key \in BOOLEAN :
    quest = [command |-> command, privateKey |-> key, phase |-> "arguments",
             question |-> "name", cancelled |-> FALSE, answers |-> {}, items |-> 0,
             requests |-> 0, posts |-> 0, sent |-> <<>>, stopping |-> FALSE,
             server |-> FALSE]

Failed(s) == [s EXCEPT !.phase = "failed"]

-----------------------------------------------------------------------------
(* The arguments: a file that is missing or no quest, an id that is no     *)
(* UUID and an address that is none end the command.                       *)
executeCreateSubcommand ==
  /\ quest.phase = "arguments" /\ quest.command \in {"create", "create-from-json"}
  /\ \/ /\ quest.command = "create"
        /\ quest' = [quest EXCEPT !.phase = "asking"]
     \/ /\ quest.command = "create-from-json"
        /\ \/ quest' = Failed(quest)
           \/ quest' = [quest EXCEPT !.phase = "signing", !.answers = Asked]

Identified(command) ==
  /\ quest.phase = "arguments" /\ quest.command = command
  /\ \/ quest' = Failed(quest)
     \/ quest' = [quest EXCEPT !.phase = "signing"]

executeListSubcommand == Identified("list")
executeActivateSubcommand == Identified("activate")
executeDeactivateSubcommand == Identified("deactivate")

(* The manager is served until the author interrupts the command.          *)
executeManagerSubcommand ==
  /\ quest.command = "manager"
  /\ \/ quest.phase = "arguments" /\ quest' = [quest EXCEPT !.phase = "serving", !.server = TRUE]
     \/ quest.phase = "serving" /\ quest' = [quest EXCEPT !.phase = "ended", !.server = FALSE]

-----------------------------------------------------------------------------
(* The questions of createQuestByPrompting.  Each is followed by a return  *)
(* if any prompt so far was cancelled, but for the one for the image.      *)
(* Faulty variant: a cancellation only counts for its own question.        *)
NotesOwnCancellation(s, cancels) == [s EXCEPT !.cancelled = cancels]
NotesCancellation(s, cancels) == [s EXCEPT !.cancelled = @ \/ cancels]

ReturnsHere(s) == s.cancelled /\ s.question # "imageUrl"

Questions(s, yes) ==
  CASE s.question = "name"        -> "description"
    [] s.question = "description" -> "imageUrl"
    [] s.question = "imageUrl"    -> "definition"
    [] s.question = "definition"  -> "withReward"
    [] s.question = "withReward"  -> IF yes THEN "webhookUrl" ELSE "done"
    [] s.question = "webhookUrl"  -> "withRequestBody"
    [] s.question = "withRequestBody" -> IF yes THEN "requestBody" ELSE "rewardItemsNumber"
    [] s.question = "requestBody" -> "rewardItemsNumber"
    [] s.question = "rewardItemsNumber" -> "itemName"
    [] s.question = "itemName"    -> "itemImage"
    [] s.question = "itemImage"   -> IF s.items = 0 THEN "done" ELSE "itemName"

(* The answer to a question; a cancelled prompt gives none.                *)
Answered(s, cancels, number) ==
  [NotesCancellation(s, cancels) EXCEPT
     !.answers = IF cancels THEN @ ELSE @ \cup {s.question},
     !.items = IF s.question = "rewardItemsNumber" THEN number
               ELSE IF s.question = "itemName" THEN @ - 1 ELSE @]

Prompt ==
  /\ quest.phase = "asking"
  /\ \E cancels, yes \in BOOLEAN, number \in Items :
       LET s == Answered(quest, cancels, number) IN
       quest' = IF ReturnsHere(s) THEN Failed(s)
                ELSE IF Questions(s, yes) = "done" THEN [s EXCEPT !.phase = "signing"]
                ELSE [s EXCEPT !.question = Questions(s, yes)]

-----------------------------------------------------------------------------
(* The request to the quests server, with the headers of the auth chain.   *)
CommandCallback(s) == [s EXCEPT !.sent = Append(@, s.answers)]

(* With a private key the command signs; an error of the request ends it.  *)
SignWithKey ==
  /\ quest.phase = "signing" /\ quest.privateKey
  /\ \E ok \in BOOLEAN :
       quest' = [CommandCallback(quest) EXCEPT !.phase = IF ok THEN "ended" ELSE "failed"]

OpenDapp ==
  /\ quest.phase = "signing" /\ ~quest.privateKey
  /\ quest' = [quest EXCEPT !.phase = "waiting", !.server = TRUE]

(* The dApp posts the signature and waits for what the server says.        *)
Post ==
  /\ quest.phase = "waiting" /\ quest.server /\ quest.posts < MaxPosts
  /\ quest' = [CommandCallback(quest) EXCEPT !.posts = @ + 1, !.requests = @ + 1]

(* Whether it went well or not, the dApp is told and the end is arranged.  *)
PostAnswered ==
  /\ quest.requests > 0
  /\ quest' = [quest EXCEPT !.requests = @ - 1, !.stopping = TRUE]

PostInvalid ==
  /\ quest.phase = "waiting" /\ quest.server /\ quest.posts < MaxPosts
  /\ quest' = [quest EXCEPT !.posts = @ + 1, !.stopping = TRUE]

(* Faulty variant: the command ends and its server stays.                  *)
StopLeavingServer ==
  /\ quest.phase = "waiting" /\ quest.stopping
  /\ quest' = [quest EXCEPT !.phase = "ended"]

(* 100 ms later.                                                           *)
Stop ==
  /\ quest.phase = "waiting" /\ quest.stopping
  /\ quest' = [quest EXCEPT !.phase = "ended", !.server = FALSE]

(* What goes on once the dApp has posted.                                  *)
Work == PostAnswered \/ Stop

Next ==
  \/ executeCreateSubcommand \/ executeListSubcommand \/ executeActivateSubcommand
  \/ executeDeactivateSubcommand \/ executeManagerSubcommand
  \/ Prompt \/ SignWithKey \/ OpenDapp \/ Post \/ PostInvalid \/ Work

Spec == Init /\ [][Next]_quest
-----------------------------------------------------------------------------
(* Type invariant: the dApp is served only while it may be needed.         *)
TypeOK ==
  /\ quest.command \in Subcommands
  /\ quest.phase \in {"arguments", "asking", "signing", "waiting", "serving", "ended", "failed"}
  /\ quest.server => quest.phase \in {"waiting", "serving"}
  /\ quest.posts \in 0..MaxPosts /\ quest.requests \in 0..MaxPosts
  /\ quest.items \in Nat

(* A quest reaches the server only whole: with all that is asked of every  *)
(* quest, with its items if it has a reward, and never once the author has *)
(* cancelled a prompt.                                                     *)
OnlyWholeQuestsAreSent ==
  quest.command \in {"create", "create-from-json"} =>
    \A n \in 1..Len(quest.sent) :
      /\ ~quest.cancelled
      /\ Asked \subseteq quest.sent[n]
      /\ "webhookUrl" \in quest.sent[n]
           => {"rewardItemsNumber", "itemName", "itemImage"} \subseteq quest.sent[n]

(* Whoever signed is not left waiting.                                     *)
EndedIfPosted == quest.posts > 0 => quest.phase = "ended"
=============================================================================

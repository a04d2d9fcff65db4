---------------------------- MODULE Conversation ----------------------------
(***************************************************************************)
(* POST /chat (app/api/v1/endpoints/chats.py) under the routed graph: a    *)
(* turn streams the events of the graph to the client and then stores the  *)
(* question and the answer as rows of AsistantMessages, numbered within    *)
(* the conversation of a user with a knowledge base.                       *)
(*                                                                         *)
(* Nothing keeps the turns of a conversation apart: the highest number is  *)
(* read in one statement and used in a later commit, and the table has no  *)
(* unique constraint.  The content of an answer is "none", "partial" (some *)
(* tokens) or "whole" (what the respond node holds).                       *)
(***************************************************************************)
EXTENDS Integers, FiniteSetsExt

CONSTANT Turns  \* turns of one conversation

VARIABLES
    messages,  \* the rows of the conversation
    turn       \* what each turn knows

chatVars == <<messages, turn>>

Contents == {"none", "partial", "whole"}
ChatSteps == {"idle", "streaming", "ended", "numbered", "done", "gone", "unsaved"}

(* cut is history: the graph raised, or respond had no answer.  known is   *)
(* history: the turns whose rows were there when the highest number was    *)
(* read.                                                                   *)
TurnStates == [step: ChatSteps, full_answer: Contents, cut: BOOLEAN,
               max_seq_num: Nat, known: SUBSET Turns]

NoTurn == [step |-> "idle", full_answer |-> "none", cut |-> FALSE,
           max_seq_num |-> 0, known |-> {}]

Rows == [turn: Turns, role: {"USER", "AI"}, sequence_number: Nat \ {0}, content: Contents]

ChatTypeOK ==
    /\ messages \subseteq Rows
    /\ turn \in [Turns -> TurnStates]

ChatInit ==
    /\ messages = {}
    /\ turn = [t \in Turns |-> NoTurn]

(* The caller owns the knowledge base and the graph starts.                *)
Begin(t) ==
    /\ turn[t].step = "idle"
    /\ turn' = [turn EXCEPT ![t].step = "streaming"]
    /\ UNCHANGED messages

(* A token of an answer node, or of a call with the final-answer tag.      *)
Token(t) ==
    /\ turn[t].step = "streaming"
    /\ turn[t].full_answer = "none"
    /\ turn' = [turn EXCEPT ![t].full_answer = "partial"]
    /\ UNCHANGED messages

(* The end of respond, the last node: its answer, unless it is empty,      *)
(* replaces the tokens.                                                    *)
RespondEvent(t) ==
    /\ turn[t].step = "streaming"
    /\ \/ turn' = [turn EXCEPT ![t].step = "ended", ![t].full_answer = "whole"]
       \/ turn' = [turn EXCEPT ![t].step = "ended", ![t].cut = TRUE]
    /\ UNCHANGED messages

(* The graph raises; the client is sent an error event, and what was       *)
(* streamed so far is kept.                                                *)
GraphFails(t) ==
    /\ turn[t].step = "streaming"
    /\ turn' = [turn EXCEPT ![t].step = "ended", ![t].cut = TRUE]
    /\ UNCHANGED messages

(* The client goes away: the generator is cancelled, which the except      *)
(* clause does not catch, and nothing of the turn is stored.               *)
Disconnect(t) ==
    /\ turn[t].step \in {"streaming", "ended", "numbered"}
    /\ turn' = [turn EXCEPT ![t].step = "gone"]
    /\ UNCHANGED messages

Stored == {m.turn : m \in messages}
Numbers == {m.sequence_number : m \in messages}

(* Bug: only the questions are counted.                                    *)
ReadMaxOfQuestions(t) ==
    LET numbers == {m.sequence_number : m \in {n \in messages : n.role = "USER"}} IN
    /\ turn[t].step = "ended"
    /\ turn' = [turn EXCEPT ![t].step = "numbered", ![t].known = Stored,
                            ![t].max_seq_num = IF numbers = {} THEN 0 ELSE Max(numbers)]
    /\ UNCHANGED messages

ReadMax(t) ==
    /\ turn[t].step = "ended"
    /\ turn' = [turn EXCEPT ![t].step = "numbered", ![t].known = Stored,
                            ![t].max_seq_num = IF messages = {} THEN 0 ELSE Max(Numbers)]
    /\ UNCHANGED messages

NewMessage(t, role, number, content) ==
    [turn |-> t, role |-> role, sequence_number |-> turn[t].max_seq_num + number, content |-> content]

Question(t) == NewMessage(t, "USER", 1, "whole")

Answers(t) ==
    IF turn[t].full_answer = "none" THEN {} ELSE {NewMessage(t, "AI", 2, turn[t].full_answer)}

(* Both rows in one commit.                                                *)
Store(t) ==
    /\ turn[t].step = "numbered"
    /\ messages' = messages \cup {Question(t)} \cup Answers(t)
    /\ turn' = [turn EXCEPT ![t].step = "done"]

(* The query or the commit raises; the stream breaks off.                  *)
StoreFails(t) ==
    /\ turn[t].step \in {"ended", "numbered"}
    /\ turn' = [turn EXCEPT ![t].step = "unsaved"]
    /\ UNCHANGED messages

ChatNext == \E t \in Turns :
    \/ Begin(t) \/ Token(t) \/ RespondEvent(t) \/ GraphFails(t) \/ Disconnect(t)
    \/ ReadMax(t) \/ Store(t) \/ StoreFails(t)

ChatSpec == ChatInit /\ [][ChatNext]_chatVars

(* A turn that read the highest number after another turn was stored is    *)
(* numbered after it, whatever fails: two messages can only share a number *)
(* when neither turn saw the other, between its read and its commit.       *)
NumbersFollow ==
    \A m, n \in messages :
        n.turn \in turn[m.turn].known => m.sequence_number > n.sequence_number

(* The answer of a turn stands right after its question, also when another *)
(* turn was numbered at the same time; an answer is never stored without   *)
(* its question, whatever of the turn failed.                              *)
AnswerFollowsQuestion ==
    \A m \in messages : m.role = "AI" =>
        \E q \in messages : /\ q.turn = m.turn
                            /\ q.role = "USER"
                            /\ m.sequence_number = q.sequence_number + 1

(* What a conversation shows as an answer is what respond holds, or the    *)
(* tokens of a turn that was cut short; never an empty message, and never  *)
(* the tokens in place of what respond holds.                              *)
AnswersAreWhole ==
    \A m \in messages : m.role = "AI" =>
        m.content = IF turn[m.turn].cut THEN "partial" ELSE "whole"

(* What a conversation shows of its turns, in the order of their numbers.  *)
MessagesAreRight ==
    ChatTypeOK /\ NumbersFollow /\ AnswerFollowsQuestion /\ AnswersAreWhole
==============================================================================

------------------------------- MODULE BhojAi -------------------------------
(***************************************************************************)
(* A partner's conversation with the assistant (bhojai.service.ts): what is *)
(* asked and answered, the rounds of tools in between, the tickets one of   *)
(* the tools makes (bhojai-tools.ts), and starting afresh.                  *)
(***************************************************************************)
EXTENDS Handlers, Naturals, Sequences, FiniteSetsExt

CONSTANTS
    MaxToolIterations,   \* MAX_TOOL_ITERATIONS
    MaxQuestions,        \* bound: messages ever sent
    MaxResets,           \* bound: resets
    MaxEscalations       \* bound: tickets

VARIABLES
    conversations,   \* BhojAiConversation, oldest first: the status
    messages,        \* BhojAiMessage with a text, oldest first; since counts the resets before it
    escalations,     \* BhojAiEscalation, oldest first: the status
    asked, resets    \* history: how many messages were sent, how often it was reset

bhojAiVars == <<conversations, messages, escalations, asked, resets>>

BhojAiInit ==
    /\ conversations = <<>> /\ messages = <<>> /\ escalations = <<>>
    /\ asked = 0 /\ resets = 0

ActiveConversations == {c \in DOMAIN conversations : conversations[c] = "ACTIVE"}

(* The turns of the tools are rows too, without a text: they are neither shown nor recalled. *)
TextsOf(c) == {i \in DOMAIN messages : messages[i].conversation = c}

Write(r, role) ==
    messages' = Append(messages, [conversation |-> req[r].conversation, role |-> role, since |-> resets])

-----------------------------------------------------------------------------
(* sendMessage *)

(* The newest of the active ones, if there is any. *)
FindConversation(r) ==
    /\ asked < MaxQuestions
    /\ asked' = asked + 1
    /\ LET found == IF ActiveConversations = {} THEN 0 ELSE Max(ActiveConversations)
       IN  Begin(r, "ask", [at |-> IF found = 0 THEN "converse" ELSE "recall", conversation |-> found,
                            asked |-> resets, recalled |-> {}, rounds |-> 0])
    /\ UNCHANGED <<conversations, messages, escalations, resets>>

CreateConversation(r) ==
    /\ At(r, "converse")
    /\ conversations' = Append(conversations, "ACTIVE")
    /\ Goto(r, [req[r] EXCEPT !.at = "recall", !.conversation = Len(conversations')])
    /\ UNCHANGED <<messages, escalations, asked, resets>>

(* What was said before goes to the assistant with the question. *)
Recall(r) ==
    /\ At(r, "recall")
    /\ Goto(r, [req[r] EXCEPT !.at = "saveQuestion",
                              !.recalled = {messages[i].since : i \in TextsOf(req[r].conversation)}])
    /\ UNCHANGED bhojAiVars

SaveQuestion(r) ==
    /\ At(r, "saveQuestion")
    /\ Write(r, "USER")
    /\ Continue(r, "gemini")
    /\ UNCHANGED <<conversations, escalations, asked, resets>>

(* The assistant answers, asks for tools, or the call fails and the request with it. *)
Generate(r) ==
    /\ At(r, "gemini")
    /\ Continue(r, "saveAnswer") \/ Continue(r, "toolCalls") \/ End(r)
    /\ UNCHANGED bhojAiVars

(* Six of the tools look something up, and one that fails is reported as such; the  *)
(* seventh makes a ticket for a person to see (one a round here).                   *)
Execute ==
    \/ UNCHANGED escalations
    \/ Len(escalations) < MaxEscalations /\ escalations' = Append(escalations, "OPEN")

(* The tools run, between two rows without a text.  After the last round the         *)
(* assistant is not asked again: the fallback answers.                               *)
UseTools(r) ==
    /\ At(r, "toolCalls")
    /\ LET rounds == req[r].rounds + 1
       IN  Goto(r, [req[r] EXCEPT !.rounds = rounds,
                                  !.at = IF rounds = MaxToolIterations THEN "saveAnswer" ELSE "gemini"])
    /\ Execute
    /\ UNCHANGED <<conversations, messages, asked, resets>>

SaveAnswer(r) ==
    /\ At(r, "saveAnswer")
    /\ Write(r, "MODEL")
    /\ End(r)
    /\ UNCHANGED <<conversations, escalations, asked, resets>>

-----------------------------------------------------------------------------
(* reset, and an operator who closes a ticket *)

(* Faulty: the conversation a message would go to, and no other. *)
ResetNewest ==
    /\ Instant("reset") /\ resets < MaxResets
    /\ ActiveConversations # {}
    /\ conversations' = [conversations EXCEPT ![Max(ActiveConversations)] = "ARCHIVED"]
    /\ resets' = resets + 1
    /\ UNCHANGED <<messages, escalations, asked>>

ResetConversation ==
    /\ Instant("reset") /\ resets < MaxResets
    /\ conversations' = [c \in DOMAIN conversations |-> "ARCHIVED"]
    /\ resets' = resets + 1
    /\ UNCHANGED <<messages, escalations, asked>>

Resolve ==
    /\ Instant("resolve")
    /\ \E e \in DOMAIN escalations : escalations' = [escalations EXCEPT ![e] = "RESOLVED"]
    /\ UNCHANGED <<conversations, messages, asked, resets>>

BhojAiStep(r) ==
    FindConversation(r) \/ CreateConversation(r) \/ Recall(r) \/ SaveQuestion(r) \/ Generate(r)
       \/ UseTools(r) \/ SaveAnswer(r)

BhojAiAlone == ResetConversation \/ Resolve

-----------------------------------------------------------------------------
BhojAiNext == BhojAiAlone \/ \E r \in Requests : BhojAiStep(r) \/ (Abort(r) /\ UNCHANGED bhojAiVars)

BhojAiSpec == BhojAiInit /\ HandlersInit /\ [][BhojAiNext]_<<bhojAiVars, handlerVars>>

-----------------------------------------------------------------------------
(* getHistory *)
History == IF ActiveConversations = {} THEN {} ELSE TextsOf(Max(ActiveConversations))

(* "/bhojai/reset archives the current one so the next message starts fresh": in    *)
(* every interleaving, two first messages that each start a conversation included,  *)
(* nothing from before a reset is shown after it, or goes to the assistant with a   *)
(* message sent after it.  And as long as no two messages overlap, each answer      *)
(* follows its own question, and a question is answered once.                       *)
ResetsForget ==
    /\ \A i \in History : messages[i].since = resets
    /\ \A r \in Requests : At(r, "saveQuestion") => \A since \in req[r].recalled : since >= req[r].asked
    /\ ~overlapped =>
          \A i \in History : messages[i].role = "MODEL" =>
              \E j \in History : /\ j < i /\ messages[j].role = "USER"
                                /\ \A k \in History : ~(j < k /\ k < i)

=============================================================================

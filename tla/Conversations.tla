---------------------------- MODULE Conversations ----------------------------
(***************************************************************************)
(* The conversations and messages that app/services/chat_service.py keeps: *)
(* chat, stream_chat and delete_conversation, each a series of short       *)
(* database transactions with a language model's answer in between, run by *)
(* any number of concurrent requests of any number of users and workers.   *)
(*                                                                         *)
(* A conversation bears the name of the request that creates it, and a     *)
(* request's text is the request itself.  A transaction's now() is the     *)
(* time of its first statement; no two transactions start together.        *)
(***************************************************************************)
EXTENDS Integers, FiniteSets, FiniteSetsExt

CONSTANTS Requests,  \* each is made once
          Users,
          UserOf,    \* the authenticated user of a request
          Window,    \* MAX_HISTORY_MESSAGES
          NoTitle

ASSUME RequestsAssumption == /\ IsFiniteSet(Requests)
                             /\ UserOf \in [Requests -> Users]
                             /\ NoTitle \notin Requests
ASSUME WindowAssumption == Window \in Nat

VARIABLES
  at,        \* where a request stands
  kind,      \* chat, stream or delete
  target,    \* its conversation: its own name if it gave no conversationId
  began,     \* now() of its current transaction
  titling,   \* it found the conversation without a title
  history,   \* what _build_history gave it
  status,    \* of a conversation: unused, live or deleted
  title,     \* conversations.title
  messages,  \* the table
  clock,     \* the database server's
  overtakers \* history variable: who saved an answer while a request did

requests == <<at, kind, target, began, titling, history>>
database == <<status, title, messages>>
vars     == <<at, kind, target, began, titling, history, status, title,
              messages, clock, overtakers>>

Conversation == Requests

Kinds  == {"chat", "stream", "delete"}
Active == {"asked", "found", "recalled", "answering", "saving", "saved", "deleting"}
Ended  == {"done", "failed", "notFound"}

Message == [conversation : Conversation, request : Requests,
            role : {"user", "assistant"}, created : Nat]

MessagesOf(c) == {m \in messages : m.conversation = c}

Question(r) == [conversation |-> target[r], request |-> r,
                role |-> "user", created |-> began[r]]
Answer(r)   == [Question(r) EXCEPT !.role = "assistant"]

Init == /\ at = [r \in Requests |-> "new"]
        /\ kind = [r \in Requests |-> "chat"]
        /\ target = [r \in Requests |-> r]
        /\ began = [r \in Requests |-> 0]
        /\ titling = [r \in Requests |-> FALSE]
        /\ history = [r \in Requests |-> {}]
        /\ status = [c \in Conversation |-> "unused"]
        /\ title = [c \in Conversation |-> NoTitle]
        /\ messages = {}
        /\ clock = 0
        /\ overtakers = [r \in Requests |-> {}]
-----------------------------------------------------------------------------
(* chat and stream_chat *)

GoTo(r, stage) == at' = [at EXCEPT ![r] = stage]

\* r's session executes its first statement; the time is of interest if it is
\* to save a message.
Begin(r, saves) ==
  IF saves THEN began' = [began EXCEPT ![r] = clock] /\ clock' = clock + 1
           ELSE UNCHANGED <<began, clock>>

\* The request is over; what it knew goes with it.
Leave(r, stage) == /\ GoTo(r, stage)
                   /\ began' = [began EXCEPT ![r] = 0]
                   /\ titling' = [titling EXCEPT ![r] = FALSE]
                   /\ history' = [history EXCEPT ![r] = {}]
                   /\ overtakers' = [overtakers EXCEPT ![r] = {}]

\* The request arrives, for a new conversation or with the id of one, whoever's
\* and whether or not it is still there; the query is embedded, with no
\* connection held.
Arrive(r, k, c) ==
  /\ at[r] = "new" /\ GoTo(r, "asked")
  /\ IF c = r THEN k # "delete" ELSE status[c] # "unused"
  /\ kind' = [kind EXCEPT ![r] = k]
  /\ target' = [target EXCEPT ![r] = c]
  /\ UNCHANGED <<began, titling, history, database, clock, overtakers>>

\* A mutant of Owned: the query does not filter on the user.
AnybodysFor(r, c) == status[c] = "live"

\* The rows that a query for a conversation of the request's user finds.
Owned(r, c) == status[c] = "live" /\ UserOf[c] = UserOf[r]

\* get_or_create_conversation without an id: committed at once, so that the
\* conversation exists whatever becomes of the request.
Create(r) ==
  /\ at[r] = "asked" /\ kind[r] # "delete" /\ target[r] = r
  /\ status' = [status EXCEPT ![r] = "live"]
  /\ GoTo(r, "found") /\ Begin(r, kind[r] = "stream")
  /\ UNCHANGED <<kind, target, titling, history, title, messages, overtakers>>

\* get_or_create_conversation with an id.
Find(r) ==
  /\ at[r] = "asked" /\ kind[r] # "delete" /\ target[r] # r
  /\ \/ Owned(r, target[r]) /\ GoTo(r, "found") /\ Begin(r, kind[r] = "stream")
        /\ UNCHANGED <<titling, history, overtakers>>
     \/ ~Owned(r, target[r]) /\ Leave(r, "notFound") /\ UNCHANGED clock
  /\ UNCHANGED <<kind, target, database>>

\* A mutant of Latest: the oldest messages instead.
Earliest(h, s) == \A m \in h, n \in s \ h : m.created <= n.created

\* h may come out of ORDER BY created_at DESC LIMIT as the newest of s: ties
\* are broken at will.
Latest(h, s) == \A m \in h, n \in s \ h : m.created >= n.created

\* _build_history, which a stream calls before it saves its question.
Recall(r) ==
  /\ at[r] = "found"
  /\ LET s    == MessagesOf(target[r])
         size == IF Cardinality(s) < Window THEN Cardinality(s) ELSE Window
     IN  \E h \in kSubset(size, s) :
           Latest(h, s) /\ history' = [history EXCEPT ![r] = h]
  /\ GoTo(r, IF kind[r] = "stream" THEN "recalled" ELSE "answering")
  /\ UNCHANGED <<kind, target, began, titling, database, clock, overtakers>>

\* The foreign key of a message: its conversation must be there at commit.
Accepts(c) == status[c] = "live"

\* A stream commits its question before the model is asked.
SaveQuestion(r) ==
  /\ at[r] = "recalled"
  /\ \/ Accepts(target[r]) /\ messages' = messages \cup {Question(r)}
        /\ GoTo(r, "answering") /\ UNCHANGED <<began, titling, history, overtakers>>
     \/ ~Accepts(target[r]) /\ Leave(r, "failed") /\ UNCHANGED messages
  /\ UNCHANGED <<kind, target, status, title, clock>>

\* A mutant of Untitled: the title is set by every request.
AlwaysUntitled(c) == TRUE

\* if conv and not conv.title
Untitled(c) == status[c] = "live" /\ title[c] = NoTitle

\* The model has answered, or a text that apologises stands for its answer;
\* the write session reads the conversation again.
BeginSaving(r) ==
  /\ at[r] = "answering" /\ GoTo(r, "saving") /\ Begin(r, TRUE)
  /\ titling' = [titling EXCEPT ![r] = Untitled(target[r])]
  /\ history' = [history EXCEPT ![r] = {}]
  /\ UNCHANGED <<kind, target, database, overtakers>>

\* Mutants of Saved: the session is not committed, the chat forgets its
\* question, the answer is saved with the title only.
Uncommitted(r) == {}
AnswerAlone(r) == {Answer(r)}
OnlyWhenTitling(r) == IF titling[r] THEN {Question(r), Answer(r)} ELSE {Question(r)}

\* What the write session adds: a stream's question is there already.
Saved(r) == IF kind[r] = "chat" THEN {Question(r), Answer(r)} ELSE {Answer(r)}

\* The write session commits what it adds, and the title, in one transaction.
SaveAnswer(r) ==
  /\ at[r] = "saving"
  /\ \/ /\ Accepts(target[r])
        /\ messages' = messages \cup Saved(r)
        /\ title' = IF titling[r] THEN [title EXCEPT ![target[r]] = r] ELSE title
        /\ overtakers' = [s \in Requests |-> IF at[s] = "saving" /\ s # r
                                             THEN overtakers[s] \cup {r}
                                             ELSE overtakers[s]]
        /\ GoTo(r, "saved") /\ UNCHANGED <<began, titling, history>>
     \/ ~Accepts(target[r]) /\ Leave(r, "failed") /\ UNCHANGED <<title, messages>>
  /\ UNCHANGED <<kind, target, status, clock>>

\* The response, or the stream's done event.
Respond(r) ==
  /\ at[r] = "saved" /\ Leave(r, "done")
  /\ UNCHANGED <<kind, target, database, clock>>

\* A statement or a commit fails, the worker dies, or the client of a stream
\* goes away: what the current session has not committed is rolled back.
Break(r) ==
  /\ at[r] \in Active /\ Leave(r, "failed")
  /\ UNCHANGED <<kind, target, database, clock>>
-----------------------------------------------------------------------------
(* delete_conversation *)

FindToDelete(r) ==
  /\ at[r] = "asked" /\ kind[r] = "delete"
  /\ GoTo(r, IF Owned(r, target[r]) THEN "deleting" ELSE "notFound")
  /\ UNCHANGED <<kind, target, began, titling, history, database, clock, overtakers>>

\* A mutant of Cascade: the schema without it.
NoCascade(c) == messages

\* ON DELETE CASCADE takes whatever messages there are by now.
Cascade(c) == {m \in messages : m.conversation # c}

\* Deleting a row that is already gone deletes nothing and succeeds.
Delete(r) ==
  /\ at[r] = "deleting" /\ GoTo(r, "done")
  /\ status' = [status EXCEPT ![target[r]] = "deleted"]
  /\ title' = [title EXCEPT ![target[r]] = NoTitle]
  /\ messages' = Cascade(target[r])
  /\ UNCHANGED <<kind, target, began, titling, history, clock, overtakers>>
-----------------------------------------------------------------------------
Chat(r) == \/ Create(r) \/ Find(r) \/ Recall(r) \/ SaveQuestion(r)
           \/ BeginSaving(r) \/ SaveAnswer(r) \/ Respond(r)

Proceed(r) == Chat(r) \/ FindToDelete(r) \/ Delete(r)

Finished == (\A r \in Requests : at[r] \in Ended) /\ UNCHANGED vars

Next == \/ \E r \in Requests : \/ \E k \in Kinds, c \in Conversation : Arrive(r, k, c)
                               \/ Proceed(r) \/ Break(r)
        \/ Finished

\* The embedding and the answer come or time out; the database answers.
Fairness == \A r \in Requests : WF_vars(Proceed(r))

Spec == Init /\ [][Next]_vars /\ Fairness
-----------------------------------------------------------------------------
(* Properties *)

\* Every variable holds values the program can store in it; a conversation
\* that is not there has no title.
TypeOK ==
  /\ at \in [Requests -> {"new"} \cup Active \cup Ended]
  /\ kind \in [Requests -> Kinds]
  /\ target \in [Requests -> Conversation]
  /\ began \in [Requests -> Nat]
  /\ titling \in [Requests -> BOOLEAN]
  /\ history \in [Requests -> SUBSET Message]
  /\ status \in [Conversation -> {"unused", "live", "deleted"}]
  /\ title \in [Conversation -> Requests \cup {NoTitle}]
  /\ \A c \in Conversation : status[c] # "live" => title[c] = NoTitle
  /\ messages \subseteq Message
  /\ clock \in Nat
  /\ overtakers \in [Requests -> SUBSET Requests]

\* A conversation deleted while the model was still answering stays deleted:
\* the late answer is refused instead of leaving a message without one.
NoOrphans == \A m \in messages : status[m.conversation] = "live"

\* Nobody's question or answer gets into a conversation of someone else, nor
\* does the history that a request sends to the model contain any.
OwnMessagesOnly ==
  /\ \A m \in messages : UserOf[m.request] = UserOf[m.conversation]
  /\ \A r \in Requests : \A m \in history[r] : UserOf[m.request] = UserOf[r]

\* Once the client has the answer or the done event, question and answer are
\* both in the conversation, as long as it exists.
PromisesKept ==
  \A r \in Requests :
    at[r] = "done" /\ kind[r] # "delete" /\ status[target[r]] = "live" =>
      \A role \in {"user", "assistant"} :
        \E m \in MessagesOf(target[r]) : m.request = r /\ m.role = role

Answered(r) == \E m \in messages : m.request = r /\ m.role = "assistant"
Asked(r)    == \E m \in messages : m.request = r /\ m.role = "user"

\* The title is always the question of an exchange that was saved whole: it is
\* never that of a request which failed.
TitleHasExchange ==
  \A c \in Conversation :
    status[c] = "live" /\ title[c] # NoTitle => Asked(title[c]) /\ Answered(title[c])

\* A title changes hands only in a race: the request that replaces it began to
\* save before the request that had set it was done saving.
TitleReplacedOnlyInRace ==
  [][\A c \in Conversation :
       title[c] # NoTitle /\ title'[c] \notin {title[c], NoTitle} =>
         title[c] \in overtakers[title'[c]]]_vars

\* Whatever else is in progress, a request's history leaves out its own
\* question, which is sent besides, and an answered stream's question never
\* comes without the answer: a window that cuts an exchange keeps the answer.
HistoryWellCut ==
  [][\A r \in Requests : at[r] = "found" => \A m \in history'[r] :
       /\ m.request # r
       /\ m.role = "user" /\ kind[m.request] = "stream" /\ Answered(m.request) =>
            \E n \in history'[r] : n.request = m.request /\ n.role = "assistant"]_vars

\* A conversation without a message was created by a request that has yet to
\* save its exchange, or failed to.
EmptyOnlyUnfinished ==
  \A c \in Conversation :
    status[c] = "live" /\ MessagesOf(c) = {} => at[c] \notin {"new", "saved", "done", "notFound"}

\* A question in a conversation is answered, unless its request breaks or the
\* conversation is deleted.
QuestionsAnswered ==
  \A r \in Requests : Asked(r) ~> Answered(r) \/ at[r] = "failed" \/ status[target[r]] = "deleted"

\* The full conversation history of the README: the question's createdAt comes
\* before its answer's.
QuestionsFirst ==
  \A m, n \in messages :
    m.request = n.request /\ m.role = "user" /\ n.role = "assistant" => m.created < n.created
=============================================================================

------------------------ MODULE ConversationsProofs ------------------------
(***************************************************************************)
(* Theorems about Conversations, for any number of requests and users and  *)
(* any window of the history.                                              *)
(***************************************************************************)
EXTENDS Conversations, TLAPS

\* The stages of a chat or stream that has its conversation.
Inside == {"found", "recalled", "answering", "saving", "saved"}

Has(r, role) == \E m \in messages : /\ m.conversation = target[r] /\ m.request = r
                                    /\ m.role = role

\* A request inside a conversation passed the ownership check.
Admitted ==
  \A r \in Requests :
    /\ at[r] \in Inside => /\ UserOf[target[r]] = UserOf[r]
                           /\ kind[r] # "delete" /\ status[target[r]] # "unused"
    /\ at[r] = "recalled" => kind[r] = "stream"
    /\ at[r] = "deleting" => kind[r] = "delete" /\ status[target[r]] # "unused"
    /\ at[r] # "new" /\ target[r] # r => status[target[r]] # "unused"

\* A conversation exists once the request it is named after created it.
Created ==
  \A c \in Conversation :
    status[c] # "unused" => /\ target[c] = c /\ kind[c] # "delete"
                            /\ at[c] \notin {"new", "asked", "deleting", "notFound"}

\* A transaction that saves a message began in the past.
Begun ==
  \A r \in Requests :
    (at[r] \in {"found", "recalled"} /\ kind[r] = "stream") \/ at[r] \in {"saving", "saved"}
      => began[r] < clock

\* Whose a message is, and how far its request has come.
Origin ==
  \A m \in messages :
    /\ m.created < clock
    /\ m.conversation = target[m.request]
    /\ UserOf[m.conversation] = UserOf[m.request]
    /\ at[m.request] \in {"answering", "saving", "saved", "done", "failed"}
    /\ at[m.request] \in {"answering", "saving"} => m.role = "user"
    /\ at[m.request] = "saving" => m.created < began[m.request]

\* A request's messages stay in its conversation as long as that exists.
Exchanges ==
  \A r \in Requests :
    status[target[r]] = "live" /\ kind[r] # "delete" =>
      /\ at[r] \in {"answering", "saving"} /\ kind[r] = "stream" => Has(r, "user")
      /\ at[r] \in {"saved", "done"} => Has(r, "user") /\ Has(r, "assistant")

\* A stream's question is older than its answer.
StreamOrder ==
  \A m, n \in messages :
    m.request = n.request /\ kind[m.request] = "stream" /\ m.role = "user" /\ n.role = "assistant"
      => m.created < n.created

\* A title comes from an exchange in the conversation.
Titles ==
  \A c \in Conversation :
    title[c] # NoTitle => /\ target[title[c]] = c
                          /\ Has(title[c], "user") /\ Has(title[c], "assistant")

\* A request about to set a title that is already set knows who overtook it.
Races ==
  \A r \in Requests :
    at[r] = "saving" /\ titling[r] /\ title[target[r]] # NoTitle
      => title[target[r]] \in overtakers[r]

\* A history is recalled once, from the messages of the same user.
OwnHistory ==
  \A r \in Requests :
    /\ \A m \in history[r] : UserOf[m.request] = UserOf[r]
    /\ at[r] \in {"new", "asked", "found"} => history[r] = {}

\* The inductive invariant.
IInv == /\ TypeOK /\ NoOrphans /\ Admitted /\ Created /\ Begun /\ Origin
        /\ Exchanges /\ StreamOrder /\ Titles /\ Races /\ OwnHistory
-----------------------------------------------------------------------------

\* What a question and an answer are made of.
LEMMA Fields ==
  ASSUME NEW r
  PROVE  /\ Answer(r) = [conversation |-> target[r], request |-> r,
                         role |-> "assistant", created |-> began[r]]
         /\ Question(r) = [conversation |-> target[r], request |-> r,
                           role |-> "user", created |-> began[r]]
BY DEF Answer, Question

\* They are rows of the table.
LEMMA Rows ==
  ASSUME TypeOK, NEW r \in Requests
  PROVE  Question(r) \in Message /\ Answer(r) \in Message /\ Saved(r) \subseteq Message
<1>1. target[r] \in Conversation /\ began[r] \in Nat
  BY DEF TypeOK
<1>2. Question(r) \in Message /\ Answer(r) \in Message
  BY <1>1, Fields DEF Message
<1> QED
  BY <1>2 DEF Saved

\* A request that is over leaves values of the right kind.
LEMMA LeaveTyped ==
  ASSUME TypeOK, NEW r \in Requests, NEW s \in Ended, Leave(r, s),
         UNCHANGED <<kind, target, database, clock>>
  PROVE  TypeOK'
BY DEF TypeOK, Ended, Active, Leave, GoTo, database

\* Every step stores values of the right kind.
LEMMA TypingStep == IInv /\ [Next]_vars => TypeOK'
<1> SUFFICES ASSUME IInv, [Next]_vars PROVE TypeOK'
  OBVIOUS
<1> USE DEF TypeOK, Conversation, Active, Ended, Kinds, database, Leave, GoTo, Begin
<1>0. TypeOK
  BY DEF IInv
<1>1. ASSUME NEW r \in Requests, NEW k \in Kinds, NEW c \in Conversation, Arrive(r, k, c)
      PROVE  TypeOK'
  BY <1>0, <1>1 DEF Arrive
<1>2. ASSUME NEW r \in Requests, Create(r) PROVE TypeOK'
  BY <1>0, <1>2, RequestsAssumption DEF Create
<1>3. ASSUME NEW r \in Requests, Find(r) PROVE TypeOK'
  <2>1. CASE Owned(r, target[r])
    BY <1>0, <1>3, <2>1 DEF Find
  <2>2. CASE ~Owned(r, target[r])
    <3>1. Leave(r, "notFound") /\ UNCHANGED <<kind, target, database, clock>>
      BY <1>3, <2>2 DEF Find
    <3> QED
      BY <1>0, <3>1, LeaveTyped
  <2> QED
    BY <2>1, <2>2
<1>4. ASSUME NEW r \in Requests, Recall(r) PROVE TypeOK'
  <2>1. PICK h \in SUBSET MessagesOf(target[r]) : history' = [history EXCEPT ![r] = h]
    BY <1>4 DEF Recall, kSubset
  <2>2. h \in SUBSET Message
    BY <1>0, <2>1 DEF MessagesOf
  <2> QED
    BY <1>0, <1>4, <2>1, <2>2 DEF Recall
<1>5. ASSUME NEW r \in Requests, SaveQuestion(r) PROVE TypeOK'
  <2>1. CASE Accepts(target[r])
    BY <1>0, <1>5, <2>1, Rows DEF SaveQuestion
  <2>2. CASE ~Accepts(target[r])
    <3>1. Leave(r, "failed") /\ UNCHANGED <<kind, target, database, clock>>
      BY <1>5, <2>2 DEF SaveQuestion
    <3> QED
      BY <1>0, <3>1, LeaveTyped
  <2> QED
    BY <2>1, <2>2
<1>6. ASSUME NEW r \in Requests, BeginSaving(r) PROVE TypeOK'
  BY <1>0, <1>6 DEF BeginSaving, Untitled
<1>7. ASSUME NEW r \in Requests, SaveAnswer(r) PROVE TypeOK'
  <2>1. CASE Accepts(target[r])
    <3>1. Saved(r) \subseteq Message
      BY <1>0, Rows
    <3>2. title' \in [Conversation -> Requests \cup {NoTitle}]
      BY <1>0, <1>7, <2>1 DEF SaveAnswer
    <3>3. \A c \in Conversation : status[c] # "live" => title'[c] = NoTitle
      BY <1>0, <1>7, <2>1 DEF SaveAnswer, Accepts
    <3>4. overtakers' \in [Requests -> SUBSET Requests]
      BY <1>0, <1>7, <2>1 DEF SaveAnswer
    <3>5. messages' \subseteq Message
      BY <1>0, <1>7, <2>1, <3>1 DEF SaveAnswer
    <3>6. /\ at' \in [Requests -> {"new"} \cup Active \cup Ended]
          /\ UNCHANGED <<kind, target, began, titling, history, status, clock>>
      BY <1>0, <1>7, <2>1 DEF SaveAnswer
    <3> QED
      BY <1>0, <3>2, <3>3, <3>4, <3>5, <3>6
  <2>2. CASE ~Accepts(target[r])
    <3>1. Leave(r, "failed") /\ UNCHANGED <<kind, target, database, clock>>
      BY <1>7, <2>2 DEF SaveAnswer
    <3> QED
      BY <1>0, <3>1, LeaveTyped
  <2> QED
    BY <2>1, <2>2
<1>8. ASSUME NEW r \in Requests, Respond(r) PROVE TypeOK'
  BY <1>0, <1>8 DEF Respond
<1>9. ASSUME NEW r \in Requests, FindToDelete(r) PROVE TypeOK'
  BY <1>0, <1>9 DEF FindToDelete
<1>10. ASSUME NEW r \in Requests, Delete(r) PROVE TypeOK'
  BY <1>0, <1>10 DEF Delete, Cascade
<1>11. ASSUME NEW r \in Requests, Break(r) PROVE TypeOK'
  BY <1>0, <1>11 DEF Break
<1>12. CASE UNCHANGED vars
  BY <1>0, <1>12 DEF vars
<1> QED
  BY <1>1, <1>2, <1>3, <1>4, <1>5, <1>6, <1>7, <1>8, <1>9, <1>10, <1>11, <1>12
     DEF Next, Proceed, Chat, Finished

\* A request gets into a conversation of its own user only.
LEMMA AdmittedStep == IInv /\ [Next]_vars => Admitted'
<1> SUFFICES ASSUME IInv, [Next]_vars PROVE Admitted'
  OBVIOUS
<1> USE DEF TypeOK, Admitted, Inside, Conversation, Active, Ended, Kinds, database, Leave, GoTo
<1>0. TypeOK /\ Admitted
  BY DEF IInv
<1>1. ASSUME NEW r \in Requests, NEW k \in Kinds, NEW c \in Conversation, Arrive(r, k, c)
      PROVE  Admitted'
  BY <1>0, <1>1 DEF Arrive
<1>2. ASSUME NEW r \in Requests, Create(r) PROVE Admitted'
  BY <1>0, <1>2 DEF Create
<1>3. ASSUME NEW r \in Requests, Find(r) PROVE Admitted'
  BY <1>0, <1>3 DEF Find, Owned
<1>4. ASSUME NEW r \in Requests, Recall(r) PROVE Admitted'
  BY <1>0, <1>4 DEF Recall
<1>5. ASSUME NEW r \in Requests, SaveQuestion(r) PROVE Admitted'
  BY <1>0, <1>5 DEF SaveQuestion
<1>6. ASSUME NEW r \in Requests, BeginSaving(r) PROVE Admitted'
  BY <1>0, <1>6 DEF BeginSaving
<1>7. ASSUME NEW r \in Requests, SaveAnswer(r) PROVE Admitted'
  BY <1>0, <1>7 DEF SaveAnswer
<1>8. ASSUME NEW r \in Requests, Respond(r) PROVE Admitted'
  BY <1>0, <1>8 DEF Respond
<1>9. ASSUME NEW r \in Requests, FindToDelete(r) PROVE Admitted'
  BY <1>0, <1>9 DEF FindToDelete, Owned
<1>10. ASSUME NEW r \in Requests, Delete(r) PROVE Admitted'
  BY <1>0, <1>10 DEF Delete
<1>11. ASSUME NEW r \in Requests, Break(r) PROVE Admitted'
  BY <1>0, <1>11 DEF Break
<1>12. CASE UNCHANGED vars
  BY <1>0, <1>12 DEF vars
<1> QED
  BY <1>1, <1>2, <1>3, <1>4, <1>5, <1>6, <1>7, <1>8, <1>9, <1>10, <1>11, <1>12
     DEF Next, Proceed, Chat, Finished

\* Conversations are created by the requests they are named after, once.
LEMMA CreatedStep == IInv /\ [Next]_vars => Created'
<1> SUFFICES ASSUME IInv, [Next]_vars PROVE Created'
  OBVIOUS
<1> USE DEF TypeOK, Admitted, Created, Inside, Conversation, Active, Ended, Kinds, database, Leave, GoTo
<1>0. TypeOK /\ Admitted /\ Created
  BY DEF IInv
<1>1. ASSUME NEW r \in Requests, NEW k \in Kinds, NEW c \in Conversation, Arrive(r, k, c)
      PROVE  Created'
  BY <1>0, <1>1 DEF Arrive
<1>2. ASSUME NEW r \in Requests, Create(r) PROVE Created'
  BY <1>0, <1>2 DEF Create
<1>3. ASSUME NEW r \in Requests, Find(r) PROVE Created'
  BY <1>0, <1>3 DEF Find, Owned
<1>4. ASSUME NEW r \in Requests, Recall(r) PROVE Created'
  BY <1>0, <1>4 DEF Recall
<1>5. ASSUME NEW r \in Requests, SaveQuestion(r) PROVE Created'
  BY <1>0, <1>5 DEF SaveQuestion
<1>6. ASSUME NEW r \in Requests, BeginSaving(r) PROVE Created'
  BY <1>0, <1>6 DEF BeginSaving
<1>7. ASSUME NEW r \in Requests, SaveAnswer(r) PROVE Created'
  BY <1>0, <1>7 DEF SaveAnswer
<1>8. ASSUME NEW r \in Requests, Respond(r) PROVE Created'
  BY <1>0, <1>8 DEF Respond
<1>9. ASSUME NEW r \in Requests, FindToDelete(r) PROVE Created'
  BY <1>0, <1>9 DEF FindToDelete, Owned
<1>10. ASSUME NEW r \in Requests, Delete(r) PROVE Created'
  BY <1>0, <1>10 DEF Delete
<1>11. ASSUME NEW r \in Requests, Break(r) PROVE Created'
  BY <1>0, <1>11 DEF Break
<1>12. CASE UNCHANGED vars
  BY <1>0, <1>12 DEF vars
<1> QED
  BY <1>1, <1>2, <1>3, <1>4, <1>5, <1>6, <1>7, <1>8, <1>9, <1>10, <1>11, <1>12
     DEF Next, Proceed, Chat, Finished

\* The clock is ahead of every transaction.
LEMMA BegunStep == IInv /\ [Next]_vars => Begun'
<1> SUFFICES ASSUME IInv, [Next]_vars PROVE Begun'
  OBVIOUS
<1> USE DEF TypeOK, Begun, Conversation, Active, Ended, Kinds, database, Leave, GoTo, Begin
<1>0. TypeOK /\ Begun
  BY DEF IInv
<1>1. ASSUME NEW r \in Requests, NEW k \in Kinds, NEW c \in Conversation, Arrive(r, k, c)
      PROVE  Begun'
  BY <1>0, <1>1 DEF Arrive
<1>2. ASSUME NEW r \in Requests, Create(r) PROVE Begun'
  BY <1>0, <1>2 DEF Create
<1>3. ASSUME NEW r \in Requests, Find(r) PROVE Begun'
  BY <1>0, <1>3 DEF Find
<1>4. ASSUME NEW r \in Requests, Recall(r) PROVE Begun'
  BY <1>0, <1>4 DEF Recall
<1>5. ASSUME NEW r \in Requests, SaveQuestion(r) PROVE Begun'
  BY <1>0, <1>5 DEF SaveQuestion
<1>6. ASSUME NEW r \in Requests, BeginSaving(r) PROVE Begun'
  BY <1>0, <1>6 DEF BeginSaving
<1>7. ASSUME NEW r \in Requests, SaveAnswer(r) PROVE Begun'
  BY <1>0, <1>7 DEF SaveAnswer
<1>8. ASSUME NEW r \in Requests, Respond(r) PROVE Begun'
  BY <1>0, <1>8 DEF Respond
<1>9. ASSUME NEW r \in Requests, FindToDelete(r) PROVE Begun'
  BY <1>0, <1>9 DEF FindToDelete
<1>10. ASSUME NEW r \in Requests, Delete(r) PROVE Begun'
  BY <1>0, <1>10 DEF Delete
<1>11. ASSUME NEW r \in Requests, Break(r) PROVE Begun'
  BY <1>0, <1>11 DEF Break
<1>12. CASE UNCHANGED vars
  BY <1>0, <1>12 DEF vars
<1> QED
  BY <1>1, <1>2, <1>3, <1>4, <1>5, <1>6, <1>7, <1>8, <1>9, <1>10, <1>11, <1>12
     DEF Next, Proceed, Chat, Finished

\* Messages come from requests that were in the conversation.
LEMMA OriginStep == IInv /\ [Next]_vars => Origin'
<1> SUFFICES ASSUME IInv, [Next]_vars PROVE Origin'
  OBVIOUS
<1> USE DEF TypeOK, Message, Admitted, Begun, Origin, Inside, Conversation, Active, Ended, Kinds, database, Leave, GoTo, Begin
<1>0. TypeOK /\ Admitted /\ Begun /\ Origin
  BY DEF IInv
<1>1. ASSUME NEW r \in Requests, NEW k \in Kinds, NEW c \in Conversation, Arrive(r, k, c)
      PROVE  Origin'
  BY <1>0, <1>1 DEF Arrive
<1>2. ASSUME NEW r \in Requests, Create(r) PROVE Origin'
  BY <1>0, <1>2 DEF Create
<1>3. ASSUME NEW r \in Requests, Find(r) PROVE Origin'
  BY <1>0, <1>3 DEF Find
<1>4. ASSUME NEW r \in Requests, Recall(r) PROVE Origin'
  BY <1>0, <1>4 DEF Recall
<1>5. ASSUME NEW r \in Requests, SaveQuestion(r) PROVE Origin'
  <2>1. CASE Accepts(target[r])
    <3>1. Question(r) = [conversation |-> target[r], request |-> r,
                         role |-> "user", created |-> began[r]]
      BY Fields
    <3>2. /\ messages' = messages \cup {Question(r)} /\ at' = [at EXCEPT ![r] = "answering"]
          /\ at[r] = "recalled" /\ kind[r] = "stream"
          /\ UNCHANGED <<kind, target, began, status, title, clock>>
      BY <1>0, <1>5, <2>1 DEF SaveQuestion
    <3> QED
      BY <1>0, <3>1, <3>2
  <2>2. CASE ~Accepts(target[r])
    BY <1>0, <1>5, <2>2 DEF SaveQuestion
  <2> QED
    BY <2>1, <2>2
<1>6. ASSUME NEW r \in Requests, BeginSaving(r) PROVE Origin'
  BY <1>0, <1>6 DEF BeginSaving
<1>7. ASSUME NEW r \in Requests, SaveAnswer(r) PROVE Origin'
  <2>1. CASE Accepts(target[r])
    <3>1. \A m \in Saved(r) : m.conversation = target[r] /\ m.request = r /\ m.created = began[r]
      BY Fields DEF Saved
    <3>2. /\ messages' = messages \cup Saved(r) /\ at' = [at EXCEPT ![r] = "saved"]
          /\ at[r] = "saving" /\ UNCHANGED <<kind, target, began, status, clock>>
      BY <1>0, <1>7, <2>1 DEF SaveAnswer
    <3> QED
      BY <1>0, <3>1, <3>2
  <2>2. CASE ~Accepts(target[r])
    BY <1>0, <1>7, <2>2 DEF SaveAnswer
  <2> QED
    BY <2>1, <2>2
<1>8. ASSUME NEW r \in Requests, Respond(r) PROVE Origin'
  BY <1>0, <1>8 DEF Respond
<1>9. ASSUME NEW r \in Requests, FindToDelete(r) PROVE Origin'
  BY <1>0, <1>9 DEF FindToDelete
<1>10. ASSUME NEW r \in Requests, Delete(r) PROVE Origin'
  BY <1>0, <1>10 DEF Delete, Cascade
<1>11. ASSUME NEW r \in Requests, Break(r) PROVE Origin'
  BY <1>0, <1>11 DEF Break
<1>12. CASE UNCHANGED vars
  BY <1>0, <1>12 DEF vars
<1> QED
  BY <1>1, <1>2, <1>3, <1>4, <1>5, <1>6, <1>7, <1>8, <1>9, <1>10, <1>11, <1>12
     DEF Next, Proceed, Chat, Finished

\* A deletion takes all messages, and the foreign key refuses later ones.
LEMMA OrphansStep == IInv /\ [Next]_vars => NoOrphans'
<1> SUFFICES ASSUME IInv, [Next]_vars PROVE NoOrphans'
  OBVIOUS
<1> USE DEF TypeOK, Message, Admitted, NoOrphans, Inside, Conversation, Active, Ended, Kinds, database, Leave, GoTo
<1>0. TypeOK /\ Admitted /\ NoOrphans
  BY DEF IInv
<1>1. ASSUME NEW r \in Requests, NEW k \in Kinds, NEW c \in Conversation, Arrive(r, k, c)
      PROVE  NoOrphans'
  BY <1>0, <1>1 DEF Arrive
<1>2. ASSUME NEW r \in Requests, Create(r) PROVE NoOrphans'
  BY <1>0, <1>2 DEF Create
<1>3. ASSUME NEW r \in Requests, Find(r) PROVE NoOrphans'
  BY <1>0, <1>3 DEF Find
<1>4. ASSUME NEW r \in Requests, Recall(r) PROVE NoOrphans'
  BY <1>0, <1>4 DEF Recall
<1>5. ASSUME NEW r \in Requests, SaveQuestion(r) PROVE NoOrphans'
  <2>1. CASE Accepts(target[r])
    <3>1. Question(r).conversation = target[r] /\ Question(r).request = r /\ Question(r).role = "user"
      BY Fields
    <3>2. /\ messages' = messages \cup {Question(r)} /\ at' = [at EXCEPT ![r] = "answering"]
          /\ at[r] = "recalled" /\ kind[r] = "stream" /\ status[target[r]] = "live"
          /\ UNCHANGED <<kind, target, began, titling, history, status, title, clock, overtakers>>
      BY <1>0, <1>5, <2>1 DEF SaveQuestion, Accepts
    <3> QED
      BY <1>0, <3>1, <3>2
  <2>2. CASE ~Accepts(target[r])
    BY <1>0, <1>5, <2>2 DEF SaveQuestion
  <2> QED
    BY <2>1, <2>2
<1>6. ASSUME NEW r \in Requests, BeginSaving(r) PROVE NoOrphans'
  BY <1>0, <1>6 DEF BeginSaving
<1>7. ASSUME NEW r \in Requests, SaveAnswer(r) PROVE NoOrphans'
  <2>1. CASE Accepts(target[r])
    <3>1. \A m \in Saved(r) : m.conversation = target[r] /\ m.request = r
      BY Fields DEF Saved
    <3>2. /\ messages' = messages \cup Saved(r) /\ at' = [at EXCEPT ![r] = "saved"]
          /\ at[r] = "saving" /\ status[target[r]] = "live"
          /\ UNCHANGED <<kind, target, began, titling, history, status, clock>>
      BY <1>0, <1>7, <2>1 DEF SaveAnswer, Accepts
    <3> QED
      BY <1>0, <3>1, <3>2
  <2>2. CASE ~Accepts(target[r])
    BY <1>0, <1>7, <2>2 DEF SaveAnswer
  <2> QED
    BY <2>1, <2>2
<1>8. ASSUME NEW r \in Requests, Respond(r) PROVE NoOrphans'
  BY <1>0, <1>8 DEF Respond
<1>9. ASSUME NEW r \in Requests, FindToDelete(r) PROVE NoOrphans'
  BY <1>0, <1>9 DEF FindToDelete
<1>10. ASSUME NEW r \in Requests, Delete(r) PROVE NoOrphans'
  BY <1>0, <1>10 DEF Delete, Cascade
<1>11. ASSUME NEW r \in Requests, Break(r) PROVE NoOrphans'
  BY <1>0, <1>11 DEF Break
<1>12. CASE UNCHANGED vars
  BY <1>0, <1>12 DEF vars
<1> QED
  BY <1>1, <1>2, <1>3, <1>4, <1>5, <1>6, <1>7, <1>8, <1>9, <1>10, <1>11, <1>12
     DEF Next, Proceed, Chat, Finished

\* What a request saved stays there, until its conversation is deleted.
LEMMA ExchangesStep == IInv /\ [Next]_vars => Exchanges'
<1> SUFFICES ASSUME IInv, [Next]_vars PROVE Exchanges'
  OBVIOUS
<1> USE DEF TypeOK, Message, Admitted, Created, Exchanges, Has, Inside, Conversation, Active, Ended, Kinds, database, Leave, GoTo
<1>0. TypeOK /\ Admitted /\ Created /\ Exchanges
  BY DEF IInv
<1>1. ASSUME NEW r \in Requests, NEW k \in Kinds, NEW c \in Conversation, Arrive(r, k, c)
      PROVE  Exchanges'
  BY <1>0, <1>1 DEF Arrive
<1>2. ASSUME NEW r \in Requests, Create(r) PROVE Exchanges'
  BY <1>0, <1>2 DEF Create
<1>3. ASSUME NEW r \in Requests, Find(r) PROVE Exchanges'
  BY <1>0, <1>3 DEF Find
<1>4. ASSUME NEW r \in Requests, Recall(r) PROVE Exchanges'
  BY <1>0, <1>4 DEF Recall
<1>5. ASSUME NEW r \in Requests, SaveQuestion(r) PROVE Exchanges'
  <2>1. CASE Accepts(target[r])
    <3>1. Question(r).conversation = target[r] /\ Question(r).request = r /\ Question(r).role = "user"
      BY Fields
    <3>2. /\ messages' = messages \cup {Question(r)} /\ at' = [at EXCEPT ![r] = "answering"]
          /\ at[r] = "recalled" /\ kind[r] = "stream" /\ status[target[r]] = "live"
          /\ UNCHANGED <<kind, target, began, titling, history, status, title, clock, overtakers>>
      BY <1>0, <1>5, <2>1 DEF SaveQuestion, Accepts
    <3> QED
      BY <1>0, <3>1, <3>2
  <2>2. CASE ~Accepts(target[r])
    BY <1>0, <1>5, <2>2 DEF SaveQuestion
  <2> QED
    BY <2>1, <2>2
<1>6. ASSUME NEW r \in Requests, BeginSaving(r) PROVE Exchanges'
  BY <1>0, <1>6 DEF BeginSaving
<1>7. ASSUME NEW r \in Requests, SaveAnswer(r) PROVE Exchanges'
  <2>1. CASE Accepts(target[r])
    <3>1. /\ \A m \in Saved(r) : m.conversation = target[r] /\ m.request = r
          /\ \E m \in Saved(r) : m.role = "assistant"
          /\ kind[r] = "chat" => \E m \in Saved(r) : m.role = "user"
      BY Fields DEF Saved
    <3>2. /\ messages' = messages \cup Saved(r) /\ at' = [at EXCEPT ![r] = "saved"]
          /\ at[r] = "saving" /\ status[target[r]] = "live"
          /\ UNCHANGED <<kind, target, began, titling, history, status, clock>>
      BY <1>0, <1>7, <2>1 DEF SaveAnswer, Accepts
    <3> QED
      BY <1>0, <3>1, <3>2
  <2>2. CASE ~Accepts(target[r])
    BY <1>0, <1>7, <2>2 DEF SaveAnswer
  <2> QED
    BY <2>1, <2>2
<1>8. ASSUME NEW r \in Requests, Respond(r) PROVE Exchanges'
  BY <1>0, <1>8 DEF Respond
<1>9. ASSUME NEW r \in Requests, FindToDelete(r) PROVE Exchanges'
  BY <1>0, <1>9 DEF FindToDelete
<1>10. ASSUME NEW r \in Requests, Delete(r) PROVE Exchanges'
  BY <1>0, <1>10 DEF Delete, Cascade
<1>11. ASSUME NEW r \in Requests, Break(r) PROVE Exchanges'
  BY <1>0, <1>11 DEF Break
<1>12. CASE UNCHANGED vars
  BY <1>0, <1>12 DEF vars
<1> QED
  BY <1>1, <1>2, <1>3, <1>4, <1>5, <1>6, <1>7, <1>8, <1>9, <1>10, <1>11, <1>12
     DEF Next, Proceed, Chat, Finished

\* A stream saves its answer in a later transaction than its question.
LEMMA StreamOrderStep == IInv /\ [Next]_vars => StreamOrder'
<1> SUFFICES ASSUME IInv, [Next]_vars PROVE StreamOrder'
  OBVIOUS
<1> USE DEF TypeOK, Message, Admitted, Begun, Origin, StreamOrder, Inside, Conversation, Active, Ended, Kinds, database, Leave, GoTo
<1>0. TypeOK /\ Admitted /\ Begun /\ Origin /\ StreamOrder
  BY DEF IInv
<1>1. ASSUME NEW r \in Requests, NEW k \in Kinds, NEW c \in Conversation, Arrive(r, k, c)
      PROVE  StreamOrder'
  BY <1>0, <1>1 DEF Arrive
<1>2. ASSUME NEW r \in Requests, Create(r) PROVE StreamOrder'
  BY <1>0, <1>2 DEF Create
<1>3. ASSUME NEW r \in Requests, Find(r) PROVE StreamOrder'
  BY <1>0, <1>3 DEF Find
<1>4. ASSUME NEW r \in Requests, Recall(r) PROVE StreamOrder'
  BY <1>0, <1>4 DEF Recall
<1>5. ASSUME NEW r \in Requests, SaveQuestion(r) PROVE StreamOrder'
  <2>1. CASE Accepts(target[r])
    <3>1. Question(r).conversation = target[r] /\ Question(r).request = r /\ Question(r).role = "user"
      BY Fields
    <3>2. /\ messages' = messages \cup {Question(r)} /\ at' = [at EXCEPT ![r] = "answering"]
          /\ at[r] = "recalled" /\ kind[r] = "stream" /\ status[target[r]] = "live"
          /\ UNCHANGED <<kind, target, began, titling, history, status, title, clock, overtakers>>
      BY <1>0, <1>5, <2>1 DEF SaveQuestion, Accepts
    <3> QED
      BY <1>0, <3>1, <3>2
  <2>2. CASE ~Accepts(target[r])
    BY <1>0, <1>5, <2>2 DEF SaveQuestion
  <2> QED
    BY <2>1, <2>2
<1>6. ASSUME NEW r \in Requests, BeginSaving(r) PROVE StreamOrder'
  BY <1>0, <1>6 DEF BeginSaving
<1>7. ASSUME NEW r \in Requests, SaveAnswer(r) PROVE StreamOrder'
  <2>1. CASE Accepts(target[r])
    <3>1. /\ \A m \in Saved(r) : m.request = r /\ m.created = began[r]
          /\ kind[r] = "stream" => \A m \in Saved(r) : m.role = "assistant"
      BY Fields DEF Saved
    <3>2. /\ messages' = messages \cup Saved(r) /\ at' = [at EXCEPT ![r] = "saved"]
          /\ at[r] = "saving" /\ status[target[r]] = "live"
          /\ UNCHANGED <<kind, target, began, titling, history, status, clock>>
      BY <1>0, <1>7, <2>1 DEF SaveAnswer, Accepts
    <3> QED
      BY <1>0, <3>1, <3>2
  <2>2. CASE ~Accepts(target[r])
    BY <1>0, <1>7, <2>2 DEF SaveAnswer
  <2> QED
    BY <2>1, <2>2
<1>8. ASSUME NEW r \in Requests, Respond(r) PROVE StreamOrder'
  BY <1>0, <1>8 DEF Respond
<1>9. ASSUME NEW r \in Requests, FindToDelete(r) PROVE StreamOrder'
  BY <1>0, <1>9 DEF FindToDelete
<1>10. ASSUME NEW r \in Requests, Delete(r) PROVE StreamOrder'
  BY <1>0, <1>10 DEF Delete, Cascade
<1>11. ASSUME NEW r \in Requests, Break(r) PROVE StreamOrder'
  BY <1>0, <1>11 DEF Break
<1>12. CASE UNCHANGED vars
  BY <1>0, <1>12 DEF vars
<1> QED
  BY <1>1, <1>2, <1>3, <1>4, <1>5, <1>6, <1>7, <1>8, <1>9, <1>10, <1>11, <1>12
     DEF Next, Proceed, Chat, Finished

\* The history holds messages of the request's own conversation.
LEMMA OwnHistoryStep == IInv /\ [Next]_vars => OwnHistory'
<1> SUFFICES ASSUME IInv, [Next]_vars PROVE OwnHistory'
  OBVIOUS
<1> USE DEF TypeOK, Message, Admitted, Origin, OwnHistory, MessagesOf, Inside, Conversation, Active, Ended, Kinds, database, Leave, GoTo
<1>0. TypeOK /\ Admitted /\ Origin /\ OwnHistory
  BY DEF IInv
<1>1. ASSUME NEW r \in Requests, NEW k \in Kinds, NEW c \in Conversation, Arrive(r, k, c)
      PROVE  OwnHistory'
  BY <1>0, <1>1 DEF Arrive
<1>2. ASSUME NEW r \in Requests, Create(r) PROVE OwnHistory'
  BY <1>0, <1>2 DEF Create
<1>3. ASSUME NEW r \in Requests, Find(r) PROVE OwnHistory'
  BY <1>0, <1>3 DEF Find
<1>4. ASSUME NEW r \in Requests, Recall(r) PROVE OwnHistory'
  <2>1. PICK h \in SUBSET MessagesOf(target[r]) : history' = [history EXCEPT ![r] = h]
    BY <1>4 DEF Recall, kSubset
  <2> QED
    BY <1>0, <1>4, <2>1 DEF Recall
<1>5. ASSUME NEW r \in Requests, SaveQuestion(r) PROVE OwnHistory'
  BY <1>0, <1>5 DEF SaveQuestion
<1>6. ASSUME NEW r \in Requests, BeginSaving(r) PROVE OwnHistory'
  BY <1>0, <1>6 DEF BeginSaving
<1>7. ASSUME NEW r \in Requests, SaveAnswer(r) PROVE OwnHistory'
  BY <1>0, <1>7 DEF SaveAnswer
<1>8. ASSUME NEW r \in Requests, Respond(r) PROVE OwnHistory'
  BY <1>0, <1>8 DEF Respond
<1>9. ASSUME NEW r \in Requests, FindToDelete(r) PROVE OwnHistory'
  BY <1>0, <1>9 DEF FindToDelete
<1>10. ASSUME NEW r \in Requests, Delete(r) PROVE OwnHistory'
  BY <1>0, <1>10 DEF Delete
<1>11. ASSUME NEW r \in Requests, Break(r) PROVE OwnHistory'
  BY <1>0, <1>11 DEF Break
<1>12. CASE UNCHANGED vars
  BY <1>0, <1>12 DEF vars
<1> QED
  BY <1>1, <1>2, <1>3, <1>4, <1>5, <1>6, <1>7, <1>8, <1>9, <1>10, <1>11, <1>12
     DEF Next, Proceed, Chat, Finished

\* A title is set together with the exchange it stands for, and goes with it.
LEMMA TitlesStep == IInv /\ [Next]_vars => Titles'
<1> SUFFICES ASSUME IInv, [Next]_vars PROVE Titles'
  OBVIOUS
<1> USE DEF TypeOK, Message, Admitted, Origin, Exchanges, Titles, Inside, Conversation, Active, Ended, Kinds, database, Leave, GoTo
<1>0. TypeOK /\ Admitted /\ Origin /\ Exchanges /\ Titles
  BY DEF IInv
<1>1. ASSUME NEW r \in Requests, NEW k \in Kinds, NEW c \in Conversation, Arrive(r, k, c)
      PROVE  Titles'
  <2>1. \A d \in Conversation : title[d] # NoTitle => title[d] # r
    BY <1>0, <1>1 DEF Arrive, Has
  <2>2. /\ \A s \in Requests \ {r} : target'[s] = target[s]
        /\ UNCHANGED <<title, messages>>
    BY <1>0, <1>1 DEF Arrive
  <2>3. \A d \in Conversation : title[d] # NoTitle => title[d] \in Requests
    BY <1>0
  <2> QED
    BY <1>0, <2>1, <2>2, <2>3 DEF Has
<1>2. ASSUME NEW r \in Requests, Create(r) PROVE Titles'
  BY <1>0, <1>2 DEF Create, Has
<1>3. ASSUME NEW r \in Requests, Find(r) PROVE Titles'
  BY <1>0, <1>3 DEF Find, Has
<1>4. ASSUME NEW r \in Requests, Recall(r) PROVE Titles'
  BY <1>0, <1>4 DEF Recall, Has
<1>5. ASSUME NEW r \in Requests, SaveQuestion(r) PROVE Titles'
  <2>1. \A c \in Conversation : title[c] # NoTitle =>
          Has(title[c], "user")' /\ Has(title[c], "assistant")'
    BY <1>0, <1>5 DEF SaveQuestion, Has
  <2> QED
    BY <1>0, <1>5, <2>1 DEF SaveQuestion
<1>6. ASSUME NEW r \in Requests, BeginSaving(r) PROVE Titles'
  BY <1>0, <1>6 DEF BeginSaving, Has
<1>7. ASSUME NEW r \in Requests, SaveAnswer(r) PROVE Titles'
  <2>1. CASE Accepts(target[r])
    <3>1. /\ \A m \in Saved(r) : m.conversation = target[r] /\ m.request = r
          /\ \E m \in Saved(r) : m.role = "assistant"
          /\ kind[r] = "chat" => \E m \in Saved(r) : m.role = "user"
      BY Fields DEF Saved
    <3>2. /\ messages' = messages \cup Saved(r) /\ at' = [at EXCEPT ![r] = "saved"]
          /\ at[r] = "saving" /\ status[target[r]] = "live" /\ kind[r] # "delete"
          /\ title' = IF titling[r] THEN [title EXCEPT ![target[r]] = r] ELSE title
          /\ overtakers' = [s \in Requests |-> IF at[s] = "saving" /\ s # r
                                               THEN overtakers[s] \cup {r} ELSE overtakers[s]]
          /\ UNCHANGED <<kind, target, began, titling, history, status, clock>>
      BY <1>0, <1>7, <2>1 DEF SaveAnswer, Accepts
    <3>3. kind[r] = "stream" => Has(r, "user")
      BY <1>0, <3>2
    <3>4. Has(r, "user")' /\ Has(r, "assistant")'
      BY <1>0, <3>1, <3>2, <3>3 DEF Has
    <3>5. ASSUME NEW x \in Requests, NEW role, Has(x, role) PROVE Has(x, role)'
      BY <1>0, <3>2, <3>5 DEF Has
    <3> QED
      BY <1>0, <3>2, <3>4, <3>5, RequestsAssumption
  <2>2. CASE ~Accepts(target[r])
    BY <1>0, <1>7, <2>2 DEF SaveAnswer, Has
  <2> QED
    BY <2>1, <2>2
<1>8. ASSUME NEW r \in Requests, Respond(r) PROVE Titles'
  BY <1>0, <1>8 DEF Respond, Has
<1>9. ASSUME NEW r \in Requests, FindToDelete(r) PROVE Titles'
  BY <1>0, <1>9 DEF FindToDelete, Has
<1>10. ASSUME NEW r \in Requests, Delete(r) PROVE Titles'
  <2>1. \A c \in Conversation : title'[c] # NoTitle => title'[c] = title[c] /\ c # target[r]
    BY <1>0, <1>10 DEF Delete
  <2>2. UNCHANGED target /\ messages' = {m \in messages : m.conversation # target[r]}
    BY <1>10 DEF Delete, Cascade
  <2> QED
    BY <1>0, <2>1, <2>2 DEF Has
<1>11. ASSUME NEW r \in Requests, Break(r) PROVE Titles'
  BY <1>0, <1>11 DEF Break, Has
<1>12. CASE UNCHANGED vars
  BY <1>0, <1>12 DEF vars, Has
<1> QED
  BY <1>1, <1>2, <1>3, <1>4, <1>5, <1>6, <1>7, <1>8, <1>9, <1>10, <1>11, <1>12
     DEF Next, Proceed, Chat, Finished

\* Whoever sets a title while others are saving is known to them.
LEMMA RacesStep == IInv /\ [Next]_vars => Races'
<1> SUFFICES ASSUME IInv, [Next]_vars PROVE Races'
  OBVIOUS
<1> USE DEF TypeOK, Message, Admitted, Created, Titles, Races, Inside, Conversation, Active, Ended, Kinds, database, Leave, GoTo
<1>0. TypeOK /\ Admitted /\ Created /\ Races
  BY DEF IInv
<1>1. ASSUME NEW r \in Requests, NEW k \in Kinds, NEW c \in Conversation, Arrive(r, k, c)
      PROVE  Races'
  BY <1>0, <1>1 DEF Arrive
<1>2. ASSUME NEW r \in Requests, Create(r) PROVE Races'
  BY <1>0, <1>2 DEF Create
<1>3. ASSUME NEW r \in Requests, Find(r) PROVE Races'
  BY <1>0, <1>3 DEF Find
<1>4. ASSUME NEW r \in Requests, Recall(r) PROVE Races'
  BY <1>0, <1>4 DEF Recall
<1>5. ASSUME NEW r \in Requests, SaveQuestion(r) PROVE Races'
  BY <1>0, <1>5 DEF SaveQuestion
<1>6. ASSUME NEW r \in Requests, BeginSaving(r) PROVE Races'
  <2>1. /\ at' = [at EXCEPT ![r] = "saving"]
        /\ titling' = [titling EXCEPT ![r] = Untitled(target[r])]
        /\ UNCHANGED <<target, title, overtakers>>
    BY <1>6 DEF BeginSaving
  <2>2. titling'[r] => title[target[r]] = NoTitle
    <3>1. titling'[r] = Untitled(target[r])
      BY <1>0, <2>1
    <3> QED
      BY <3>1 DEF Untitled
  <2>3. \A s \in Requests \ {r} : at'[s] = at[s] /\ titling'[s] = titling[s]
    BY <1>0, <2>1
  <2> QED
    BY <1>0, <2>1, <2>2, <2>3
<1>7. ASSUME NEW r \in Requests, SaveAnswer(r) PROVE Races'
  <2>1. CASE Accepts(target[r])
    <3>2. /\ messages' = messages \cup Saved(r) /\ at' = [at EXCEPT ![r] = "saved"]
          /\ at[r] = "saving" /\ status[target[r]] = "live" /\ kind[r] # "delete"
          /\ title' = IF titling[r] THEN [title EXCEPT ![target[r]] = r] ELSE title
          /\ overtakers' = [s \in Requests |-> IF at[s] = "saving" /\ s # r
                                               THEN overtakers[s] \cup {r} ELSE overtakers[s]]
          /\ UNCHANGED <<kind, target, began, titling, history, status, clock>>
      BY <1>0, <1>7, <2>1 DEF SaveAnswer, Accepts
    <3> QED
      BY <1>0, <3>2
  <2>2. CASE ~Accepts(target[r])
    BY <1>0, <1>7, <2>2 DEF SaveAnswer
  <2> QED
    BY <2>1, <2>2
<1>8. ASSUME NEW r \in Requests, Respond(r) PROVE Races'
  BY <1>0, <1>8 DEF Respond
<1>9. ASSUME NEW r \in Requests, FindToDelete(r) PROVE Races'
  BY <1>0, <1>9 DEF FindToDelete
<1>10. ASSUME NEW r \in Requests, Delete(r) PROVE Races'
  BY <1>0, <1>10 DEF Delete
<1>11. ASSUME NEW r \in Requests, Break(r) PROVE Races'
  BY <1>0, <1>11 DEF Break
<1>12. CASE UNCHANGED vars
  BY <1>0, <1>12 DEF vars
<1> QED
  BY <1>1, <1>2, <1>3, <1>4, <1>5, <1>6, <1>7, <1>8, <1>9, <1>10, <1>11, <1>12
     DEF Next, Proceed, Chat, Finished

\* Nothing is in the database, and nobody in it, at first.
LEMMA InitIInv == Init => IInv
<1> SUFFICES ASSUME Init PROVE IInv
  OBVIOUS
<1>1. TypeOK
  BY RequestsAssumption DEF Init, TypeOK, Conversation, Kinds
<1>2. NoOrphans /\ Origin /\ StreamOrder /\ OwnHistory
  BY DEF Init, NoOrphans, Origin, StreamOrder, OwnHistory
<1>3. Admitted /\ Begun /\ Created /\ Exchanges /\ Titles /\ Races
  BY DEF Init, Admitted, Begun, Created, Exchanges, Titles, Races, Inside, Conversation
<1> QED
  BY <1>1, <1>2, <1>3 DEF IInv

LEMMA NextIInv == IInv /\ [Next]_vars => IInv'
BY TypingStep, OrphansStep, AdmittedStep, CreatedStep, BegunStep, OriginStep, ExchangesStep,
   StreamOrderStep, TitlesStep, RacesStep, OwnHistoryStep
   DEF IInv

\* The inductive invariant of the conversation tables and their writers.
THEOREM Invariance == Spec => []IInv
BY InitIInv, NextIInv, PTL DEF Spec

\* Types; and only conversations that are there have a title.
THEOREM TypeCorrect == Spec => []TypeOK
<1>1. IInv => TypeOK
  BY DEF IInv
<1> QED
  BY <1>1, Invariance, PTL

\* However late an answer comes, it is never left without its conversation.
THEOREM Orphanless == Spec => []NoOrphans
<1>1. IInv => NoOrphans
  BY DEF IInv
<1> QED
  BY <1>1, Invariance, PTL

\* Users see and send to the model nothing but their own messages.
THEOREM Isolation == Spec => []OwnMessagesOnly
<1>1. IInv => OwnMessagesOnly
  BY DEF IInv, Origin, OwnHistory, OwnMessagesOnly
<1> QED
  BY <1>1, Invariance, PTL

\* What the client was told is saved is saved.
THEOREM AnswersSaved == Spec => []PromisesKept
<1>1. IInv => PromisesKept
  <2> SUFFICES ASSUME IInv, NEW r \in Requests, at[r] = "done", kind[r] # "delete",
                      status[target[r]] = "live", NEW role \in {"user", "assistant"}
               PROVE  \E m \in MessagesOf(target[r]) : m.request = r /\ m.role = role
    BY DEF PromisesKept
  <2>1. Has(r, role)
    BY DEF IInv, Exchanges
  <2> QED
    BY <2>1 DEF Has, MessagesOf
<1> QED
  BY <1>1, Invariance, PTL

\* A conversation is titled by an exchange that was saved whole.
THEOREM TitlesWhole == Spec => []TitleHasExchange
<1>1. IInv => TitleHasExchange
  BY DEF IInv, Titles, Has, TitleHasExchange, Asked, Answered
<1> QED
  BY <1>1, Invariance, PTL

\* An empty conversation is a chat's that is under way or failed.
THEOREM EmptyExplained == Spec => []EmptyOnlyUnfinished
<1>1. IInv => EmptyOnlyUnfinished
  BY DEF IInv, Created, Exchanges, Has, MessagesOf, EmptyOnlyUnfinished, Conversation
<1> QED
  BY <1>1, Invariance, PTL

\* Only requests that save at the same time take each other's title.
THEOREM TitlesKept == Spec => TitleReplacedOnlyInRace
<1> DEFINE Replaced == \A c \in Conversation :
             title[c] # NoTitle /\ title'[c] \notin {title[c], NoTitle} =>
               title[c] \in overtakers[title'[c]]
<1>1. IInv /\ [Next]_vars => [Replaced]_vars
  <2> SUFFICES ASSUME IInv, Next, NEW c \in Conversation, title[c] # NoTitle,
                      title'[c] \notin {title[c], NoTitle}
               PROVE  title[c] \in overtakers[title'[c]]
    OBVIOUS
  <2>1. TypeOK /\ Races /\ Created
    BY DEF IInv
  <2>2. PICK r \in Requests : Proceed(r) \/ Break(r) \/ \E k \in Kinds, d \in Conversation : Arrive(r, k, d)
    BY DEF Next, Finished, vars
  <2>3. SaveAnswer(r) /\ Accepts(target[r])
    <3>1. UNCHANGED title \/ SaveAnswer(r) \/ Delete(r)
      BY <2>2 DEF Proceed, Chat, Break, Arrive, Create, Find, Recall, SaveQuestion, BeginSaving,
                  Respond, FindToDelete, database
    <3>2. ~Delete(r)
      BY <2>1 DEF Delete, TypeOK, Conversation
    <3>3. SaveAnswer(r)
      BY <3>1, <3>2
    <3> QED
      BY <3>3 DEF SaveAnswer
  <2>4. at[r] = "saving" /\ titling[r] /\ title' = [title EXCEPT ![target[r]] = r]
    BY <2>3 DEF SaveAnswer
  <2>5. c = target[r] /\ title'[c] = r
    BY <2>1, <2>4 DEF TypeOK
  <2> QED
    BY <2>1, <2>4, <2>5 DEF Races
<1> QED
  BY <1>1, Invariance, PTL DEF Spec, TitleReplacedOnlyInRace

\* A history leaves out its own question, and no question of an answered
\* stream is in it without the answer.
THEOREM HistoriesWellCut == Spec => HistoryWellCut
<1> DEFINE Cut == \A r \in Requests : at[r] = "found" => \A m \in history'[r] :
             /\ m.request # r
             /\ m.role = "user" /\ kind[m.request] = "stream" /\ Answered(m.request) =>
                  \E n \in history'[r] : n.request = m.request /\ n.role = "assistant"
<1>1. IInv /\ [Next]_vars => [Cut]_vars
  <2> SUFFICES ASSUME IInv, Next, NEW r \in Requests, at[r] = "found", NEW m \in history'[r]
               PROVE  /\ m.request # r
                      /\ m.role = "user" /\ kind[m.request] = "stream" /\ Answered(m.request) =>
                           \E n \in history'[r] : n.request = m.request /\ n.role = "assistant"
    OBVIOUS
  <2>1. TypeOK /\ Origin /\ StreamOrder /\ OwnHistory
    BY DEF IInv
  <2>2. history[r] = {}
    BY <2>1 DEF OwnHistory
  <2>3. Recall(r)
    <3>1. PICK s \in Requests : Proceed(s) \/ Break(s) \/ \E k \in Kinds, d \in Conversation : Arrive(s, k, d)
      BY <2>2 DEF Next, Finished, vars
    <3>2. Recall(s) \/ UNCHANGED history \/ history' = [history EXCEPT ![s] = {}]
      BY <3>1 DEF Proceed, Chat, Break, Arrive, Create, Find, SaveQuestion, BeginSaving, SaveAnswer,
                  Respond, FindToDelete, Delete, Leave
    <3>3. Recall(s) => s = r
      BY <2>1, <2>2 DEF Recall, TypeOK
    <3> QED
      BY <2>1, <2>2, <3>2, <3>3 DEF TypeOK
  <2>4. PICK h \in SUBSET MessagesOf(target[r]) :
          Latest(h, MessagesOf(target[r])) /\ history' = [history EXCEPT ![r] = h]
    BY <2>3 DEF Recall, kSubset
  <2>5. history'[r] = h /\ m \in messages /\ m.conversation = target[r]
    BY <2>1, <2>4 DEF TypeOK, MessagesOf
  <2>6. m.request # r
    BY <2>1, <2>5 DEF Origin
  <2>7. ASSUME m.role = "user", kind[m.request] = "stream", Answered(m.request)
        PROVE  \E n \in h : n.request = m.request /\ n.role = "assistant"
    <3>1. PICK n \in messages : n.request = m.request /\ n.role = "assistant"
      BY <2>7 DEF Answered
    <3>2. m.created < n.created /\ m.created \in Nat /\ n.created \in Nat
      BY <2>1, <2>5, <2>7, <3>1 DEF StreamOrder, TypeOK, Message
    <3>3. n \in MessagesOf(target[r])
      BY <2>1, <2>5, <3>1 DEF Origin, MessagesOf
    <3>4. n \in h
      BY <2>4, <2>5, <3>2, <3>3 DEF Latest
    <3> QED
      BY <3>1, <3>4
  <2> QED
    BY <2>5, <2>6, <2>7
<1> QED
  BY <1>1, Invariance, PTL DEF Spec, HistoryWellCut
=============================================================================

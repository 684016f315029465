------------------------------- MODULE Chat -------------------------------
(***************************************************************************)
(* Conversations with the AI assistant.  A question is answered in steps:  *)
(* the conversation is looked up and its owner compared, the question is   *)
(* appended, the conversation is read again for the prompt, the provider   *)
(* is called for up to a minute, and the answer is appended.  Errors of    *)
(* the appends are ignored.  Other questions of the same conversation, and *)
(* its deletion, come in between.  What the system prompt tells of checks  *)
(* and incidents, the suggestions and the references are wording and left  *)
(* out.  MongoDB holds the conversations of the program; the file store is *)
(* the one its tests use.                                                  *)
(***************************************************************************)
EXTENDS Naturals, Sequences, SequencesExt

CONSTANTS ChatStores,   \* "mongo", "file"
          ChatOwners,   \* user names; "" is a request without claims
          ChatIDs,      \* ids of conversations, each created once
          Asks,         \* questions, each asked once
          Window        \* maxMessages: how much of a conversation a prompt shows

\* A prompt has room for the question.
ASSUME ChatAssumption == Window \in Nat \ {0}

NoAsk == [pc |-> "new", owner |-> "", chat |-> 0, prompt |-> <<>>]

VARIABLES
    chatKind,    \* which store holds the conversations
    chats,       \* stored conversations: owner, title, messages
    created,     \* ids given to a conversation so far
    ask,         \* progress of each question
    removing,    \* deletions whose conversation has been looked up
    chatsRemoved      \* history: conversations whose deletion was reported

chatVars == <<chatKind, chats, created, ask, removing, chatsRemoved>>

ChatInit ==
    /\ chatKind \in ChatStores /\ chats = <<>> /\ created = {} /\ removing = {} /\ chatsRemoved = {}
    /\ ask = [q \in Asks |-> NoAsk]

WithChat(f, k, v) == [x \in DOMAIN f \cup {k} |-> IF x = k THEN v ELSE f[x]]

\* The id is new, and a failed insertion is not reported.
CreateConversation(id, title, owner) ==
    /\ id \notin created /\ created' = created \cup {id}
    /\ chats' \in {chats, WithChat(chats, id, [owner |-> owner, title |-> title, msgs |-> <<>>])}

\* The ownership check: a missing name on either side lets the request pass.
mayUse(owner, id) == owner = "" \/ chats[id].owner \in {"", owner}

Found(id) == id \in DOMAIN chats

\* POST conversations.
handleConversations(id, title, owner) ==
    /\ CreateConversation(id, title, owner)
    /\ UNCHANGED <<chatKind, ask, removing, chatsRemoved>>

\* POST ask, in a conversation that exists or in a new one.
handleAsk(q, id, owner) ==
    /\ ask[q].pc = "new"
    /\ \/ /\ Found(id) /\ mayUse(owner, id) /\ UNCHANGED <<chats, created>>
       \/ CreateConversation(id, "", owner)
    /\ ask' = [ask EXCEPT ![q] = [pc |-> "question", owner |-> owner, chat |-> id, prompt |-> <<>>]]
    /\ UNCHANGED <<chatKind, removing, chatsRemoved>>

\* Mongo's update names the title after every question.
AutoTitle(c, m) ==
    IF m.role = "user" /\ (chatKind = "mongo" \/ c.title = "") THEN m.ask ELSE c.title

\* Inserting what the update does not find, for the mutant of ChatsSound.
AddMessageUpsert(id, m) ==
    LET c == IF Found(id) THEN chats[id] ELSE [owner |-> "", title |-> "", msgs |-> <<>>]
    IN  chats' \in {chats, WithChat(chats, id, [c EXCEPT !.msgs = Append(@, m), !.title = AutoTitle(c, m)])}

\* The message is pushed if the conversation is there and the store answers.
AddMessage(id, m) ==
    \/ UNCHANGED chats
    \/ /\ Found(id)
       /\ chats' = [chats EXCEPT ![id].msgs = Append(@, m), ![id].title = AutoTitle(chats[id], m)]

Say(q, role) == [ask |-> q, role |-> role]

Question(q) ==
    /\ ask[q].pc = "question" /\ AddMessage(ask[q].chat, Say(q, "user"))
    /\ ask' = [ask EXCEPT ![q].pc = "prompt"]
    /\ UNCHANGED <<chatKind, created, removing, chatsRemoved>>

\* The last Window messages but the last one, and the question itself; a
\* conversation that cannot be read contributes nothing.
History(msgs) ==
    LET from == IF Len(msgs) > Window THEN Len(msgs) - Window + 1 ELSE 1
    IN  IF Len(msgs) > 1 THEN SubSeq(msgs, from, Len(msgs) - 1) ELSE <<>>

buildUserPrompt(q) ==
    /\ ask[q].pc = "prompt"
    /\ \E read \in BOOLEAN :
         ask' = [ask EXCEPT ![q].pc = "provider",
                   ![q].prompt = Append(IF read /\ Found(ask[q].chat) THEN History(chats[ask[q].chat].msgs) ELSE <<>>,
                                        Say(q, "user"))]
    /\ UNCHANGED <<chatKind, chats, created, removing, chatsRemoved>>

\* The provider fails or times out, or its answer is appended and returned.
Answer(q) ==
    /\ ask[q].pc = "provider"
    /\ \/ ask' = [ask EXCEPT ![q].pc = "failed"] /\ UNCHANGED chats
       \/ ask' = [ask EXCEPT ![q].pc = "answered"] /\ AddMessage(ask[q].chat, Say(q, "assistant"))
    /\ UNCHANGED <<chatKind, created, removing, chatsRemoved>>

\* DELETE conversations/{id}: looked up, compared, ...
handleDelete(id, owner) ==
    /\ Found(id) /\ mayUse(owner, id) /\ id \notin removing /\ removing' = removing \cup {id}
    /\ UNCHANGED <<chatKind, chats, created, ask, chatsRemoved>>

\* ... and chatsRemoved; a failure is reported, applied or not.
DeleteConversation(id) ==
    LET without == [x \in DOMAIN chats \ {id} |-> chats[x]]
    IN  /\ id \in removing /\ removing' = removing \ {id}
        /\ \/ Found(id) /\ chats' = without /\ chatsRemoved' = chatsRemoved \cup {id}
           \/ chats' \in {chats, without} /\ UNCHANGED chatsRemoved
        /\ UNCHANGED <<chatKind, created, ask>>

ChatNext ==
    \/ \E id \in ChatIDs, owner \in ChatOwners :
        \/ \E title \in {"", "given"} : handleConversations(id, title, owner)
        \/ \E q \in Asks : handleAsk(q, id, owner)
        \/ handleDelete(id, owner)
    \/ \E id \in ChatIDs : DeleteConversation(id)
    \/ \E q \in Asks : Question(q) \/ buildUserPrompt(q) \/ Answer(q)

ChatSpec == ChatInit /\ [][ChatNext]_chatVars

-----------------------------------------------------------------------------
\* A conversation and every prompt built from it hold only what its owner asked
\* and was answered, and what requests without a user name were; a prompt ends
\* with its question and shows no more than the window; an answer comes after its
\* question; and a deleted conversation is not brought back by the answer to a
\* question that was under way (ai_chat.go handleAsk, buildUserPrompt,
\* mongo_chat_repository.go AddMessage).
ChatsSound ==
    LET Own(owner, m) == "" \in {owner, ask[m.ask].owner} \/ owner = ask[m.ask].owner
        Fits(q) == LET p == ask[q].prompt IN
            p # <<>> => Last(p) = Say(q, "user") /\ Len(p) <= Window
    IN  /\ \A id \in DOMAIN chats :
             LET msgs == chats[id].msgs IN
             \A i \in DOMAIN msgs :
               /\ Own(chats[id].owner, msgs[i]) /\ ask[msgs[i].ask].chat = id
               /\ \A j \in DOMAIN msgs :
                    (msgs[i].ask = msgs[j].ask /\ msgs[i].role = "user" /\ msgs[j].role = "assistant") => i < j
        /\ \A q \in Asks : Fits(q) /\ \A m \in ToSet(ask[q].prompt) : ask[m.ask].chat = ask[q].chat
        /\ chatsRemoved \cap DOMAIN chats = {}
=============================================================================

------------------------------- MODULE ChatRooms -------------------------------
(***************************************************************************)
(* Chats, their messages and the sockets that listen to them:              *)
(* ChatService (chat.service.ts), ChatController and ChatGateway.          *)
(*                                                                         *)
(* A message is saved through the REST call and told to the sockets in the *)
(* chat's room.  The gateway remembers ONE socket per user.  A socket      *)
(* enters the rooms of its user's chats when it connects and at no other   *)
(* time: addParticipantToRoom() looks for the sockets in                   *)
(* server.sockets.sockets, which a namespace such as '/chat' does not      *)
(* have, and gives up.                                                     *)
(*                                                                         *)
(* Message n is the n-th whose transaction began: sentAt is NOW(), the     *)
(* start of the transaction, and no two are equal here.  Nobody ever       *)
(* leaves a chat.  The texts, attachments and replies are left out, and so *)
(* is a direct chat with oneself, which finds any direct chat or fails.    *)
(***************************************************************************)
EXTENDS Calls, FiniteSetsExt

CONSTANTS
    MaxSockets,     \* bound on the connections
    Nobody,         \* no user
    MaxChats,       \* bound on the chats
    MaxMessages,    \* bound on the messages
    PageSize        \* "limit" of getMessages

ASSUME ChatAssumption ==
    /\ Nobody \notin Users
    /\ MaxSockets \in Nat /\ MaxChats \in Nat /\ MaxMessages \in Nat
    /\ PageSize \in Nat \ {0}

VARIABLES
    chats,              \* the rows of "chats" with "chat_participants"
    messages,           \* the rows of "messages"
    stamps,             \* how many messages have been given a sentAt
    held,               \* the messages a client that follows the chat has
    sock,               \* the sockets
    connectedUsers      \* the gateway's map: the socket of each user, or 0

talkVars == <<chats, messages, stamps, held>>
roomVars == <<sock, connectedUsers>>
chatVars == <<talkVars, roomVars>>

\* Connections, in the order they are made; one that is gone does not come back.
Sockets == 1..MaxSockets
ChatType == {"direct", "task_chat", "org_chat"}
ChatRow == [type : ChatType, participants : SUBSET Users]
ChatId == 1..MaxChats
MessageId == 1..MaxMessages
MessageRow == [id : MessageId, chat : ChatId, readBy : SUBSET Users]

\* at "verified" the token is good, "identified" the user is known, "listed" his
\* chats are read; left: the client has hung up.
SocketRow == [at : {"new", "verified", "identified", "listed", "open", "closed"},
              user : Users \cup {Nobody}, left : BOOLEAN, early : BOOLEAN,
              list : SUBSET ChatId, rooms : SUBSET ChatId]

ChatMethod == {"getOrCreateDirectChat", "sendMessage"}
ChatCall == [op : {"getOrCreateDirectChat"}, step : {"create"}, alone : BOOLEAN,
             people : SUBSET Users]
            \cup [op : {"sendMessage"}, step : {"commit"}, alone : BOOLEAN,
                  chat : ChatId, sentAt : MessageId]

ChatTypeOK ==
    /\ chats \in UNION {[1..n -> ChatRow] : n \in 0..MaxChats}
    /\ messages \subseteq MessageRow
    /\ stamps \in 0..MaxMessages
    /\ held \in [ChatId -> SUBSET MessageId]
    /\ sock \in [Sockets -> SocketRow]
    /\ connectedUsers \in [Users -> Sockets \cup {0}]
    /\ \A h \in Handlers :
           InFlight(h) /\ call[h].op \in ChatMethod => call[h] \in ChatCall

-----------------------------------------------------------------------------
(* Chats *)

Directs(people) ==
    {c \in DOMAIN chats : chats[c].type = "direct" /\ people \subseteq chats[c].participants}

\* createGroupChat(), for an organisation or a task, and the direct chat.
NewChat(type, people) ==
    /\ Cardinality(DOMAIN chats) < MaxChats
    /\ chats' = [c \in 1..(Cardinality(DOMAIN chats) + 1) |->
                    IF c \in DOMAIN chats THEN chats[c]
                    ELSE [type |-> type, participants |-> people]]
    /\ UNCHANGED <<messages, stamps, held, roomVars>>

createGroupChat(type, people) == NewChat(type, people) /\ Disturbs

\* Mutant: the pair is not looked for.
MayCreateAnother(u, v) == u # v

MayCreateDirect(u, v) == u # v /\ Directs({u, v}) = {}

getOrCreateDirectChat(h, u, v) ==
    /\ MayCreateDirect(u, v)
    /\ Begin(h, [op |-> "getOrCreateDirectChat", step |-> "create", alone |-> TRUE,
                 people |-> {u, v}])
    /\ UNCHANGED chatVars

CreateDirectChat(h) ==
    /\ At(h, "create")
    /\ NewChat("direct", call[h].people)
    /\ WritesAndBecomes(h, Idle)

\* assignVolunteer() adds a volunteer to the chat of the task; the
\* addParticipantToRoom() that follows reaches no socket.
AddParticipant(c, u) ==
    /\ chats[c].type = "task_chat" /\ u \notin chats[c].participants
    /\ chats' = [chats EXCEPT ![c].participants = @ \cup {u}]
    /\ Disturbs
    /\ UNCHANGED <<messages, stamps, held, roomVars>>

\* ensureParticipant(): an administrator has access to the chats of tasks and
\* organisations.
Participates(u, c) ==
    \/ u \in chats[c].participants
    \/ u \in Admins /\ chats[c].type \in {"task_chat", "org_chat"}

-----------------------------------------------------------------------------
(* Messages *)

Sent(c) == {m.id : m \in {n \in messages : n.chat = c}}

\* The transaction of the INSERT begins.
sendMessage(h, u, c) ==
    /\ Participates(u, c) /\ stamps < MaxMessages
    /\ stamps' = stamps + 1
    /\ Begin(h, [op |-> "sendMessage", step |-> "commit", alone |-> TRUE,
                 chat |-> c, sentAt |-> stamps + 1])
    /\ UNCHANGED <<chats, messages, held, roomVars>>

CommitMessage(h) ==
    /\ At(h, "commit")
    /\ messages' = messages \cup {[id |-> call[h].sentAt, chat |-> call[h].chat,
                                   readBy |-> {}]}
    /\ WritesAndBecomes(h, Idle)
    /\ UNCHANGED <<chats, stamps, held, roomVars>>

\* One UPDATE of the messages the user is not in the read_by of.
markAsRead(u, c) ==
    /\ Participates(u, c)
    /\ messages' = {[m EXCEPT !.readBy = IF m.chat = c THEN @ \cup {u} ELSE @] : m \in messages}
    /\ messages' # messages
    /\ Disturbs
    /\ UNCHANGED <<chats, stamps, held, roomVars>>

\* sort DESC: the latest PageSize of what came after the cursor; without one, of all.
After(c, cursor) == {m \in Sent(c) : m > cursor}

\* Mutant: a page one message short.
AllButOne(ids) == {m \in ids : Cardinality({n \in ids : n > m}) + 1 < PageSize}

Latest(ids) == {m \in ids : Cardinality({n \in ids : n > m}) < PageSize}

\* A client follows the chat: it asks for what came after the last message it has.
getMessages(c) ==
    LET cursor == IF held[c] = {} THEN 0 ELSE Max(held[c]) IN
    /\ After(c, cursor) # {}
    /\ held' = [held EXCEPT ![c] = @ \cup Latest(After(c, cursor))]
    /\ UNCHANGED <<chats, messages, stamps, roomVars, flight>>

FailChatCall(h) ==
    /\ InFlight(h) /\ call[h].op \in ChatMethod
    /\ Becomes(h, Idle)
    /\ UNCHANGED chatVars

-----------------------------------------------------------------------------
(* Sockets *)

\* handleConnection() up to the await of the user.
handleConnection(s, u) ==
    /\ sock[s].at = "new" /\ \A r \in 1..(s - 1) : sock[r].at # "new"
    /\ sock' = [sock EXCEPT ![s].at = "verified", ![s].user = u]
    /\ UNCHANGED <<talkVars, connectedUsers, flight>>

\* A blocked user is disconnected; otherwise the user's entry is this socket, even
\* when the client has hung up by now.
Identify(s, blocked) ==
    /\ sock[s].at = "verified"
    /\ IF blocked
       THEN /\ sock' = [sock EXCEPT ![s].at = "closed", ![s].left = TRUE]
            /\ UNCHANGED connectedUsers
       ELSE /\ sock' = [sock EXCEPT ![s].at = "identified", ![s].early = sock[s].left]
            /\ connectedUsers' = [connectedUsers EXCEPT ![sock[s].user] = s]
    /\ UNCHANGED <<talkVars, flight>>

\* Mutant: the chats of everybody.
AllChats(u) == DOMAIN chats

OwnChats(u) == {c \in DOMAIN chats : u \in chats[c].participants}

ListChats(s) ==
    /\ sock[s].at = "identified"
    /\ sock' = [sock EXCEPT ![s].at = "listed", ![s].list = OwnChats(sock[s].user)]
    /\ UNCHANGED <<talkVars, connectedUsers, flight>>

JoinRooms(s) ==
    /\ sock[s].at = "listed"
    /\ sock' = [sock EXCEPT ![s].at = "open", ![s].rooms = sock[s].list]
    /\ UNCHANGED <<talkVars, connectedUsers, flight>>

\* Mutant: only a socket that is fully set up is forgotten.
ForgetOpen(s) ==
    IF sock[s].at = "open"
    THEN [connectedUsers EXCEPT ![sock[s].user] = 0] ELSE connectedUsers

\* data.userId is set: the user's entry goes, whichever socket it is.
Forget(s) ==
    IF sock[s].at \in {"identified", "listed", "open"}
    THEN [connectedUsers EXCEPT ![sock[s].user] = 0] ELSE connectedUsers

handleDisconnect(s) ==
    /\ sock[s].at \notin {"new", "closed"} /\ ~sock[s].left
    /\ connectedUsers' = Forget(s)
    /\ sock' = [sock EXCEPT ![s].left = TRUE, ![s].rooms = {}]
    /\ UNCHANGED <<talkVars, flight>>

\* Where send_message, typing and messages_read are heard.
Hearers(c) == {s \in Sockets : c \in sock[s].rooms}

-----------------------------------------------------------------------------

ChatsInit ==
    /\ chats = <<>> /\ messages = {} /\ stamps = 0
    /\ held = [c \in ChatId |-> {}]
    /\ sock = [s \in Sockets |-> [at |-> "new", user |-> Nobody, left |-> FALSE,
                                  early |-> FALSE, list |-> {}, rooms |-> {}]]
    /\ connectedUsers = [u \in Users |-> 0]

TalkNext ==
    \/ \E h \in Handlers :
          \/ \E u, v \in Users : getOrCreateDirectChat(h, u, v)
          \/ \E u \in Users, c \in DOMAIN chats : sendMessage(h, u, c)
          \/ CreateDirectChat(h) \/ CommitMessage(h) \/ FailChatCall(h)
    \/ \E u \in Users, c \in DOMAIN chats : markAsRead(u, c)
    \/ \E c \in DOMAIN chats : getMessages(c)
    \/ createGroupChat("org_chat", Users)

RoomsNext ==
    \/ \E type \in {"task_chat", "org_chat"}, people \in SUBSET Users \ {{}} :
          createGroupChat(type, people)
    \/ \E c \in DOMAIN chats, u \in Users : AddParticipant(c, u)
    \/ \E s \in Sockets, u \in Users : handleConnection(s, u)
    \/ \E s \in Sockets, blocked \in BOOLEAN : Identify(s, blocked)
    \/ \E s \in Sockets : ListChats(s) \/ JoinRooms(s) \/ handleDisconnect(s)

ChatsSpec == ChatsInit /\ CallsInit /\ [][TalkNext \/ RoomsNext]_<<chatVars, flight>>

-----------------------------------------------------------------------------
(* Properties *)

\* Two people have one direct chat, unless two calls that looked for it overlap
\* (getOrCreateDirectChat finds and then saves).
OneDirectChat ==
    [][\A h \in Handlers :
           At(h, "create") /\ chats' # chats /\ ~InFlight(h)'
           /\ Directs(call[h].people) # {} => ~call[h].alone]_chatVars

Between(ids, held_) == {m \in ids \ held_ : \E n, o \in held_ : n < m /\ m < o}

\* A client that follows a chat misses a message only when more than a page came at
\* once, or when the message was still being saved as a later one was shown
\* (getMessages, the cursor is a sentAt).
FollowerMissesFew ==
    [][\A c \in DOMAIN chats :
           Between(Sent(c)', held[c]') # Between(Sent(c), held[c]) =>
               \/ Cardinality(After(c, Max(held[c]))) > PageSize
               \/ \E h \in Handlers : At(h, "commit") /\ Sent(c)' # Sent(c)]_talkVars

\* Whoever is told apart as connected has a socket that still is, unless it hung up
\* while it was being identified (handleConnection, handleDisconnect).
EntriesAreLive ==
    \A u \in Users :
        connectedUsers[u] # 0 =>
            LET s == connectedUsers[u] IN
            sock[s].user = u /\ (~sock[s].left \/ sock[s].early)

\* What is said in a chat reaches nobody who does not take part in it
\* (handleConnection).
HeardByParticipants ==
    \A c \in DOMAIN chats : \A s \in Hearers(c) : sock[s].user \in chats[c].participants

=============================================================================

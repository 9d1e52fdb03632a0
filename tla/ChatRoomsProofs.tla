---------------------------- MODULE ChatRoomsProofs ----------------------------
(***************************************************************************)
(* Theorems about ChatRooms, for any number of people, chats, sockets and  *)
(* calls in flight.                                                        *)
(*                                                                         *)
(* The strengthening: the chats a socket has listed or entered are those   *)
(* of its user, the entry of a user is a socket that was identified as     *)
(* his, and while nobody has written since a direct chat was looked for,   *)
(* there is still none.                                                    *)
(***************************************************************************)
EXTENDS ChatRooms, FiniteSetTheorems, TLAPS

Identified == {"identified", "listed", "open"}

SocketHolds(s) ==
    /\ sock[s].at = "new" => sock[s].list = {} /\ sock[s].rooms = {}
    /\ \A c \in sock[s].list \cup sock[s].rooms :
           c \in DOMAIN chats /\ sock[s].user \in chats[c].participants

EntryHolds(u) ==
    connectedUsers[u] # 0 =>
        LET s == connectedUsers[u] IN
        /\ sock[s].user = u /\ sock[s].at \in Identified
        /\ ~sock[s].left \/ sock[s].early

ChatCallHolds(c) ==
    /\ c \in ChatCall
    /\ c.op = "getOrCreateDirectChat" /\ c.alone => Directs(c.people) = {}

RowsOK ==
    /\ chats \in UNION {[1..n -> ChatRow] : n \in 0..MaxChats}
    /\ messages \subseteq MessageRow
    /\ stamps \in 0..MaxMessages
    /\ held \in [ChatId -> SUBSET MessageId]

CallsHold ==
    /\ call = [g \in Handlers |-> call[g]]
    /\ \A h \in Handlers : InFlight(h) => ChatCallHolds(call[h])

SocketsHold ==
    /\ sock \in [Sockets -> SocketRow]
    /\ connectedUsers \in [Users -> Sockets \cup {0}]
    /\ \A s \in Sockets : SocketHolds(s)
    /\ \A u \in Users : EntryHolds(u)

ChatsInv == RowsOK /\ CallsHold /\ SocketsHold

LEMMA IdleIsNoChatCall == Idle \notin ChatCall
BY DEF ChatCall, Idle

LEMMA ChatsInvInit == ChatsInit /\ CallsInit => ChatsInv
<1> SUFFICES ASSUME ChatsInit, CallsInit PROVE ChatsInv
  OBVIOUS
<1>1. chats \in UNION {[1..n -> ChatRow] : n \in 0..MaxChats}
  <2>1. chats \in [1..0 -> ChatRow]
    BY DEF ChatsInit
  <2> QED
    BY <2>1, ChatAssumption
<1>2. /\ messages \subseteq MessageRow /\ stamps \in 0..MaxMessages
      /\ held \in [ChatId -> SUBSET MessageId]
      /\ connectedUsers \in [Users -> Sockets \cup {0}]
  BY ChatAssumption DEF ChatsInit
<1>3. sock \in [Sockets -> SocketRow]
  BY DEF ChatsInit, SocketRow
<1>4. \A h \in Handlers : ~InFlight(h)
  BY DEF CallsInit, InFlight
<1>5. call = [g \in Handlers |-> call[g]]
  BY DEF CallsInit
<1>6. (\A s \in Sockets : SocketHolds(s)) /\ (\A u \in Users : EntryHolds(u))
  BY DEF ChatsInit, SocketHolds, EntryHolds
<1> QED
  BY <1>1, <1>2, <1>3, <1>4, <1>5, <1>6 DEF ChatsInv, RowsOK, CallsHold, SocketsHold

LEMMA ChatsInvTypes == ChatsInv => ChatTypeOK
BY DEF ChatsInv, RowsOK, CallsHold, SocketsHold, ChatTypeOK, ChatCallHolds

-----------------------------------------------------------------------------
(* The rows, the calls and the sockets, each by itself. *)

LEMMA ChatRows ==
    ASSUME RowsOK
    PROVE  \E n \in 0..MaxChats :
               /\ chats \in [1..n -> ChatRow] /\ DOMAIN chats = 1..n
               /\ Cardinality(DOMAIN chats) = n
<1>1. PICK n \in 0..MaxChats : chats \in [1..n -> ChatRow]
  BY DEF RowsOK
<1>2. DOMAIN chats = 1..n /\ n \in Nat
  BY <1>1, ChatAssumption
<1>3. Cardinality(1..n) = n
  BY <1>2, FS_Interval
<1> QED
  BY <1>1, <1>2, <1>3

\* Chats and their participants only become more.
ChatsGrow ==
    \A c \in DOMAIN chats : c \in DOMAIN chats' /\ chats[c].participants \subseteq chats'[c].participants

LEMMA SocketsStay ==
    ASSUME SocketsHold, ChatsGrow, UNCHANGED roomVars
    PROVE  SocketsHold'
<1>1. UNCHANGED <<sock, connectedUsers>>
  BY DEF roomVars
<1>2. \A s \in Sockets : SocketHolds(s)'
  BY <1>1 DEF SocketsHold, SocketHolds, ChatsGrow
<1>3. \A u \in Users : EntryHolds(u)'
  BY <1>1 DEF SocketsHold, EntryHolds
<1> QED
  BY <1>1, <1>2, <1>3 DEF SocketsHold

\* Only handler h moves, and the chats stay as they are.
LEMMA QuietChatCall ==
    ASSUME CallsHold, NEW h \in Handlers, NEW c, call' = [call EXCEPT ![h] = c],
           UNCHANGED chats, c = Idle \/ ChatCallHolds(c)
    PROVE  CallsHold'
<1>1. /\ call' = [g \in Handlers |-> IF g = h THEN c ELSE call[g]]
      /\ \A g \in Handlers : call'[g] = IF g = h THEN c ELSE call[g]
  BY DEF CallsHold
<1>2. ASSUME NEW g \in Handlers, InFlight(g)'
      PROVE  ChatCallHolds(call[g])'
  <2>1. ChatCallHolds(call'[g])
    BY <1>1, <1>2 DEF CallsHold, InFlight
  <2> QED
    BY <2>1 DEF ChatCallHolds, Directs
<1>3. (call = [g \in Handlers |-> call[g]])'
  BY <1>1
<1> QED
  BY <1>2, <1>3 DEF CallsHold

\* No call is alone any more.
LEMMA DisturbedChatCalls ==
    ASSUME CallsHold, call' = [g \in Handlers |-> call'[g]],
           \A g \in Handlers : call'[g] \in {Idle, Disturbed(g)}
    PROVE  CallsHold'
<1>1. ASSUME NEW g \in Handlers, InFlight(g)'
      PROVE  ChatCallHolds(call[g])'
  <2>1. InFlight(g) /\ call'[g] = [call[g] EXCEPT !.alone = FALSE]
    BY <1>1 DEF Disturbed, InFlight
  <2>2. call[g] \in ChatCall
    BY <2>1 DEF CallsHold, ChatCallHolds
  <2>3. call'[g] \in ChatCall /\ ~call'[g].alone
    BY <2>1, <2>2 DEF ChatCall
  <2> QED
    BY <2>3 DEF ChatCallHolds
<1> QED
  BY <1>1 DEF CallsHold

LEMMA CallsStay ==
    ASSUME CallsHold, UNCHANGED <<chats, call>>
    PROVE  CallsHold'
BY DEF CallsHold, InFlight, ChatCallHolds, Directs

-----------------------------------------------------------------------------
(* Chats and messages. *)

LEMMA NewChatKeeps ==
    ASSUME RowsOK, NEW type \in ChatType, NEW people \in SUBSET Users,
           NewChat(type, people)
    PROVE  RowsOK' /\ ChatsGrow
<1>1. PICK n \in 0..MaxChats :
          /\ chats \in [1..n -> ChatRow] /\ DOMAIN chats = 1..n
          /\ Cardinality(DOMAIN chats) = n
  BY ChatRows
<1>2. n \in Nat /\ n + 1 \in 0..MaxChats
  BY <1>1, ChatAssumption DEF NewChat
<1>3. chats' = [c \in 1..(n + 1) |-> IF c \in 1..n THEN chats[c]
                                     ELSE [type |-> type, participants |-> people]]
  BY <1>1 DEF NewChat
<1>4. chats' \in [1..(n + 1) -> ChatRow]
  BY <1>1, <1>3 DEF ChatRow
<1>5. ChatsGrow
  BY <1>1, <1>2, <1>3 DEF ChatsGrow
<1> QED
  BY <1>2, <1>4, <1>5 DEF NewChat, RowsOK

LEMMA ChatStepsKeep ==
    ASSUME ChatsInv,
           \/ \E type \in ChatType, people \in SUBSET Users : createGroupChat(type, people)
           \/ \E c \in DOMAIN chats, u \in Users : AddParticipant(c, u)
           \/ \E h \in Handlers : CreateDirectChat(h)
    PROVE  ChatsInv'
<1>1. CASE \E type \in ChatType, people \in SUBSET Users : createGroupChat(type, people)
  <2>1. RowsOK' /\ ChatsGrow /\ UNCHANGED roomVars
    BY <1>1, NewChatKeeps DEF createGroupChat, NewChat, ChatsInv
  <2>2. CallsHold'
    BY <1>1, DisturbedChatCalls DEF createGroupChat, Disturbs, ChatsInv
  <2> QED
    BY <2>1, <2>2, SocketsStay DEF ChatsInv
<1>2. CASE \E c \in DOMAIN chats, u \in Users : AddParticipant(c, u)
  <2>1. PICK c \in DOMAIN chats, u \in Users : AddParticipant(c, u)
    BY <1>2
  <2>2. PICK n \in 0..MaxChats : chats \in [1..n -> ChatRow] /\ DOMAIN chats = 1..n
    BY ChatRows DEF ChatsInv
  <2>3. chats' \in [1..n -> ChatRow] /\ ChatsGrow
    BY <2>1, <2>2 DEF AddParticipant, ChatRow, ChatsGrow
  <2>4. RowsOK'
    BY <2>1, <2>3 DEF AddParticipant, RowsOK, ChatsInv
  <2>5. CallsHold'
    BY <2>1, DisturbedChatCalls DEF AddParticipant, Disturbs, ChatsInv
  <2> QED
    BY <2>1, <2>3, <2>4, <2>5, SocketsStay DEF AddParticipant, ChatsInv
<1>3. CASE \E h \in Handlers : CreateDirectChat(h)
  <2>1. PICK h \in Handlers : CreateDirectChat(h)
    BY <1>3
  <2>2. call[h] \in ChatCall /\ call[h].step = "create"
    BY <2>1 DEF CreateDirectChat, At, ChatsInv, CallsHold, ChatCallHolds
  <2>3. call[h].people \in SUBSET Users
    BY <2>2 DEF ChatCall
  <2>4. RowsOK' /\ ChatsGrow /\ UNCHANGED roomVars
    BY <2>1, <2>3, NewChatKeeps DEF CreateDirectChat, NewChat, ChatsInv, ChatType
  <2>5. CallsHold'
    BY <2>1, DisturbedChatCalls DEF CreateDirectChat, WritesAndBecomes, ChatsInv
  <2> QED
    BY <2>4, <2>5, SocketsStay DEF ChatsInv
<1> QED
  BY <1>1, <1>2, <1>3

LEMMA ChatsUnchangedGrow == UNCHANGED chats => ChatsGrow
BY DEF ChatsGrow

\* A chat is looked for, a message is begun, or a call fails.
LEMMA ChatCallsBeginAndFail ==
    ASSUME ChatsInv, NEW h \in Handlers,
           \/ \E u, v \in Users : getOrCreateDirectChat(h, u, v)
           \/ \E u \in Users, c \in DOMAIN chats : sendMessage(h, u, c)
           \/ FailChatCall(h)
    PROVE  ChatsInv'
<1>1. CASE \E u, v \in Users : getOrCreateDirectChat(h, u, v)
  <2>1. PICK u \in Users, v \in Users : getOrCreateDirectChat(h, u, v)
    BY <1>1
  <2>2. PICK d : d = [op |-> "getOrCreateDirectChat", step |-> "create",
                      alone |-> TRUE, people |-> {u, v}]
    OBVIOUS
  <2>3. d \in ChatCall /\ d.people = {u, v}
    BY <2>2 DEF ChatCall
  <2>4. ChatCallHolds(d)
    BY <2>1, <2>3 DEF getOrCreateDirectChat, MayCreateDirect, ChatCallHolds
  <2>5. call' = [call EXCEPT ![h] = d] /\ UNCHANGED chatVars
    BY <2>1, <2>2 DEF getOrCreateDirectChat, Begin
  <2>6. CallsHold'
    BY <2>4, <2>5, QuietChatCall DEF chatVars, talkVars, ChatsInv
  <2> QED
    BY <2>5, <2>6, SocketsStay, ChatsUnchangedGrow
       DEF chatVars, talkVars, ChatsInv, RowsOK
<1>2. CASE \E u \in Users, c \in DOMAIN chats : sendMessage(h, u, c)
  <2>1. PICK u \in Users, c \in DOMAIN chats : sendMessage(h, u, c)
    BY <1>2
  <2>2. c \in ChatId
    <3>1. PICK n \in 0..MaxChats : DOMAIN chats = 1..n
      BY ChatRows DEF ChatsInv
    <3> QED
      BY <2>1, <3>1, ChatAssumption DEF ChatId
  <2>3. stamps + 1 \in MessageId /\ stamps + 1 \in 0..MaxMessages
    BY <2>1, ChatAssumption DEF sendMessage, MessageId, ChatsInv, RowsOK
  <2>4. PICK d : d = [op |-> "sendMessage", step |-> "commit", alone |-> TRUE,
                      chat |-> c, sentAt |-> stamps + 1]
    OBVIOUS
  <2>5. d \in ChatCall /\ d.op = "sendMessage"
    BY <2>2, <2>3, <2>4 DEF ChatCall
  <2>6. ChatCallHolds(d)
    BY <2>5 DEF ChatCallHolds
  <2>7. CallsHold'
    BY <2>1, <2>4, <2>6, QuietChatCall DEF sendMessage, Begin, ChatsInv
  <2> QED
    BY <2>1, <2>3, <2>7, SocketsStay, ChatsUnchangedGrow
       DEF sendMessage, ChatsInv, RowsOK
<1>3. CASE FailChatCall(h)
  <2>1. CallsHold'
    BY <1>3, QuietChatCall DEF FailChatCall, Becomes, chatVars, talkVars, ChatsInv
  <2> QED
    BY <1>3, <2>1, SocketsStay, ChatsUnchangedGrow
       DEF FailChatCall, chatVars, talkVars, ChatsInv, RowsOK
<1> QED
  BY <1>1, <1>2, <1>3

LEMMA MessageStepsKeep ==
    ASSUME ChatsInv,
           \/ \E h \in Handlers : CommitMessage(h)
           \/ \E u \in Users, c \in DOMAIN chats : markAsRead(u, c)
           \/ \E c \in DOMAIN chats : getMessages(c)
    PROVE  ChatsInv'
<1>1. UNCHANGED <<chats, roomVars>>
  BY DEF CommitMessage, markAsRead, getMessages
<1>2. SocketsHold'
  BY <1>1, SocketsStay, ChatsUnchangedGrow DEF ChatsInv
<1>3. CASE \E h \in Handlers : CommitMessage(h)
  <2>1. PICK h \in Handlers : CommitMessage(h)
    BY <1>3
  <2>2. call[h] \in ChatCall /\ call[h].step = "commit"
    BY <2>1 DEF CommitMessage, At, ChatsInv, CallsHold, ChatCallHolds
  <2>3. call[h].chat \in ChatId /\ call[h].sentAt \in MessageId
    BY <2>2 DEF ChatCall
  <2>4. messages' \subseteq MessageRow
    BY <2>1, <2>3 DEF CommitMessage, MessageRow, ChatsInv, RowsOK
  <2>5. CallsHold'
    BY <2>1, DisturbedChatCalls DEF CommitMessage, WritesAndBecomes, ChatsInv
  <2> QED
    BY <1>2, <2>1, <2>4, <2>5 DEF CommitMessage, ChatsInv, RowsOK
<1>4. CASE \E u \in Users, c \in DOMAIN chats : markAsRead(u, c)
  <2>1. PICK u \in Users, c \in DOMAIN chats : markAsRead(u, c)
    BY <1>4
  <2>2. \A m \in MessageRow :
            [m EXCEPT !.readBy = IF m.chat = c THEN @ \cup {u} ELSE @] \in MessageRow
    BY DEF MessageRow
  <2>3. messages' \subseteq MessageRow
    BY <2>1, <2>2 DEF markAsRead, ChatsInv, RowsOK
  <2>4. CallsHold'
    BY <2>1, DisturbedChatCalls DEF markAsRead, Disturbs, ChatsInv
  <2> QED
    BY <1>2, <2>1, <2>3, <2>4 DEF markAsRead, ChatsInv, RowsOK
<1>5. CASE \E c \in DOMAIN chats : getMessages(c)
  <2>1. PICK c \in DOMAIN chats : getMessages(c)
    BY <1>5
  <2>2. PICK new : /\ held' = [held EXCEPT ![c] = @ \cup Latest(new)]
                   /\ new \subseteq Sent(c)
    BY <2>1 DEF getMessages, After
  <2>3. Latest(new) \subseteq MessageId
    BY <2>2 DEF Latest, Sent, MessageRow, ChatsInv, RowsOK
  <2>4. held' \in [ChatId -> SUBSET MessageId]
    BY <2>2, <2>3 DEF ChatsInv, RowsOK
  <2>5. CallsHold'
    BY <1>1, <2>1, CallsStay DEF getMessages, flight, ChatsInv
  <2> QED
    BY <1>1, <1>2, <2>1, <2>4, <2>5 DEF getMessages, ChatsInv, RowsOK
<1> QED
  BY <1>3, <1>4, <1>5

-----------------------------------------------------------------------------
(* Sockets. *)

\* The row of one socket changes, and perhaps the entry of one user.
LEMMA SocketStep ==
    ASSUME SocketsHold, UNCHANGED chats, NEW s \in Sockets, NEW row \in SocketRow,
           sock' = [sock EXCEPT ![s] = row],
           connectedUsers' \in [Users -> Sockets \cup {0}],
           SocketHolds(s)',
           \A u \in Users :
               connectedUsers'[u] # 0 =>
                   IF connectedUsers'[u] = s
                   THEN /\ row.user = u /\ row.at \in Identified
                        /\ ~row.left \/ row.early
                   ELSE connectedUsers'[u] = connectedUsers[u]
    PROVE  SocketsHold'
<1>1. sock' \in [Sockets -> SocketRow]
  BY DEF SocketsHold
<1>2. \A r \in Sockets : sock'[r] = IF r = s THEN row ELSE sock[r]
  BY DEF SocketsHold
<1>3. \A r \in Sockets : SocketHolds(r)'
  BY <1>2 DEF SocketsHold, SocketHolds
<1>4. ASSUME NEW u \in Users, connectedUsers'[u] # 0
      PROVE  EntryHolds(u)'
  <2>1. CASE connectedUsers'[u] = s
    BY <1>2, <1>4, <2>1 DEF EntryHolds
  <2>2. CASE connectedUsers'[u] # s
    BY <1>2, <1>4, <2>2 DEF EntryHolds, SocketsHold
  <2> QED
    BY <2>1, <2>2
<1> QED
  BY <1>1, <1>3, <1>4 DEF SocketsHold, EntryHolds

LEMMA SocketStepsKeep ==
    ASSUME SocketsHold, RowsOK, NEW s \in Sockets,
           \/ \E u \in Users : handleConnection(s, u)
           \/ \E blocked \in BOOLEAN : Identify(s, blocked)
           \/ ListChats(s) \/ JoinRooms(s) \/ handleDisconnect(s)
    PROVE  SocketsHold'
<1>1. /\ sock[s] \in SocketRow /\ SocketHolds(s) /\ (\A u \in Users : EntryHolds(u))
      /\ connectedUsers \in [Users -> Sockets \cup {0}]
      /\ \A u \in Users : connectedUsers[u] = s => s # 0
  BY DEF SocketsHold, Sockets
<1>2. UNCHANGED chats
  BY DEF handleConnection, Identify, ListChats, JoinRooms, handleDisconnect, talkVars
<1>3. CASE \E u \in Users : handleConnection(s, u)
  <2>1. PICK u \in Users : handleConnection(s, u)
    BY <1>3
  <2>2. PICK row : row = [sock[s] EXCEPT !.at = "verified", !.user = u]
    OBVIOUS
  <2>3. /\ row \in SocketRow /\ sock' = [sock EXCEPT ![s] = row]
        /\ row.list = sock[s].list /\ row.rooms = sock[s].rooms
    BY <1>1, <2>1, <2>2 DEF SocketRow, handleConnection
  <2>4. SocketHolds(s)'
    BY <1>1, <2>1, <2>3 DEF handleConnection, SocketHolds, SocketsHold
  <2>5. \A v \in Users : connectedUsers[v] # s
    BY <1>1, <2>1 DEF EntryHolds, handleConnection, Identified
  <2> QED
    BY <1>1, <1>2, <2>1, <2>3, <2>4, <2>5, SocketStep DEF handleConnection
<1>4. CASE Identify(s, TRUE)
  <2>1. PICK row : row = [sock[s] EXCEPT !.at = "closed", !.left = TRUE]
    OBVIOUS
  <2>2. /\ row \in SocketRow /\ sock' = [sock EXCEPT ![s] = row]
        /\ row.list = sock[s].list /\ row.rooms = sock[s].rooms
        /\ row.user = sock[s].user /\ row.at = "closed"
    BY <1>1, <1>4, <2>1 DEF SocketRow, Identify
  <2>3. SocketHolds(s)'
    BY <1>1, <1>2, <2>2 DEF SocketHolds, SocketsHold
  <2>4. \A v \in Users : connectedUsers[v] # s
    BY <1>1, <1>4 DEF EntryHolds, Identify, Identified
  <2> QED
    BY <1>1, <1>2, <1>4, <2>2, <2>3, <2>4, SocketStep DEF Identify
<1>5. CASE Identify(s, FALSE)
  <2>1. PICK row : row = [sock[s] EXCEPT !.at = "identified", !.early = sock[s].left]
    OBVIOUS
  <2>2. /\ row \in SocketRow /\ sock' = [sock EXCEPT ![s] = row]
        /\ row.list = sock[s].list /\ row.rooms = sock[s].rooms
        /\ row.user = sock[s].user /\ row.at = "identified"
        /\ row.early = row.left
    BY <1>1, <1>5, <2>1 DEF SocketRow, Identify
  <2>3. SocketHolds(s)'
    BY <1>1, <1>2, <2>2 DEF SocketHolds, SocketsHold
  <2>4. /\ connectedUsers' = [connectedUsers EXCEPT ![sock[s].user] = s]
        /\ \A v \in Users : v # sock[s].user => connectedUsers[v] # s
    BY <1>1, <1>5 DEF EntryHolds, Identify, Identified
  <2>5. connectedUsers' \in [Users -> Sockets \cup {0}]
    BY <1>1, <2>4
  <2>6. \A u \in Users :
            connectedUsers'[u] # 0 =>
                IF connectedUsers'[u] = s
                THEN /\ row.user = u /\ row.at \in Identified
                     /\ ~row.left \/ row.early
                ELSE connectedUsers'[u] = connectedUsers[u]
    BY <1>1, <2>2, <2>4 DEF Identified
  <2> QED
    BY <1>2, <2>2, <2>3, <2>5, <2>6, SocketStep
<1>6. CASE ListChats(s)
  <2>1. PICK row : row = [sock[s] EXCEPT !.at = "listed", !.list = OwnChats(sock[s].user)]
    OBVIOUS
  <2>2. OwnChats(sock[s].user) \subseteq ChatId
    <3>1. PICK n \in 0..MaxChats : DOMAIN chats = 1..n
      BY ChatRows
    <3> QED
      BY <3>1, ChatAssumption DEF OwnChats, ChatId
  <2>3. /\ row \in SocketRow /\ sock' = [sock EXCEPT ![s] = row]
        /\ row.list = OwnChats(sock[s].user) /\ row.rooms = sock[s].rooms
        /\ row.user = sock[s].user /\ row.at = "listed"
        /\ row.left = sock[s].left /\ row.early = sock[s].early
    BY <1>1, <1>6, <2>1, <2>2 DEF SocketRow, ListChats
  <2>4. SocketHolds(s)'
    BY <1>1, <1>2, <2>3 DEF SocketHolds, SocketsHold, OwnChats
  <2>5. UNCHANGED connectedUsers
    BY <1>6 DEF ListChats
  <2>6. \A u \in Users : connectedUsers[u] = s =>
            row.user = u /\ row.at \in Identified /\ (~row.left \/ row.early)
    BY <1>1, <2>3 DEF EntryHolds, Identified
  <2> QED
    BY <1>1, <1>2, <2>3, <2>4, <2>5, <2>6, SocketStep
<1>7. CASE JoinRooms(s)
  <2>1. PICK row : row = [sock[s] EXCEPT !.at = "open", !.rooms = sock[s].list]
    OBVIOUS
  <2>2. /\ row \in SocketRow /\ sock' = [sock EXCEPT ![s] = row]
        /\ row.list = sock[s].list /\ row.rooms = sock[s].list
        /\ row.user = sock[s].user /\ row.at = "open"
        /\ row.left = sock[s].left /\ row.early = sock[s].early
    BY <1>1, <1>7, <2>1 DEF SocketRow, JoinRooms
  <2>3. SocketHolds(s)'
    BY <1>1, <1>2, <2>2 DEF SocketHolds, SocketsHold
  <2>4. UNCHANGED connectedUsers
    BY <1>7 DEF JoinRooms
  <2>5. \A u \in Users : connectedUsers[u] = s =>
            row.user = u /\ row.at \in Identified /\ (~row.left \/ row.early)
    BY <1>1, <2>2 DEF EntryHolds, Identified
  <2> QED
    BY <1>1, <1>2, <2>2, <2>3, <2>4, <2>5, SocketStep
<1>8. CASE handleDisconnect(s)
  <2>1. PICK row : row = [sock[s] EXCEPT !.left = TRUE, !.rooms = {}]
    OBVIOUS
  <2>2. /\ row \in SocketRow /\ sock' = [sock EXCEPT ![s] = row]
        /\ row.list = sock[s].list /\ row.rooms = {}
        /\ row.user = sock[s].user /\ row.at = sock[s].at
    BY <1>1, <1>8, <2>1 DEF SocketRow, handleDisconnect
  <2>3. SocketHolds(s)'
    BY <1>1, <1>2, <1>8, <2>2 DEF SocketHolds, SocketsHold, handleDisconnect
  <2>4. /\ connectedUsers' \in [Users -> Sockets \cup {0}]
        /\ \A u \in Users : connectedUsers'[u] \in {0, connectedUsers[u]}
    BY <1>1, <1>8 DEF handleDisconnect, Forget
  <2>5. \A u \in Users : connectedUsers'[u] # 0 => connectedUsers'[u] # s
    BY <1>1, <1>8 DEF handleDisconnect, Forget, EntryHolds, Identified
  <2> QED
    BY <1>2, <2>2, <2>3, <2>4, <2>5, SocketStep
<1> QED
  BY <1>3, <1>4, <1>5, <1>6, <1>7, <1>8

-----------------------------------------------------------------------------
(* A list of numbers read from the greatest down: pages of messages, of requests *)
(* and of status changes.                                                        *)

Above(S, n) == {m \in S : m > n}
Position(S, n) == Cardinality(Above(S, n))

LEMMA PositionType ==
    ASSUME NEW S \in SUBSET Nat, IsFiniteSet(S), NEW n \in Nat
    PROVE  /\ IsFiniteSet(Above(S, n)) /\ Position(S, n) \in Nat
           /\ Position(S, n) <= Cardinality(S)
           /\ n \in S => Position(S, n) < Cardinality(S)
<1>1. Above(S, n) \in SUBSET S
  BY DEF Above
<1>2. /\ IsFiniteSet(Above(S, n)) /\ Cardinality(Above(S, n)) <= Cardinality(S)
      /\ Cardinality(S) = Cardinality(Above(S, n)) => S = Above(S, n)
  BY <1>1, FS_Subset
<1>3. Cardinality(Above(S, n)) \in Nat /\ Cardinality(S) \in Nat
  BY <1>2, FS_CardinalityType
<1>4. n \notin Above(S, n)
  BY DEF Above
<1> QED
  BY <1>2, <1>3, <1>4 DEF Position

LEMMA PositionsDescend ==
    ASSUME NEW S \in SUBSET Nat, IsFiniteSet(S), NEW a \in S, NEW b \in S, a < b
    PROVE  Position(S, b) < Position(S, a)
<1>1. /\ IsFiniteSet(Above(S, a)) /\ IsFiniteSet(Above(S, b))
      /\ Position(S, a) \in Nat /\ Position(S, b) \in Nat
  BY PositionType
<1>2. \A m \in Above(S, b) : m \in Above(S, a)
  BY DEF Above
<1>3. Above(S, b) # Above(S, a)
  BY DEF Above
<1> QED
  BY <1>1, <1>2, <1>3, FS_Subset DEF Position

LEMMA PositionsDiffer ==
    ASSUME NEW S \in SUBSET Nat, IsFiniteSet(S), NEW a \in S, NEW b \in S, a # b
    PROVE  Position(S, a) # Position(S, b)
<1>1. Position(S, a) \in Nat /\ Position(S, b) \in Nat
  BY PositionType
<1>2. a < b \/ b < a
  OBVIOUS
<1> QED
  BY <1>1, <1>2, PositionsDescend

\* No two elements are at one position, so a page is no longer than its limit.
LEMMA PageInjects ==
    ASSUME NEW S \in SUBSET Nat, IsFiniteSet(S), NEW T \in SUBSET S, NEW R,
           \A n \in T : Position(S, n) \in R
    PROVE  [n \in T |-> Position(S, n)] \in Injection(T, R)
BY PositionsDiffer DEF Injection, IsInjective

\* Every position before that of an element is somebody's.
LEMMA PositionsFilled ==
    ASSUME NEW S \in SUBSET Nat, IsFiniteSet(S), NEW n \in S,
           NEW j \in Nat, j < Position(S, n)
    PROVE  \E m \in S : Position(S, m) = j
<1> DEFINE T == Above(S, n)
           k == Position(S, n)
           f == [m \in T |-> Position(S, m)]
<1>1. T \in SUBSET S /\ IsFiniteSet(T) /\ k \in Nat /\ k = Cardinality(T)
  BY PositionType DEF Above, Position
<1>2. \A m \in T : Position(S, m) \in 0..(k - 1)
  <2> SUFFICES ASSUME NEW m \in T PROVE Position(S, m) \in 0..(k - 1)
    OBVIOUS
  <2>1. m \in S /\ n < m
    BY DEF Above
  <2>2. Position(S, m) < k /\ Position(S, m) \in Nat
    BY <2>1, PositionsDescend, PositionType
  <2> QED
    BY <1>1, <2>2
<1>3. f \in Injection(T, 0..(k - 1))
  BY <1>1, <1>2, PageInjects
<1>4. IsFiniteSet(0..(k - 1)) /\ Cardinality(0..(k - 1)) = k
  <2>1. 0 \in Int /\ k - 1 \in Int
    BY <1>1
  <2>2. Cardinality(0..(k - 1)) = IF 0 > k - 1 THEN 0 ELSE (k - 1) - 0 + 1
    BY <2>1, FS_Interval
  <2>3. (IF 0 > k - 1 THEN 0 ELSE (k - 1) - 0 + 1) = k
    BY <1>1
  <2> QED
    BY <2>1, <2>2, <2>3, FS_Interval
<1>5. f \in Surjection(T, 0..(k - 1))
  BY <1>1, <1>3, <1>4, FS_Injection
<1>6. j \in 0..(k - 1)
  BY <1>1
<1>7. \E m \in T : f[m] = j
  BY <1>5, <1>6 DEF Surjection
<1> QED
  BY <1>1, <1>7

\* The first in the list is its maximum.
LEMMA MaxIsGreatest ==
    ASSUME NEW S \in SUBSET Nat, IsFiniteSet(S), S # {}
    PROVE  Max(S) \in S /\ \A n \in S : n <= Max(S)
<1>1. \E x \in S : Position(S, x) = 0
  <2>1. PICK n \in S : TRUE
    OBVIOUS
  <2>2. Position(S, n) \in Nat
    BY PositionType
  <2>3. CASE Position(S, n) > 0
    BY <2>2, <2>3, PositionsFilled
  <2> QED
    BY <2>2, <2>3
<1>2. PICK x \in S : Position(S, x) = 0
  BY <1>1
<1>3. Above(S, x) = {}
  BY <1>2, PositionType, FS_EmptySet DEF Position
<1>4. \A y \in S : x >= y
  BY <1>3 DEF Above
<1>5. Max(S) \in S /\ \A y \in S : Max(S) >= y
  BY <1>4 DEF Max
<1> QED
  BY <1>5

-----------------------------------------------------------------------------
(* What a client that follows a chat is shown. *)

\* Between two messages that are shown, a page that holds all that came after the
\* last one leaves out no more than was left out before.
LEMMA WholePageMissesNothing ==
    ASSUME NEW S \in SUBSET Nat, IsFiniteSet(S), NEW H \in SUBSET Nat, IsFiniteSet(H),
           H # {}, NEW A, A = {m \in S : m > Max(H)}, Cardinality(A) <= PageSize
    PROVE  Between(S, H \cup Latest(A)) = Between(S, H)
<1>1. Max(H) \in H /\ \A n \in H : n <= Max(H)
  BY MaxIsGreatest
<1>2. A \in SUBSET Nat /\ IsFiniteSet(A) /\ A \in SUBSET S
  BY FS_Subset
<1>3. Latest(A) = A
  <2>1. \A m \in A : Latest(A) = {n \in A : Position(A, n) < PageSize}
    BY DEF Latest, Position, Above
  <2>2. ASSUME NEW m \in A PROVE Position(A, m) < PageSize
    <3>1. Position(A, m) < Cardinality(A) /\ Position(A, m) \in Nat
      BY <1>2, PositionType
    <3>2. Cardinality(A) \in Nat
      BY <1>2, FS_CardinalityType
    <3> QED
      BY <3>1, <3>2, ChatAssumption
  <2> QED
    BY <2>1, <2>2 DEF Latest
<1>4. ASSUME NEW m \in S \ (H \cup A), NEW n \in H \cup A, NEW o \in H \cup A,
             n < m, m < o
      PROVE  m \in Between(S, H)
  <2>1. m \in Nat /\ n \in Nat /\ o \in Nat /\ Max(H) \in Nat
    BY <1>1, <1>2
  <2>2. m <= Max(H) /\ m # Max(H)
    BY <1>1, <2>1
  <2>3. n \in H
    BY <1>4, <2>1, <2>2
  <2>4. m < Max(H)
    BY <2>1, <2>2
  <2> QED
    BY <1>1, <1>4, <2>3, <2>4 DEF Between
<1>5. ASSUME NEW m \in Between(S, H)
      PROVE  m \in Between(S, H \cup A)
  <2>1. PICK n \in H, o \in H : n < m /\ m < o
    BY <1>5 DEF Between
  <2>2. m \notin A
    <3>1. m \in Nat /\ o \in Nat /\ Max(H) \in Nat /\ o <= Max(H)
      BY <1>1 DEF Between
    <3> QED
      BY <2>1, <3>1
  <2> QED
    BY <2>1, <2>2 DEF Between
<1>6. ASSUME NEW m \in Between(S, H \cup A)
      PROVE  m \in Between(S, H)
  BY <1>4 DEF Between
<1> QED
  BY <1>3, <1>5, <1>6

\* The first page is the end of the chat without a gap.
LEMMA FirstPageHasNoGap ==
    ASSUME NEW S \in SUBSET Nat, IsFiniteSet(S)
    PROVE  Between(S, Latest(S)) = {}
<1> SUFFICES ASSUME NEW m \in S, m \notin Latest(S), NEW n \in Latest(S), n < m
             PROVE  FALSE
  BY DEF Between
<1>1. Latest(S) = {l \in S : Position(S, l) < PageSize}
  BY DEF Latest, Position, Above
<1>2. n \in S /\ Position(S, n) < PageSize
  BY <1>1
<1>3. Position(S, m) < Position(S, n)
  BY <1>2, PositionsDescend
<1>4. Position(S, m) \in Nat /\ Position(S, n) \in Nat
  BY <1>2, PositionType
<1> QED
  BY <1>1, <1>2, <1>3, <1>4, ChatAssumption

LEMMA ChatIdsAndSent ==
    ASSUME ChatsInv, NEW c \in DOMAIN chats
    PROVE  /\ c \in ChatId
           /\ Sent(c) \in SUBSET MessageId /\ held[c] \in SUBSET MessageId
           /\ Sent(c) \in SUBSET Nat /\ IsFiniteSet(Sent(c))
           /\ held[c] \in SUBSET Nat /\ IsFiniteSet(held[c])
<1>1. c \in ChatId
  <2>1. PICK n \in 0..MaxChats : DOMAIN chats = 1..n
    BY ChatRows DEF ChatsInv
  <2> QED
    BY <2>1, ChatAssumption DEF ChatId
<1>2. Sent(c) \in SUBSET MessageId
  BY DEF Sent, ChatsInv, RowsOK, MessageRow
<1>3. held[c] \in SUBSET MessageId
  BY <1>1 DEF ChatsInv, RowsOK
<1>4. IsFiniteSet(MessageId) /\ MessageId \in SUBSET Nat
  BY FS_Interval, ChatAssumption DEF MessageId
<1> QED
  BY <1>1, <1>2, <1>3, <1>4, FS_Subset

\* Asking for what came after the last message one has.
LEMMA PageMissesFew ==
    ASSUME ChatsInv, NEW c \in DOMAIN chats, getMessages(c),
           NEW d \in DOMAIN chats, Between(Sent(d), held'[d]) # Between(Sent(d), held[d])
    PROVE  Cardinality(After(d, Max(held[d]))) > PageSize
<1>1. /\ c \in ChatId /\ d \in ChatId
      /\ Sent(c) \in SUBSET MessageId
      /\ Sent(c) \in SUBSET Nat /\ IsFiniteSet(Sent(c))
      /\ held[c] \in SUBSET Nat /\ IsFiniteSet(held[c])
  BY ChatIdsAndSent
<1>2. PICK cursor : cursor = IF held[c] = {} THEN 0 ELSE Max(held[c])
  OBVIOUS
<1>3. held' = [held EXCEPT ![c] = held[c] \cup Latest(After(c, cursor))]
  BY <1>2 DEF getMessages
<1>4. d = c /\ held'[c] = held[c] \cup Latest(After(c, cursor))
  BY <1>1, <1>3 DEF ChatsInv, RowsOK
<1>5. held[c] # {}
  <2> SUFFICES ASSUME held[c] = {} PROVE FALSE
    OBVIOUS
  <2>1. After(c, cursor) = Sent(c)
    BY <1>1, <1>2 DEF After, MessageId
  <2>2. held'[c] = Latest(Sent(c))
    BY <1>4, <2>1
  <2>3. Between(Sent(c), held'[c]) = {}
    BY <1>1, <2>2, FirstPageHasNoGap
  <2> QED
    BY <1>4, <2>3 DEF Between
<1>6. After(c, cursor) = {m \in Sent(c) : m > Max(held[c])} /\ cursor = Max(held[c])
  BY <1>2, <1>5 DEF After
<1>7. Cardinality(After(c, cursor)) \in Nat
  BY <1>1, <1>6, FS_Subset, FS_CardinalityType
<1>8. ~(Cardinality(After(c, cursor)) <= PageSize)
  BY <1>1, <1>4, <1>5, <1>6, WholePageMissesNothing
<1> QED
  BY <1>4, <1>6, <1>7, <1>8, ChatAssumption

LEMMA ReadingKeepsSent ==
    ASSUME ChatsInv, NEW u \in Users, NEW c \in DOMAIN chats, markAsRead(u, c), NEW d
    PROVE  Sent(d)' = Sent(d)
<1> DEFINE R(m) == [m EXCEPT !.readBy = IF m.chat = c THEN @ \cup {u} ELSE @]
<1>1. messages' = {R(m) : m \in messages}
  BY DEF markAsRead
<1>2. \A m \in messages : R(m).id = m.id /\ R(m).chat = m.chat
  BY DEF ChatsInv, RowsOK, MessageRow
<1>3. Sent(d)' = {m.id : m \in {n \in messages' : n.chat = d}}
  BY DEF Sent
<1> HIDE DEF R
<1>4. {m.id : m \in {n \in messages' : n.chat = d}} =
          {m.id : m \in {n \in messages : n.chat = d}}
  BY <1>1, <1>2
<1> QED
  BY <1>3, <1>4 DEF Sent

-----------------------------------------------------------------------------
(* The properties. *)

LEMMA ChatsInvNext ==
    ASSUME ChatsInv, [TalkNext \/ RoomsNext]_<<chatVars, flight>>
    PROVE  ChatsInv'
<1>1. CASE \/ \E type \in ChatType, people \in SUBSET Users : createGroupChat(type, people)
           \/ \E c \in DOMAIN chats, u \in Users : AddParticipant(c, u)
           \/ \E h \in Handlers : CreateDirectChat(h)
  BY <1>1, ChatStepsKeep
<1>2. CASE \E h \in Handlers :
              \/ \E u, v \in Users : getOrCreateDirectChat(h, u, v)
              \/ \E u \in Users, c \in DOMAIN chats : sendMessage(h, u, c)
              \/ FailChatCall(h)
  BY <1>2, ChatCallsBeginAndFail
<1>3. CASE \/ \E h \in Handlers : CommitMessage(h)
           \/ \E u \in Users, c \in DOMAIN chats : markAsRead(u, c)
           \/ \E c \in DOMAIN chats : getMessages(c)
  BY <1>3, MessageStepsKeep
<1>4. CASE \E s \in Sockets :
              \/ \E u \in Users : handleConnection(s, u)
              \/ \E blocked \in BOOLEAN : Identify(s, blocked)
              \/ ListChats(s) \/ JoinRooms(s) \/ handleDisconnect(s)
  <2>1. UNCHANGED <<talkVars, flight>>
    BY <1>4 DEF handleConnection, Identify, ListChats, JoinRooms, handleDisconnect
  <2>2. SocketsHold'
    BY <1>4, SocketStepsKeep DEF ChatsInv
  <2> QED
    BY <2>1, <2>2, CallsStay DEF ChatsInv, RowsOK, talkVars, flight
<1>5. CASE UNCHANGED <<chatVars, flight>>
  BY <1>5, CallsStay, SocketsStay, ChatsUnchangedGrow
     DEF ChatsInv, RowsOK, chatVars, talkVars, flight
<1>6. /\ {"task_chat", "org_chat"} \subseteq ChatType
      /\ SUBSET Users \ {{}} \subseteq SUBSET Users /\ Users \in SUBSET Users
  BY DEF ChatType
<1> QED
  BY <1>1, <1>2, <1>3, <1>4, <1>5, <1>6 DEF TalkNext, RoomsNext

\* The strengthening holds throughout.
THEOREM ChatsInvHolds == ChatsSpec => []ChatsInv
<1>1. ChatsInit /\ CallsInit => ChatsInv
  BY ChatsInvInit
<1>2. ChatsInv /\ [TalkNext \/ RoomsNext]_<<chatVars, flight>> => ChatsInv'
  BY ChatsInvNext
<1> QED
  BY <1>1, <1>2, PTL DEF ChatsSpec

\* What the rows, the sockets and the calls in flight can be.
THEOREM ChatTypes == ChatsSpec => []ChatTypeOK
BY ChatsInvTypes, ChatsInvHolds, PTL

\* What is said in a chat reaches only people who take part in it.
THEOREM OnlyParticipantsHear == ChatsSpec => []HeardByParticipants
<1>1. ChatsInv => HeardByParticipants
  BY DEF ChatsInv, SocketsHold, SocketHolds, HeardByParticipants, Hearers
<1> QED
  BY <1>1, ChatsInvHolds, PTL

\* The gateway's entry of a user is a socket of his that is still there, or hung up
\* while it was being identified.
THEOREM EntriesLive == ChatsSpec => []EntriesAreLive
<1>1. ChatsInv => EntriesAreLive
  BY DEF ChatsInv, SocketsHold, EntryHolds, EntriesAreLive
<1> QED
  BY <1>1, ChatsInvHolds, PTL

\* A second direct chat of two people takes two calls that overlap.
THEOREM OneDirect == ChatsSpec => OneDirectChat
<1>1. ChatsInv => \A h \in Handlers :
          At(h, "create") /\ Directs(call[h].people) # {} => ~call[h].alone
  <2> SUFFICES ASSUME ChatsInv, NEW h \in Handlers,
                      At(h, "create"), Directs(call[h].people) # {}
               PROVE  ~call[h].alone
    OBVIOUS
  <2>1. ChatCallHolds(call[h]) /\ call[h].step = "create"
    BY DEF ChatsInv, CallsHold, At
  <2>2. call[h].op = "getOrCreateDirectChat"
    BY <2>1 DEF ChatCallHolds, ChatCall
  <2> QED
    BY <2>1, <2>2 DEF ChatCallHolds
<1>2. ChatsInv => [\A h \in Handlers :
          At(h, "create") /\ chats' # chats /\ ~InFlight(h)'
          /\ Directs(call[h].people) # {} => ~call[h].alone]_chatVars
  BY <1>1
<1> QED
  BY <1>2, ChatsInvHolds, PTL DEF ChatsSpec, OneDirectChat

\* A client that follows a chat misses a message only when more than a page came at
\* once, or when the message was still being saved as a later one was shown.
THEOREM FollowersMissFew == ChatsSpec => FollowerMissesFew
<1> DEFINE Holds(c) ==
        Between(Sent(c)', held[c]') # Between(Sent(c), held[c]) =>
            \/ Cardinality(After(c, Max(held[c]))) > PageSize
            \/ \E h \in Handlers : At(h, "commit") /\ Sent(c)' # Sent(c)
<1>1. ASSUME ChatsInv, TalkNext \/ RoomsNext, NEW c \in DOMAIN chats
      PROVE  Holds(c)
  <2>1. CASE \E d \in DOMAIN chats : getMessages(d)
    <3>1. PICK d \in DOMAIN chats : getMessages(d)
      BY <2>1
    <3>2. Sent(c)' = Sent(c)
      BY <3>1 DEF getMessages, Sent
    <3> QED
      BY <1>1, <3>1, <3>2, PageMissesFew
  <2>2. CASE \E u \in Users, d \in DOMAIN chats : markAsRead(u, d)
    <3>1. Sent(c)' = Sent(c)
      BY <1>1, <2>2, ReadingKeepsSent
    <3>2. UNCHANGED held
      BY <2>2 DEF markAsRead
    <3> QED
      BY <3>1, <3>2
  <2>3. CASE \E h \in Handlers : CommitMessage(h)
    <3>1. PICK h \in Handlers : CommitMessage(h)
      BY <2>3
    <3>2. At(h, "commit") /\ UNCHANGED held
      BY <3>1 DEF CommitMessage
    <3> QED
      BY <3>2
  <2>4. CASE UNCHANGED <<messages, held>>
    BY <2>4 DEF Sent
  <2> QED
    BY <1>1, <2>1, <2>2, <2>3, <2>4
       DEF TalkNext, RoomsNext, getOrCreateDirectChat, sendMessage, CreateDirectChat,
           FailChatCall, createGroupChat, NewChat, AddParticipant, handleConnection,
           Identify, ListChats, JoinRooms, handleDisconnect, chatVars, talkVars
<1>2. ChatsInv /\ [TalkNext \/ RoomsNext]_<<chatVars, flight>>
          => [\A c \in DOMAIN chats : Holds(c)]_talkVars
  BY <1>1 DEF chatVars
<1> QED
  BY <1>2, ChatsInvHolds, PTL DEF ChatsSpec, FollowerMissesFew

=============================================================================

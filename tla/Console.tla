------------------------------ MODULE Console ------------------------------
(***************************************************************************)
(* An agent's browser and the API it talks to: login sessions              *)
(* (app/api/auth.py, app/api/deps.py), the conversation list by keyset     *)
(* pages and the read stamp (app/api/conversations.py), and the inbox      *)
(* store that asks for them (frontend/stores/inbox.ts).                    *)
(*                                                                         *)
(* Every request is sent, handled and answered in steps of its own;        *)
(* several are under way at once and answers come in any order.  Workers   *)
(* store customers' messages meanwhile, with the provider's time of        *)
(* sending.  All conversations pass the filters; one that a filter leaves  *)
(* out after an action is removed from the list by that action's answer.   *)
(***************************************************************************)
EXTENDS Naturals, SequencesExt, Sublist

CONSTANTS
  Conversation,   \* the ids, numbers
  Slot,           \* requests the browser can have under way
  Token,          \* session tokens, one per login
  PageSize,
  MaxTime,        \* bound: the clock
  MaxDelay,       \* bound: how late a message may be stored
  MaxRequests,    \* bound: requests the agent's clicks send
  NoToken

ASSUME ConsoleAssumption ==
  /\ Conversation \subseteq Nat \ {0}
  /\ PageSize \in Nat \ {0}
  /\ MaxTime \in Nat \ {0}
  /\ MaxDelay \in Nat /\ MaxRequests \in Nat

VARIABLES
  now,
  last,       \* [Conversation -> Nat], last_message_at; 0 is null
  read,       \* [Conversation -> Nat], agent_last_read_at; 0 is null
  unseen,     \* conversations with a message, stored from now on, that
              \* no page has shown
  session,    \* [Token -> SessionState]
  logout,     \* the one logout
  request,    \* [Slot -> Request]
  sent,       \* how many were sent
  list,       \* conversations of the store, in order
  cursor,     \* nextCursor: a key, or None
  loading,    \* listLoading
  detail,     \* the open conversation, 0 for none
  crossed,    \* the list is of list requests that crossed each other
  moved       \* conversations moved since the list was begun

rowVars == <<now, last, read, unseen>>
authVars == <<session, logout>>
storeVars == <<list, cursor, loading, detail>>
vars == <<rowVars, authVars, request, sent, storeVars, crossed, moved>>

SessionState == {"none", "live", "over"}     \* revoked or expired

None == [at |-> 0, id |-> 0]        \* no cursor; no conversation has id 0
Key == [at : Nat, id : Conversation]

NoRequest == [pc |-> "idle", kind |-> "reset", of |-> 0, from |-> None,
              token |-> NoToken, late |-> FALSE, page |-> <<>>, next |-> None,
              crossed |-> FALSE, moved |-> {}]
NoLogout == [pc |-> "idle", token |-> NoToken, before |-> {}, seen |-> {}]

ListKind == {"reset", "more"}

Cursor == Key \cup {None}
Cookie == Token \cup {NoToken}

Request ==
  [pc : {"idle", "sent", "answered"},
   kind : ListKind \cup {"open", "read", "update"},
   of : Conversation \cup {0},          \* the thread's, 0 for the list
   from : Cursor,                       \* of a list request
   token : Cookie,
   late : BOOLEAN,                      \* sent with a session of before a logout
   page : Seq(Conversation), next : Cursor,     \* the answer
   crossed : BOOLEAN,                   \* by another list request
   moved : SUBSET Conversation]         \* since the answer

Logout ==
  [pc : {"idle", "sent", "loaded", "done"},
   token : Cookie,
   before : SUBSET Token,               \* begun before it was asked for
   seen : SUBSET Token]                 \* the sessions it has loaded

TypeOK ==
  /\ now \in 1..MaxTime
  /\ last \in [Conversation -> 0..MaxTime] /\ read \in [Conversation -> 0..MaxTime]
  /\ unseen \subseteq Conversation /\ moved \subseteq Conversation
  /\ session \in [Token -> SessionState]
  /\ logout \in Logout
  /\ request \in [Slot -> Request]
  /\ \A s \in Slot : /\ Len(request[s].page) <= PageSize
                     /\ request[s].kind \notin ListKind => request[s].of # 0
  /\ sent \in 0..MaxRequests
  /\ list \in Seq(Conversation)
  /\ cursor \in Cursor
  /\ detail \in Conversation \cup {0}
  /\ loading \in BOOLEAN /\ crossed \in BOOLEAN

(* Messages of all ages, nothing read, the agent signed in, the page empty.*)
Init ==
  /\ now = 1
  /\ last \in [Conversation -> 0..1]
  /\ read = [c \in Conversation |-> 0]
  /\ unseen = {}
  /\ \E t \in Token : session = [u \in Token |-> IF u = t THEN "live" ELSE "none"]
  /\ logout = NoLogout
  /\ request = [s \in Slot |-> NoRequest] /\ sent = 0
  /\ list = <<>> /\ cursor = None
  /\ loading = FALSE /\ detail = 0
  /\ crossed = FALSE /\ moved = Conversation

-----------------------------------------------------------------------------
(* Variants of definitions below, each with one mistake, used to see that  *)
(* the properties notice it, stand before the definition they vary.        *)

KeyOf(c) == [at |-> last[c], id |-> c]

(* The newest first, null last; of equals the greater id. *)
Before(k, j) == k.at > j.at \/ (k.at = j.at /\ k.id > j.id)

(* Strictly older only: of messages of the same second, one page's. *)
SoughtByTime(from) ==
  {c \in Conversation : from = None \/ from.at > last[c]}

(* The rows after a cursor: strictly older, null after every time. *)
Sought(from) ==
  {c \in Conversation : from = None \/ Before(from, KeyOf(c))}

(* list_conversations: the first of them in the list's order, as many as a *)
(* page holds.                                                             *)
Pages(from) ==
  {rows \in SeqOf(Sought(from), PageSize) :
     /\ \A i, j \in DOMAIN rows : i < j => Before(KeyOf(rows[i]), KeyOf(rows[j]))
     /\ \A c \in Sought(from) \ Range(rows) :
          Len(rows) = PageSize /\ Before(KeyOf(Last(rows)), KeyOf(c))}

(* One row more than a page tells whether there is another; the cursor is  *)
(* the key of the page's last row.                                         *)
NextCursor(from, rows) ==
  IF Sought(from) = Range(rows) THEN None ELSE KeyOf(Last(rows))

Unread(c) == last[c] > 0 /\ last[c] > read[c]

(* current_user: the cookie's session is neither revoked nor expired. *)
Authenticated(t) == t \in Token /\ session[t] = "live"

(* A session is found expired, or was over. *)
Expires(t) == session' = [session EXCEPT ![t] = "over"]

Live == {t \in Token : session[t] = "live"}

-----------------------------------------------------------------------------
(* The list the browser has, and the first page on its way to it. *)
Moves(c) ==
  /\ moved' = moved \cup {c}
  /\ request' = [s \in Slot |->
       IF request[s].pc = "answered" /\ request[s].kind = "reset"
         THEN [request[s] EXCEPT !.moved = @ \cup {c}] ELSE request[s]]

(* A worker stores a customer's message, or anyone a reply: the list's     *)
(* order follows, not always upwards, for it is the provider's time.       *)
StoreInbound(c, delay) ==
  /\ now < MaxTime /\ delay <= now
  /\ now' = now + 1
  /\ last' = [last EXCEPT ![c] = now + 1 - delay]
  /\ unseen' = unseen \cup {c}
  /\ Moves(c)
  /\ UNCHANGED <<read, authVars, sent, storeVars, crossed>>

RecordOutbound(c) ==
  /\ now < MaxTime
  /\ now' = now + 1
  /\ last' = [last EXCEPT ![c] = now + 1]
  /\ Moves(c)
  /\ UNCHANGED <<read, unseen, authVars, sent, storeVars, crossed>>

-----------------------------------------------------------------------------
(* POST /auth/login, on whatever device. *)
Login(t) ==
  /\ session[t] = "none"
  /\ session' = [session EXCEPT ![t] = "live"]
  /\ UNCHANGED <<rowVars, logout, request, sent, storeVars, crossed, moved>>

SendLogout(t) ==
  /\ logout.pc = "idle" /\ session[t] # "none"
  /\ logout' = [logout EXCEPT !.pc = "sent", !.token = t, !.before = Live]
  /\ UNCHANGED <<rowVars, session, request, sent, storeVars, crossed, moved>>

(* current_user, and the user's sessions that are not revoked (an expired  *)
(* one may be: it makes no difference); or 401.                            *)
LoadSessions ==
  /\ logout.pc = "sent"
  /\ \/ /\ Authenticated(logout.token)
        /\ logout' = [logout EXCEPT !.pc = "loaded", !.seen = Live]
        /\ UNCHANGED session
     \/ Expires(logout.token) /\ logout' = NoLogout
  /\ UNCHANGED <<rowVars, request, sent, storeVars, crossed, moved>>

(* The browser's own session. *)
RevokedOwn == {logout.token}

Revoked == logout.seen

(* The commit and the answer. *)
EndSessions ==
  /\ logout.pc = "loaded"
  /\ session' = [t \in Token |-> IF t \in Revoked THEN "over" ELSE session[t]]
  /\ logout' = [NoLogout EXCEPT !.pc = "done", !.before = logout.before]
  /\ UNCHANGED <<rowVars, request, sent, storeVars, crossed, moved>>

-----------------------------------------------------------------------------
(* A request with the cookie of any login, the last or one kept elsewhere. *)
Asked(kind, of, from, t) ==
  [NoRequest EXCEPT !.pc = "sent", !.kind = kind, !.of = of, !.from = from,
                    !.token = t,
                    !.late = logout.pc = "done" /\ t \in logout.before]

LoggedIn == {t \in Token : session[t] # "none"}

Free(s) ==
  /\ request[s].pc = "idle"
  /\ sent < MaxRequests /\ sent' = sent + 1

IsList(s) == request[s].pc # "idle" /\ request[s].kind \in ListKind

SendList(s, kind, from) ==
  /\ Free(s)
  /\ \E t \in LoggedIn : request' = [q \in Slot |->
       IF q = s THEN [Asked(kind, 0, from, t) EXCEPT !.crossed = \E p \in Slot : IsList(p)]
       ELSE [request[q] EXCEPT !.crossed = @ \/ IsList(q)]]
  /\ loading' = TRUE
  /\ UNCHANGED <<rowVars, authVars, list, cursor, detail, crossed, moved>>

(* fetchList(true): on mounting, by refresh or a filter, and after a send. *)
FetchList(s) == SendList(s, "reset", None)

(* fetchList(false); the button is disabled while the list is loading. *)
FetchMore(s) ==
  /\ cursor # None /\ ~loading
  /\ SendList(s, "more", cursor)

(* openConversation's two GETs; or an action on the open conversation. *)
Ask(s) ==
  /\ Free(s)
  /\ \E t \in LoggedIn, kind \in {"open", "update"}, c \in Conversation :
       /\ kind = "update" => c = detail
       /\ request' = [request EXCEPT ![s] = Asked(kind, c, None, t)]
  /\ UNCHANGED <<rowVars, authVars, storeVars, crossed, moved>>

Done(s) ==
  /\ request' = [request EXCEPT ![s] = NoRequest]
  /\ UNCHANGED sent

(* The store keeps what it has. *)
Fails(s) ==
  /\ loading' = (loading /\ request[s].kind \notin ListKind)
  /\ Done(s)
  /\ UNCHANGED <<rowVars, logout, list, cursor, detail, crossed, moved>>

(* The API answers 401 (it may well have done so a while ago). *)
Refuse(s) ==
  /\ request[s].pc = "sent"
  /\ Expires(request[s].token)
  /\ Fails(s)

(* The request or its answer is lost. *)
Lose(s) ==
  /\ request[s].pc # "idle"
  /\ Fails(s)
  /\ UNCHANGED session

Answer(s, page, next) ==
  /\ request[s].pc = "sent" /\ Authenticated(request[s].token)
  /\ request' = [request EXCEPT ![s] =
       [@ EXCEPT !.pc = "answered", !.token = NoToken, !.from = None,
                 !.page = page, !.next = next]]
  /\ UNCHANGED <<now, last, authVars, sent, storeVars, crossed, moved>>

AnswerList(s) ==
  /\ request[s].kind \in ListKind
  /\ \E rows \in Pages(request[s].from) :
       Answer(s, rows, NextCursor(request[s].from, rows))
  /\ UNCHANGED <<read, unseen>>

(* What is stored by now is shown; an action is not modelled further. *)
AnswerThread(s) ==
  /\ request[s].kind \in {"open", "update"}
  /\ Answer(s, <<>>, None)
  /\ unseen' = IF request[s].kind = "open" THEN unseen \ {request[s].of} ELSE unseen
  /\ UNCHANGED read

AnswerRead(s) ==
  /\ request[s].kind = "read"
  /\ Answer(s, <<>>, None)
  /\ read' = [read EXCEPT ![request[s].of] = now]
  /\ UNCHANGED unseen

Without(ids, gone) == Picked(ids, {i \in DOMAIN ids : ids[i] \notin gone})

(* A row the list has already is not shown twice. *)
Appended(page) == list \o Without(page, Range(list))

ReceiveList(s) ==
  LET r == request[s] IN
  /\ r.pc = "answered" /\ r.kind \in ListKind
  /\ list' = IF r.kind = "reset" THEN r.page ELSE Appended(r.page)
  /\ cursor' = r.next
  /\ loading' = FALSE
  /\ crossed' = (r.crossed \/ (crossed /\ r.kind = "more"))
  /\ moved' = IF r.kind = "reset" THEN r.moved ELSE moved
  /\ Done(s)
  /\ UNCHANGED <<rowVars, authVars, detail>>

(* The thread is shown, and then marked read. *)
ReceiveThread(s) ==
  LET r == request[s] IN
  /\ r.pc = "answered" /\ r.kind = "open"
  /\ detail' = r.of
  /\ \E t \in LoggedIn : request' = [request EXCEPT ![s] = Asked("read", r.of, None, t)]
  /\ UNCHANGED <<sent, rowVars, authVars, list, cursor, loading, crossed, moved>>

(* applyConversationUpdated: out of the list, and on top of it if the      *)
(* filters include it.  The open conversation is the updated one.          *)
ReceiveUpdate(s) ==
  LET r == request[s]
      rest == Without(list, {r.of})
  IN
  /\ r.pc = "answered" /\ r.kind = "update"
  /\ detail' = r.of
  /\ list' \in {rest, <<r.of>> \o rest}
  /\ moved' = moved \cup {r.of}
  /\ Done(s)
  /\ UNCHANGED <<rowVars, authVars, cursor, loading, crossed>>

ReceiveRead(s) ==
  /\ request[s].pc = "answered" /\ request[s].kind = "read"
  /\ Done(s)
  /\ UNCHANGED <<rowVars, authVars, storeVars, crossed, moved>>

Browse(s) ==
  \/ FetchList(s)
  \/ FetchMore(s)
  \/ Ask(s)
  \/ Refuse(s)
  \/ AnswerList(s)
  \/ AnswerThread(s)
  \/ AnswerRead(s)
  \/ ReceiveList(s)
  \/ ReceiveThread(s)
  \/ ReceiveUpdate(s)
  \/ ReceiveRead(s)
  \/ Lose(s)

Next ==
  \/ \E c \in Conversation :
       (\E delay \in 0..MaxDelay : StoreInbound(c, delay)) \/ RecordOutbound(c)
  \/ \E t \in Token : Login(t) \/ SendLogout(t)
  \/ LoadSessions
  \/ EndSessions
  \/ \E s \in Slot : Browse(s)

Spec == Init /\ [][Next]_vars

-----------------------------------------------------------------------------
(* "Offset pagination on a list reordered by every inbound message skips   *)
(* and repeats rows": with cursors no conversation is listed twice,        *)
(* however refreshes, pages and updates cross; and one that nothing has    *)
(* moved since the first page is either in the list or still to come,      *)
(* whatever moved around it between the pages -- if none of the list's     *)
(* requests crossed another.                                               *)
PagesSkipAndRepeatNothing ==
  /\ IsInjective(list)
  /\ ~crossed => \A c \in Conversation \ moved :
       c \in Range(list) \/ (cursor # None /\ Before(cursor, KeyOf(c)))

(* "A cookie captured before logout would otherwise still be a working     *)
(* key": once a logout has finished, no request sent with any session      *)
(* begun before it, on whatever device, is given data.                     *)
LogoutIsEverywhere ==
  \A s \in Slot : request[s].late => request[s].pc # "answered"

(* "Unread is messages after this instant": a customer's message no agent  *)
(* has been shown makes its conversation unread.                           *)
UnreadMissesNothing == \A c \in unseen : Unread(c)

=============================================================================

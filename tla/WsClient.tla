-------------------------------- MODULE WsClient --------------------------------
(***************************************************************************)
(* The client of the business installer                                     *)
(* (liana-business/business-installer/src/client.rs): its WebSocket          *)
(* sessions, each with the thread that owns the socket, the ping thread, the *)
(* checker that declares the connection lost and the one that sends requests *)
(* again, all writing the caches, the flags and the channel of notifications *)
(* the GUI reads.  Of the GUI (state/update.rs) the module has what starts   *)
(* and ends sessions: the login, the logout, and what it does about the      *)
(* notifications.                                                            *)
(*                                                                         *)
(* The server is external.  A session keeps its place in `sess` after it     *)
(* ended: the client only ever refers to the last one.                       *)
(***************************************************************************)
EXTENDS Integers, FiniteSets, Sequences, SequencesExt

CONSTANTS
    Account,    \* the accounts, which are users of the server
    Person,     \* its other users
    Org, Wallet,
    MemberOf,   \* the users of an organisation
    OrgOf,      \* the organisation of a wallet
    OwnerOf,    \* the owner of a wallet
    NoOne,      \* no user; the nil Uuid
    MaxRetries, \* the 3 of request_timeout_checker_thread()
    MaxStale,   \* bound: the requests that one round of it finds stale
    Budgets     \* bounds: how often the environment does what it does

User == Account \cup Person

Bounded == {"sessions", "codes", "edits", "foreign", "pushes", "pings",
            "sweeps", "odd", "closes", "logouts"}

ASSUME WsClientAssumption ==
    /\ NoOne \notin User
    /\ IsFiniteSet(User) /\ IsFiniteSet(Wallet)
    /\ MemberOf \in [Org -> SUBSET User]
    /\ OrgOf \in [Wallet -> Org]
    /\ OwnerOf \in [Wallet -> User]
    /\ {MaxRetries, MaxStale} \subseteq Nat \ {0}
    /\ Budgets \subseteq [Bounded -> Nat]

VARIABLES
    sess,       \* the sessions, the last one being the client's
    token,      \* the account of the token in memory
    email,      \* Client::email
    authClient, \* the account of the AuthClient
    orgs,       \* the cached organisations
    wallets,    \* the cached wallets: a function on the ids
    users,      \* the cached users
    userId,     \* the user the server said we are
    saved,      \* the accounts of connect.json
    verifying,  \* the codes being verified, one task each
    view,       \* "select": a login view; "in": behind the login
    processing, \* account_select.processing
    picked,     \* account_select.selected_email
    notifs,     \* the channel of notifications
    awake,      \* the stream of notifications is going to be polled
    store,      \* the server's wallets
    left,       \* what is left of the budget
    edits,      \* how many edits the user made
    wired,      \* how often each edit was put on the wire
    strayed,    \* a session or its caches were left, by a logout that does not reach it
                \* or without one
    resent,     \* a request was sent again
    lost        \* "refused", "unanswered": the worst the server did to a request

clientVars == <<token, email, authClient, userId, saved, verifying>>
cacheVars == <<orgs, wallets, users>>
guiVars == <<view, processing, picked>>
notifVars == <<notifs, awake>>
auxVars == <<edits, wired, strayed, resent, lost>>
wsVars == <<sess, clientVars, cacheVars, guiVars, notifVars, store, left, auxVars>>

-----------------------------------------------------------------------------
(* Requests, messages and sessions. *)

FetchUser(u)     == [kind |-> "user", of |-> u, edit |-> 0]
FetchWallet(w)   == [kind |-> "wallet", of |-> w, edit |-> 0]
EditWallet(w, e) == [kind |-> "edit", of |-> w, edit |-> e]
Ping             == [kind |-> "ping", of |-> NoOne, edit |-> 0]
Close            == [kind |-> "close", of |-> NoOne, edit |-> 0]

Request == [kind : {"user", "wallet", "edit", "ping", "close"},
            of : User \cup Wallet \cup {NoOne}, edit : Nat]

\* A wallet as the server has it: its revision, who edited it last, and the
\* last of our edits that it had applied.
Snapshot == [rev : Nat, by : User \cup {NoOne}, edit : Nat]

NoSnapshot == [rev |-> 0, by |-> NoOne, edit |-> 0]

\* A message of the server: `id` is that of the request it answers, or 0.
Answer(id, kind, of) == [id |-> id, kind |-> kind, of |-> of, body |-> NoSnapshot]
NoMessage == Answer(0, "none", NoOne)

NewSession(mail) ==
    [th |-> "start", email |-> mail, who |-> NoOne, open |-> TRUE, conn |-> FALSE,
     queue |-> <<>>, sent |-> <<>>, up |-> <<>>, down |-> <<>>, hand |-> NoMessage,
     pinger |-> "off", ping |-> FALSE, stale |-> {}]

Session == DOMAIN sess
Current == Len(sess)

\* Whether the GUI's requests pass check_connection!.
Connected == sess # <<>> /\ sess[Current].conn

\* The ids a new request cannot have: those of a session's requests and messages.
Ids(S) == DOMAIN S.sent \cup {S.hand.id} \cup {m.id : m \in ToSet(S.up)}
          \cup {m.id : m \in ToSet(S.down)} \cup {m.id : m \in S.stale}

NewId(S) == LET free == 1 .. Cardinality(Ids(S)) + 1 \ Ids(S)
            IN  CHOOSE i \in free : \A j \in free : i <= j

\* A bug: what is sent last is received first.
QueuedFirst(S, reqs) == IF S.th = "done" THEN S ELSE [S EXCEPT !.queue = reqs \o @]

\* The request channel; nobody receives once the thread is over.
Queued(S, reqs) == IF S.th = "done" THEN S ELSE [S EXCEPT !.queue = @ \o reqs]

Without(f, x) == [y \in DOMAIN f \ {x} |-> f[y]]
With(f, x, v) == [y \in DOMAIN f \cup {x} |-> IF y = x THEN v ELSE f[y]]

\* The channel and the waker of the stream: send_notif() ...
Notify(n) == notifs' = Append(notifs, n) /\ awake' = TRUE

\* ... of a notification about which the GUI does nothing that matters here ...
Wake == awake' = TRUE /\ UNCHANGED notifs

\* ... and a bare send.
NotifyAsleep(n) == notifs' = Append(notifs, n) /\ UNCHANGED awake

Spend(b) == left[b] > 0 /\ left' = [left EXCEPT ![b] = @ - 1]

-----------------------------------------------------------------------------
(* The state. *)

WsTypeOK ==
    /\ \A s \in Session :
          /\ sess[s].th \in {"start", "handshake", "loop", "done"}
          /\ {sess[s].email, sess[s].who} \subseteq Account \cup {NoOne}
          /\ {sess[s].open, sess[s].conn, sess[s].ping} \subseteq BOOLEAN
          /\ sess[s].queue \in Seq(Request)
          /\ \A i \in DOMAIN sess[s].sent :
                sess[s].sent[i] \in [req : Request, tries : 0 .. MaxRetries]
          /\ sess[s].pinger \in {"off", "send", "record", "sleep"}
    /\ {token, email, authClient, picked, userId} \subseteq Account \cup {NoOne}
    /\ orgs \subseteq Org /\ users \subseteq User
    /\ DOMAIN wallets \subseteq Wallet
    /\ \A w \in DOMAIN wallets : wallets[w] \in Snapshot
    /\ saved \subseteq Account /\ verifying \subseteq Account
    /\ view \in {"select", "in"} /\ processing \in BOOLEAN
    /\ notifs \in Seq({"Connected", "Disconnected", "Error", "LoginSuccess"})
    /\ awake \in BOOLEAN
    /\ store \in [Wallet -> Snapshot]
    /\ left \in [Bounded -> Nat]
    /\ {strayed, resent} \subseteq BOOLEAN
    /\ lost \in {"no", "refused", "unanswered"}

\* connect.json has accounts; nothing is connected.
WsInit ==
    /\ sess = <<>>
    /\ token = NoOne /\ email = NoOne /\ authClient = NoOne /\ userId = NoOne
    /\ saved \in SUBSET Account /\ verifying = {}
    /\ orgs = {} /\ wallets = <<>> /\ users = {}
    /\ view = "select" /\ processing = FALSE /\ picked = NoOne
    /\ notifs = <<>> /\ awake = FALSE
    /\ store = [w \in Wallet |-> NoSnapshot]
    /\ left \in Budgets
    /\ edits = 0 /\ wired = <<>> /\ strayed = FALSE /\ resent = FALSE
    /\ lost = "no"

-----------------------------------------------------------------------------
(* The GUI's side: Client, and what of the GUI's state starts and ends         *)
(* sessions.                                                                  *)

\* A bug: the flag is cleared, and the thread is not told.
ClosedSilently == IF Connected THEN [sess EXCEPT ![Current].conn = FALSE] ELSE sess

\* close(): nothing, unless the session is known to be connected.
Closed == IF Connected
          THEN [sess EXCEPT ![Current] = [Queued(@, <<Close>>) EXCEPT !.conn = FALSE]]
          ELSE sess

\* What close() does not reach: a session being set up, one declared lost, one
\* with a message in hand.
LeftBehind == /\ sess # <<>>
              /\ sess[Current].th # "done"
              /\ ~sess[Current].conn \/ sess[Current].hand # NoMessage

\* The caches are those of a session that ended by itself: only logout() clears them.
Remains == orgs # {} \/ DOMAIN wallets # {}

\* connect_ws()
ConnectWs == /\ sess' = Append(Closed, NewSession(email))
             /\ strayed' = (strayed \/ LeftBehind \/ Connected \/ Remains)

\* The user picks one of the accounts of connect.json.
SelectAccount(a) ==
    /\ view = "select" /\ ~processing /\ a \in saved
    /\ processing' = TRUE /\ picked' = a
    /\ token' = a
    /\ Spend("sessions")
    /\ ConnectWs
    /\ UNCHANGED <<email, authClient, userId, saved, verifying, cacheVars, view,
                   notifVars, store, edits, wired, resent, lost>>

\* auth_request(), and its task: a code is sent to the address.
AuthRequest(a) ==
    /\ view = "select" /\ ~processing
    /\ left["codes"] > 0
    /\ email' = a /\ authClient' = a
    /\ UNCHANGED <<sess, token, userId, saved, verifying, cacheVars, guiVars,
                   notifVars, store, left, auxVars>>

\* auth_code(): the task takes the AuthClient there is.
AuthCode ==
    /\ view = "select" /\ ~processing /\ authClient # NoOne
    /\ Spend("codes")
    /\ verifying' = verifying \cup {authClient}
    /\ UNCHANGED <<sess, token, email, authClient, userId, saved, cacheVars, guiVars,
                   notifVars, store, auxVars>>

\* The code was right: the tokens go to connect.json and to memory.
CodeVerified(a) ==
    /\ a \in verifying
    /\ verifying' = verifying \ {a}
    /\ saved' = saved \cup {a}
    /\ token' = a
    /\ Notify("LoginSuccess")
    /\ UNCHANGED <<sess, email, authClient, userId, cacheVars, guiVars, store, left,
                   auxVars>>

\* Client::logout() and on_logout().
Logout ==
    /\ view = "in"
    /\ Spend("logouts")
    /\ token' = NoOne /\ authClient' = NoOne /\ email' = NoOne
    /\ sess' = Closed
    /\ strayed' = (strayed \/ LeftBehind)
    /\ orgs' = {} /\ wallets' = <<>> /\ users' = {}
    /\ view' = "select" /\ processing' = FALSE /\ picked' = NoOne
    /\ UNCHANGED <<userId, saved, verifying, notifVars, store, edits, wired, resent, lost>>

\* edit_wallet() of a wallet the user sees: it is sent as a whole.
Edit(w) ==
    /\ view = "in" /\ w \in DOMAIN wallets
    /\ Spend("edits")
    /\ IF Connected
       THEN /\ edits' = edits + 1
            /\ wired' = Append(wired, 0)
            /\ sess' = [sess EXCEPT ![Current] = Queued(@, <<EditWallet(w, edits')>>)]
            /\ UNCHANGED notifVars
       ELSE Notify("Disconnected") /\ UNCHANGED <<sess, edits, wired>>
    /\ UNCHANGED <<clientVars, cacheVars, guiVars, store, strayed, resent, lost>>

\* handle_cached_token_connection_failure(): the account is forgotten.
ConnectionFailed ==
    /\ saved' = saved \ {picked}
    /\ processing' = FALSE /\ picked' = NoOne
    /\ UNCHANGED <<sess, token, view, left, strayed>>

\* The stream of notifications is polled and the GUI handles one.
HandleNotif ==
    /\ awake /\ notifs # <<>>
    /\ notifs' = Tail(notifs)
    /\ \/ /\ Head(notifs) = "Connected"
          /\ view' = IF processing THEN "in" ELSE view
          /\ processing' = FALSE /\ picked' = IF processing THEN NoOne ELSE picked
          /\ UNCHANGED <<sess, token, saved, left, strayed>>
       \/ /\ Head(notifs) = "LoginSuccess"
          /\ view' = "in"
          /\ ConnectWs
          /\ UNCHANGED <<token, saved, processing, picked, left>>
       \/ /\ Head(notifs) \in {"Disconnected", "Error"}
          /\ IF processing THEN ConnectionFailed
             ELSE UNCHANGED <<sess, token, saved, guiVars, left, strayed>>
    /\ UNCHANGED <<awake, email, authClient, userId, verifying, cacheVars, store, edits,
                   wired, resent, lost>>

\* The channel is empty: the stream leaves its waker.
PollPending ==
    /\ awake /\ notifs = <<>>
    /\ awake' = FALSE
    /\ UNCHANGED <<sess, clientVars, cacheVars, guiVars, notifs, store, left, auxVars>>

-----------------------------------------------------------------------------
(* wss_thread().                                                              *)

\* What a thread of a session leaves alone.
ThreadFrame == UNCHANGED <<email, authClient, saved, verifying, guiVars, edits, strayed,
                         lost>>

\* try_get_cached_token(): from memory, or from connect.json.
TakeToken(s) ==
    /\ sess[s].th = "start"
    /\ LET cached == IF sess[s].email \in saved THEN sess[s].email ELSE NoOne
           who == IF token # NoOne THEN token ELSE cached
       IN  /\ token' = who
           /\ IF who = NoOne
              THEN sess' = [sess EXCEPT ![s].th = "done"] /\ Notify("Error")
              ELSE /\ sess' = [sess EXCEPT ![s].th = "handshake", ![s].who = who]
                   /\ UNCHANGED notifVars
    /\ ThreadFrame
    /\ UNCHANGED <<userId, cacheVars, store, left, wired, resent>>

\* The server answers the connect message, and the threads of the session start.
Handshake(s) ==
    /\ sess[s].th = "handshake"
    /\ userId' = sess[s].who
    /\ sess' = [sess EXCEPT ![s].th = "loop", ![s].conn = TRUE, ![s].pinger = "send",
                            ![s].queue = Append(@, FetchUser(sess[s].who))]
    /\ Notify("Connected")
    /\ ThreadFrame
    /\ UNCHANGED <<token, cacheVars, store, left, wired, resent>>

\* There is no connection, no answer for 30 seconds, or another answer.
HandshakeFails(s) ==
    /\ sess[s].th = "handshake"
    /\ Spend("closes")
    /\ sess' = [sess EXCEPT ![s].th = "done"]
    /\ Notify("Error")
    /\ ThreadFrame
    /\ UNCHANGED <<token, userId, cacheVars, store, wired, resent>>

\* A request is taken from the channel ...
LoopRecv(s) ==
    LET S == sess[s]
        r == Head(S.queue)
        id == NewId(S)
    IN  /\ S.th = "loop" /\ S.hand = NoMessage /\ S.queue # <<>>
        /\ \/ /\ r = Close
              /\ sess' = [sess EXCEPT ![s].queue = Tail(@), ![s].th = "done",
                                      ![s].conn = FALSE, ![s].open = FALSE]
              /\ UNCHANGED <<notifVars, wired>>
           \/ /\ r # Close
              /\ sess' = [sess EXCEPT
                    ![s].queue = Tail(@),
                    ![s].sent = With(@, id, [req |-> r, tries |-> 0]),
                    ![s].up = IF S.open THEN Append(@, [id |-> id, req |-> r]) ELSE @]
              /\ wired' = IF r.kind = "edit" THEN [wired EXCEPT ![r.edit] = @ + 1]
                                             ELSE wired
              /\ UNCHANGED notifVars
           \/ /\ r # Close /\ ~S.open
              /\ sess' = [sess EXCEPT ![s].queue = Tail(@), ![s].th = "done"]
              /\ Notify("Error")
              /\ UNCHANGED wired
        /\ ThreadFrame
        /\ UNCHANGED <<token, userId, cacheVars, store, left, resent>>

\* A bug: the stream of notifications is not woken.
LoopReadAsleep(s) ==
    LET S == sess[s]
    IN  /\ S.th = "loop" /\ S.hand = NoMessage /\ S.queue = <<>> /\ S.down # <<>>
        /\ IF Head(S.down).kind = "close"
           THEN /\ sess' = [sess EXCEPT ![s].down = Tail(@), ![s].th = "done"]
                /\ NotifyAsleep("Disconnected")
           ELSE /\ sess' = [sess EXCEPT ![s].down = Tail(@), ![s].hand = Head(S.down)]
                /\ UNCHANGED notifVars
        /\ ThreadFrame
        /\ UNCHANGED <<token, userId, cacheVars, store, left, wired, resent>>

\* A bug: the messages are handled in another order.
LoopReadLast(s) ==
    LET S == sess[s]
    IN  /\ S.th = "loop" /\ S.hand = NoMessage /\ S.queue = <<>> /\ S.down # <<>>
        /\ IF Last(S.down).kind = "close"
           THEN /\ sess' = [sess EXCEPT ![s].down = Front(@), ![s].th = "done"]
                /\ Notify("Disconnected")
           ELSE /\ sess' = [sess EXCEPT ![s].down = Front(@), ![s].hand = Last(S.down)]
                /\ UNCHANGED notifVars
        /\ ThreadFrame
        /\ UNCHANGED <<token, userId, cacheVars, store, left, wired, resent>>

\* ... and only when there is none, a message from the socket.
LoopRead(s) ==
    LET S == sess[s]
    IN  /\ S.th = "loop" /\ S.hand = NoMessage /\ S.queue = <<>> /\ S.down # <<>>
        /\ IF Head(S.down).kind = "close"
           THEN /\ sess' = [sess EXCEPT ![s].down = Tail(@), ![s].th = "done"]
                /\ Notify("Disconnected")
           ELSE /\ sess' = [sess EXCEPT ![s].down = Tail(@), ![s].hand = Head(S.down)]
                /\ UNCHANGED notifVars
        /\ ThreadFrame
        /\ UNCHANGED <<token, userId, cacheVars, store, left, wired, resent>>

-----------------------------------------------------------------------------
(* handle_wss_message(), on the message in hand.                               *)

Fetches(ids) == [i \in DOMAIN SetToSeq(ids) |-> FetchUser(SetToSeq(ids)[i])]
WalletFetches(ids) == [i \in DOMAIN SetToSeq(ids) |-> FetchWallet(SetToSeq(ids)[i])]

\* fetch_user_maybe()
FetchMaybe(u) == IF u = NoOne \/ u \in users THEN <<>> ELSE <<FetchUser(u)>>

HandledFrame == ThreadFrame /\ UNCHANGED <<token, userId, store, left, wired, resent>>

\* The session after it handled its message: `done` leaves `sent`, `reqs` are queued.
Handled(s, done, reqs) ==
    sess' = [sess EXCEPT ![s].hand = NoMessage, ![s].sent = Without(@, done),
                         ![s].queue = @ \o reqs]

Entry(s) == LET S == sess[s] IN IF S.hand.id \in DOMAIN S.sent
                                THEN S.sent[S.hand.id].req ELSE Close

Expected(r) == CASE r.kind = "ping" -> "pong"
                 [] r.kind = "user" -> "user"
                 [] r.kind \in {"wallet", "edit"} -> "wallet"
                 [] OTHER -> "none"

\* A bug: the request stays unanswered.
HandleUnknownKeeping(s) ==
    /\ sess[s].hand.kind = "unknown"
    /\ Handled(s, 0, <<>>)
    /\ UNCHANGED <<cacheVars, notifVars>>

\* A message the client does not know answers its request all the same.
HandleUnknown(s) ==
    /\ sess[s].hand.kind = "unknown"
    /\ Handled(s, sess[s].hand.id, <<>>)
    /\ UNCHANGED <<cacheVars, notifVars>>

\* A bug: there is no placeholder.
HandleErrorPlainly(s) ==
    /\ sess[s].hand.kind \in {"error", "unauthorized"}
    /\ Handled(s, sess[s].hand.id, <<>>)
    /\ Notify("Error")
    /\ UNCHANGED cacheVars

\* An error answers its request; who must not know a user gets a placeholder.
HandleError(s) ==
    /\ sess[s].hand.kind \in {"error", "unauthorized"}
    /\ Handled(s, sess[s].hand.id, <<>>)
    /\ IF sess[s].hand.kind = "unauthorized" /\ Entry(s).kind = "user"
       THEN users' = users \cup {Entry(s).of} /\ Wake
       ELSE Notify("Error") /\ UNCHANGED users
    /\ UNCHANGED <<orgs, wallets>>

Matches(s) == \/ sess[s].hand.id \notin DOMAIN sess[s].sent
              \/ sess[s].hand.kind = Expected(Entry(s))

\* The answer to another request: an error, and its request stays unanswered.
HandleMismatch(s) ==
    /\ sess[s].hand.kind \in {"pong", "org", "wallet", "user", "removed"}
    /\ ~Matches(s)
    /\ Handled(s, 0, <<>>)
    /\ Notify("Error")
    /\ UNCHANGED cacheVars

\* handle_pong()
HandlePong(s) ==
    /\ sess[s].hand.kind = "pong" /\ Matches(s)
    /\ sess' = [sess EXCEPT ![s].hand = NoMessage, ![s].ping = FALSE,
                            ![s].sent = Without(@, sess[s].hand.id)]
    /\ UNCHANGED <<cacheVars, notifVars>>

\* handle_org()
HandleOrg(s) ==
    LET o == sess[s].hand.of
    IN  /\ sess[s].hand.kind = "org" /\ Matches(s)
        /\ orgs' = orgs \cup {o}
        /\ Handled(s, sess[s].hand.id,
                   Fetches(MemberOf[o] \ users)
                   \o WalletFetches({w \in Wallet : OrgOf[w] = o} \ DOMAIN wallets))
        /\ Wake
        /\ UNCHANGED <<wallets, users>>

\* handle_wallet(): the last editor stands for those of its keys and paths too.
HandleWallet(s) ==
    LET m == sess[s].hand
    IN  /\ m.kind = "wallet" /\ Matches(s)
        /\ wallets' = With(wallets, m.of, m.body)
        /\ Handled(s, m.id, FetchMaybe(m.body.by) \o FetchMaybe(OwnerOf[m.of]))
        /\ Wake
        /\ UNCHANGED <<orgs, users>>

\* handle_user()
HandleUser(s) ==
    /\ sess[s].hand.kind = "user" /\ Matches(s)
    /\ users' = users \cup {sess[s].hand.of}
    /\ Handled(s, sess[s].hand.id, <<>>)
    /\ Wake
    /\ UNCHANGED <<orgs, wallets>>

\* handle_delete_user_org(): `body.by` was removed from the organisation.
HandleRemoved(s) ==
    LET m == sess[s].hand
    IN  /\ m.kind = "removed" /\ Matches(s)
        /\ IF m.body.by = userId
           THEN orgs' = orgs \ {m.of} /\ Wake
           ELSE UNCHANGED <<orgs, notifVars>>
        /\ Handled(s, m.id, <<>>)
        /\ UNCHANGED <<wallets, users>>

Handle(s) ==
    /\ sess[s].hand # NoMessage
    /\ \/ HandleUnknown(s) \/ HandleError(s) \/ HandleMismatch(s) \/ HandlePong(s)
       \/ HandleOrg(s) \/ HandleWallet(s) \/ HandleUser(s) \/ HandleRemoved(s)
    /\ HandledFrame

-----------------------------------------------------------------------------
(* The other threads of a session.                                             *)

OtherFrame == ThreadFrame /\ UNCHANGED <<token, userId, cacheVars, store, wired>>

\* ping_thread(): a ping is queued ...
PingSend(s) ==
    /\ \/ sess[s].pinger = "send"
       \* ... every minute: the last one was answered, or the session would be
       \* known to be lost by now ...
       \/ sess[s].pinger = "sleep" /\ sess[s].conn /\ ~sess[s].ping
    /\ Spend("pings")
    /\ sess' = [sess EXCEPT ![s] = [Queued(@, <<Ping>>) EXCEPT !.pinger = "record"]]
    /\ OtherFrame /\ UNCHANGED <<notifVars, resent>>

\* ... and recorded, which its answer may come before.
PingRecord(s) ==
    /\ sess[s].pinger = "record"
    /\ sess' = [sess EXCEPT ![s].pinger = "sleep", ![s].ping = TRUE]
    /\ OtherFrame /\ UNCHANGED <<notifVars, left, resent>>

\* ping_timeout_checker_thread(): no answer for 30 seconds.
PingTimeout(s) ==
    /\ sess[s].conn /\ sess[s].ping
    /\ sess' = [sess EXCEPT ![s].conn = FALSE]
    /\ NotifyAsleep("Disconnected")
    /\ OtherFrame /\ UNCHANGED <<left, resent>>

\* request_timeout_checker_thread(): the requests that have waited for long ...
FindStale(s) ==
    /\ sess[s].conn /\ sess[s].stale = {}
    /\ Spend("sweeps")
    /\ \E S \in SUBSET DOMAIN sess[s].sent :
          /\ Cardinality(S) \in 1 .. MaxStale
          /\ sess' = [sess EXCEPT ![s].stale =
                      {[id |-> i, req |-> sess[s].sent[i].req,
                        tries |-> sess[s].sent[i].tries] : i \in S}]
    /\ OtherFrame /\ UNCHANGED <<notifVars, resent>>

\* Another try of a request, if it is still waiting.
TriedAgain(sent, id) == IF id \in DOMAIN sent THEN [sent EXCEPT ![id].tries = @ + 1]
                                              ELSE sent

\* A bug: nothing is ever given up.
SweepForever(s) ==
    /\ \E m \in sess[s].stale :
          LET S == [sess[s] EXCEPT !.stale = @ \ {m}]
          IN  sess' = [sess EXCEPT ![s] =
                 [Queued(S, <<m.req>>) EXCEPT !.sent = TriedAgain(@, m.id)]]
    /\ resent' = TRUE
    /\ UNCHANGED notifVars
    /\ OtherFrame /\ UNCHANGED left

\* ... are given up one by one, or sent again, as new requests, whether or not they
\* have been answered meanwhile.
SweepOne(s) ==
    /\ \E m \in sess[s].stale :
          LET S == [sess[s] EXCEPT !.stale = @ \ {m}]
          IN  \/ /\ m.tries >= MaxRetries
                 /\ sess' = [sess EXCEPT ![s] = [S EXCEPT !.sent = Without(@, m.id)]]
                 /\ Notify("Error")
                 /\ UNCHANGED resent
              \/ /\ m.tries < MaxRetries
                 /\ sess' = [sess EXCEPT ![s] =
                       [Queued(S, <<m.req>>) EXCEPT !.sent = TriedAgain(@, m.id)]]
                 /\ resent' = TRUE
                 /\ UNCHANGED notifVars
    /\ OtherFrame /\ UNCHANGED left

-----------------------------------------------------------------------------
(* The server.                                                                 *)

ServerFrame == UNCHANGED <<clientVars, cacheVars, guiVars, notifVars, edits, wired,
                           strayed, resent>>

\* What it tells a session; nobody reads what comes after the end.
Told(S, m) == IF S.th = "done" THEN S ELSE [S EXCEPT !.down = Append(@, m)]

WalletMessage(id, w) == [Answer(id, "wallet", w) EXCEPT !.body = store'[w]]

\* A request is carried out and answered.
Serve(s) ==
    LET m == Head(sess[s].up)
        r == m.req
        S == [sess[s] EXCEPT !.up = Tail(@)]
    IN  /\ sess[s].up # <<>>
        /\ store' = IF r.kind = "edit"
                    THEN [store EXCEPT ![r.of] = [rev |-> @.rev + 1, by |-> sess[s].who,
                                                  edit |-> r.edit]]
                    ELSE store
        /\ sess' = [sess EXCEPT ![s] =
              Told(S, IF Expected(r) = "wallet" THEN WalletMessage(m.id, r.of)
                      ELSE Answer(m.id, Expected(r), r.of))]
        /\ UNCHANGED left
        /\ UNCHANGED lost
        /\ ServerFrame

\* A request is refused, or answered with what the client does not know; or its
\* answer is one to something else, or never comes.
ServeOddly(s) ==
    LET m == Head(sess[s].up)
        S == [sess[s] EXCEPT !.up = Tail(@)]
    IN  /\ sess[s].up # <<>>
        /\ Spend("odd")
        /\ \/ \E kind \in {"error", "unauthorized", "unknown"} :
                 /\ kind = "unauthorized" => m.req.kind = "user"
                 /\ sess' = [sess EXCEPT ![s] = Told(S, Answer(m.id, kind, m.req.of))]
                 /\ lost' = IF lost = "no" /\ kind # "unauthorized" THEN "refused" ELSE lost
           \/ /\ m.req # Ping
              /\ sess' = [sess EXCEPT ![s] = Told(S, Answer(m.id, "pong", NoOne))]
              /\ lost' = "unanswered"
           \/ sess' = [sess EXCEPT ![s] = S] /\ lost' = "unanswered"
        /\ UNCHANGED store
        /\ ServerFrame

\* An organisation is sent to one of its users unasked, when it connects or later.
Push(s) ==
    /\ sess[s].th = "loop" /\ sess[s].open
    /\ Spend("pushes")
    /\ \E o \in Org :
          /\ sess[s].who \in MemberOf[o]
          /\ sess' = [sess EXCEPT ![s] = Told(@, Answer(0, "org", o))]
    /\ UNCHANGED store
    /\ UNCHANGED lost
    /\ ServerFrame

\* Somebody is removed from an organisation.
RemoveMember(s) ==
    /\ sess[s].th = "loop" /\ sess[s].open
    /\ Spend("pushes")
    /\ \E o \in Org : \E u \in MemberOf[o] :
          sess' = [sess EXCEPT ![s] =
                      Told(@, [Answer(0, "removed", o) EXCEPT !.body.by = u])]
    /\ UNCHANGED store
    /\ UNCHANGED lost
    /\ ServerFrame

\* Another user edits a wallet, and every open session of its organisation is told.
ForeignEdit(w) ==
    /\ Spend("foreign")
    /\ \E u \in MemberOf[OrgOf[w]] :
          store' = [store EXCEPT ![w].rev = @ + 1, ![w].by = u]
    /\ sess' = [s \in Session |->
                   IF sess[s].th = "loop" /\ sess[s].open /\ sess[s].who \in MemberOf[OrgOf[w]]
                   THEN Told(sess[s], WalletMessage(0, w)) ELSE sess[s]]
    /\ UNCHANGED lost
    /\ ServerFrame

\* The server closes the connection, or it breaks.
ServerCloses(s) ==
    /\ sess[s].th = "loop" /\ sess[s].open
    /\ Spend("closes")
    /\ sess' = [sess EXCEPT ![s] = [Told(@, Answer(0, "close", NoOne)) EXCEPT
                                       !.open = FALSE, !.up = <<>>]]
    /\ UNCHANGED store
    /\ UNCHANGED lost
    /\ ServerFrame

-----------------------------------------------------------------------------
Gui == \/ \E a \in Account : SelectAccount(a) \/ AuthRequest(a) \/ CodeVerified(a)
       \/ AuthCode \/ Logout \/ (\E w \in Wallet : Edit(w))
       \/ HandleNotif \/ PollPending

WssThread(s) == \/ TakeToken(s) \/ Handshake(s) \/ HandshakeFails(s)
                \/ LoopRecv(s) \/ LoopRead(s) \/ Handle(s)

Timers(s) == PingSend(s) \/ PingRecord(s) \/ PingTimeout(s) \/ FindStale(s) \/ SweepOne(s)

Server(s) == Serve(s) \/ ServeOddly(s) \/ Push(s) \/ RemoveMember(s) \/ ServerCloses(s)

WsNext == \/ Gui
          \/ \E s \in Session : WssThread(s) \/ Timers(s) \/ Server(s)
          \/ \E w \in Wallet : ForeignEdit(w)

WsSpec == WsInit /\ [][WsNext]_wsVars

\* The threads run, the server answers, and the executor polls the stream once woken.
\* Nothing is assumed of the user, of other users, nor of what goes wrong.
WsFairness(Sessions) ==
    /\ \A s \in Sessions :
          /\ WF_wsVars(s \in Session /\ WssThread(s))
          /\ WF_wsVars(s \in Session /\ (PingRecord(s) \/ PingTimeout(s) \/ SweepOne(s)))
          /\ WF_wsVars(s \in Session /\ Serve(s))
    /\ WF_wsVars(HandleNotif \/ PollPending)

-----------------------------------------------------------------------------
(* Properties.                                                                 *)

\* What the caches hold is of the account of the last session, and nothing once the
\* user logged out, unless a session was left without being told to close: then it
\* goes on filling the caches of the next account (close(), connect_ws()).  Nor is it
\* promised after a login without a logout, which clears nothing.
OwnData ==
    ~strayed =>
        /\ \A o \in orgs : sess[Current].who \in MemberOf[o]
        /\ \A w \in DOMAIN wallets : sess[Current].who \in MemberOf[OrgOf[w]]
        /\ Connected => userId = sess[Current].who
        /\ token = NoOne /\ view = "select" => orgs = {} /\ DOMAIN wallets = {}

\* Edits are applied in the order they were made, each once, as long as nothing is
\* sent again: a request that timed out may overtake a later edit (client.rs, the
\* channel of requests and request_timeout_checker_thread()).
EditsInOrder ==
    [][\A w \in Wallet : \/ store'[w].edit = store[w].edit
                         \/ store'[w].edit > store[w].edit
                         \/ resent' \/ Len(sess) > 1]_wsVars

\* A wallet in the cache is never replaced by an older one (handle_wallet() takes what
\* comes, in answers and unasked).
CacheNotOlder ==
    [][~strayed' => \A w \in DOMAIN wallets \cap DOMAIN wallets' :
                        wallets'[w].rev >= wallets[w].rev]_wsVars

\* What a session waits for is on its way, so that it is not sent again for nothing
\* once answered, whatever the answer (handle_wss_message(), `sent_requests`).
SentIsOwed ==
    lost # "unanswered" =>
        \A s \in Session : sess[s].th = "loop" /\ sess[s].open =>
            DOMAIN sess[s].sent \subseteq
                {m.id : m \in ToSet(sess[s].up) \cup ToSet(sess[s].down) \cup {sess[s].hand}}

Referenced == (UNION {MemberOf[o] : o \in orgs})
              \cup (UNION {{OwnerOf[w], wallets[w].by} \ {NoOne} : w \in DOMAIN wallets})

\* Who and what the caches refer to is cached, or asked for: the handlers fetch what
\* they miss, and nothing else ever does (handle_org(), handle_wallet()).
MissingAreFetched ==
    ~strayed /\ lost = "no" /\ Connected /\ sess[Current].open =>
        LET S == sess[Current]
            asked == ToSet(S.queue) \cup {S.sent[i].req : i \in DOMAIN S.sent}
        IN  /\ \A u \in Referenced \ users : FetchUser(u) \in asked
            /\ \A w \in Wallet : OrgOf[w] \in orgs /\ w \notin DOMAIN wallets =>
                                   FetchWallet(w) \in asked

\* When the server closes the connection of a session the client still counts on, the
\* session ends and the GUI receives all notifications (the loop of wss_thread()).
CountedOn(s) == s = Current /\ s > 0 /\ sess[s].conn
ServerCloseTold ==
    \A s \in 1 .. 2 : (CountedOn(s) /\ sess[s].th = "loop" /\ ~sess[s].open) ~>
                          (CountedOn(s) => sess[s].th = "done" /\ notifs = <<>>)

\* A request is sent again three times at most (client.rs: "After 3 retries, abort and
\* notify GUI").
RetryBound == \A e \in DOMAIN wired : wired[e] <= MaxRetries + 1
=============================================================================

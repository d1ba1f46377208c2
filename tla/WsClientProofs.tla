--------------------------- MODULE WsClientProofs ---------------------------
(***************************************************************************)
(* Proofs about WsClient, for any accounts, organisations and wallets, any    *)
(* number of sessions and whatever the server and other users do.            *)
(***************************************************************************)
EXTENDS WsClient, SequenceTheorems, FiniteSetTheorems, TLAPS

Id == Nat \ {0}

\* The functions with a part of X as their domain.
Partial(X, V) == UNION {[D -> V] : D \in SUBSET X}

\* Requests about what there is.
Req == {r \in Request : /\ r.kind = "user" => r.of \in User
                        /\ r.kind \in {"wallet", "edit"} => r.of \in Wallet}

Entries == [req : Req, tries : 0 .. MaxRetries]

Message ==
    {m \in [id : Nat, of : User \cup Org \cup Wallet \cup {NoOne}, body : Snapshot,
            kind : {"none", "user", "org", "wallet", "pong", "removed", "error",
                    "unauthorized", "unknown", "close"}] :
        /\ m.kind = "user" => m.of \in User
        /\ m.kind = "wallet" => m.of \in Wallet
        /\ m.kind \in {"org", "removed"} => m.of \in Org}

Sessions ==
    [th : {"start", "handshake", "loop", "done"},
     email : Account \cup {NoOne}, who : Account \cup {NoOne},
     open : BOOLEAN, conn : BOOLEAN, ping : BOOLEAN,
     queue : Seq(Req),
     sent : Partial(Id, Entries),
     up : Seq([id : Id, req : Req]),
     down : Seq(Message), hand : Message,
     pinger : {"off", "send", "record", "sleep"},
     stale : SUBSET [id : Id, req : Req, tries : 0 .. MaxRetries]]

WsType ==
    /\ sess \in Seq(Sessions)
    /\ {token, email, authClient, picked, userId} \subseteq Account \cup {NoOne}
    /\ orgs \subseteq Org /\ users \subseteq User
    /\ wallets \in Partial(Wallet, Snapshot)
    /\ saved \subseteq Account /\ verifying \subseteq Account
    /\ view \in {"select", "in"} /\ processing \in BOOLEAN
    /\ notifs \in Seq({"Connected", "Disconnected", "Error", "LoginSuccess"})
    /\ awake \in BOOLEAN
    /\ store \in [Wallet -> Snapshot]
    /\ left \in [Bounded -> Nat]
    /\ {strayed, resent} \subseteq BOOLEAN
    /\ lost \in {"no", "refused", "unanswered"}
    /\ edits \in Nat

-----------------------------------------------------------------------------
\* Before its loop a session has nothing, and has told the client nothing.
Early(S) ==
    /\ S.th = "handshake" => S.who # NoOne
    /\ S.th \in {"start", "handshake"} =>
        /\ S.queue = <<>> /\ DOMAIN S.sent = {} /\ S.up = <<>> /\ S.down = <<>>
        /\ S.hand = NoMessage /\ S.stale = {} /\ ~S.conn /\ S.pinger = "off"

\* A message is in hand in the loop only, and the end of the connection is never.
InHand(S) == /\ S.hand # NoMessage => S.th = "loop"
             /\ S.hand.kind # "close"

\* The server's last message, and what ends a session without the client's doing.
Ends(S) == /\ \A m \in ToSet(S.down) : m.kind = "close" => ~S.open
           /\ S.th = "done" /\ S.conn => ~S.open

\* The ids of requests on their way are those of the same requests; the stale ones were
\* found at once.
Filed(S) ==
    /\ IsFiniteSet(DOMAIN S.sent) /\ IsFiniteSet(S.stale)
    /\ \A m \in ToSet(S.up) : m.id \in DOMAIN S.sent => S.sent[m.id].req = m.req
    /\ \A m \in S.stale : m.id \in DOMAIN S.sent =>
                             /\ S.sent[m.id].req = m.req
                             /\ S.sent[m.id].tries = m.tries
    /\ \A m, n \in S.stale : m.id = n.id => m = n

\* What comes with the id of a request answers that request, or denies it: l is the
\* worst the server has done.
Fits(l, m, r) == \/ m.kind = Expected(r) /\ m.of = r.of
                 \/ m.kind \in {"error", "unknown"} /\ l = "refused"
                 \/ m.kind = "unauthorized" /\ r.kind = "user"

Coming(S) == ToSet(S.down) \cup {S.hand}

Answers(l, S) ==
    l # "unanswered" =>
        \A m \in Coming(S) : m.id \in DOMAIN S.sent => Fits(l, m, S.sent[m.id].req)

Owed(l, S) ==
    l # "unanswered" /\ S.th = "loop" /\ S.open =>
        \A i \in DOMAIN S.sent : \E m \in ToSet(S.up) \cup Coming(S) : m.id = i

Good(l, S) == /\ Early(S) /\ InHand(S) /\ Ends(S) /\ Filed(S)
              /\ Answers(l, S) /\ Owed(l, S)

SessionInv == \A s \in Session : Good(lost, sess[s])

-----------------------------------------------------------------------------
\* Wallets are sent in the order of their revisions, and the cache follows.
Newer(a, b) == a.kind = "wallet" /\ b.kind = "wallet" /\ a.of = b.of =>
                   a.body.rev <= b.body.rev

Ordered(st, S) ==
    /\ \A i, j \in DOMAIN S.down : i < j => Newer(S.down[i], S.down[j])
    /\ \A i \in DOMAIN S.down : Newer(S.hand, S.down[i])
    /\ \A m \in Coming(S) : m.kind = "wallet" => m.body.rev <= st[m.of].rev

RevInv ==
    /\ \A s \in Session : Ordered(store, sess[s])
    /\ \A w \in DOMAIN wallets : wallets[w].rev <= store[w].rev
    /\ ~strayed => \A s \in Session : sess[s].th # "done" =>
          \A m \in Coming(sess[s]) : m.kind = "wallet" /\ m.of \in DOMAIN wallets =>
                                         wallets[m.of].rev <= m.body.rev

-----------------------------------------------------------------------------
\* The edits on their way, in the order they were made.
\* st is what the server has, n the number of edits made.
Above(st, n, r) ==
    r.kind = "edit" => r.edit <= n /\ \A w \in Wallet : st[w].edit < r.edit

Before(a, b) == a.kind = "edit" /\ b.kind = "edit" => a.edit < b.edit

Lined(st, n, S) ==
    /\ \A r \in ToSet(S.queue) : Above(st, n, r)
    /\ \A m \in ToSet(S.up) : Above(st, n, m.req)
    /\ \A i, j \in DOMAIN S.queue : i < j => Before(S.queue[i], S.queue[j])
    /\ \A i, j \in DOMAIN S.up : i < j => Before(S.up[i].req, S.up[j].req)
    /\ \A m \in ToSet(S.up), r \in ToSet(S.queue) : Before(m.req, r)

Applied(st, n) == \A w \in Wallet : st[w].edit <= n

EditInv == ~resent /\ Len(sess) <= 1 =>
               /\ Applied(store, edits)
               /\ \A s \in Session : Lined(store, edits, sess[s])

-----------------------------------------------------------------------------
\* What a session asks for and hears of is of its account.
MayAsk(S, r) == r.kind \in {"wallet", "edit"} => S.who \in MemberOf[OrgOf[r.of]]
MayHear(S, m) == /\ m.kind = "org" => S.who \in MemberOf[m.of]
                 /\ m.kind = "wallet" => S.who \in MemberOf[OrgOf[m.of]]

Own(S) ==
    /\ \A r \in ToSet(S.queue) : MayAsk(S, r)
    /\ \A i \in DOMAIN S.sent : MayAsk(S, S.sent[i].req)
    /\ \A m \in ToSet(S.up) \cup S.stale : MayAsk(S, m.req)
    /\ \A m \in Coming(S) : MayHear(S, m)

\* The session was told to close, and will hear of nothing before it does.
Closing(S) == S.th = "loop" /\ S.hand = NoMessage /\ Close \in ToSet(S.queue)

OwnInv ==
    ~strayed =>
        /\ sess = <<>> => orgs = {} /\ DOMAIN wallets = {}
        /\ view = "select" /\ token = NoOne => orgs = {} /\ DOMAIN wallets = {}
        /\ sess # <<>> =>
              LET S == sess[Current] IN
              /\ Own(S)
              /\ \A o \in orgs : S.who \in MemberOf[o]
              /\ \A w \in DOMAIN wallets : S.who \in MemberOf[OrgOf[w]]
              /\ S.th \in {"start", "handshake"} => orgs = {} /\ DOMAIN wallets = {}
              /\ token = NoOne => S.th \in {"start", "done"} \/ Closing(S)
              /\ S.conn => userId = S.who

-----------------------------------------------------------------------------
\* A request is on its way for the first time, or was, or may be sent again.
Asked(S, r) == \/ r \in ToSet(S.queue)
               \/ \E i \in DOMAIN S.sent : S.sent[i].req = r /\ S.sent[i].tries < MaxRetries

\* What the caches refer to and do not hold.
Refers(u) == \/ \E o \in orgs : u \in MemberOf[o]
             \/ \E w \in DOMAIN wallets : u # NoOne /\ u \in {OwnerOf[w], wallets[w].by}

Missing(r) == \/ \E u : Refers(u) /\ u \notin users /\ r = FetchUser(u)
              \/ \E w \in Wallet : /\ OrgOf[w] \in orgs /\ w \notin DOMAIN wallets
                                   /\ r = FetchWallet(w)

FetchInv == ~strayed /\ lost = "no" /\ Connected /\ sess[Current].open =>
                \A r : Missing(r) => Asked(sess[Current], r)

-----------------------------------------------------------------------------
(* Finite sets and sequences. *)

\* What a sequence holds is finite.
LEMMA FiniteToSet ==
    ASSUME NEW T, NEW q \in Seq(T)
    PROVE  IsFiniteSet(ToSet(q))
<1>1. q \in Surjection(1 .. Len(q), ToSet(q))
    BY DEF Surjection, ToSet
<1>2. IsFiniteSet(1 .. Len(q))
    BY FS_Interval
<1>3. QED BY <1>1, <1>2, FS_Surjection

\* The ids of finitely many messages are finitely many.
LEMMA FiniteIds ==
    ASSUME NEW X, IsFiniteSet(X)
    PROVE  IsFiniteSet({m.id : m \in X})
<1> DEFINE f == [m \in X |-> m.id]
<1>1. f \in Surjection(X, {m.id : m \in X})
    BY DEF Surjection
<1>2. QED BY <1>1, FS_Surjection

\* A set of naturals that is not empty has a least element.
LEMMA LeastNat ==
    ASSUME NEW X \in SUBSET Nat, X # {}
    PROVE  \E i \in X : \A j \in X : i <= j
<1>1. PICK i \in X : \A j \in X : ~(<<j, i>> \in OpToRel(<, Nat))
    BY NatLessThanWellFounded, WFMin
<1>2. \A j \in X : ~(j < i)
    BY <1>1 DEF OpToRel
<1>3. QED BY <1>2

\* A new id is used by nothing else in the session.
LEMMA NewIdIsFree ==
    ASSUME NEW S \in Sessions, IsFiniteSet(DOMAIN S.sent), IsFiniteSet(S.stale)
    PROVE  NewId(S) \in Id /\ NewId(S) \notin Ids(S)
<1> DEFINE n == Cardinality(Ids(S))
           free == 1 .. n + 1 \ Ids(S)
<1>1. IsFiniteSet(Ids(S))
    <2>1. S.up \in Seq([id : Id, req : Req]) /\ S.down \in Seq(Message)
        BY DEF Sessions
    <2>2. /\ IsFiniteSet({m.id : m \in ToSet(S.up)})
          /\ IsFiniteSet({m.id : m \in ToSet(S.down)})
          /\ IsFiniteSet({m.id : m \in S.stale})
        BY <2>1, FiniteToSet, FiniteIds
    <2>3. IsFiniteSet({S.hand.id})
        BY FS_Singleton
    <2>4. QED BY <2>2, <2>3, FS_Union DEF Ids
<1>2. n \in Nat
    BY <1>1, FS_CardinalityType
<1>3. free # {}
    <2>1. SUFFICES ASSUME 1 .. n + 1 \subseteq Ids(S) PROVE FALSE
        BY <1>2
    <2>2. Cardinality(1 .. n + 1) = n + 1
        BY <1>2, FS_Interval
    <2>3. Cardinality(1 .. n + 1) <= n
        BY <1>1, <2>1, FS_Subset
    <2>4. QED BY <1>2, <2>2, <2>3
<1>4. free \in SUBSET Nat
    BY <1>2
<1>5. \E i \in free : \A j \in free : i <= j
    BY <1>3, <1>4, LeastNat
<1>6. NewId(S) = CHOOSE i \in free : \A j \in free : i <= j
    BY DEF NewId
<1>7. NewId(S) \in free
    BY <1>5, <1>6
<1>8. QED BY <1>2, <1>7 DEF Id

\* The sequence of a finite set has its elements.
LEMMA SetInSeq ==
    ASSUME NEW X, IsFiniteSet(X)
    PROVE  /\ SetToSeq(X) \in [1 .. Cardinality(X) -> X]
           /\ Cardinality(X) \in Nat
           /\ \A x \in X : \E i \in 1 .. Cardinality(X) : SetToSeq(X)[i] = x
<1> DEFINE n == Cardinality(X)
<1>1. n \in Nat /\ ExistsBijection(1 .. n, X)
    BY FS_CardinalityType
<1>2. PICK g : g \in Bijection(1 .. n, X)
    BY <1>1 DEF ExistsBijection
<1>3. g \in [1 .. n -> X] /\ IsInjective(g)
    BY <1>2 DEF Bijection, Injection
<1>4. SetToSeq(X) \in [1 .. n -> X] /\ IsInjective(SetToSeq(X))
    BY <1>3 DEF SetToSeq
<1>5. SetToSeq(X) \in Injection(1 .. n, X)
    BY <1>4 DEF Injection
<1>6. IsFiniteSet(1 .. n) /\ Cardinality(1 .. n) = n
    BY <1>1, FS_Interval
<1>7. SetToSeq(X) \in Surjection(1 .. n, X)
    BY <1>5, <1>6, FS_Injection
<1>8. QED BY <1>1, <1>4, <1>7 DEF Surjection

-----------------------------------------------------------------------------
(* What a step makes of a session. *)

\* One session becomes T, the others stay as they are.
Becomes(s, T) == /\ sess' = [sess EXCEPT ![s] = T]
                 /\ T \in Sessions

\* What one session becomes leaves the others as they are.
LEMMA Others ==
    ASSUME WsType, NEW s \in Session, NEW T, Becomes(s, T)
    PROVE  /\ sess' \in Seq(Sessions) /\ sess' # <<>>
           /\ Session' = Session /\ Len(sess') = Len(sess) /\ Current' = Current
           /\ sess'[s] = T
           /\ \A r \in Session : r # s => sess'[r] = sess[r]
<1>1. sess \in Seq(Sessions)
    BY DEF WsType
<1>2. /\ sess' \in Seq(Sessions)
      /\ Session' = Session /\ Len(sess') = Len(sess)
      /\ sess'[s] = T
      /\ \A r \in Session : r # s => sess'[r] = sess[r]
    BY <1>1 DEF Session, Becomes
<1>3. QED BY <1>2 DEF Session, Current


\* A session is one.
LEMMA ASession ==
    ASSUME WsType, NEW s \in Session
    PROVE  sess[s] \in Sessions
BY DEF WsType, Session

\* The fields of a session.
LEMMA FieldsAre ==
    ASSUME NEW S \in Sessions
    PROVE  /\ S.th \in {"start", "handshake", "loop", "done"}
           /\ S.who \in Account \cup {NoOne} /\ S.email \in Account \cup {NoOne}
           /\ S.open \in BOOLEAN /\ S.conn \in BOOLEAN /\ S.ping \in BOOLEAN
           /\ S.queue \in Seq(Req)
           /\ S.sent \in Partial(Id, Entries)
           /\ S.up \in Seq([id : Id, req : Req])
           /\ S.down \in Seq(Message) /\ S.hand \in Message
           /\ S.stale \in SUBSET [id : Id, req : Req, tries : 0 .. MaxRetries]
BY DEF Sessions

\* Requests that are put into the channel.
LEMMA QueuedIs ==
    ASSUME NEW S \in Sessions, NEW reqs \in Seq(Req)
    PROVE  /\ Queued(S, reqs) \in Sessions
           /\ S.th = "done" => Queued(S, reqs) = S
           /\ S.th # "done" => Queued(S, reqs) = [S EXCEPT !.queue = @ \o reqs]
<1>1. S.queue \o reqs \in Seq(Req)
    BY DEF Sessions
<1>2. [S EXCEPT !.queue = @ \o reqs] \in Sessions
    BY <1>1 DEF Sessions
<1>3. QED BY <1>2 DEF Queued

\* A request is answered, or never will be.
LEMMA WithoutIs ==
    ASSUME NEW V, NEW X, NEW f \in Partial(X, V), NEW x
    PROVE  /\ Without(f, x) \in Partial(X, V)
           /\ DOMAIN Without(f, x) = DOMAIN f \ {x}
           /\ \A y \in DOMAIN f \ {x} : Without(f, x)[y] = f[y]
<1>1. PICK D \in SUBSET X : f \in [D -> V]
    BY DEF Partial
<1>2. Without(f, x) \in [D \ {x} -> V]
    BY <1>1 DEF Without
<1>3. D \ {x} \in SUBSET X
    OBVIOUS
<1>4. QED BY <1>1, <1>2, <1>3 DEF Without, Partial

\* An entry is added to a partial function, or put in the place of the one it had.
LEMMA WithIs ==
    ASSUME NEW V, NEW X, NEW f \in Partial(X, V), NEW x \in X, NEW v \in V
    PROVE  /\ With(f, x, v) \in Partial(X, V)
           /\ DOMAIN With(f, x, v) = DOMAIN f \cup {x}
           /\ With(f, x, v)[x] = v
           /\ \A y \in DOMAIN f \ {x} : With(f, x, v)[y] = f[y]
<1>1. PICK D \in SUBSET X : f \in [D -> V]
    BY DEF Partial
<1>2. With(f, x, v) \in [D \cup {x} -> V]
    BY <1>1 DEF With
<1>3. D \cup {x} \in SUBSET X
    OBVIOUS
<1>4. QED BY <1>1, <1>2, <1>3 DEF With, Partial

\* A request is filed under its id.
LEMMA WithSent ==
    ASSUME NEW S \in Sessions, NEW id \in Id, NEW v \in Entries
    PROVE  /\ With(S.sent, id, v) \in Partial(Id, Entries)
           /\ DOMAIN With(S.sent, id, v) = DOMAIN S.sent \cup {id}
           /\ With(S.sent, id, v)[id] = v
           /\ \A i \in DOMAIN S.sent \ {id} : With(S.sent, id, v)[i] = S.sent[i]
<1> DEFINE f == S.sent
<1>1. f \in Partial(Id, Entries)
    BY DEF Sessions
<1> HIDE DEF f
<1>2. With(f, id, v) \in Partial(Id, Entries)
    BY <1>1, WithIs
<1>3. /\ DOMAIN With(f, id, v) = DOMAIN f \cup {id}
      /\ With(f, id, v)[id] = v
    BY <1>1, WithIs
<1>4. \A i \in DOMAIN f \ {id} : With(f, id, v)[i] = f[i]
    BY DEF With
<1>5. QED BY <1>2, <1>3, <1>4 DEF f

\* No message in hand: it answers no request.
LEMMA NoMessageIs == NoMessage \in Message /\ NoMessage.id = 0 /\ NoMessage.kind = "none"
BY DEF NoMessage, Message, Answer, NoSnapshot, Snapshot

\* What the client asks for are requests about what there is.
LEMMA FetchesAreReq ==
    /\ \A u \in User : FetchUser(u) \in Req
    /\ \A w \in Wallet : FetchWallet(w) \in Req
    /\ \A w \in Wallet, e \in Nat : EditWallet(w, e) \in Req
    /\ Ping \in Req /\ Close \in Req
BY DEF Req, Request, FetchUser, FetchWallet, EditWallet, Ping, Close

-----------------------------------------------------------------------------
(* The steps of a session's thread. *)

\* connect_ws() takes the token there is when its thread starts, or ends without one.
LEMMA TakesToken ==
    ASSUME WsType, NEW s \in Session, TakeToken(s)
    PROVE  \/ token' = NoOne /\ Becomes(s, [sess[s] EXCEPT !.th = "done"])
           \/ /\ token' \in Account
              /\ Becomes(s, [sess[s] EXCEPT !.th = "handshake", !.who = token'])
<1> DEFINE S == sess[s]
<1>1. sess \in Seq(Sessions) /\ S \in Sessions
    BY DEF WsType, Session
<1>2. token' \in Account \cup {NoOne}
    BY <1>1 DEF TakeToken, WsType, Sessions
<1>3. CASE token' = NoOne
    <2>1. [S EXCEPT !.th = "done"] \in Sessions
        BY <1>1 DEF Sessions
    <2>2. sess' = [sess EXCEPT ![s] = [S EXCEPT !.th = "done"]]
        BY <1>1, <1>3 DEF TakeToken, Session
    <2>3. QED BY <1>3, <2>1, <2>2 DEF Becomes
<1>4. CASE token' # NoOne
    <2>1. [S EXCEPT !.th = "handshake", !.who = token'] \in Sessions
        BY <1>1, <1>2 DEF Sessions
    <2>2. sess' = [sess EXCEPT ![s] = [S EXCEPT !.th = "handshake", !.who = token']]
        BY <1>1, <1>4 DEF TakeToken, Session
    <2>3. QED BY <1>2, <1>4, <2>1, <2>2 DEF Becomes
<1>5. QED BY <1>3, <1>4

\* The handshake ends with the first request, for the user itself.
LEMMA Handshakes ==
    ASSUME WsType, SessionInv, NEW s \in Session, Handshake(s)
    PROVE  /\ sess[s].who \in Account
           /\ Becomes(s, [sess[s] EXCEPT !.th = "loop", !.conn = TRUE, !.pinger = "send",
                                         !.queue = Append(@, FetchUser(sess[s].who))])
<1> DEFINE S == sess[s]
<1>1. sess \in Seq(Sessions) /\ S \in Sessions
    BY DEF WsType, Session
<1>2. S.who \in Account
    BY <1>1 DEF Sessions, SessionInv, Good, Early, Handshake
<1>3. FetchUser(S.who) \in Req
    BY <1>2 DEF Req, Request, FetchUser, User
<1>4. Append(S.queue, FetchUser(S.who)) \in Seq(Req)
    BY <1>1, <1>3 DEF Sessions
<1>5. [S EXCEPT !.th = "loop", !.conn = TRUE, !.pinger = "send",
                !.queue = Append(@, FetchUser(S.who))] \in Sessions
    BY <1>1, <1>4 DEF Sessions
<1>6. sess' = [sess EXCEPT ![s] = [S EXCEPT !.th = "loop", !.conn = TRUE, !.pinger = "send",
                !.queue = Append(@, FetchUser(S.who))]]
    BY <1>1 DEF Session, Handshake, Sessions
<1>7. QED BY <1>2, <1>5, <1>6 DEF Becomes

\* A handshake that fails ends the thread.
LEMMA HandshakeFailing ==
    ASSUME WsType, NEW s \in Session, HandshakeFails(s)
    PROVE  Becomes(s, [sess[s] EXCEPT !.th = "done"])
<1> DEFINE S == sess[s]
<1>1. sess \in Seq(Sessions) /\ S \in Sessions
    BY DEF WsType, Session
<1>2. [S EXCEPT !.th = "done"] \in Sessions
    BY <1>1 DEF Sessions
<1>3. sess' = [sess EXCEPT ![s] = [S EXCEPT !.th = "done"]]
    BY <1>1 DEF HandshakeFails, Session
<1>4. QED BY <1>2, <1>3 DEF Becomes

\* A request that is sent.
Sent(S, r, id) == [S EXCEPT !.queue = Tail(@),
                            !.sent = With(@, id, [req |-> r, tries |-> 0]),
                            !.up = IF S.open THEN Append(@, [id |-> id, req |-> r]) ELSE @]

\* A request received closes the session, is sent under a fresh id, or fails to be.
LEMMA LoopReceives ==
    ASSUME WsType, SessionInv, NEW s \in Session, LoopRecv(s)
    PROVE  LET S == sess[s]  r == Head(S.queue)  id == NewId(S) IN
           /\ S.queue # <<>> /\ r \in Req /\ id \in Id /\ id \notin Ids(S)
           /\ \/ r = Close /\ Becomes(s, [S EXCEPT !.queue = Tail(@), !.th = "done",
                                                   !.conn = FALSE, !.open = FALSE])
              \/ r # Close /\ Becomes(s, Sent(S, r, id))
              \/ /\ r # Close /\ ~S.open
                 /\ Becomes(s, [S EXCEPT !.queue = Tail(@), !.th = "done"])
<1> DEFINE S == sess[s]
           r == Head(S.queue)
           id == NewId(S)
           ended == [S EXCEPT !.queue = Tail(@), !.th = "done", !.conn = FALSE,
                              !.open = FALSE]
           failed == [S EXCEPT !.queue = Tail(@), !.th = "done"]
<1>1. sess \in Seq(Sessions) /\ S \in Sessions
    BY DEF WsType, Session
<1>2. S.queue \in Seq(Req) /\ S.queue # <<>>
    BY <1>1 DEF Sessions, LoopRecv
<1>3. r \in Req /\ Tail(S.queue) \in Seq(Req)
    BY <1>2
<1>4. id \in Id /\ id \notin Ids(S)
    BY <1>1, NewIdIsFree DEF SessionInv, Good, Filed
<1>5. ended \in Sessions /\ failed \in Sessions
    BY <1>1, <1>3 DEF Sessions
<1>6. Sent(S, r, id) \in Sessions
    <2>1. [req |-> r, tries |-> 0] \in Entries
        BY <1>3, WsClientAssumption DEF Entries
    <2>2. With(S.sent, id, [req |-> r, tries |-> 0]) \in Partial(Id, Entries)
        <3> DEFINE v == [req |-> r, tries |-> 0]
        <3>1. S.sent \in Partial(Id, Entries)
            BY <1>1 DEF Sessions
        <3>2. id \in Id /\ v \in Entries
            BY <1>4, <2>1
        <3> HIDE DEF S, id, v
        <3>3. With(S.sent, id, v) \in Partial(Id, Entries)
            BY <3>1, <3>2, WithIs
        <3>4. QED BY <3>3 DEF v
    <2>3. (IF S.open THEN Append(S.up, [id |-> id, req |-> r]) ELSE S.up)
              \in Seq([id : Id, req : Req])
        <3> DEFINE m == [id |-> id, req |-> r]
        <3>1. S.up \in Seq([id : Id, req : Req])
            BY <1>1 DEF Sessions
        <3>2. m \in [id : Id, req : Req]
            BY <1>3, <1>4
        <3> HIDE DEF S, id, r, m
        <3>3. Append(S.up, m) \in Seq([id : Id, req : Req])
            BY <3>1, <3>2
        <3>4. QED BY <3>1, <3>3 DEF m
    <2>4. QED BY <1>1, <1>3, <2>2, <2>3 DEF Sent, Sessions
<1>7. \/ r = Close /\ sess' = [sess EXCEPT ![s] = ended]
      \/ r # Close /\ sess' = [sess EXCEPT ![s] = Sent(S, r, id)]
      \/ r # Close /\ ~S.open /\ sess' = [sess EXCEPT ![s] = failed]
    BY <1>1 DEF LoopRecv, Session, Sent, Sessions
<1>8. QED BY <1>2, <1>3, <1>4, <1>5, <1>6, <1>7 DEF Becomes

\* A message read is put in hand; the end of the connection ends the loop.
LEMMA LoopReads ==
    ASSUME WsType, NEW s \in Session, LoopRead(s)
    PROVE  LET S == sess[s] IN
           /\ S.down # <<>>
           /\ \/ /\ Head(S.down).kind = "close"
                 /\ Becomes(s, [S EXCEPT !.down = Tail(@), !.th = "done"])
              \/ /\ Head(S.down).kind # "close"
                 /\ Becomes(s, [S EXCEPT !.down = Tail(@), !.hand = Head(S.down)])
<1> DEFINE S == sess[s]
           ended == [S EXCEPT !.down = Tail(@), !.th = "done"]
           read == [S EXCEPT !.down = Tail(@), !.hand = Head(S.down)]
<1>1. sess \in Seq(Sessions) /\ S \in Sessions
    BY DEF WsType, Session
<1>2. S.down \in Seq(Message) /\ S.down # <<>>
    BY <1>1 DEF Sessions, LoopRead
<1>3. Head(S.down) \in Message /\ Tail(S.down) \in Seq(Message)
    BY <1>2
<1>4. ended \in Sessions /\ read \in Sessions
    BY <1>1, <1>3 DEF Sessions
<1>5. IF Head(S.down).kind = "close" THEN sess' = [sess EXCEPT ![s] = ended]
                                     ELSE sess' = [sess EXCEPT ![s] = read]
    BY <1>1 DEF LoopRead, Session
<1>6. QED BY <1>2, <1>4, <1>5 DEF Becomes

-----------------------------------------------------------------------------
(* The handlers. *)

\* Every user of a set is asked for.
LEMMA FetchesIs ==
    ASSUME NEW X \in SUBSET User
    PROVE  Fetches(X) \in Seq(Req) /\ \A u \in X : FetchUser(u) \in ToSet(Fetches(X))
<1>1. IsFiniteSet(X)
    BY WsClientAssumption, FS_Subset
<1>2. /\ SetToSeq(X) \in [1 .. Cardinality(X) -> X] /\ Cardinality(X) \in Nat
      /\ \A x \in X : \E i \in 1 .. Cardinality(X) : SetToSeq(X)[i] = x
    BY <1>1, SetInSeq
<1>3. DOMAIN SetToSeq(X) = 1 .. Cardinality(X)
    BY <1>2
<1>4. Fetches(X) = [i \in 1 .. Cardinality(X) |-> FetchUser(SetToSeq(X)[i])]
    BY <1>3 DEF Fetches
<1>5. Fetches(X) \in [1 .. Cardinality(X) -> Req]
    BY <1>2, <1>4, FetchesAreReq
<1>6. Fetches(X) \in Seq(Req)
    BY <1>2, <1>5
<1>7. ASSUME NEW u \in X PROVE FetchUser(u) \in ToSet(Fetches(X))
    <2>1. PICK i \in 1 .. Cardinality(X) : SetToSeq(X)[i] = u
        BY <1>2
    <2>2. Fetches(X)[i] = FetchUser(u) /\ i \in DOMAIN Fetches(X)
        BY <1>4, <2>1
    <2>3. QED BY <2>2 DEF ToSet
<1>8. QED BY <1>6, <1>7

\* Every wallet of a set is asked for, and nothing else.
LEMMA WalletFetchesIs ==
    ASSUME NEW X \in SUBSET Wallet
    PROVE  /\ WalletFetches(X) \in Seq(Req)
           /\ \A w \in X : FetchWallet(w) \in ToSet(WalletFetches(X))
           /\ \A r \in ToSet(WalletFetches(X)) : r.of \in X /\ r.kind = "wallet"
<1>1. IsFiniteSet(X)
    BY WsClientAssumption, FS_Subset
<1>2. /\ SetToSeq(X) \in [1 .. Cardinality(X) -> X] /\ Cardinality(X) \in Nat
      /\ \A x \in X : \E i \in 1 .. Cardinality(X) : SetToSeq(X)[i] = x
    BY <1>1, SetInSeq
<1>3. DOMAIN SetToSeq(X) = 1 .. Cardinality(X)
    BY <1>2
<1>4. WalletFetches(X) = [i \in 1 .. Cardinality(X) |-> FetchWallet(SetToSeq(X)[i])]
    BY <1>3 DEF WalletFetches
<1>5. WalletFetches(X) \in [1 .. Cardinality(X) -> Req]
    BY <1>2, <1>4, FetchesAreReq
<1>6. WalletFetches(X) \in Seq(Req)
    BY <1>2, <1>5
<1>7. ASSUME NEW w \in X PROVE FetchWallet(w) \in ToSet(WalletFetches(X))
    <2>1. PICK i \in 1 .. Cardinality(X) : SetToSeq(X)[i] = w
        BY <1>2
    <2>2. WalletFetches(X)[i] = FetchWallet(w) /\ i \in DOMAIN WalletFetches(X)
        BY <1>4, <2>1
    <2>3. QED BY <2>2 DEF ToSet
<1>8. ASSUME NEW r \in ToSet(WalletFetches(X)) PROVE r.of \in X /\ r.kind = "wallet"
    <2>1. PICK i \in DOMAIN WalletFetches(X) : r = WalletFetches(X)[i]
        BY DEF ToSet
    <2>2. i \in 1 .. Cardinality(X) /\ r = FetchWallet(SetToSeq(X)[i])
        BY <1>4, <2>1
    <2>3. QED BY <1>2, <2>2 DEF FetchWallet
<1>9. QED BY <1>6, <1>7, <1>8

\* A user is asked for unless it is nobody or cached.
LEMMA FetchMaybeIs ==
    ASSUME NEW u \in User \cup {NoOne}
    PROVE  /\ FetchMaybe(u) \in Seq(Req)
           /\ u \notin users \cup {NoOne} => FetchUser(u) \in ToSet(FetchMaybe(u))
           /\ \A r \in ToSet(FetchMaybe(u)) : r.kind = "user"
<1>1. CASE u = NoOne \/ u \in users
    BY <1>1 DEF FetchMaybe, ToSet
<1>2. CASE ~(u = NoOne \/ u \in users)
    <2>1. FetchUser(u) \in Req
        BY <1>2, FetchesAreReq
    <2>2. FetchMaybe(u) = <<FetchUser(u)>>
        BY <1>2 DEF FetchMaybe
    <2>3. ToSet(FetchMaybe(u)) = {FetchUser(u)}
        BY <2>2 DEF ToSet
    <2>4. FetchMaybe(u) \in Seq(Req)
        BY <2>1, <2>2
    <2>5. QED BY <2>3, <2>4 DEF FetchUser
<1>3. QED BY <1>1, <1>2

\* A session that has handled its message.
Answered(S, done, reqs, ping) ==
    [S EXCEPT !.hand = NoMessage, !.sent = Without(@, done), !.queue = @ \o reqs,
              !.ping = ping]

\* What a handler leaves of its session is a session.
LEMMA AnsweredIs ==
    ASSUME NEW S \in Sessions, NEW done, NEW reqs \in Seq(Req), NEW ping \in BOOLEAN
    PROVE  Answered(S, done, reqs, ping) \in Sessions
<1>0. S.sent \in Partial(Id, Entries) /\ S.queue \in Seq(Req)
    BY FieldsAre
<1>1. Without(S.sent, done) \in Partial(Id, Entries)
    BY <1>0, WithoutIs
<1>2. S.queue \o reqs \in Seq(Req)
    BY <1>0
<1>3. QED BY <1>1, <1>2, NoMessageIs DEF Sessions, Answered

\* A handler forgets the request its message answers, and asks for what it misses.
LEMMA HandledIs ==
    ASSUME WsType, NEW s \in Session, NEW done, NEW reqs \in Seq(Req), Handled(s, done, reqs)
    PROVE  Becomes(s, Answered(sess[s], done, reqs, sess[s].ping))
<1>1. sess \in Seq(Sessions) /\ sess[s] \in Sessions /\ sess[s].ping \in BOOLEAN
    BY ASession, FieldsAre DEF WsType
<1>2. Answered(sess[s], done, reqs, sess[s].ping) \in Sessions
    BY <1>1, AnsweredIs
<1>3. sess' = [sess EXCEPT ![s] = Answered(sess[s], done, reqs, sess[s].ping)]
    BY <1>1 DEF Handled, Answered, Session, Sessions
<1>4. QED BY <1>2, <1>3 DEF Becomes

OrgFetches(o) == Fetches(MemberOf[o] \ users)
                 \o WalletFetches({w \in Wallet : OrgOf[w] = o} \ DOMAIN wallets)

\* The message in hand is about what its kind says.
LEMMA InHandIs ==
    ASSUME WsType, NEW s \in Session
    PROVE  /\ sess[s].hand \in Message /\ sess[s].hand.body \in Snapshot
           /\ sess[s].hand.id \in Nat
           /\ sess[s].hand.kind = "wallet" => sess[s].hand.of \in Wallet
           /\ sess[s].hand.kind = "user" => sess[s].hand.of \in User
           /\ sess[s].hand.kind \in {"org", "removed"} => sess[s].hand.of \in Org
<1>1. sess[s].hand \in Message
    BY ASession, FieldsAre
<1>2. QED BY <1>1 DEF Message

\* What each handler makes of its session.
LEMMA Handlings ==
    ASSUME WsType, NEW s \in Session
    PROVE  LET S == sess[s]  m == S.hand IN
           /\ HandleUnknown(s) => Becomes(s, Answered(S, m.id, <<>>, S.ping))
           /\ HandleError(s) => Becomes(s, Answered(S, m.id, <<>>, S.ping))
           /\ HandleMismatch(s) => Becomes(s, Answered(S, 0, <<>>, S.ping))
           /\ HandlePong(s) => Becomes(s, Answered(S, m.id, <<>>, FALSE))
           /\ HandleOrg(s) => /\ OrgFetches(m.of) \in Seq(Req)
                              /\ Becomes(s, Answered(S, m.id, OrgFetches(m.of), S.ping))
           /\ HandleWallet(s) =>
                  /\ FetchMaybe(m.body.by) \o FetchMaybe(OwnerOf[m.of]) \in Seq(Req)
                  /\ Becomes(s, Answered(S, m.id, FetchMaybe(m.body.by)
                                                  \o FetchMaybe(OwnerOf[m.of]), S.ping))
           /\ HandleUser(s) => Becomes(s, Answered(S, m.id, <<>>, S.ping))
           /\ HandleRemoved(s) => Becomes(s, Answered(S, m.id, <<>>, S.ping))
<1> DEFINE S == sess[s]
           m == S.hand
<1>1. <<>> \in Seq(Req)
    OBVIOUS
<1>2. HandleUnknown(s) => Becomes(s, Answered(S, m.id, <<>>, S.ping))
    BY <1>1, HandledIs DEF HandleUnknown
<1>3. HandleError(s) => Becomes(s, Answered(S, m.id, <<>>, S.ping))
    BY <1>1, HandledIs DEF HandleError
<1>4. HandleMismatch(s) => Becomes(s, Answered(S, 0, <<>>, S.ping))
    BY <1>1, HandledIs DEF HandleMismatch
<1>5. HandlePong(s) => Becomes(s, Answered(S, m.id, <<>>, FALSE))
    <2>1. sess \in Seq(Sessions) /\ S \in Sessions /\ S.queue \in Seq(Req)
        BY ASession, FieldsAre DEF WsType
    <2>2. Answered(S, m.id, <<>>, FALSE) \in Sessions
        BY <1>1, <2>1, AnsweredIs
    <2>3. S.queue \o <<>> = S.queue
        BY <2>1
    <2>4. Answered(S, m.id, <<>>, FALSE)
              = [S EXCEPT !.hand = NoMessage, !.ping = FALSE, !.sent = Without(@, m.id)]
        BY <2>1, <2>3 DEF Answered, Sessions
    <2>5. HandlePong(s) =>
              sess' = [sess EXCEPT ![s] = [S EXCEPT !.hand = NoMessage, !.ping = FALSE,
                                                    !.sent = Without(@, m.id)]]
        BY <2>1 DEF HandlePong, Session, Sessions
    <2>6. QED BY <2>2, <2>4, <2>5 DEF Becomes
<1>6. HandleOrg(s) => /\ OrgFetches(m.of) \in Seq(Req)
                      /\ Becomes(s, Answered(S, m.id, OrgFetches(m.of), S.ping))
    <2> SUFFICES ASSUME HandleOrg(s)
                 PROVE  /\ OrgFetches(m.of) \in Seq(Req)
                        /\ Becomes(s, Answered(S, m.id, OrgFetches(m.of), S.ping))
        OBVIOUS
    <2>1. m.of \in Org
        BY InHandIs DEF HandleOrg
    <2>2. MemberOf[m.of] \ users \in SUBSET User
        BY <2>1, WsClientAssumption
    <2>3. {w \in Wallet : OrgOf[w] = m.of} \ DOMAIN wallets \in SUBSET Wallet
        OBVIOUS
    <2>4. OrgFetches(m.of) \in Seq(Req)
        BY <2>2, <2>3, FetchesIs, WalletFetchesIs DEF OrgFetches
    <2>5. Handled(s, m.id, OrgFetches(m.of))
        BY DEF HandleOrg, OrgFetches
    <2>6. QED BY <2>4, <2>5, HandledIs
<1>7. HandleWallet(s) =>
          /\ FetchMaybe(m.body.by) \o FetchMaybe(OwnerOf[m.of]) \in Seq(Req)
          /\ Becomes(s, Answered(S, m.id, FetchMaybe(m.body.by)
                                          \o FetchMaybe(OwnerOf[m.of]), S.ping))
    <2> SUFFICES ASSUME HandleWallet(s)
                 PROVE  /\ FetchMaybe(m.body.by) \o FetchMaybe(OwnerOf[m.of]) \in Seq(Req)
                        /\ Becomes(s, Answered(S, m.id, FetchMaybe(m.body.by)
                                          \o FetchMaybe(OwnerOf[m.of]), S.ping))
        OBVIOUS
    <2>1. m.of \in Wallet /\ m.body.by \in User \cup {NoOne}
        BY InHandIs DEF HandleWallet, Snapshot
    <2>2. OwnerOf[m.of] \in User \cup {NoOne}
        BY <2>1, WsClientAssumption
    <2>3. FetchMaybe(m.body.by) \o FetchMaybe(OwnerOf[m.of]) \in Seq(Req)
        BY <2>1, <2>2, FetchMaybeIs
    <2>4. Handled(s, m.id, FetchMaybe(m.body.by) \o FetchMaybe(OwnerOf[m.of]))
        BY DEF HandleWallet
    <2>5. QED BY <2>3, <2>4, HandledIs
<1>8. HandleUser(s) => Becomes(s, Answered(S, m.id, <<>>, S.ping))
    BY <1>1, HandledIs DEF HandleUser
<1>9. HandleRemoved(s) => Becomes(s, Answered(S, m.id, <<>>, S.ping))
    BY <1>1, HandledIs DEF HandleRemoved
<1>10. QED BY <1>2, <1>3, <1>4, <1>5, <1>6, <1>7, <1>8, <1>9

-----------------------------------------------------------------------------
(* The other threads of a session, and the server. *)

\* A ping is queued before it is recorded.
LEMMA PingSends ==
    ASSUME WsType, NEW s \in Session, PingSend(s)
    PROVE  Becomes(s, [Queued(sess[s], <<Ping>>) EXCEPT !.pinger = "record"])
<1> DEFINE Q == Queued(sess[s], <<Ping>>)
<1>1. <<Ping>> \in Seq(Req)
    BY FetchesAreReq
<1>2. Q \in Sessions
    BY <1>1, ASession, QueuedIs
<1>3. [Q EXCEPT !.pinger = "record"] \in Sessions
    BY <1>2 DEF Sessions
<1>4. QED BY <1>3 DEF PingSend, Becomes

\* The ping is recorded.
LEMMA PingRecords ==
    ASSUME WsType, NEW s \in Session, PingRecord(s)
    PROVE  Becomes(s, [sess[s] EXCEPT !.pinger = "sleep", !.ping = TRUE])
<1>1. sess \in Seq(Sessions) /\ sess[s] \in Sessions
    BY ASession DEF WsType
<1>2. [sess[s] EXCEPT !.pinger = "sleep", !.ping = TRUE] \in Sessions
    BY <1>1 DEF Sessions
<1>3. sess' = [sess EXCEPT ![s] = [sess[s] EXCEPT !.pinger = "sleep", !.ping = TRUE]]
    BY <1>1 DEF PingRecord, Session
<1>4. QED BY <1>2, <1>3 DEF Becomes

\* A ping nobody answered takes the connection for lost.
LEMMA PingTimesOut ==
    ASSUME WsType, NEW s \in Session, PingTimeout(s)
    PROVE  Becomes(s, [sess[s] EXCEPT !.conn = FALSE])
<1>1. sess \in Seq(Sessions) /\ sess[s] \in Sessions
    BY ASession DEF WsType
<1>2. [sess[s] EXCEPT !.conn = FALSE] \in Sessions
    BY <1>1 DEF Sessions
<1>3. sess' = [sess EXCEPT ![s] = [sess[s] EXCEPT !.conn = FALSE]]
    BY <1>1 DEF PingTimeout, Session
<1>4. QED BY <1>2, <1>3 DEF Becomes

\* The entries of some requests.
Found(S, X) == {[id |-> i, req |-> S.sent[i].req, tries |-> S.sent[i].tries] : i \in X}

\* A round of the timeouts finds some of the requests on their way.
LEMMA FindsStale ==
    ASSUME WsType, NEW s \in Session, FindStale(s)
    PROVE  \E X \in SUBSET DOMAIN sess[s].sent :
              Becomes(s, [sess[s] EXCEPT !.stale = Found(sess[s], X)])
<1> DEFINE S == sess[s]
<1>1. sess \in Seq(Sessions) /\ S \in Sessions
    BY ASession DEF WsType
<1>2. PICK X \in SUBSET DOMAIN S.sent : sess' = [sess EXCEPT ![s].stale = Found(S, X)]
    BY DEF FindStale, Found
<1>3. Found(S, X) \in SUBSET [id : Id, req : Req, tries : 0 .. MaxRetries]
    <2>1. PICK D \in SUBSET Id : S.sent \in [D -> Entries]
        BY <1>1, FieldsAre DEF Partial
    <2>2. \A i \in X : i \in Id /\ S.sent[i] \in Entries
        BY <2>1
    <2>3. QED BY <2>2 DEF Entries, Found
<1>4. [S EXCEPT !.stale = Found(S, X)] \in Sessions
    BY <1>1, <1>3 DEF Sessions
<1>5. sess' = [sess EXCEPT ![s] = [S EXCEPT !.stale = Found(S, X)]]
    BY <1>1, <1>2 DEF Session
<1>6. QED BY <1>4, <1>5 DEF Becomes

\* A stale request that was taken up: it is given up, or sent again.
Taken(S, m) == [S EXCEPT !.stale = @ \ {m}]
GivenUp(S, m) == [Taken(S, m) EXCEPT !.sent = Without(@, m.id)]
SentAgain(S, m) == [Queued(Taken(S, m), <<m.req>>) EXCEPT !.sent = TriedAgain(@, m.id)]

\* A request is forgotten, and the others stay.
LEMMA WithoutSent ==
    ASSUME NEW S \in Sessions, NEW x
    PROVE  /\ Without(S.sent, x) \in Partial(Id, Entries)
           /\ DOMAIN Without(S.sent, x) = DOMAIN S.sent \ {x}
           /\ \A y \in DOMAIN S.sent \ {x} : Without(S.sent, x)[y] = S.sent[y]
<1> DEFINE f == S.sent
<1>1. f \in Partial(Id, Entries)
    BY FieldsAre
<1> HIDE DEF f
<1>2. /\ Without(f, x) \in Partial(Id, Entries)
      /\ DOMAIN Without(f, x) = DOMAIN f \ {x}
      /\ \A y \in DOMAIN f \ {x} : Without(f, x)[y] = f[y]
    BY <1>1, WithoutIs
<1>3. QED BY <1>2 DEF f

\* Requests are queued for a session whose thread is there, and nothing else changes.
LEMMA QueuedSame ==
    ASSUME NEW S \in Sessions, NEW reqs \in Seq(Req)
    PROVE  /\ Queued(S, reqs).sent = S.sent /\ Queued(S, reqs).stale = S.stale
           /\ Queued(S, reqs).th = S.th /\ Queued(S, reqs).who = S.who
           /\ Queued(S, reqs).open = S.open /\ Queued(S, reqs).conn = S.conn
           /\ Queued(S, reqs).up = S.up /\ Queued(S, reqs).down = S.down
           /\ Queued(S, reqs).hand = S.hand /\ Queued(S, reqs).pinger = S.pinger
           /\ Queued(S, reqs).queue = IF S.th = "done" THEN S.queue ELSE S.queue \o reqs
BY DEF Queued, Sessions

\* A stale request is taken off the list of the round.
LEMMA TakenIs ==
    ASSUME NEW S \in Sessions, NEW m
    PROVE  Taken(S, m) \in Sessions
BY DEF Sessions, Taken

\* A stale request is given up, or sent again.
LEMMA SweepsOne ==
    ASSUME WsType, SessionInv, NEW s \in Session, SweepOne(s)
    PROVE  LET S == sess[s] IN
           \E m \in S.stale :
              /\ m \in [id : Id, req : Req, tries : 0 .. MaxRetries]
              /\ \/ m.tries >= MaxRetries /\ Becomes(s, GivenUp(S, m))
                 \/ /\ m.tries < MaxRetries /\ resent' = TRUE
                    /\ Becomes(s, SentAgain(S, m))
<1> DEFINE S == sess[s]
<1>1. sess \in Seq(Sessions) /\ S \in Sessions
    BY ASession DEF WsType
<1>2. PICK m \in S.stale :
         \/ m.tries >= MaxRetries /\ sess' = [sess EXCEPT ![s] = GivenUp(S, m)]
         \/ /\ m.tries < MaxRetries /\ resent' = TRUE
            /\ sess' = [sess EXCEPT ![s] =
                  SentAgain(S, m)]
    BY DEF SweepOne, GivenUp, Taken, SentAgain
<1>3. m \in [id : Id, req : Req, tries : 0 .. MaxRetries]
    BY <1>1, FieldsAre
<1>4. S.sent \in Partial(Id, Entries)
    BY <1>1, FieldsAre
<1>5. Taken(S, m) \in Sessions /\ Taken(S, m).sent = S.sent
    BY <1>1, TakenIs DEF Taken, Sessions
<1>6. GivenUp(S, m) \in Sessions
    <2>1. Without(S.sent, m.id) \in Partial(Id, Entries)
        BY <1>1, WithoutSent
    <2>2. QED BY <1>5, <2>1 DEF Sessions, GivenUp
<1>7. <<m.req>> \in Seq(Req)
    BY <1>3
<1>8. /\ Queued(Taken(S, m), <<m.req>>) \in Sessions
      /\ Queued(Taken(S, m), <<m.req>>).sent = S.sent
    BY <1>5, <1>7, QueuedIs, QueuedSame
<1>9. ASSUME m.tries < MaxRetries PROVE SentAgain(S, m) \in Sessions
    <2>1. TriedAgain(S.sent, m.id) \in Partial(Id, Entries)
        <3>1. PICK D \in SUBSET Id : S.sent \in [D -> Entries]
            BY <1>4 DEF Partial
        <3>2. ASSUME m.id \in D PROVE [S.sent EXCEPT ![m.id].tries = @ + 1] \in [D -> Entries]
            <4>1. S.sent[m.id] \in Entries /\ S.sent[m.id].tries = m.tries
                BY <3>1, <3>2 DEF SessionInv, Good, Filed
            <4>2. [S.sent[m.id] EXCEPT !.tries = @ + 1] \in Entries
                BY <1>3, <1>9, <4>1, WsClientAssumption DEF Entries
            <4>3. QED BY <3>1, <3>2, <4>2
        <3>3. TriedAgain(S.sent, m.id) \in [D -> Entries]
            BY <3>1, <3>2 DEF TriedAgain
        <3>4. QED BY <3>3 DEF Partial
    <2>2. QED BY <1>8, <2>1 DEF Sessions, SentAgain
<1>10. QED BY <1>2, <1>3, <1>6, <1>9 DEF Becomes

\* A message is put at the end of what comes to a session whose thread is there.
LEMMA ToldIs ==
    ASSUME NEW S \in Sessions, NEW m \in Message
    PROVE  /\ Told(S, m) \in Sessions
           /\ Told(S, m).down = IF S.th = "done" THEN S.down ELSE Append(S.down, m)
           /\ Told(S, m).sent = S.sent /\ Told(S, m).stale = S.stale
           /\ Told(S, m).th = S.th /\ Told(S, m).who = S.who
           /\ Told(S, m).open = S.open /\ Told(S, m).conn = S.conn
           /\ Told(S, m).up = S.up /\ Told(S, m).queue = S.queue
           /\ Told(S, m).hand = S.hand /\ Told(S, m).pinger = S.pinger
<1>1. Append(S.down, m) \in Seq(Message)
    BY FieldsAre
<1>2. QED BY <1>1 DEF Told, Sessions

\* The server has taken a request.
Served(S) == [S EXCEPT !.up = Tail(@)]

\* The server takes the first of the requests that came to it.
LEMMA ServedIs ==
    ASSUME NEW S \in Sessions, S.up # <<>>
    PROVE  /\ Served(S) \in Sessions
           /\ Head(S.up).id \in Id /\ Head(S.up).req \in Req
<1> DEFINE q == S.up
           M == [id : Id, req : Req]
<1>1. q \in Seq(M) /\ q # <<>>
    BY FieldsAre
<1> HIDE DEF q, M
<1>2. Tail(q) \in Seq(M) /\ Head(q) \in M
    BY <1>1
<1> USE DEF q, M
<1>3. QED BY <1>2 DEF Served, Sessions

\* What the server answers without a body is a message.
LEMMA AnswerIs ==
    ASSUME NEW id \in Nat, NEW kind \in {"pong", "error", "unauthorized", "unknown",
                                         "close", "none"},
           NEW of \in User \cup Org \cup Wallet \cup {NoOne}
    PROVE  Answer(id, kind, of) \in Message
BY DEF Answer, Message, NoSnapshot, Snapshot

\* Serving a request leaves the server with a state of every wallet.
LEMMA StoreAfter ==
    ASSUME WsType, NEW s \in Session, Serve(s)
    PROVE  store' \in [Wallet -> Snapshot]
<1> DEFINE r == Head(sess[s].up).req
<1>1. sess[s] \in Sessions /\ sess[s].up # <<>> /\ store \in [Wallet -> Snapshot]
    BY ASession DEF Serve, WsType
<1>2. r \in Req
    BY <1>1, ServedIs
<1>3. sess[s].who \in User \cup {NoOne}
    BY <1>1, FieldsAre DEF User
<1>4. CASE r.kind # "edit"
    BY <1>1, <1>4 DEF Serve
<1>5. CASE r.kind = "edit"
    <2>1. r.of \in Wallet /\ r.edit \in Nat
        BY <1>2, <1>5 DEF Req, Request
    <2>2. store[r.of] \in Snapshot
        BY <1>1, <2>1
    <2>3. [rev |-> store[r.of].rev + 1, by |-> sess[s].who, edit |-> r.edit] \in Snapshot
        <3> HIDE DEF r
        <3>1. store[r.of].rev \in Nat
            BY <2>2 DEF Snapshot
        <3>2. QED BY <1>3, <2>1, <3>1 DEF Snapshot
    <2>4. store' = [store EXCEPT ![r.of] = [rev |-> @.rev + 1, by |-> sess[s].who,
                                            edit |-> r.edit]]
        BY <1>5 DEF Serve
    <2>5. QED BY <1>1, <2>1, <2>3, <2>4
<1>6. QED BY <1>4, <1>5

\* What the server answers a request with.
Reply(a, m) == /\ a \in Message /\ a.id = m.id
               /\ a.kind = Expected(m.req) /\ a.of = m.req.of
               /\ a.kind = "wallet" => a.body = store'[a.of]

\* The server replies to the first request.
LEMMA Serves ==
    ASSUME WsType, NEW s \in Session, Serve(s)
    PROVE  /\ sess[s].up # <<>>
           /\ \E a : Reply(a, Head(sess[s].up)) /\ Becomes(s, Told(Served(sess[s]), a))
<1> DEFINE m == Head(sess[s].up)
           r == m.req
           a == IF Expected(r) = "wallet" THEN WalletMessage(m.id, r.of)
                                          ELSE Answer(m.id, Expected(r), r.of)
<1>1. sess[s] \in Sessions /\ sess[s].up # <<>>
    BY ASession DEF Serve
<1>2. m.id \in Id /\ r \in Req /\ Served(sess[s]) \in Sessions
    BY <1>1, ServedIs
<1>3. Reply(a, m)
    <2>1. r.of \in User \cup Org \cup Wallet \cup {NoOne} /\ m.id \in Nat
        BY <1>2 DEF Req, Request, Id
    <2>2. CASE Expected(r) = "wallet"
        <3>1. r.of \in Wallet
            BY <1>2, <2>2 DEF Req, Request, Expected
        <3>2. store'[r.of] \in Snapshot
            BY <3>1, StoreAfter
        <3> DEFINE b == [id |-> m.id, kind |-> "wallet", of |-> r.of, body |-> store'[r.of]]
        <3>3. a = b
            BY <2>2 DEF WalletMessage, Answer
        <3> HIDE DEF a, m, r
        <3>4. b.id = m.id /\ b.kind = "wallet" /\ b.of = r.of /\ b.body = store'[r.of]
            OBVIOUS
        <3>5. b \in Message
            BY <2>1, <3>1, <3>2 DEF Message
        <3> HIDE DEF b
        <3>6. QED BY <2>2, <3>3, <3>4, <3>5 DEF Reply, r
    <2>3. CASE Expected(r) # "wallet"
        <3>1. Expected(r) \in {"pong", "user", "none"}
            BY <1>2, <2>3 DEF Req, Request, Expected
        <3>2. Expected(r) = "user" => r.of \in User
            BY <1>2 DEF Req, Request, Expected
        <3> DEFINE b == [id |-> m.id, kind |-> Expected(r), of |-> r.of, body |-> NoSnapshot]
        <3>3. a = b
            BY <2>3 DEF Answer
        <3>4. NoSnapshot \in Snapshot
            BY DEF NoSnapshot, Snapshot
        <3> HIDE DEF a, m, r
        <3>5. b.id = m.id /\ b.kind = Expected(r) /\ b.of = r.of
            OBVIOUS
        <3>6. b \in Message
            BY <2>1, <3>1, <3>2, <3>4 DEF Message
        <3> HIDE DEF b
        <3>7. QED BY <2>3, <3>3, <3>5, <3>6 DEF Reply, r
    <2>4. QED BY <2>2, <2>3
<1>4. Told(Served(sess[s]), a) \in Sessions
    BY <1>2, <1>3, ToldIs DEF Reply
<1>5. sess' = [sess EXCEPT ![s] = Told(Served(sess[s]), a)]
    BY DEF Serve, Served
<1>6. QED BY <1>1, <1>3, <1>4, <1>5 DEF Becomes

\* What the server denies, or answers with something else, is recorded in lost.
LEMMA ServesOddly ==
    ASSUME WsType, NEW s \in Session, ServeOddly(s)
    PROVE  LET S == sess[s]  m == Head(S.up) IN
           /\ S.up # <<>>
           /\ \/ \E a \in Message :
                    /\ a.id = m.id /\ a.kind \in {"error", "unauthorized", "unknown"}
                    /\ a.kind = "unauthorized" => m.req.kind = "user" /\ lost' = lost
                    /\ a.kind # "unauthorized" =>
                          lost' = IF lost = "no" THEN "refused" ELSE lost
                    /\ Becomes(s, Told(Served(S), a))
              \/ /\ lost' = "unanswered"
                 /\ \E a \in Message : /\ a.kind = "pong"
                                       /\ Becomes(s, Told(Served(S), a))
              \/ lost' = "unanswered" /\ Becomes(s, Served(S))
<1> DEFINE S == sess[s]
           m == Head(S.up)
<1>1. S \in Sessions /\ S.up # <<>>
    BY ASession DEF ServeOddly
<1>2. m.id \in Nat /\ m.req \in Req /\ Served(S) \in Sessions
    BY <1>1, ServedIs DEF Id
<1>3. m.req.of \in User \cup Org \cup Wallet \cup {NoOne}
    BY <1>2 DEF Req, Request
<1>4. \/ \E kind \in {"error", "unauthorized", "unknown"} :
            /\ kind = "unauthorized" => m.req.kind = "user"
            /\ sess' = [sess EXCEPT ![s] = Told(Served(S), Answer(m.id, kind, m.req.of))]
            /\ lost' = IF lost = "no" /\ kind # "unauthorized" THEN "refused" ELSE lost
      \/ /\ sess' = [sess EXCEPT ![s] = Told(Served(S), Answer(m.id, "pong", NoOne))]
         /\ lost' = "unanswered"
      \/ sess' = [sess EXCEPT ![s] = Served(S)] /\ lost' = "unanswered"
    BY DEF ServeOddly, Served
<1>5. \A kind \in {"error", "unauthorized", "unknown"} :
          /\ Answer(m.id, kind, m.req.of) \in Message
          /\ Answer(m.id, kind, m.req.of).id = m.id
          /\ Answer(m.id, kind, m.req.of).kind = kind
    <2>1. \A kind \in {"error", "unauthorized", "unknown"} :
              Answer(m.id, kind, m.req.of) \in Message
        BY <1>2, <1>3, AnswerIs
    <2>2. QED BY <2>1 DEF Answer
<1>6. Answer(m.id, "pong", NoOne) \in Message /\ Answer(m.id, "pong", NoOne).kind = "pong"
    <2>1. Answer(m.id, "pong", NoOne) \in Message
        BY <1>2, AnswerIs
    <2>2. QED BY <2>1 DEF Answer
<1>7. \A a \in Message : Told(Served(S), a) \in Sessions
    BY <1>2, ToldIs
<1>8. QED BY <1>1, <1>2, <1>4, <1>5, <1>6, <1>7 DEF Becomes

\* The server tells a session of an organisation of its user, unasked.
LEMMA Pushes ==
    ASSUME WsType, NEW s \in Session, Push(s)
    PROVE  \E a \in Message : /\ a.id = 0 /\ a.kind = "org" /\ sess[s].who \in MemberOf[a.of]
                              /\ Becomes(s, Told(sess[s], a))
<1>1. PICK o \in Org : /\ sess[s].who \in MemberOf[o]
                       /\ sess' = [sess EXCEPT ![s] = Told(@, Answer(0, "org", o))]
    BY DEF Push
<1>2. Answer(0, "org", o) \in Message
    BY DEF Answer, Message, NoSnapshot, Snapshot
<1>3. sess' = [sess EXCEPT ![s] = Told(sess[s], Answer(0, "org", o))]
    BY <1>1
<1>4. Told(sess[s], Answer(0, "org", o)) \in Sessions
    BY <1>2, ASession, ToldIs
<1>5. /\ Answer(0, "org", o).id = 0 /\ Answer(0, "org", o).kind = "org"
      /\ Answer(0, "org", o).of = o
    BY DEF Answer
<1>6. QED BY <1>1, <1>2, <1>3, <1>4, <1>5 DEF Becomes

\* The server tells a session of somebody's removal.
LEMMA RemovesMember ==
    ASSUME WsType, NEW s \in Session, RemoveMember(s)
    PROVE  \E a \in Message : /\ a.id = 0 /\ a.kind = "removed"
                              /\ Becomes(s, Told(sess[s], a))
<1>1. PICK o \in Org : \E u \in MemberOf[o] :
          sess' = [sess EXCEPT ![s] = Told(@, [Answer(0, "removed", o) EXCEPT !.body.by = u])]
    BY DEF RemoveMember
<1>2. PICK u \in MemberOf[o] :
          sess' = [sess EXCEPT ![s] = Told(@, [Answer(0, "removed", o) EXCEPT !.body.by = u])]
    BY <1>1
<1> DEFINE a == [Answer(0, "removed", o) EXCEPT !.body.by = u]
<1>3. u \in User
    BY <1>1, WsClientAssumption
<1>4. a = [id |-> 0, kind |-> "removed", of |-> o, body |-> [NoSnapshot EXCEPT !.by = u]]
    BY DEF Answer
<1>5. [NoSnapshot EXCEPT !.by = u] \in Snapshot
    BY <1>3 DEF NoSnapshot, Snapshot
<1>6. a \in Message /\ a.id = 0 /\ a.kind = "removed"
    BY <1>4, <1>5 DEF Message
<1>7. Told(sess[s], a) \in Sessions
    BY <1>6, ASession, ToldIs
<1>8. sess' = [sess EXCEPT ![s] = Told(sess[s], a)]
    BY <1>2
<1> HIDE DEF a
<1>9. QED BY <1>6, <1>7, <1>8 DEF Becomes

\* The server closes: what came to it is gone, and it tells nothing more.
LEMMA ServerCloseIs ==
    ASSUME WsType, NEW s \in Session, ServerCloses(s)
    PROVE  \E a \in Message : /\ a.id = 0 /\ a.kind = "close"
                              /\ Becomes(s, [Told(sess[s], a) EXCEPT !.open = FALSE,
                                                                     !.up = <<>>])
<1> DEFINE a == Answer(0, "close", NoOne)
<1>1. a \in Message
    BY AnswerIs
<1>2. a.id = 0 /\ a.kind = "close"
    BY DEF Answer
<1> HIDE DEF a
<1>3. Told(sess[s], a) \in Sessions
    BY <1>1, ASession, ToldIs
<1>4. [Told(sess[s], a) EXCEPT !.open = FALSE, !.up = <<>>] \in Sessions
    <2>1. <<>> \in Seq([id : Id, req : Req])
        OBVIOUS
    <2>2. QED BY <1>3, <2>1 DEF Sessions
<1>5. sess' = [sess EXCEPT ![s] = [Told(sess[s], a) EXCEPT !.open = FALSE, !.up = <<>>]]
    BY DEF ServerCloses, a
<1>6. QED BY <1>1, <1>2, <1>4, <1>5 DEF Becomes

\* Somebody else's edit raises the revision of one wallet, and tells its members'
\* sessions.
LEMMA ForeignEdits ==
    ASSUME WsType, NEW w \in Wallet, ForeignEdit(w)
    PROVE  /\ store' \in [Wallet -> Snapshot]
           /\ \A v \in Wallet : /\ store'[v].edit = store[v].edit
                                /\ store'[v].rev >= store[v].rev
           /\ \E a \in Message :
                 /\ a.id = 0 /\ a.kind = "wallet" /\ a.of = w /\ a.body = store'[w]
                 /\ sess' \in Seq(Sessions) /\ Session' = Session /\ Len(sess') = Len(sess)
                 /\ Current' = Current
                 /\ \A s \in Session :
                       sess'[s] = IF /\ sess[s].th = "loop" /\ sess[s].open
                                     /\ sess[s].who \in MemberOf[OrgOf[w]]
                                  THEN Told(sess[s], a) ELSE sess[s]
<1> DEFINE a == WalletMessage(0, w)
<1>1. PICK u \in MemberOf[OrgOf[w]] : store' = [store EXCEPT ![w].rev = @ + 1, ![w].by = u]
    BY DEF ForeignEdit
<1>2. u \in User /\ store \in [Wallet -> Snapshot]
    BY <1>1, WsClientAssumption DEF WsType
<1>3. store[w] \in Snapshot
    BY <1>2
<1>4. [store[w] EXCEPT !.rev = @ + 1, !.by = u] \in Snapshot
    <2> DEFINE W == store[w]
    <2>1. W \in Snapshot
        BY <1>3
    <2> HIDE DEF W
    <2>2. W.rev + 1 \in Nat /\ u \in User \cup {NoOne}
        BY <1>2, <2>1 DEF Snapshot
    <2>3. [W EXCEPT !.rev = W.rev + 1, !.by = u] \in Snapshot
        BY <2>1, <2>2 DEF Snapshot
    <2>4. QED BY <2>3 DEF W
<1>5. store' = [store EXCEPT ![w] = [store[w] EXCEPT !.rev = @ + 1, !.by = u]]
    BY <1>1, <1>2, <1>3 DEF Snapshot
<1>6. store' \in [Wallet -> Snapshot]
    BY <1>2, <1>4, <1>5
<1>7. \A v \in Wallet : /\ store'[v].edit = store[v].edit
                        /\ store'[v].rev >= store[v].rev
    BY <1>2, <1>5, <1>3 DEF Snapshot
<1>8. a = [id |-> 0, kind |-> "wallet", of |-> w, body |-> store'[w]]
    BY DEF WalletMessage, Answer
<1>9. a \in Message
    BY <1>6, <1>8 DEF Message
<1>10. sess \in Seq(Sessions)
    BY DEF WsType
<1>11. sess' = [s \in Session |->
                   IF /\ sess[s].th = "loop" /\ sess[s].open
                      /\ sess[s].who \in MemberOf[OrgOf[w]]
                   THEN Told(sess[s], a) ELSE sess[s]]
    BY DEF ForeignEdit
<1>12. \A s \in Session : Told(sess[s], a) \in Sessions /\ sess[s] \in Sessions
    BY <1>9, ASession, ToldIs
<1> HIDE DEF a
<1>13. Session = 1 .. Len(sess) /\ Len(sess) \in Nat
    BY <1>10 DEF Session
<1>14. sess' \in Seq(Sessions) /\ Len(sess') = Len(sess) /\ DOMAIN sess' = Session
    BY <1>11, <1>12, <1>13
<1>15. Session' = Session /\ Current' = Current
    BY <1>14 DEF Session, Current
<1>16. QED BY <1>6, <1>7, <1>8, <1>9, <1>11, <1>14, <1>15

-----------------------------------------------------------------------------
(* The client. *)

CloseOf(S) == [Queued(S, <<Close>>) EXCEPT !.conn = FALSE]

\* close() queues its request and takes the connection for closed.
LEMMA CloseOfIs ==
    ASSUME NEW S \in Sessions
    PROVE  /\ CloseOf(S) \in Sessions /\ ~CloseOf(S).conn
           /\ CloseOf(S).queue = IF S.th = "done" THEN S.queue ELSE S.queue \o <<Close>>
           /\ CloseOf(S).sent = S.sent /\ CloseOf(S).stale = S.stale
           /\ CloseOf(S).th = S.th /\ CloseOf(S).who = S.who /\ CloseOf(S).open = S.open
           /\ CloseOf(S).up = S.up /\ CloseOf(S).down = S.down
           /\ CloseOf(S).hand = S.hand /\ CloseOf(S).pinger = S.pinger
<1> DEFINE Q == Queued(S, <<Close>>)
<1>1. <<Close>> \in Seq(Req)
    BY FetchesAreReq
<1>2. Q \in Sessions
    BY <1>1, QueuedIs
<1>3. /\ Q.sent = S.sent /\ Q.stale = S.stale
      /\ Q.th = S.th /\ Q.who = S.who /\ Q.open = S.open
      /\ Q.up = S.up /\ Q.down = S.down /\ Q.hand = S.hand /\ Q.pinger = S.pinger
      /\ Q.queue = IF S.th = "done" THEN S.queue ELSE S.queue \o <<Close>>
    BY <1>1, QueuedSame
<1> HIDE DEF Q
<1>4. [Q EXCEPT !.conn = FALSE] \in Sessions
    BY <1>2 DEF Sessions
<1>5. CloseOf(S) = [Q EXCEPT !.conn = FALSE]
    BY DEF CloseOf, Q
<1> DEFINE C == [Q EXCEPT !.conn = FALSE]
<1>6. /\ ~C.conn /\ C.queue = Q.queue /\ C.sent = Q.sent /\ C.stale = Q.stale
      /\ C.th = Q.th /\ C.who = Q.who /\ C.open = Q.open
      /\ C.up = Q.up /\ C.down = Q.down /\ C.hand = Q.hand /\ C.pinger = Q.pinger
    BY <1>2 DEF Sessions
<1>7. C \in Sessions /\ CloseOf(S) = C
    BY <1>4, <1>5
<1> HIDE DEF C
<1>8. QED BY <1>3, <1>6, <1>7

\* Closing concerns the current session only.
LEMMA ClosedIs ==
    ASSUME WsType
    PROVE  /\ Closed \in Seq(Sessions) /\ Len(Closed) = Len(sess)
           /\ \A s \in Session :
                 Closed[s] = IF Connected /\ s = Current THEN CloseOf(sess[s]) ELSE sess[s]
<1>1. sess \in Seq(Sessions)
    BY DEF WsType
<1>2. CASE ~Connected
    BY <1>1, <1>2 DEF Closed
<1>3. CASE Connected
    <2>1. Current \in Session
        BY <1>1, <1>3 DEF Connected, Current, Session
    <2>2. Closed = [sess EXCEPT ![Current] = CloseOf(sess[Current])]
        BY <1>1, <1>3, <2>1 DEF Closed, CloseOf, Session
    <2>3. CloseOf(sess[Current]) \in Sessions
        BY <2>1, ASession, CloseOfIs
    <2>4. QED BY <1>1, <1>3, <2>1, <2>2, <2>3 DEF Session
<1>4. QED BY <1>2, <1>3

\* A new session has nothing.
LEMMA NewSessionIs ==
    ASSUME NEW mail \in Account \cup {NoOne}
    PROVE  NewSession(mail) \in Sessions /\ DOMAIN NewSession(mail).sent = {}
<1>1. <<>> \in [{} -> Entries]
    OBVIOUS
<1>2. <<>> \in Partial(Id, Entries)
    BY <1>1 DEF Partial
<1>3. /\ <<>> \in Seq(Req) /\ <<>> \in Seq([id : Id, req : Req]) /\ <<>> \in Seq(Message)
    OBVIOUS
<1>4. {} \in SUBSET [id : Id, req : Req, tries : 0 .. MaxRetries]
    OBVIOUS
<1>5. QED BY <1>1, <1>2, <1>3, <1>4, NoMessageIs DEF NewSession, Sessions

\* connect_ws() closes the session there was and starts a new one, the last.
LEMMA ConnectsWs ==
    ASSUME WsType, ConnectWs
    PROVE  /\ sess' \in Seq(Sessions) /\ Len(sess') = Len(sess) + 1 /\ sess' # <<>>
           /\ Session' = Session \cup {Len(sess) + 1} /\ Current' = Len(sess) + 1
           /\ sess'[Current'] = NewSession(email)
           /\ \A s \in Session :
                 /\ s < Current' /\ s # Current' /\ s <= Current
                 /\ sess'[s] = IF Connected /\ s = Current THEN CloseOf(sess[s]) ELSE sess[s]
<1>1. Closed \in Seq(Sessions) /\ Len(Closed) = Len(sess) /\ sess \in Seq(Sessions)
    BY ClosedIs DEF WsType
<1>2. NewSession(email) \in Sessions
    BY NewSessionIs DEF WsType
<1>3. sess' = Append(Closed, NewSession(email))
    BY DEF ConnectWs
<1>4. /\ sess' \in Seq(Sessions) /\ Len(sess') = Len(sess) + 1
      /\ sess'[Len(sess) + 1] = NewSession(email)
      /\ \A s \in 1 .. Len(sess) : sess'[s] = Closed[s]
    BY <1>1, <1>2, <1>3, AppendProperties
<1>5. Session = 1 .. Len(sess) /\ Len(sess) \in Nat
    BY <1>1 DEF Session
<1>6. Session' = 1 .. Len(sess) + 1 /\ Current' = Len(sess) + 1 /\ Current = Len(sess)
    BY <1>4 DEF Session, Current
<1>7. QED BY <1>4, <1>5, <1>6, ClosedIs

\* logout() closes the current session.
LEMMA LogsOut ==
    ASSUME WsType, Logout
    PROVE  /\ sess' \in Seq(Sessions) /\ Len(sess') = Len(sess)
           /\ Session' = Session /\ Current' = Current
           /\ \A s \in Session :
                 sess'[s] = IF Connected /\ s = Current THEN CloseOf(sess[s]) ELSE sess[s]
<1>1. Closed \in Seq(Sessions) /\ Len(Closed) = Len(sess) /\ sess \in Seq(Sessions)
    BY ClosedIs DEF WsType
<1>2. sess' = Closed
    BY DEF Logout
<1>3. Session' = Session /\ Current' = Current
    BY <1>1, <1>2 DEF Session, Current
<1>4. QED BY <1>1, <1>2, <1>3, ClosedIs

\* An edit is queued in the current session, numbered after those before it.
LEMMA Edits ==
    ASSUME WsType, NEW w \in Wallet, Edit(w)
    PROVE  \/ UNCHANGED <<sess, edits>>
           \/ /\ Connected /\ Current \in Session /\ edits' = edits + 1
              /\ EditWallet(w, edits') \in Req
              /\ Becomes(Current, Queued(sess[Current], <<EditWallet(w, edits')>>))
<1>1. CASE ~Connected
    BY <1>1 DEF Edit
<1>2. CASE Connected
    <2>1. sess \in Seq(Sessions) /\ edits \in Nat
        BY DEF WsType
    <2>2. Current \in Session
        BY <1>2, <2>1 DEF Connected, Current, Session
    <2>3. edits' = edits + 1
        BY <1>2 DEF Edit
    <2>4. EditWallet(w, edits') \in Req
        BY <2>1, <2>3, FetchesAreReq
    <2>5. Queued(sess[Current], <<EditWallet(w, edits')>>) \in Sessions
        <3>1. <<EditWallet(w, edits')>> \in Seq(Req)
            BY <2>4
        <3>2. QED BY <2>2, <3>1, ASession, QueuedIs
    <2>6. sess' = [sess EXCEPT ![Current] = Queued(sess[Current], <<EditWallet(w, edits')>>)]
        BY <1>2 DEF Edit
    <2>7. QED BY <1>2, <2>2, <2>3, <2>4, <2>5, <2>6 DEF Becomes
<1>3. QED BY <1>1, <1>2

-----------------------------------------------------------------------------
(* Types. *)

\* What the notifications and the budget are after a step.
LEMMA NotifyIs ==
    ASSUME WsType
    PROVE  /\ \A n \in {"Connected", "Disconnected", "Error", "LoginSuccess"} :
                 Notify(n) \/ NotifyAsleep(n) =>
                    /\ notifs' \in Seq({"Connected", "Disconnected", "Error", "LoginSuccess"})
                    /\ awake' \in BOOLEAN
           /\ \A b \in Bounded : Spend(b) => left' \in [Bounded -> Nat]
<1>1. /\ notifs \in Seq({"Connected", "Disconnected", "Error", "LoginSuccess"})
      /\ awake \in BOOLEAN /\ left \in [Bounded -> Nat]
    BY DEF WsType
<1>2. \A b \in Bounded : Spend(b) => left' \in [Bounded -> Nat]
    BY <1>1 DEF Spend
<1>3. ASSUME NEW n \in {"Connected", "Disconnected", "Error", "LoginSuccess"},
             Notify(n) \/ NotifyAsleep(n)
      PROVE  /\ notifs' \in Seq({"Connected", "Disconnected", "Error", "LoginSuccess"})
             /\ awake' \in BOOLEAN
    <2> DEFINE N == {"Connected", "Disconnected", "Error", "LoginSuccess"}
    <2>1. notifs \in Seq(N) /\ n \in N
        BY <1>1, <1>3
    <2> HIDE DEF N
    <2>2. Append(notifs, n) \in Seq(N)
        BY <2>1
    <2>3. notifs' = Append(notifs, n) /\ awake' \in BOOLEAN
        BY <1>1, <1>3 DEF Notify, NotifyAsleep
    <2>4. QED BY <2>2, <2>3 DEF N
<1>4. QED BY <1>2, <1>3

\* The variables that are not the sessions.
Rest == /\ {token, email, authClient, picked, userId} \subseteq Account \cup {NoOne}
        /\ orgs \subseteq Org /\ users \subseteq User
        /\ wallets \in Partial(Wallet, Snapshot)
        /\ saved \subseteq Account /\ verifying \subseteq Account
        /\ view \in {"select", "in"} /\ processing \in BOOLEAN
        /\ notifs \in Seq({"Connected", "Disconnected", "Error", "LoginSuccess"})
        /\ awake \in BOOLEAN
        /\ store \in [Wallet -> Snapshot]
        /\ left \in [Bounded -> Nat]
        /\ {strayed, resent} \subseteq BOOLEAN
        /\ lost \in {"no", "refused", "unanswered"}
        /\ edits \in Nat

\* The types, but for the sessions'.
LEMMA RestIs == WsType <=> sess \in Seq(Sessions) /\ Rest
BY DEF WsType, Rest

\* Every bound that the actions use has a budget.
LEMMA BudgetsNamed ==
    {"sessions", "codes", "edits", "foreign", "pushes", "pings", "sweeps", "odd",
     "closes", "logouts"} \subseteq Bounded
BY DEF Bounded

\* Once strayed, a run stays so.
LEMMA StrayedIs ==
    ASSUME WsType
    PROVE  /\ ConnectWs => strayed' \in BOOLEAN /\ (strayed => strayed')
           /\ Logout => strayed' \in BOOLEAN /\ (strayed => strayed')
BY DEF WsType, ConnectWs, Logout

\* What the GUI does keeps the types.
LEMMA GuiType ==
    ASSUME WsType, Gui
    PROVE  WsType'
<1>1. ASSUME NEW a \in Account, SelectAccount(a) PROVE WsType'
    <2>1. sess' \in Seq(Sessions) /\ strayed' \in BOOLEAN
        BY <1>1, ConnectsWs, StrayedIs DEF SelectAccount
    <2>2. left' \in [Bounded -> Nat]
        BY <1>1, NotifyIs, BudgetsNamed DEF SelectAccount
    <2>3. Rest'
        BY <1>1, <2>1, <2>2, RestIs DEF SelectAccount, Rest, cacheVars, notifVars
    <2>4. QED BY <2>1, <2>3 DEF WsType, Rest
<1>2. ASSUME NEW a \in Account, AuthRequest(a) PROVE WsType'
    BY <1>2 DEF AuthRequest, WsType, cacheVars, guiVars, notifVars, auxVars
<1>3. ASSUME NEW a \in Account, CodeVerified(a) PROVE WsType'
    <2>1. /\ notifs' \in Seq({"Connected", "Disconnected", "Error", "LoginSuccess"})
          /\ awake' \in BOOLEAN
        BY <1>3, NotifyIs DEF CodeVerified
    <2>2. QED BY <1>3, <2>1 DEF CodeVerified, WsType, cacheVars, guiVars, auxVars
<1>4. ASSUME AuthCode PROVE WsType'
    <2>1. left' \in [Bounded -> Nat]
        BY <1>4, NotifyIs, BudgetsNamed DEF AuthCode
    <2>2. QED BY <1>4, <2>1 DEF AuthCode, WsType, cacheVars, guiVars, notifVars, auxVars
<1>5. ASSUME Logout PROVE WsType'
    <2>1. sess' \in Seq(Sessions) /\ strayed' \in BOOLEAN
        BY <1>5, LogsOut, StrayedIs
    <2>2. left' \in [Bounded -> Nat]
        BY <1>5, NotifyIs, BudgetsNamed DEF Logout
    <2>3. wallets' \in Partial(Wallet, Snapshot)
        <3>1. <<>> \in [{} -> Snapshot]
            OBVIOUS
        <3>2. QED BY <1>5, <3>1 DEF Logout, Partial
    <2>4. Rest'
        BY <1>5, <2>1, <2>2, <2>3, RestIs DEF Logout, Rest, notifVars
    <2>5. QED BY <2>1, <2>4 DEF WsType, Rest
<1>6. ASSUME NEW w \in Wallet, Edit(w) PROVE WsType'
    <2>1. sess' \in Seq(Sessions) /\ edits' \in Nat
        <3>1. CASE UNCHANGED <<sess, edits>>
            BY <3>1 DEF WsType
        <3>2. CASE /\ Current \in Session /\ edits' = edits + 1
                   /\ Becomes(Current, Queued(sess[Current], <<EditWallet(w, edits')>>))
            <4>1. sess' \in Seq(Sessions)
                BY <3>2, Others
            <4>2. edits' \in Nat
                BY <3>2 DEF WsType
            <4>3. QED BY <4>1, <4>2
        <3>3. QED BY <1>6, <3>1, <3>2, Edits
    <2>2. /\ notifs' \in Seq({"Connected", "Disconnected", "Error", "LoginSuccess"})
          /\ awake' \in BOOLEAN
        BY <1>6, NotifyIs, RestIs DEF Edit, notifVars, Rest
    <2>3. left' \in [Bounded -> Nat]
        BY <1>6, NotifyIs, BudgetsNamed DEF Edit
    <2>4. Rest'
        BY <1>6, <2>1, <2>2, <2>3, RestIs DEF Edit, Rest, clientVars, cacheVars, guiVars
    <2>5. QED BY <2>1, <2>4 DEF WsType, Rest
<1>7. ASSUME HandleNotif PROVE WsType'
    <2>1. notifs' \in Seq({"Connected", "Disconnected", "Error", "LoginSuccess"})
        BY <1>7 DEF HandleNotif, WsType
    <2>2. CASE UNCHANGED <<sess, strayed>>
        BY <1>7, <2>1, <2>2 DEF HandleNotif, ConnectionFailed, WsType, cacheVars, guiVars
    <2>3. CASE ConnectWs /\ UNCHANGED <<token, saved, processing, picked, left>> /\ view' = "in"
        <3>1. sess' \in Seq(Sessions) /\ strayed' \in BOOLEAN
            BY <2>3, ConnectsWs, StrayedIs
        <3>2. Rest'
            BY <1>7, <2>1, <2>3, <3>1, RestIs DEF HandleNotif, Rest, cacheVars
        <3>3. QED BY <3>1, <3>2 DEF WsType, Rest
    <2>4. QED BY <1>7, <2>2, <2>3 DEF HandleNotif, ConnectionFailed, guiVars
<1>8. ASSUME PollPending PROVE WsType'
    BY <1>8 DEF PollPending, WsType, clientVars, cacheVars, guiVars, auxVars
<1>9. QED BY <1>1, <1>2, <1>3, <1>4, <1>5, <1>6, <1>7, <1>8 DEF Gui

\* What a session's thread does keeps the types.
LEMMA WssThreadType ==
    ASSUME WsType, SessionInv, NEW s \in Session, WssThread(s)
    PROVE  WsType'
<1>1. ASSUME TakeToken(s) PROVE WsType'
    <2>1. sess' \in Seq(Sessions) /\ token' \in Account \cup {NoOne}
        <3>1. CASE token' = NoOne /\ Becomes(s, [sess[s] EXCEPT !.th = "done"])
            BY <3>1, Others
        <3>2. CASE /\ token' \in Account
                   /\ Becomes(s, [sess[s] EXCEPT !.th = "handshake", !.who = token'])
            BY <3>2, Others
        <3>3. QED BY <1>1, <3>1, <3>2, TakesToken
    <2>2. /\ notifs' \in Seq({"Connected", "Disconnected", "Error", "LoginSuccess"})
          /\ awake' \in BOOLEAN
        BY <1>1, NotifyIs, RestIs DEF TakeToken, notifVars, Rest
    <2>3. Rest'
        BY <1>1, <2>1, <2>2, RestIs DEF TakeToken, ThreadFrame, Rest, cacheVars, guiVars
    <2>4. QED BY <2>1, <2>3 DEF WsType, Rest
<1>2. ASSUME Handshake(s) PROVE WsType'
    <2>1. sess' \in Seq(Sessions) /\ userId' \in Account
        BY <1>2, Handshakes, Others DEF Handshake
    <2>2. /\ notifs' \in Seq({"Connected", "Disconnected", "Error", "LoginSuccess"})
          /\ awake' \in BOOLEAN
        BY <1>2, NotifyIs DEF Handshake
    <2>3. Rest'
        BY <1>2, <2>1, <2>2, RestIs DEF Handshake, ThreadFrame, Rest, cacheVars, guiVars
    <2>4. QED BY <2>1, <2>3 DEF WsType, Rest
<1>3. ASSUME HandshakeFails(s) PROVE WsType'
    <2>1. sess' \in Seq(Sessions)
        BY <1>3, HandshakeFailing, Others
    <2>2. /\ notifs' \in Seq({"Connected", "Disconnected", "Error", "LoginSuccess"})
          /\ awake' \in BOOLEAN /\ left' \in [Bounded -> Nat]
        BY <1>3, NotifyIs, BudgetsNamed DEF HandshakeFails
    <2>3. Rest'
        BY <1>3, <2>1, <2>2, RestIs DEF HandshakeFails, ThreadFrame, Rest, cacheVars, guiVars
    <2>4. QED BY <2>1, <2>3 DEF WsType, Rest
<1>4. ASSUME LoopRecv(s) PROVE WsType'
    <2>1. sess' \in Seq(Sessions)
        BY <1>4, LoopReceives, Others
    <2>2. /\ notifs' \in Seq({"Connected", "Disconnected", "Error", "LoginSuccess"})
          /\ awake' \in BOOLEAN
        BY <1>4, NotifyIs, RestIs DEF LoopRecv, notifVars, Rest
    <2>3. Rest'
        BY <1>4, <2>1, <2>2, RestIs DEF LoopRecv, ThreadFrame, Rest, cacheVars, guiVars
    <2>4. QED BY <2>1, <2>3 DEF WsType, Rest
<1>5. ASSUME LoopRead(s) PROVE WsType'
    <2>1. sess' \in Seq(Sessions)
        BY <1>5, LoopReads, Others
    <2>2. /\ notifs' \in Seq({"Connected", "Disconnected", "Error", "LoginSuccess"})
          /\ awake' \in BOOLEAN
        BY <1>5, NotifyIs, RestIs DEF LoopRead, notifVars, Rest
    <2>3. Rest'
        BY <1>5, <2>1, <2>2, RestIs DEF LoopRead, ThreadFrame, Rest, cacheVars, guiVars
    <2>4. QED BY <2>1, <2>3 DEF WsType, Rest
<1>6. ASSUME Handle(s) PROVE WsType'
    <2>1. sess' \in Seq(Sessions)
        BY <1>6, Handlings, Others DEF Handle
    <2>2. /\ notifs' \in Seq({"Connected", "Disconnected", "Error", "LoginSuccess"})
          /\ awake' \in BOOLEAN
        <3>1. \/ UNCHANGED notifVars \/ Wake \/ Notify("Error")
            BY <1>6 DEF Handle, HandleUnknown, HandleError, HandleMismatch, HandlePong,
                        HandleOrg, HandleWallet, HandleUser, HandleRemoved
        <3>2. QED BY <3>1, NotifyIs, RestIs DEF notifVars, Wake, Rest
    <2>3. orgs' \subseteq Org /\ users' \subseteq User /\ wallets' \in Partial(Wallet, Snapshot)
        <3>1. orgs \subseteq Org /\ users \subseteq User /\ wallets \in Partial(Wallet, Snapshot)
            BY DEF WsType
        <3>2. CASE HandleUnknown(s) \/ HandleMismatch(s) \/ HandlePong(s)
            BY <3>1, <3>2 DEF HandleUnknown, HandleMismatch, HandlePong, cacheVars
        <3>3. CASE HandleError(s)
            <4>1. Entry(s).kind = "user" => Entry(s).of \in User
                <5>1. Entry(s) \in Req
                    <6>1. sess[s].sent \in Partial(Id, Entries)
                        BY ASession, FieldsAre
                    <6>2. \A i \in DOMAIN sess[s].sent : sess[s].sent[i].req \in Req
                        BY <6>1 DEF Partial, Entries
                    <6>3. QED BY <6>2, FetchesAreReq DEF Entry
                <5>2. QED BY <5>1 DEF Req
            <4>2. QED BY <3>1, <3>3, <4>1 DEF HandleError
        <3>4. CASE HandleOrg(s) \/ HandleUser(s) \/ HandleRemoved(s)
            BY <3>1, <3>4, InHandIs DEF HandleOrg, HandleUser, HandleRemoved
        <3>5. CASE HandleWallet(s)
            BY <3>1, <3>5, InHandIs, WithIs DEF HandleWallet
        <3>6. QED BY <1>6, <3>2, <3>3, <3>4, <3>5 DEF Handle
    <2>4. Rest'
        BY <1>6, <2>1, <2>2, <2>3, RestIs DEF Handle, HandledFrame, ThreadFrame, Rest, guiVars
    <2>5. QED BY <2>1, <2>4 DEF WsType, Rest
<1>7. QED BY <1>1, <1>2, <1>3, <1>4, <1>5, <1>6 DEF WssThread

\* What the pinger and the timeouts do keeps the types.
LEMMA TimersType ==
    ASSUME WsType, SessionInv, NEW s \in Session, Timers(s)
    PROVE  WsType'
<1>1. sess' \in Seq(Sessions)
    <2>1. CASE PingSend(s)
        BY <2>1, PingSends, Others
    <2>2. CASE PingRecord(s)
        BY <2>2, PingRecords, Others
    <2>3. CASE PingTimeout(s)
        BY <2>3, PingTimesOut, Others
    <2>4. CASE FindStale(s)
        BY <2>4, FindsStale, Others
    <2>5. CASE SweepOne(s)
        BY <2>5, SweepsOne, Others
    <2>6. QED BY <2>1, <2>2, <2>3, <2>4, <2>5 DEF Timers
<1>2. /\ notifs' \in Seq({"Connected", "Disconnected", "Error", "LoginSuccess"})
      /\ awake' \in BOOLEAN
    <2>1. \/ UNCHANGED notifVars \/ NotifyAsleep("Disconnected") \/ Notify("Error")
        BY DEF Timers, PingSend, PingRecord, PingTimeout, FindStale, SweepOne
    <2>2. QED BY <2>1, NotifyIs, RestIs DEF notifVars, Rest
<1>3. left' \in [Bounded -> Nat]
    <2>1. \/ UNCHANGED left \/ Spend("pings") \/ Spend("sweeps")
        BY DEF Timers, PingSend, PingRecord, PingTimeout, FindStale, SweepOne
    <2>2. QED BY <2>1, NotifyIs, BudgetsNamed, RestIs DEF Rest
<1>4. resent' \in BOOLEAN
    BY RestIs DEF Rest, Timers, PingSend, PingRecord, PingTimeout, FindStale, SweepOne
<1>5. OtherFrame
    BY DEF Timers, PingSend, PingRecord, PingTimeout, FindStale, SweepOne
<1>6. Rest'
    BY <1>2, <1>3, <1>4, <1>5, RestIs DEF Rest, OtherFrame, ThreadFrame, cacheVars, guiVars
<1>7. QED BY <1>1, <1>6 DEF WsType, Rest

\* What the server and other users do keeps the types.
LEMMA ServerType ==
    ASSUME WsType, (\E s \in Session : Server(s)) \/ (\E w \in Wallet : ForeignEdit(w))
    PROVE  WsType'
<1>1. ASSUME NEW s \in Session, Server(s)
      PROVE  /\ sess' \in Seq(Sessions) /\ store' \in [Wallet -> Snapshot]
             /\ left' \in [Bounded -> Nat] /\ lost' \in {"no", "refused", "unanswered"}
             /\ ServerFrame
    <2>1. CASE Serve(s)
        BY <2>1, Serves, Others, StoreAfter, RestIs DEF Serve, Rest
    <2>2. CASE ServeOddly(s)
        BY <2>2, ServesOddly, Others, NotifyIs, BudgetsNamed, RestIs DEF ServeOddly, Rest
    <2>3. CASE Push(s)
        BY <2>3, Pushes, Others, NotifyIs, BudgetsNamed, RestIs DEF Push, Rest
    <2>4. CASE RemoveMember(s)
        BY <2>4, RemovesMember, Others, NotifyIs, BudgetsNamed, RestIs DEF RemoveMember, Rest
    <2>5. CASE ServerCloses(s)
        BY <2>5, ServerCloseIs, Others, NotifyIs, BudgetsNamed, RestIs DEF ServerCloses, Rest
    <2>6. QED BY <1>1, <2>1, <2>2, <2>3, <2>4, <2>5 DEF Server
<1>2. ASSUME NEW w \in Wallet, ForeignEdit(w)
      PROVE  /\ sess' \in Seq(Sessions) /\ store' \in [Wallet -> Snapshot]
             /\ left' \in [Bounded -> Nat] /\ lost' \in {"no", "refused", "unanswered"}
             /\ ServerFrame
    BY <1>2, ForeignEdits, NotifyIs, BudgetsNamed, RestIs DEF ForeignEdit, Rest
<1>3. /\ sess' \in Seq(Sessions) /\ store' \in [Wallet -> Snapshot]
      /\ left' \in [Bounded -> Nat] /\ lost' \in {"no", "refused", "unanswered"}
      /\ ServerFrame
    BY <1>1, <1>2
<1>4. Rest'
    BY <1>3, RestIs DEF Rest, ServerFrame, clientVars, cacheVars, guiVars, notifVars
<1>5. QED BY <1>3, <1>4 DEF WsType, Rest

\* The first state.
LEMMA InitType ==
    ASSUME WsInit
    PROVE  WsType /\ SessionInv
<1>1. sess \in Seq(Sessions) /\ Session = {}
    BY DEF WsInit, Session
<1>2. wallets \in Partial(Wallet, Snapshot)
    <2>1. <<>> \in [{} -> Snapshot]
        OBVIOUS
    <2>2. QED BY <2>1 DEF WsInit, Partial
<1>3. store \in [Wallet -> Snapshot]
    BY DEF WsInit, NoSnapshot, Snapshot
<1>4. left \in [Bounded -> Nat]
    BY WsClientAssumption DEF WsInit
<1>5. notifs \in Seq({"Connected", "Disconnected", "Error", "LoginSuccess"})
    BY DEF WsInit
<1>6. QED BY <1>1, <1>2, <1>3, <1>4, <1>5 DEF WsInit, WsType, SessionInv

\* Every step keeps the types.
LEMMA NextType ==
    ASSUME WsType, SessionInv, WsNext
    PROVE  WsType'
<1>1. CASE Gui
    BY <1>1, GuiType
<1>2. CASE \E s \in Session : WssThread(s) \/ Timers(s) \/ Server(s)
    BY <1>2, WssThreadType, TimersType, ServerType
<1>3. CASE \E w \in Wallet : ForeignEdit(w)
    BY <1>3, ServerType
<1>4. QED BY <1>1, <1>2, <1>3 DEF WsNext

-----------------------------------------------------------------------------
(* The sessions. *)

\* The elements of a sequence that is read at its end or written at the other.
LEMMA ToSetOf ==
    ASSUME NEW T, NEW q \in Seq(T)
    PROVE  /\ q # <<>> => ToSet(q) = {Head(q)} \cup ToSet(Tail(q))
           /\ \A x \in T : ToSet(Append(q, x)) = ToSet(q) \cup {x}
           /\ \A p \in Seq(T) : ToSet(q \o p) = ToSet(q) \cup ToSet(p)
           /\ ToSet(q) \subseteq T
<1>1. ASSUME q # <<>> PROVE ToSet(q) = {Head(q)} \cup ToSet(Tail(q))
    <2>1. ASSUME NEW i \in 1 .. Len(q) PROVE q[i] \in {Head(q)} \cup ToSet(Tail(q))
        <3>1. CASE i = 1
            BY <1>1, <3>1
        <3>2. CASE i # 1
            <4>1. i - 1 \in DOMAIN Tail(q) /\ Tail(q)[i - 1] = q[i]
                BY <1>1, <3>2
            <4>2. QED BY <4>1 DEF ToSet
        <3>3. QED BY <3>1, <3>2
    <2>2. ASSUME NEW i \in DOMAIN Tail(q) PROVE Tail(q)[i] \in ToSet(q)
        <3>1. i + 1 \in DOMAIN q /\ Tail(q)[i] = q[i + 1]
            BY <1>1
        <3>2. QED BY <3>1 DEF ToSet
    <2>3. Head(q) \in ToSet(q)
        BY <1>1 DEF ToSet
    <2>4. QED BY <2>1, <2>2, <2>3 DEF ToSet
<1>2. ASSUME NEW x \in T PROVE ToSet(Append(q, x)) = ToSet(q) \cup {x}
    <2>1. /\ DOMAIN Append(q, x) = 1 .. Len(q) + 1 /\ Append(q, x)[Len(q) + 1] = x
          /\ \A i \in 1 .. Len(q) : Append(q, x)[i] = q[i]
          /\ DOMAIN q = 1 .. Len(q) /\ Len(q) \in Nat
        BY AppendProperties
    <2>2. \A i \in 1 .. Len(q) + 1 : i \in 1 .. Len(q) \/ i = Len(q) + 1
        BY <2>1
    <2>3. QED BY <2>1, <2>2 DEF ToSet
<1>3. ASSUME NEW p \in Seq(T) PROVE ToSet(q \o p) = ToSet(q) \cup ToSet(p)
    <2>1. ASSUME NEW i \in DOMAIN (q \o p) PROVE (q \o p)[i] \in ToSet(q) \cup ToSet(p)
        <3>1. CASE i <= Len(q)
            BY <3>1 DEF ToSet
        <3>2. CASE i > Len(q)
            <4>1. i - Len(q) \in DOMAIN p /\ (q \o p)[i] = p[i - Len(q)]
                BY <3>2
            <4>2. QED BY <4>1 DEF ToSet
        <3>3. QED BY <3>1, <3>2
    <2>2. ASSUME NEW i \in DOMAIN q PROVE q[i] \in ToSet(q \o p)
        <3>1. i \in DOMAIN (q \o p) /\ (q \o p)[i] = q[i]
            OBVIOUS
        <3>2. QED BY <3>1 DEF ToSet
    <2>3. ASSUME NEW i \in DOMAIN p PROVE p[i] \in ToSet(q \o p)
        <3>1. i + Len(q) \in DOMAIN (q \o p) /\ (q \o p)[i + Len(q)] = p[i]
            OBVIOUS
        <3>2. QED BY <3>1 DEF ToSet
    <2>4. QED BY <2>1, <2>2, <2>3 DEF ToSet
<1>4. ToSet(q) \subseteq T
    BY DEF ToSet
<1>5. QED BY <1>1, <1>2, <1>3, <1>4

\* What the server has done gets no better.
Grows(l, k) == \/ k = l
               \/ k = "unanswered"
               \/ l = "no" /\ k = "refused"

\* A session none of whose requests and messages a step touched.
LEMMA GoodKept ==
    ASSUME NEW l, NEW k, NEW S, NEW T, Good(l, S), Grows(l, k),
           T.sent = S.sent, T.stale = S.stale, T.up = S.up, T.down = S.down,
           T.hand = S.hand, T.open = S.open,
           T.th = "loop" => S.th = "loop" \/ DOMAIN S.sent = {},
           Early(T), InHand(T), Ends(T)
    PROVE  Good(k, T)
<1>1. Filed(T)
    BY DEF Good, Filed
<1>2. Answers(k, T)
    BY DEF Good, Grows, Answers, Fits, Coming
<1>3. Owed(k, T)
    BY DEF Good, Grows, Owed, Coming
<1>4. QED BY <1>1, <1>2, <1>3 DEF Good

\* A session is no worse for what the server did to others.
LEMMA GoodGrows ==
    ASSUME NEW l, NEW k, NEW S, Good(l, S), Grows(l, k)
    PROVE  Good(k, S)
BY DEF Good, Grows, Answers, Fits, Owed

\* The client asks for something more, or to close.
LEMMA GoodQueued ==
    ASSUME NEW l, NEW S \in Sessions, Good(l, S), S.th \notin {"start", "handshake"},
           NEW reqs \in Seq(Req)
    PROVE  Good(l, Queued(S, reqs)) /\ Good(l, CloseOf(S))
           /\ Good(l, [Queued(S, reqs) EXCEPT !.pinger = "record"])
<1> DEFINE Q == Queued(S, reqs)
           P == [Queued(S, reqs) EXCEPT !.pinger = "record"]
           C == CloseOf(S)
<1>1. /\ Q.sent = S.sent /\ Q.stale = S.stale /\ Q.up = S.up /\ Q.down = S.down
      /\ Q.hand = S.hand /\ Q.open = S.open /\ Q.th = S.th /\ Q.conn = S.conn
    BY QueuedSame
<1>2. /\ C.sent = S.sent /\ C.stale = S.stale /\ C.up = S.up /\ C.down = S.down
      /\ C.hand = S.hand /\ C.open = S.open /\ C.th = S.th /\ ~C.conn
    BY CloseOfIs
<1>3. /\ P.sent = S.sent /\ P.stale = S.stale /\ P.up = S.up /\ P.down = S.down
      /\ P.hand = S.hand /\ P.open = S.open /\ P.th = S.th /\ P.conn = S.conn
    <2>1. Q \in Sessions
        BY QueuedIs
    <2>2. /\ P.sent = Q.sent /\ P.stale = Q.stale /\ P.up = Q.up /\ P.down = Q.down
          /\ P.hand = Q.hand /\ P.open = Q.open /\ P.th = Q.th /\ P.conn = Q.conn
        BY <2>1 DEF Sessions
    <2>3. QED BY <1>1, <2>2
<1> HIDE DEF Q, P, C
<1>4. Grows(l, l)
    BY DEF Grows
<1>5. Good(l, Q)
    <2>1. Early(Q) /\ InHand(Q) /\ Ends(Q)
        BY <1>1 DEF Good, Early, InHand, Ends
    <2>2. QED BY <1>1, <1>4, <2>1, GoodKept
<1>6. Good(l, P)
    <2>1. Early(P) /\ InHand(P) /\ Ends(P)
        BY <1>3 DEF Good, Early, InHand, Ends
    <2>2. QED BY <1>3, <1>4, <2>1, GoodKept
<1>7. Good(l, C)
    <2>1. Early(C) /\ InHand(C) /\ Ends(C)
        BY <1>2 DEF Good, Early, InHand, Ends
    <2>2. QED BY <1>2, <1>4, <2>1, GoodKept
<1>8. QED BY <1>5, <1>6, <1>7 DEF Q, P, C

\* A request is sent, under a new id.
LEMMA GoodSent ==
    ASSUME NEW l, NEW S \in Sessions, Good(l, S), S.th = "loop",
           NEW r \in Req, NEW id \in Id, id \notin Ids(S), Sent(S, r, id) \in Sessions
    PROVE  Good(l, Sent(S, r, id))
<1> DEFINE v == [req |-> r, tries |-> 0]
           m == [id |-> id, req |-> r]
           T == Sent(S, r, id)
           f == S.sent
           q == S.up
           M == [id : Id, req : Req]
<1>1. /\ T.sent = With(f, id, v) /\ T.up = IF S.open THEN Append(q, m) ELSE q
      /\ T.stale = S.stale /\ T.down = S.down /\ T.hand = S.hand /\ T.open = S.open
      /\ T.th = "loop" /\ T.conn = S.conn
    BY DEF Sent, Sessions
<1>2. f \in Partial(Id, Entries) /\ q \in Seq(M) /\ m \in M /\ v \in Entries
    <2>1. f \in Partial(Id, Entries) /\ q \in Seq(M)
        BY FieldsAre
    <2>2. v \in Entries
        BY WsClientAssumption DEF Entries
    <2>3. QED BY <2>1, <2>2
<1>3. id \notin DOMAIN f /\ v.req = r /\ m.id = id /\ m.req = r
    BY DEF Ids
<1>4. /\ \A n \in ToSet(q) : n.id # id
      /\ \A n \in S.stale : n.id # id
      /\ \A n \in Coming(S) : n.id # id
    BY DEF Ids, Coming
<1>5. ToSet(T.up) = IF S.open THEN ToSet(q) \cup {m} ELSE ToSet(q)
    <2> HIDE DEF q, m, M, T
    <2>1. ToSet(Append(q, m)) = ToSet(q) \cup {m}
        BY <1>2, ToSetOf
    <2>2. QED BY <1>1, <2>1
<1> HIDE DEF v, T, f
<1>6. /\ DOMAIN T.sent = DOMAIN f \cup {id} /\ T.sent[id] = v
      /\ \A i \in DOMAIN f : T.sent[i] = f[i]
    <2>1. /\ DOMAIN With(f, id, v) = DOMAIN f \cup {id} /\ With(f, id, v)[id] = v
          /\ \A i \in DOMAIN f \ {id} : With(f, id, v)[i] = f[i]
        <3>1. f \in Partial(Id, Entries) /\ v \in Entries
            BY <1>2
        <3> HIDE DEF q, m, M
        <3>2. QED BY <3>1, WithIs
    <2>2. T.sent = With(f, id, v)
        BY <1>1
    <2>3. QED BY <1>3, <2>1, <2>2
<1>7. Early(T) /\ InHand(T) /\ Ends(T)
    BY <1>1 DEF Good, Early, InHand, Ends
<1>8. Filed(T)
    <2>1. IsFiniteSet(DOMAIN f) /\ IsFiniteSet(T.stale)
        BY <1>1 DEF Good, Filed, f
    <2>2. IsFiniteSet(DOMAIN T.sent)
        BY <1>6, <2>1, FS_AddElement
    <2>3. /\ \A n \in ToSet(q) : n.id \in DOMAIN f => f[n.id].req = n.req
          /\ \A n \in S.stale : n.id \in DOMAIN f => f[n.id].req = n.req /\ f[n.id].tries = n.tries
          /\ \A n, o \in S.stale : n.id = o.id => n = o
        BY DEF Good, Filed, f
    <2>4. \A n \in ToSet(T.up) : n.id \in DOMAIN T.sent => T.sent[n.id].req = n.req
        BY <1>3, <1>4, <1>5, <1>6, <2>3
    <2>5. QED BY <1>1, <1>4, <1>6, <2>1, <2>2, <2>3, <2>4 DEF Filed
<1>9. Coming(T) = Coming(S)
    BY <1>1 DEF Coming
<1>10. Answers(l, T)
    <2>1. l # "unanswered" => \A n \in Coming(S) : n.id \in DOMAIN f => Fits(l, n, f[n.id].req)
        BY DEF Good, Answers, f
    <2>2. QED BY <1>4, <1>6, <1>9, <2>1 DEF Answers
<1>11. Owed(l, T)
    <2>1. l # "unanswered" /\ S.open =>
              \A i \in DOMAIN f : \E n \in ToSet(q) \cup Coming(S) : n.id = i
        BY DEF Good, Owed, f
    <2>2. QED BY <1>1, <1>3, <1>5, <1>6, <1>9, <2>1 DEF Owed
<1>12. Good(l, T)
    BY <1>7, <1>8, <1>10, <1>11 DEF Good
<1>13. QED BY <1>12 DEF T

\* A message is read.
LEMMA GoodRead ==
    ASSUME NEW l, NEW S \in Sessions, Good(l, S), S.th = "loop", S.hand = NoMessage,
           S.down # <<>>
    PROVE  /\ Head(S.down).kind = "close" =>
                  Good(l, [S EXCEPT !.down = Tail(@), !.th = "done"])
           /\ Head(S.down).kind # "close" =>
                  Good(l, [S EXCEPT !.down = Tail(@), !.hand = Head(S.down)])
<1> DEFINE q == S.down
           ended == [S EXCEPT !.down = Tail(@), !.th = "done"]
           read == [S EXCEPT !.down = Tail(@), !.hand = Head(S.down)]
<1>1. q \in Seq(Message) /\ q # <<>>
    BY FieldsAre
<1>2. /\ ended.down = Tail(q) /\ ended.th = "done" /\ ended.hand = NoMessage
      /\ ended.sent = S.sent /\ ended.up = S.up /\ ended.stale = S.stale
      /\ ended.open = S.open /\ ended.conn = S.conn
    BY DEF Sessions
<1>3. /\ read.down = Tail(q) /\ read.th = "loop" /\ read.hand = Head(q)
      /\ read.sent = S.sent /\ read.up = S.up /\ read.stale = S.stale
      /\ read.open = S.open /\ read.conn = S.conn
    BY DEF Sessions
<1>4. ToSet(q) = {Head(q)} \cup ToSet(Tail(q))
    <2> HIDE DEF q
    <2>1. QED BY <1>1, ToSetOf
<1>5. Coming(S) = ToSet(q) \cup {NoMessage}
    BY DEF Coming
<1>6. \A i \in DOMAIN S.sent : i # 0
    <2>1. S.sent \in Partial(Id, Entries)
        BY FieldsAre
    <2>2. QED BY <2>1 DEF Partial, Id
<1> HIDE DEF q, ended, read
<1>7. ASSUME Head(q).kind = "close" PROVE Good(l, ended)
    <2>1. Early(ended) /\ InHand(ended)
        BY <1>2, NoMessageIs DEF Early, InHand
    <2>2. Ends(ended)
        BY <1>2, <1>4, <1>7 DEF Good, Ends, q
    <2>3. Filed(ended) /\ Owed(l, ended)
        BY <1>2 DEF Good, Filed, Owed
    <2>4. Coming(ended) \subseteq Coming(S)
        BY <1>2, <1>4, <1>5 DEF Coming
    <2>5. Answers(l, ended)
        BY <1>2, <2>4 DEF Good, Answers
    <2>6. QED BY <2>1, <2>2, <2>3, <2>5 DEF Good
<1>8. ASSUME Head(q).kind # "close" PROVE Good(l, read)
    <2>1. Early(read) /\ InHand(read)
        BY <1>3, <1>8 DEF Early, InHand
    <2>2. Ends(read)
        BY <1>3, <1>4 DEF Good, Ends, q
    <2>3. Filed(read)
        BY <1>3 DEF Good, Filed
    <2>4. Coming(read) = ToSet(q)
        BY <1>3, <1>4 DEF Coming
    <2>5. Answers(l, read)
        BY <1>3, <1>5, <2>4 DEF Good, Answers
    <2>6. Owed(l, read)
        BY <1>3, <1>5, <1>6, <2>4, NoMessageIs DEF Good, Owed
    <2>7. QED BY <2>1, <2>2, <2>3, <2>5, <2>6 DEF Good
<1>9. QED BY <1>7, <1>8 DEF q, ended, read

\* The message in hand is handled; `done` is its id, or nobody waits for that.
LEMMA GoodAnswered ==
    ASSUME NEW l, NEW S \in Sessions, Good(l, S), S.th = "loop",
           NEW done, NEW reqs \in Seq(Req), NEW ping \in BOOLEAN,
           done = S.hand.id \/ l = "unanswered"
    PROVE  Good(l, Answered(S, done, reqs, ping))
<1> DEFINE T == Answered(S, done, reqs, ping)
<1>1. /\ T.sent = Without(S.sent, done) /\ T.hand = NoMessage /\ T.up = S.up
      /\ T.down = S.down /\ T.stale = S.stale /\ T.th = "loop" /\ T.open = S.open
    BY DEF Answered, Sessions
<1> HIDE DEF T
<1>2. /\ DOMAIN T.sent = DOMAIN S.sent \ {done}
      /\ \A i \in DOMAIN T.sent : T.sent[i] = S.sent[i]
    <2>1. /\ DOMAIN Without(S.sent, done) = DOMAIN S.sent \ {done}
          /\ \A i \in DOMAIN S.sent \ {done} : Without(S.sent, done)[i] = S.sent[i]
        BY WithoutSent
    <2>2. T.sent = Without(S.sent, done)
        BY <1>1
    <2>3. QED BY <2>1, <2>2
<1>3. \A i \in DOMAIN S.sent : i # 0
    <2>1. S.sent \in Partial(Id, Entries)
        BY FieldsAre
    <2>2. QED BY <2>1 DEF Partial, Id
<1>4. Early(T) /\ InHand(T) /\ Ends(T)
    BY <1>1, NoMessageIs DEF Good, Early, InHand, Ends
<1>5. Filed(T)
    <2>1. IsFiniteSet(DOMAIN T.sent)
        BY <1>2, FS_Subset DEF Good, Filed
    <2>2. QED BY <1>1, <1>2, <2>1 DEF Good, Filed
<1>6. Coming(T) = ToSet(S.down) \cup {NoMessage}
    BY <1>1 DEF Coming
<1>7. Answers(l, T)
    BY <1>2, <1>3, <1>6, NoMessageIs DEF Good, Answers, Coming
<1>8. Owed(l, T)
    BY <1>1, <1>2, <1>6 DEF Good, Owed, Coming
<1>9. Good(l, T)
    BY <1>4, <1>5, <1>7, <1>8 DEF Good
<1>10. QED BY <1>9 DEF T

\* Requests that have waited for long are found.
LEMMA GoodStale ==
    ASSUME NEW l, NEW S \in Sessions, Good(l, S), S.conn, S.stale = {},
           NEW X \in SUBSET DOMAIN S.sent
    PROVE  Good(l, [S EXCEPT !.stale = Found(S, X)])
<1> DEFINE T == [S EXCEPT !.stale = Found(S, X)]
           g == [i \in X |-> [id |-> i, req |-> S.sent[i].req, tries |-> S.sent[i].tries]]
<1>1. /\ T.stale = Found(S, X) /\ T.sent = S.sent /\ T.up = S.up /\ T.down = S.down
      /\ T.hand = S.hand /\ T.open = S.open /\ T.th = S.th /\ T.conn = S.conn
    BY DEF Sessions
<1>2. \A m \in Found(S, X) : /\ m.id \in X
                             /\ m = [id |-> m.id, req |-> S.sent[m.id].req,
                                     tries |-> S.sent[m.id].tries]
    BY DEF Found
<1>3. IsFiniteSet(Found(S, X))
    <2>1. IsFiniteSet(X)
        BY FS_Subset DEF Good, Filed
    <2>2. g \in Surjection(X, Found(S, X))
        BY DEF Surjection, Found
    <2>3. QED BY <2>1, <2>2, FS_Surjection
<1> HIDE DEF T, g
<1>4. Early(T) /\ InHand(T) /\ Ends(T)
    BY <1>1 DEF Good, Early, InHand, Ends
<1>5. Filed(T)
    <2>1. /\ IsFiniteSet(DOMAIN S.sent)
          /\ \A m \in ToSet(S.up) : m.id \in DOMAIN S.sent => S.sent[m.id].req = m.req
        BY DEF Good, Filed
    <2>2. \A m \in Found(S, X) : S.sent[m.id].req = m.req /\ S.sent[m.id].tries = m.tries
        BY <1>2
    <2>3. \A m, n \in Found(S, X) : m.id = n.id => m = n
        BY <1>2
    <2>4. QED BY <1>1, <1>3, <2>1, <2>2, <2>3 DEF Filed
<1>6. Answers(l, T) /\ Owed(l, T)
    BY <1>1 DEF Good, Answers, Owed, Coming
<1>7. Good(l, T)
    BY <1>4, <1>5, <1>6 DEF Good
<1>8. QED BY <1>7 DEF T

\* Another try of a request does not change it.
LEMMA TriedIs ==
    ASSUME NEW S \in Sessions, NEW id
    PROVE  /\ DOMAIN TriedAgain(S.sent, id) = DOMAIN S.sent
           /\ \A i \in DOMAIN S.sent : /\ TriedAgain(S.sent, id)[i].req = S.sent[i].req
                                       /\ i # id => TriedAgain(S.sent, id)[i] = S.sent[i]
<1>1. PICK D \in SUBSET Id : S.sent \in [D -> Entries]
    BY FieldsAre DEF Partial
<1>2. ASSUME id \in D
      PROVE  [S.sent[id] EXCEPT !.tries = @ + 1].req = S.sent[id].req
    <2>1. S.sent[id] \in Entries
        BY <1>1, <1>2
    <2>2. QED BY <2>1 DEF Entries
<1>3. QED BY <1>1, <1>2 DEF TriedAgain

\* One of them is given up, or sent again.
LEMMA GoodSwept ==
    ASSUME NEW l, NEW S \in Sessions, Good(l, S), NEW m \in S.stale
    PROVE  Good(l, GivenUp(S, m)) /\ Good(l, SentAgain(S, m))
<1> DEFINE G == GivenUp(S, m)
           A == SentAgain(S, m)
<1>1. m \in [id : Id, req : Req, tries : 0 .. MaxRetries]
    BY FieldsAre
<1>2. Taken(S, m) \in Sessions /\ <<m.req>> \in Seq(Req)
    BY <1>1, TakenIs
<1>3. /\ G.sent = Without(S.sent, m.id) /\ G.stale = S.stale \ {m}
      /\ G.up = S.up /\ G.down = S.down /\ G.hand = S.hand /\ G.open = S.open
      /\ G.th = S.th /\ G.conn = S.conn
    BY DEF GivenUp, Taken, Sessions
<1>4. /\ A.sent = TriedAgain(S.sent, m.id) /\ A.stale = S.stale \ {m}
      /\ A.up = S.up /\ A.down = S.down /\ A.hand = S.hand /\ A.open = S.open
      /\ A.th = S.th /\ A.conn = S.conn
    <2> DEFINE T == Taken(S, m)
               Q == Queued(T, <<m.req>>)
    <2>1. /\ T.sent = S.sent /\ T.stale = S.stale \ {m}
          /\ T.up = S.up /\ T.down = S.down /\ T.hand = S.hand /\ T.open = S.open
          /\ T.th = S.th /\ T.conn = S.conn
        BY DEF Taken, Sessions
    <2>2. /\ Q.sent = T.sent /\ Q.stale = T.stale /\ Q.up = T.up /\ Q.down = T.down
          /\ Q.hand = T.hand /\ Q.open = T.open /\ Q.th = T.th /\ Q.conn = T.conn
          /\ Q \in Sessions
        BY <1>2, QueuedSame, QueuedIs
    <2> HIDE DEF Q
    <2>3. A = [Q EXCEPT !.sent = TriedAgain(Q.sent, m.id)]
        BY DEF SentAgain, Q
    <2>4. /\ A.sent = TriedAgain(Q.sent, m.id) /\ A.stale = Q.stale /\ A.up = Q.up
          /\ A.down = Q.down /\ A.hand = Q.hand /\ A.open = Q.open /\ A.th = Q.th
          /\ A.conn = Q.conn
        BY <2>2, <2>3 DEF Sessions
    <2>5. QED BY <2>1, <2>2, <2>4
<1>5. /\ DOMAIN Without(S.sent, m.id) = DOMAIN S.sent \ {m.id}
      /\ \A i \in DOMAIN S.sent \ {m.id} : Without(S.sent, m.id)[i] = S.sent[i]
    BY WithoutSent
<1>6. /\ DOMAIN TriedAgain(S.sent, m.id) = DOMAIN S.sent
      /\ \A i \in DOMAIN S.sent : /\ TriedAgain(S.sent, m.id)[i].req = S.sent[i].req
                                  /\ i # m.id => TriedAgain(S.sent, m.id)[i] = S.sent[i]
    BY TriedIs
<1>7. /\ IsFiniteSet(DOMAIN S.sent \ {m.id}) /\ IsFiniteSet(S.stale \ {m})
      /\ IsFiniteSet(DOMAIN S.sent)
    BY FS_Subset DEF Good, Filed
<1>8. S.stale # {} /\ S.th \notin {"start", "handshake"}
    BY DEF Good, Early
<1>9. \A n \in S.stale \ {m} : n.id # m.id
    BY DEF Good, Filed
<1> HIDE DEF G, A
<1>10. Good(l, G)
    <2>1. Early(G) /\ InHand(G) /\ Ends(G)
        BY <1>3, <1>8 DEF Good, Early, InHand, Ends
    <2>2. Filed(G)
        BY <1>3, <1>5, <1>7 DEF Good, Filed
    <2>3. Answers(l, G) /\ Owed(l, G)
        BY <1>3, <1>5 DEF Good, Answers, Owed, Coming
    <2>4. QED BY <2>1, <2>2, <2>3 DEF Good
<1>11. Good(l, A)
    <2>1. Early(A) /\ InHand(A) /\ Ends(A)
        BY <1>4, <1>8 DEF Good, Early, InHand, Ends
    <2>2. Filed(A)
        BY <1>4, <1>6, <1>7, <1>9 DEF Good, Filed
    <2>3. Answers(l, A) /\ Owed(l, A)
        BY <1>4, <1>6 DEF Good, Answers, Owed, Coming
    <2>4. QED BY <2>1, <2>2, <2>3 DEF Good
<1>12. QED BY <1>10, <1>11 DEF G, A

\* The server takes a request, and answers it or not.
LEMMA GoodServed ==
    ASSUME NEW l, NEW k, NEW S \in Sessions, Good(l, S), Grows(l, k), S.up # <<>>,
           NEW a \in Message, a.kind # "close",
           k # "unanswered" => a.id = Head(S.up).id /\ Fits(k, a, Head(S.up).req)
    PROVE  /\ Good(k, Told(Served(S), a))
           /\ k = "unanswered" => Good(k, Served(S))
<1> DEFINE q == S.up
           M == [id : Id, req : Req]
           R == Served(S)
           T == Told(R, a)
<1>1. q \in Seq(M) /\ S.down \in Seq(Message)
    BY FieldsAre
<1>2. ToSet(q) = {Head(q)} \cup ToSet(Tail(q))
    <2> HIDE DEF q, M
    <2>1. QED BY <1>1, ToSetOf DEF q
<1>3. /\ R.sent = S.sent /\ R.stale = S.stale /\ R.th = S.th /\ R.open = S.open
      /\ R.conn = S.conn /\ R.up = Tail(q) /\ R.down = S.down /\ R.hand = S.hand
    BY DEF Served, Sessions
<1>4. R \in Sessions
    BY ServedIs
<1>5. /\ T.sent = S.sent /\ T.stale = S.stale /\ T.th = S.th /\ T.open = S.open
      /\ T.conn = S.conn /\ T.up = Tail(q) /\ T.hand = S.hand
      /\ T.down = IF S.th = "done" THEN S.down ELSE Append(S.down, a)
    BY <1>3, <1>4, ToldIs
<1>6. ToSet(Append(S.down, a)) = ToSet(S.down) \cup {a}
    BY <1>1, ToSetOf
<1>7. S.th \notin {"start", "handshake"}
    BY DEF Good, Early
<1> HIDE DEF q, M, R, T
<1>8. Early(R) /\ InHand(R) /\ Ends(R) /\ Filed(R)
    BY <1>2, <1>3, <1>7 DEF Good, Early, InHand, Ends, Filed, q
<1>9. ASSUME k = "unanswered" PROVE Good(k, R)
    BY <1>8, <1>9 DEF Good, Answers, Owed
<1>10. Good(k, T)
    <2>1. Early(T) /\ InHand(T)
        BY <1>5, <1>7 DEF Good, Early, InHand
    <2>2. Ends(T)
        BY <1>5, <1>6 DEF Good, Ends
    <2>3. Filed(T)
        BY <1>2, <1>5 DEF Good, Filed, q
    <2>4. Coming(T) \subseteq Coming(S) \cup {a} /\ Coming(S) \subseteq Coming(T)
        BY <1>5, <1>6 DEF Coming
    <2>5. S.th = "loop" => Coming(T) = Coming(S) \cup {a}
        BY <1>5, <1>6 DEF Coming
    <2>6. Answers(k, S) /\ Owed(k, S)
        BY GoodGrows DEF Good
    <2>7. Answers(k, T)
        <3>1. k # "unanswered" /\ Head(q).id \in DOMAIN S.sent =>
                  S.sent[Head(q).id].req = Head(q).req
            BY <1>2 DEF Good, Filed, q
        <3>2. QED BY <1>5, <2>4, <2>6, <3>1 DEF Answers, q
    <2>8. Owed(k, T)
        BY <1>2, <1>5, <2>5, <2>6 DEF Owed, q
    <2>9. QED BY <2>1, <2>2, <2>3, <2>7, <2>8 DEF Good
<1>11. QED BY <1>9, <1>10 DEF R, T

\* The server says something unasked, or that it closes the connection.
LEMMA GoodTold ==
    ASSUME NEW l, NEW S \in Sessions, Good(l, S), S.th = "loop",
           NEW a \in Message, a.id = 0
    PROVE  /\ a.kind # "close" => Good(l, Told(S, a))
           /\ Good(l, [Told(S, a) EXCEPT !.open = FALSE, !.up = <<>>])
<1> DEFINE T == Told(S, a)
           C == [Told(S, a) EXCEPT !.open = FALSE, !.up = <<>>]
<1>1. /\ T.sent = S.sent /\ T.stale = S.stale /\ T.th = "loop" /\ T.open = S.open
      /\ T.conn = S.conn /\ T.up = S.up /\ T.hand = S.hand /\ T.down = Append(S.down, a)
      /\ T \in Sessions
    BY ToldIs
<1>2. /\ C.sent = S.sent /\ C.stale = S.stale /\ C.th = "loop" /\ C.open = FALSE
      /\ C.conn = S.conn /\ C.up = <<>> /\ C.hand = S.hand /\ C.down = Append(S.down, a)
    <2> HIDE DEF T
    <2>1. C = [T EXCEPT !.open = FALSE, !.up = <<>>]
        BY DEF T
    <2> HIDE DEF C
    <2>2. QED BY <1>1, <2>1 DEF Sessions
<1>3. ToSet(Append(S.down, a)) = ToSet(S.down) \cup {a}
    BY FieldsAre, ToSetOf
<1>4. \A i \in DOMAIN S.sent : i # 0
    <2>1. S.sent \in Partial(Id, Entries)
        BY FieldsAre
    <2>2. QED BY <2>1 DEF Partial, Id
<1> HIDE DEF T, C
<1>5. ASSUME a.kind # "close" PROVE Good(l, T)
    <2>1. Early(T) /\ InHand(T)
        BY <1>1 DEF Good, Early, InHand
    <2>2. Ends(T)
        BY <1>1, <1>3, <1>5 DEF Good, Ends
    <2>3. Filed(T)
        BY <1>1 DEF Good, Filed
    <2>4. Coming(T) = Coming(S) \cup {a}
        BY <1>1, <1>3 DEF Coming
    <2>5. Answers(l, T) /\ Owed(l, T)
        BY <1>1, <1>4, <2>4 DEF Good, Answers, Owed
    <2>6. QED BY <2>1, <2>2, <2>3, <2>5 DEF Good
<1>6. Good(l, C)
    <2>1. Early(C) /\ InHand(C) /\ Ends(C)
        BY <1>2 DEF Good, Early, InHand, Ends
    <2>2. Filed(C)
        BY <1>2 DEF Good, Filed, ToSet
    <2>3. Coming(C) = Coming(S) \cup {a}
        BY <1>2, <1>3 DEF Coming
    <2>4. Answers(l, C) /\ Owed(l, C)
        BY <1>2, <1>4, <2>3 DEF Good, Answers, Owed
    <2>5. QED BY <2>1, <2>2, <2>4 DEF Good
<1>7. QED BY <1>5, <1>6 DEF T, C

\* One session changes into a good one: all are good.
LEMMA OneGood ==
    ASSUME WsType, SessionInv, NEW s \in Session, NEW T, Becomes(s, T),
           Grows(lost, lost'), Good(lost', T)
    PROVE  SessionInv'
<1>1. /\ Session' = Session /\ sess'[s] = T
      /\ \A r \in Session : r # s => sess'[r] = sess[r]
    BY Others
<1>2. \A r \in Session : Good(lost', sess[r])
    BY GoodGrows DEF SessionInv
<1>3. QED BY <1>1, <1>2 DEF SessionInv

\* No session changes: all stay good.
LEMMA NoneChanged ==
    ASSUME SessionInv, UNCHANGED <<sess, lost>>
    PROVE  SessionInv'
BY DEF SessionInv, Session

\* The sessions of the client after it closed the last one.
LEMMA GoodClosed ==
    ASSUME WsType, SessionInv
    PROVE  \A s \in Session :
              Good(lost, IF Connected /\ s = Current THEN CloseOf(sess[s]) ELSE sess[s])
<1>1. \A s \in Session : Good(lost, sess[s]) /\ sess[s] \in Sessions
    BY ASession DEF SessionInv
<1>2. ASSUME NEW s \in Session, Connected, s = Current
      PROVE  Good(lost, CloseOf(sess[s]))
    <2>1. sess[s].th \notin {"start", "handshake"}
        BY <1>1, <1>2 DEF Connected, Good, Early
    <2>2. <<>> \in Seq(Req)
        OBVIOUS
    <2>3. QED BY <1>1, <2>1, <2>2, GoodQueued
<1>3. QED BY <1>1, <1>2

\* A new session is good.
LEMMA GoodNew ==
    ASSUME NEW l, NEW mail
    PROVE  Good(l, NewSession(mail))
<1> DEFINE N == NewSession(mail)
<1>1. /\ N.th = "start" /\ N.queue = <<>> /\ N.sent = <<>> /\ N.up = <<>> /\ N.down = <<>>
      /\ N.hand = NoMessage /\ N.stale = {} /\ ~N.conn /\ N.pinger = "off"
    BY DEF NewSession
<1>2. DOMAIN N.sent = {} /\ ToSet(N.up) = {} /\ ToSet(N.down) = {}
    BY <1>1 DEF ToSet
<1> HIDE DEF N
<1>3. Early(N) /\ InHand(N) /\ Ends(N)
    BY <1>1, <1>2, NoMessageIs DEF Early, InHand, Ends
<1>4. Filed(N)
    BY <1>1, <1>2, FS_EmptySet DEF Filed
<1>5. Answers(l, N) /\ Owed(l, N)
    BY <1>1, <1>2 DEF Answers, Owed
<1>6. Good(l, N)
    BY <1>3, <1>4, <1>5 DEF Good
<1>7. QED BY <1>6 DEF N

\* connect_ws() keeps the sessions good.
LEMMA ConnectKeepsGood ==
    ASSUME WsType, SessionInv, ConnectWs, lost' = lost
    PROVE  SessionInv'
<1>1. ASSUME NEW s \in Session' PROVE Good(lost', sess'[s])
    <2>1. CASE s \in Session
        BY <2>1, ConnectsWs, GoodClosed
    <2>2. CASE s = Len(sess) + 1
        BY <2>2, ConnectsWs, GoodNew
    <2>3. QED BY <1>1, <2>1, <2>2, ConnectsWs
<1>2. QED BY <1>1 DEF SessionInv

\* What the GUI does keeps the sessions good.
LEMMA GuiKeepsGood ==
    ASSUME WsType, SessionInv, Gui
    PROVE  SessionInv'
<1>1. ASSUME NEW a \in Account, SelectAccount(a) PROVE SessionInv'
    BY <1>1, ConnectKeepsGood DEF SelectAccount
<1>2. ASSUME NEW a \in Account, AuthRequest(a) \/ CodeVerified(a) PROVE SessionInv'
    BY <1>2, NoneChanged DEF AuthRequest, CodeVerified, auxVars
<1>3. CASE AuthCode \/ PollPending
    BY <1>3, NoneChanged DEF AuthCode, PollPending, auxVars
<1>4. CASE Logout
    <2>1. lost' = lost
        BY <1>4 DEF Logout
    <2>2. QED BY <1>4, <2>1, LogsOut, GoodClosed DEF SessionInv
<1>5. ASSUME NEW w \in Wallet, Edit(w) PROVE SessionInv'
    <2>1. lost' = lost
        BY <1>5 DEF Edit
    <2>2. CASE UNCHANGED <<sess, edits>>
        BY <2>1, <2>2, NoneChanged
    <2>3. CASE /\ Connected /\ Current \in Session
               /\ EditWallet(w, edits') \in Req
               /\ Becomes(Current, Queued(sess[Current], <<EditWallet(w, edits')>>))
        <3> DEFINE S == sess[Current]
                   r == EditWallet(w, edits')
        <3>1. S \in Sessions /\ Good(lost, S) /\ S.th \notin {"start", "handshake"}
            BY <2>3, ASession DEF SessionInv, Connected, Good, Early
        <3>2. r \in Req
            BY <2>3
        <3>3. Becomes(Current, Queued(S, <<r>>))
            BY <2>3
        <3> HIDE DEF S, r
        <3>4. <<r>> \in Seq(Req)
            BY <3>2
        <3>5. Good(lost', Queued(S, <<r>>))
            BY <2>1, <3>1, <3>4, GoodQueued
        <3>6. QED BY <2>1, <2>3, <3>3, <3>5, OneGood DEF Grows
    <2>4. QED BY <1>5, <2>2, <2>3, Edits
<1>6. CASE HandleNotif
    <2>1. lost' = lost
        BY <1>6 DEF HandleNotif
    <2>2. UNCHANGED sess \/ ConnectWs
        BY <1>6 DEF HandleNotif, ConnectionFailed
    <2>3. QED BY <2>1, <2>2, NoneChanged, ConnectKeepsGood
<1>7. QED BY <1>1, <1>2, <1>3, <1>4, <1>5, <1>6 DEF Gui

\* What a session's thread does keeps the sessions good.
LEMMA WssThreadKeepsGood ==
    ASSUME WsType, SessionInv, NEW s \in Session, WssThread(s)
    PROVE  SessionInv'
<1> DEFINE S == sess[s]
<1>1. S \in Sessions /\ Good(lost, S)
    BY ASession DEF SessionInv
<1>2. lost' = lost /\ Grows(lost, lost')
    BY DEF WssThread, TakeToken, Handshake, HandshakeFails, LoopRecv, LoopRead, Handle,
           HandledFrame, ThreadFrame, Grows
<1>3. \A T : Becomes(s, T) /\ Good(lost, T) => SessionInv'
    BY <1>2, OneGood
<1>4. CASE TakeToken(s)
    <2> DEFINE D == [S EXCEPT !.th = "done"]
               H == [S EXCEPT !.th = "handshake", !.who = token']
    <2>1. S.th = "start"
        BY <1>4 DEF TakeToken
    <2>2. Good(lost, D)
        <3>1. /\ D.sent = S.sent /\ D.stale = S.stale /\ D.up = S.up /\ D.down = S.down
              /\ D.hand = S.hand /\ D.open = S.open /\ D.th = "done" /\ D.conn = S.conn
            BY <1>1 DEF Sessions
        <3> HIDE DEF D, S
        <3>2. Early(D) /\ InHand(D) /\ Ends(D)
            BY <1>1, <2>1, <3>1 DEF Good, Early, InHand, Ends
        <3>3. QED BY <1>1, <3>1, <3>2, GoodKept DEF Grows
    <2>3. ASSUME token' \in Account PROVE Good(lost, H)
        <3>1. /\ H.sent = S.sent /\ H.stale = S.stale /\ H.up = S.up /\ H.down = S.down
              /\ H.hand = S.hand /\ H.open = S.open /\ H.th = "handshake"
              /\ H.conn = S.conn /\ H.who = token' /\ H.queue = S.queue
              /\ H.pinger = S.pinger
            BY <1>1 DEF Sessions
        <3>2. token' # NoOne
            BY <2>3, WsClientAssumption DEF User
        <3> HIDE DEF H, S
        <3>3. Early(H) /\ InHand(H) /\ Ends(H)
            BY <1>1, <2>1, <3>1, <3>2 DEF Good, Early, InHand, Ends
        <3>4. QED BY <1>1, <3>1, <3>3, GoodKept DEF Grows
    <2>4. QED BY <1>3, <1>4, <2>2, <2>3, TakesToken
<1>5. CASE Handshake(s)
    <2> DEFINE H == [S EXCEPT !.th = "loop", !.conn = TRUE, !.pinger = "send",
                              !.queue = Append(@, FetchUser(S.who))]
    <2>1. S.th = "handshake" /\ Becomes(s, H)
        BY <1>5, Handshakes DEF Handshake
    <2>2. /\ H.sent = S.sent /\ H.stale = S.stale /\ H.up = S.up /\ H.down = S.down
          /\ H.hand = S.hand /\ H.open = S.open /\ H.th = "loop"
        BY <1>1 DEF Sessions
    <2> HIDE DEF H, S
    <2>3. Early(H) /\ InHand(H) /\ Ends(H)
        BY <1>1, <2>1, <2>2 DEF Good, Early, InHand, Ends
    <2>4. DOMAIN S.sent = {}
        BY <1>1, <2>1 DEF Good, Early
    <2>5. Good(lost, H)
        BY <1>1, <2>2, <2>3, <2>4, GoodKept DEF Grows
    <2>6. QED BY <1>3, <2>1, <2>5
<1>6. CASE HandshakeFails(s)
    <2> DEFINE D == [S EXCEPT !.th = "done"]
    <2>1. S.th = "handshake" /\ Becomes(s, D)
        BY <1>6, HandshakeFailing DEF HandshakeFails
    <2>2. /\ D.sent = S.sent /\ D.stale = S.stale /\ D.up = S.up /\ D.down = S.down
          /\ D.hand = S.hand /\ D.open = S.open /\ D.th = "done" /\ D.conn = S.conn
        BY <1>1 DEF Sessions
    <2> HIDE DEF D, S
    <2>3. Early(D) /\ InHand(D) /\ Ends(D)
        BY <1>1, <2>1, <2>2 DEF Good, Early, InHand, Ends
    <2>4. Good(lost, D)
        BY <1>1, <2>2, <2>3, GoodKept DEF Grows
    <2>5. QED BY <1>3, <2>1, <2>4
<1>7. CASE LoopRecv(s)
    <2> DEFINE r == Head(S.queue)
               id == NewId(S)
               C == [S EXCEPT !.queue = Tail(@), !.th = "done", !.conn = FALSE,
                              !.open = FALSE]
               F == [S EXCEPT !.queue = Tail(@), !.th = "done"]
    <2>1. /\ r \in Req /\ id \in Id /\ id \notin Ids(S)
          /\ \/ Becomes(s, C)
             \/ Becomes(s, Sent(S, r, id))
             \/ ~S.open /\ Becomes(s, F)
        BY <1>7, LoopReceives
    <2>2. S.th = "loop" /\ S.hand = NoMessage
        BY <1>7 DEF LoopRecv
    <2>3. Good(lost, C)
        <3>1. /\ C.sent = S.sent /\ C.stale = S.stale /\ C.up = S.up /\ C.down = S.down
              /\ C.hand = S.hand /\ ~C.open /\ C.th = "done" /\ ~C.conn
            BY <1>1 DEF Sessions
        <3> HIDE DEF C, S
        <3>2. Early(C) /\ InHand(C) /\ Ends(C)
            BY <1>1, <2>2, <3>1, NoMessageIs DEF Early, InHand, Ends
        <3>3. Filed(C) /\ Answers(lost, C) /\ Owed(lost, C)
            BY <1>1, <3>1 DEF Good, Filed, Answers, Owed, Coming
        <3>4. QED BY <3>2, <3>3 DEF Good
    <2>4. ASSUME ~S.open PROVE Good(lost, F)
        <3>1. /\ F.sent = S.sent /\ F.stale = S.stale /\ F.up = S.up /\ F.down = S.down
              /\ F.hand = S.hand /\ F.open = S.open /\ F.th = "done" /\ F.conn = S.conn
            BY <1>1 DEF Sessions
        <3> HIDE DEF F, S
        <3>2. Early(F) /\ InHand(F) /\ Ends(F)
            BY <1>1, <2>2, <2>4, <3>1, NoMessageIs DEF Early, InHand, Ends
        <3>3. QED BY <1>1, <3>1, <3>2, GoodKept DEF Grows
    <2>5. ASSUME Becomes(s, Sent(S, r, id)) PROVE Good(lost, Sent(S, r, id))
        <3>1. Sent(S, r, id) \in Sessions
            BY <2>5 DEF Becomes
        <3>2. QED BY <1>1, <2>1, <2>2, <3>1, GoodSent
    <2>6. QED BY <1>3, <2>1, <2>3, <2>4, <2>5
<1>8. CASE LoopRead(s)
    <2>1. S.th = "loop" /\ S.hand = NoMessage /\ S.down # <<>>
        BY <1>8 DEF LoopRead
    <2>2. QED BY <1>1, <1>3, <1>8, <2>1, LoopReads, GoodRead
<1>9. CASE Handle(s)
    <2>1. S.th = "loop"
        BY <1>1, <1>9 DEF Handle, Good, InHand
    <2>2. HandleMismatch(s) => lost = "unanswered"
        BY <1>1 DEF HandleMismatch, Matches, Entry, Good, Answers, Fits, Coming
    <2>3. \A reqs \in Seq(Req), ping \in BOOLEAN :
              /\ Good(lost, Answered(S, S.hand.id, reqs, ping))
              /\ HandleMismatch(s) => Good(lost, Answered(S, 0, reqs, ping))
        BY <1>1, <2>1, <2>2, GoodAnswered
    <2>4. <<>> \in Seq(Req) /\ S.ping \in BOOLEAN /\ FALSE \in BOOLEAN
        BY <1>1, FieldsAre
    <2> HIDE DEF S
    <2>5. QED BY <1>3, <1>9, <2>3, <2>4, Handlings DEF Handle, S
<1>10. QED BY <1>4, <1>5, <1>6, <1>7, <1>8, <1>9 DEF WssThread

\* What the pinger and the timeouts do keeps the sessions good.
LEMMA TimersKeepGood ==
    ASSUME WsType, SessionInv, NEW s \in Session, Timers(s)
    PROVE  SessionInv'
<1> DEFINE S == sess[s]
<1>1. S \in Sessions /\ Good(lost, S)
    BY ASession DEF SessionInv
<1>2. lost' = lost /\ Grows(lost, lost')
    BY DEF Timers, PingSend, PingRecord, PingTimeout, FindStale, SweepOne, OtherFrame,
           ThreadFrame, Grows
<1>3. \A T : Becomes(s, T) /\ Good(lost, T) => SessionInv'
    BY <1>2, OneGood
<1>4. CASE PingSend(s)
    <2>1. S.th \notin {"start", "handshake"}
        BY <1>1, <1>4 DEF PingSend, Good, Early
    <2>2. <<Ping>> \in Seq(Req)
        BY FetchesAreReq
    <2> HIDE DEF S
    <2>3. Good(lost, [Queued(S, <<Ping>>) EXCEPT !.pinger = "record"])
        BY <1>1, <2>1, <2>2, GoodQueued
    <2>4. Becomes(s, [Queued(S, <<Ping>>) EXCEPT !.pinger = "record"])
        BY <1>4, PingSends DEF S
    <2>5. QED BY <1>3, <2>3, <2>4
<1>5. CASE PingRecord(s)
    <2> DEFINE T == [S EXCEPT !.pinger = "sleep", !.ping = TRUE]
    <2>1. S.th \notin {"start", "handshake"} /\ Becomes(s, T)
        BY <1>1, <1>5, PingRecords DEF PingRecord, Good, Early
    <2>2. /\ T.sent = S.sent /\ T.stale = S.stale /\ T.up = S.up /\ T.down = S.down
          /\ T.hand = S.hand /\ T.open = S.open /\ T.th = S.th /\ T.conn = S.conn
        BY <1>1 DEF Sessions
    <2> HIDE DEF T, S
    <2>3. Early(T) /\ InHand(T) /\ Ends(T)
        BY <1>1, <2>1, <2>2 DEF Good, Early, InHand, Ends
    <2>4. Good(lost, T)
        BY <1>1, <2>2, <2>3, GoodKept DEF Grows
    <2>5. QED BY <1>3, <2>1, <2>4
<1>6. CASE PingTimeout(s)
    <2> DEFINE T == [S EXCEPT !.conn = FALSE]
    <2>1. S.th \notin {"start", "handshake"} /\ Becomes(s, T)
        BY <1>1, <1>6, PingTimesOut DEF PingTimeout, Good, Early
    <2>2. /\ T.sent = S.sent /\ T.stale = S.stale /\ T.up = S.up /\ T.down = S.down
          /\ T.hand = S.hand /\ T.open = S.open /\ T.th = S.th /\ ~T.conn
        BY <1>1 DEF Sessions
    <2> HIDE DEF T, S
    <2>3. Early(T) /\ InHand(T) /\ Ends(T)
        BY <1>1, <2>1, <2>2 DEF Good, Early, InHand, Ends
    <2>4. Good(lost, T)
        BY <1>1, <2>2, <2>3, GoodKept DEF Grows
    <2>5. QED BY <1>3, <2>1, <2>4
<1>7. CASE FindStale(s)
    <2>1. S.conn /\ S.stale = {}
        BY <1>7 DEF FindStale
    <2>2. PICK X \in SUBSET DOMAIN S.sent : Becomes(s, [S EXCEPT !.stale = Found(S, X)])
        BY <1>7, FindsStale
    <2>3. Good(lost, [S EXCEPT !.stale = Found(S, X)])
        BY <1>1, <2>1, GoodStale
    <2>4. QED BY <1>3, <2>2, <2>3
<1>8. CASE SweepOne(s)
    <2>1. PICK m \in S.stale : Becomes(s, GivenUp(S, m)) \/ Becomes(s, SentAgain(S, m))
        BY <1>8, SweepsOne
    <2>2. Good(lost, GivenUp(S, m)) /\ Good(lost, SentAgain(S, m))
        BY <1>1, GoodSwept
    <2>3. QED BY <1>3, <2>1, <2>2
<1>9. QED BY <1>4, <1>5, <1>6, <1>7, <1>8 DEF Timers

\* What the server does keeps the sessions good.
LEMMA ServerKeepsGood ==
    ASSUME WsType, SessionInv, NEW s \in Session, Server(s)
    PROVE  SessionInv'
<1> DEFINE S == sess[s]
           m == Head(S.up)
<1>1. S \in Sessions /\ Good(lost, S)
    BY ASession DEF SessionInv
<1>2. \A T : Becomes(s, T) /\ Grows(lost, lost') /\ Good(lost', T) => SessionInv'
    BY OneGood
<1>3. CASE Serve(s)
    <2>1. S.up # <<>> /\ lost' = lost /\ Grows(lost, lost')
        BY <1>3 DEF Serve, Grows
    <2>2. PICK a : Reply(a, m) /\ Becomes(s, Told(Served(S), a))
        BY <1>3, Serves
    <2>3. m.req \in Req
        BY <1>1, <2>1, ServedIs
    <2>4. a \in Message /\ a.id = m.id /\ Fits(lost', a, m.req) /\ a.kind # "close"
        BY <2>2, <2>3 DEF Reply, Fits, Expected, Req, Request
    <2> HIDE DEF S
    <2>5. Good(lost', Told(Served(S), a))
        BY <1>1, <2>1, <2>4, GoodServed
    <2>6. QED BY <1>2, <2>1, <2>2, <2>5
<1>4. CASE ServeOddly(s)
    <2>0. S.up # <<>> /\ lost \in {"no", "refused", "unanswered"}
        BY <1>4 DEF ServeOddly, WsType
    <2>1. CASE \E a \in Message :
                  /\ a.id = m.id /\ a.kind \in {"error", "unauthorized", "unknown"}
                  /\ a.kind = "unauthorized" => m.req.kind = "user" /\ lost' = lost
                  /\ a.kind # "unauthorized" =>
                        lost' = IF lost = "no" THEN "refused" ELSE lost
                  /\ Becomes(s, Told(Served(S), a))
        <3>1. PICK a \in Message :
                  /\ a.id = m.id /\ a.kind \in {"error", "unauthorized", "unknown"}
                  /\ a.kind = "unauthorized" => m.req.kind = "user" /\ lost' = lost
                  /\ a.kind # "unauthorized" =>
                        lost' = IF lost = "no" THEN "refused" ELSE lost
                  /\ Becomes(s, Told(Served(S), a))
            BY <2>1
        <3>2. Grows(lost, lost')
            BY <3>1 DEF Grows
        <3>3. lost' # "unanswered" => Fits(lost', a, m.req)
            BY <2>0, <3>1 DEF Fits
        <3>4. a.kind # "close" /\ a.id = m.id /\ Becomes(s, Told(Served(S), a))
            BY <3>1
        <3> HIDE DEF S
        <3>5. Good(lost', Told(Served(S), a))
            BY <1>1, <2>0, <3>2, <3>3, <3>4, GoodServed
        <3>6. QED BY <1>2, <3>2, <3>4, <3>5
    <2>2. CASE /\ lost' = "unanswered"
               /\ \E a \in Message : a.kind = "pong" /\ Becomes(s, Told(Served(S), a))
        <3>1. PICK a \in Message : a.kind = "pong" /\ Becomes(s, Told(Served(S), a))
            BY <2>2
        <3>2. Grows(lost, lost') /\ a.kind # "close"
            BY <2>2, <3>1 DEF Grows
        <3> HIDE DEF S
        <3>3. Good(lost', Told(Served(S), a))
            BY <1>1, <2>0, <2>2, <3>2, GoodServed
        <3>4. QED BY <1>2, <3>1, <3>2, <3>3
    <2>3. CASE lost' = "unanswered" /\ Becomes(s, Served(S))
        <3>1. Grows(lost, lost') /\ NoMessage \in Message /\ NoMessage.kind # "close"
            BY <2>3, NoMessageIs DEF Grows
        <3> HIDE DEF S
        <3>2. Good(lost', Served(S))
            BY <1>1, <2>0, <2>3, <3>1, GoodServed
        <3>3. QED BY <1>2, <2>3, <3>1, <3>2
    <2>4. QED BY <1>4, <2>1, <2>2, <2>3, ServesOddly
<1>5. CASE Push(s) \/ RemoveMember(s)
    <2>1. S.th = "loop" /\ lost' = lost /\ Grows(lost, lost')
        BY <1>5 DEF Push, RemoveMember, Grows
    <2>2. PICK a \in Message : a.id = 0 /\ a.kind # "close" /\ Becomes(s, Told(S, a))
        BY <1>5, Pushes, RemovesMember
    <2>3. Good(lost', Told(S, a))
        BY <1>1, <2>1, <2>2, GoodTold
    <2>4. QED BY <1>2, <2>1, <2>2, <2>3
<1>6. CASE ServerCloses(s)
    <2>1. S.th = "loop" /\ lost' = lost /\ Grows(lost, lost')
        BY <1>6 DEF ServerCloses, Grows
    <2>2. PICK a \in Message :
             a.id = 0 /\ Becomes(s, [Told(S, a) EXCEPT !.open = FALSE, !.up = <<>>])
        BY <1>6, ServerCloseIs
    <2> HIDE DEF S
    <2>3. Good(lost', [Told(S, a) EXCEPT !.open = FALSE, !.up = <<>>])
        BY <1>1, <2>1, <2>2, GoodTold
    <2>4. QED BY <1>2, <2>1, <2>2, <2>3
<1>7. QED BY <1>3, <1>4, <1>5, <1>6 DEF Server

\* What other users do keeps the sessions good.
LEMMA ForeignKeepsGood ==
    ASSUME WsType, SessionInv, NEW w \in Wallet, ForeignEdit(w)
    PROVE  SessionInv'
<1>1. PICK a \in Message :
         /\ a.id = 0 /\ a.kind = "wallet" /\ Session' = Session
         /\ \A s \in Session :
               sess'[s] = IF /\ sess[s].th = "loop" /\ sess[s].open
                             /\ sess[s].who \in MemberOf[OrgOf[w]]
                          THEN Told(sess[s], a) ELSE sess[s]
    BY ForeignEdits
<1>2. lost' = lost
    BY DEF ForeignEdit
<1>3. ASSUME NEW s \in Session PROVE Good(lost', sess'[s])
    <2>1. sess[s] \in Sessions /\ Good(lost, sess[s])
        BY ASession DEF SessionInv
    <2>2. sess[s].th = "loop" => Good(lost, Told(sess[s], a))
        BY <1>1, <2>1, GoodTold
    <2>3. QED BY <1>1, <1>2, <2>1, <2>2
<1>4. QED BY <1>1, <1>3 DEF SessionInv

\* Every step keeps the sessions good.
LEMMA NextGood ==
    ASSUME WsType, SessionInv, WsNext
    PROVE  SessionInv'
<1>1. CASE Gui
    BY <1>1, GuiKeepsGood
<1>2. CASE \E s \in Session : WssThread(s) \/ Timers(s) \/ Server(s)
    BY <1>2, WssThreadKeepsGood, TimersKeepGood, ServerKeepsGood
<1>3. CASE \E w \in Wallet : ForeignEdit(w)
    BY <1>3, ForeignKeepsGood
<1>4. QED BY <1>1, <1>2, <1>3 DEF WsNext

\* Nothing done keeps both.
LEMMA StutterTypeGood ==
    ASSUME WsType, SessionInv, UNCHANGED wsVars
    PROVE  WsType' /\ SessionInv'
BY DEF WsType, SessionInv, Session, wsVars, clientVars, cacheVars, guiVars, notifVars, auxVars

\* The types hold always, and what a session waits for, has been told and finds stale
\* fits together.
THEOREM SessionsGood == WsSpec => [](WsType /\ SessionInv)
<1>1. WsInit => WsType /\ SessionInv
    BY InitType
<1>2. WsType /\ SessionInv /\ [WsNext]_wsVars => WsType' /\ SessionInv'
    BY NextType, NextGood, StutterTypeGood
<1>3. QED BY <1>1, <1>2, PTL DEF WsSpec

\* The type invariant of the client, its sessions, its caches and the server, whatever
\* the accounts, organisations and wallets are.
THEOREM TypesOK == WsSpec => []WsTypeOK
<1>1. ASSUME WsType PROVE WsTypeOK
    <2>1. ASSUME NEW s \in Session
          PROVE  /\ sess[s].th \in {"start", "handshake", "loop", "done"}
                 /\ {sess[s].email, sess[s].who} \subseteq Account \cup {NoOne}
                 /\ {sess[s].open, sess[s].conn, sess[s].ping} \subseteq BOOLEAN
                 /\ sess[s].queue \in Seq(Request)
                 /\ \A i \in DOMAIN sess[s].sent :
                       sess[s].sent[i] \in [req : Request, tries : 0 .. MaxRetries]
                 /\ sess[s].pinger \in {"off", "send", "record", "sleep"}
        <3> DEFINE S == sess[s]
        <3>1. S \in Sessions
            BY <1>1, ASession
        <3> HIDE DEF S
        <3>2. /\ S.th \in {"start", "handshake", "loop", "done"}
              /\ {S.email, S.who} \subseteq Account \cup {NoOne}
              /\ {S.open, S.conn, S.ping} \subseteq BOOLEAN
              /\ S.pinger \in {"off", "send", "record", "sleep"}
            BY <3>1 DEF Sessions
        <3>3. S.queue \in Seq(Request)
            <4>1. S.queue \in Seq(Req) /\ Req \subseteq Request
                BY <3>1, FieldsAre DEF Req
            <4>2. QED BY <4>1
        <3>4. \A i \in DOMAIN S.sent : S.sent[i] \in [req : Request, tries : 0 .. MaxRetries]
            <4>1. PICK D \in SUBSET Id : S.sent \in [D -> Entries]
                BY <3>1, FieldsAre DEF Partial
            <4>2. Entries \subseteq [req : Request, tries : 0 .. MaxRetries]
                BY DEF Entries, Req
            <4>3. QED BY <4>1, <4>2
        <3>5. QED BY <3>2, <3>3, <3>4 DEF S
    <2>2. DOMAIN wallets \subseteq Wallet /\ \A w \in DOMAIN wallets : wallets[w] \in Snapshot
        BY <1>1 DEF WsType, Partial
    <2>3. QED BY <1>1, <2>1, <2>2 DEF WsTypeOK, WsType
<1>2. QED BY <1>1, SessionsGood, PTL

\* What a session waits for is on its way: in what the server has still to do, in what
\* it said, or in hand, however many sessions and requests there are, and whatever is
\* refused or sent again.
THEOREM WaitsForWhatComes == WsSpec => []SentIsOwed
<1>1. ASSUME SessionInv PROVE SentIsOwed
    BY <1>1 DEF SessionInv, Good, Owed, Coming, SentIsOwed
<1>2. QED BY <1>1, SessionsGood, PTL

-----------------------------------------------------------------------------
(* What sessions hear. *)

\* What becomes of what a session has been told, when the server's wallets become st.
Heard(st, S, T) ==
    \/ T.down = S.down /\ T.hand \in {S.hand, NoMessage}
    \/ S.down # <<>> /\ T.down = Tail(S.down) /\ T.hand \in {S.hand, Head(S.down)}
    \/ \E a \in Message : /\ a.kind = "wallet" => a.body = st[a.of]
                          /\ T.down = Append(S.down, a) /\ T.hand = S.hand

HearsOn(st, S, T) == Heard(st, S, T) /\ (S.th = "done" => T.th = "done")

AllHear == \A s \in Session : s \in Session' /\ HearsOn(store', sess[s], sess'[s])

\* One session hears of what the server has: all do.
LEMMA OneHears ==
    ASSUME WsType, NEW s \in Session, NEW T, Becomes(s, T), HearsOn(store', sess[s], T)
    PROVE  AllHear
BY Others DEF AllHear, HearsOn, Heard

\* A session that stays as it is hears of nothing.
LEMMA SameHears ==
    ASSUME UNCHANGED sess
    PROVE  AllHear
BY DEF AllHear, HearsOn, Heard, Session

\* A session that closes hears of nothing.
LEMMA ClosedHears ==
    ASSUME NEW S \in Sessions, NEW st
    PROVE  HearsOn(st, S, S) /\ HearsOn(st, S, CloseOf(S))
BY CloseOfIs DEF HearsOn, Heard

\* The GUI lets no session hear of anything.
LEMMA GuiHears ==
    ASSUME WsType, Gui
    PROVE  /\ AllHear
           /\ \A s \in Session' \ Session : sess'[s].down = <<>> /\ sess'[s].hand = NoMessage
<1>1. CASE ConnectWs
    <2>1. \A s \in Session : s \in Session' /\ HearsOn(store', sess[s], sess'[s])
        BY <1>1, ConnectsWs, ASession, ClosedHears
    <2>2. /\ Session' \ Session \subseteq {Current'}
          /\ sess'[Current'].down = <<>> /\ sess'[Current'].hand = NoMessage
        BY <1>1, ConnectsWs DEF NewSession
    <2>3. QED BY <2>1, <2>2 DEF AllHear
<1>2. CASE Logout
    BY <1>2, LogsOut, ASession, ClosedHears DEF AllHear
<1>3. CASE UNCHANGED sess
    BY <1>3, SameHears DEF Session
<1>4. ASSUME NEW w \in Wallet, Edit(w)
      PROVE  AllHear /\ Session' = Session
    <2>1. CASE UNCHANGED <<sess, edits>>
        BY <2>1, SameHears DEF Session
    <2>2. CASE /\ Current \in Session /\ EditWallet(w, edits') \in Req
               /\ Becomes(Current, Queued(sess[Current], <<EditWallet(w, edits')>>))
        <3> DEFINE r == EditWallet(w, edits')
                   S == sess[Current]
        <3>1. r \in Req /\ S \in Sessions /\ Becomes(Current, Queued(S, <<r>>))
            BY <2>2, ASession
        <3> HIDE DEF r
        <3>2. <<r>> \in Seq(Req)
            BY <3>1
        <3>3. HearsOn(store', S, Queued(S, <<r>>))
            BY <3>1, <3>2, QueuedSame DEF HearsOn, Heard
        <3>4. QED BY <2>2, <3>1, <3>3, OneHears, Others
    <2>3. QED BY <1>4, <2>1, <2>2, Edits
<1>5. QED BY <1>1, <1>2, <1>3, <1>4
          DEF Gui, SelectAccount, AuthRequest, CodeVerified, AuthCode, HandleNotif,
              ConnectionFailed, PollPending

\* A session's thread only moves the messages that came on.
LEMMA WssThreadHears ==
    ASSUME WsType, SessionInv, NEW s \in Session, WssThread(s)
    PROVE  AllHear /\ Session' = Session
<1> DEFINE S == sess[s]
<1>1. S \in Sessions /\ Good(lost, S)
    BY ASession DEF SessionInv
<1>2. \A T : Becomes(s, T) /\ HearsOn(store', S, T) => AllHear /\ Session' = Session
    BY OneHears, Others
<1>3. CASE TakeToken(s)
    <2> DEFINE D == [S EXCEPT !.th = "done"]
               H == [S EXCEPT !.th = "handshake", !.who = token']
    <2>1. S.th = "start"
        BY <1>3 DEF TakeToken
    <2>2. HearsOn(store', S, D) /\ HearsOn(store', S, H)
        BY <1>1, <2>1 DEF Sessions, HearsOn, Heard
    <2>3. QED BY <1>2, <1>3, <2>2, TakesToken
<1>4. CASE Handshake(s)
    <2> DEFINE H == [S EXCEPT !.th = "loop", !.conn = TRUE, !.pinger = "send",
                              !.queue = Append(@, FetchUser(S.who))]
    <2>1. S.th = "handshake" /\ Becomes(s, H)
        BY <1>4, Handshakes DEF Handshake
    <2>2. HearsOn(store', S, H)
        BY <1>1, <2>1 DEF Sessions, HearsOn, Heard
    <2>3. QED BY <1>2, <2>1, <2>2
<1>5. CASE HandshakeFails(s)
    <2>1. HearsOn(store', S, [S EXCEPT !.th = "done"])
        BY <1>1 DEF Sessions, HearsOn, Heard
    <2>2. QED BY <1>2, <1>5, <2>1, HandshakeFailing
<1>6. CASE LoopRecv(s)
    <2> DEFINE C == [S EXCEPT !.queue = Tail(@), !.th = "done", !.conn = FALSE,
                              !.open = FALSE]
               F == [S EXCEPT !.queue = Tail(@), !.th = "done"]
               N == Sent(S, Head(S.queue), NewId(S))
    <2>1. S.th = "loop"
        BY <1>6 DEF LoopRecv
    <2>2. HearsOn(store', S, C) /\ HearsOn(store', S, F)
        BY <1>1, <2>1 DEF Sessions, HearsOn, Heard
    <2>3. HearsOn(store', S, N)
        BY <1>1, <2>1 DEF Sessions, HearsOn, Heard, Sent
    <2>4. QED BY <1>2, <1>6, <2>2, <2>3, LoopReceives
<1>7. CASE LoopRead(s)
    <2> DEFINE D == [S EXCEPT !.down = Tail(@), !.th = "done"]
               R == [S EXCEPT !.down = Tail(@), !.hand = Head(S.down)]
    <2>1. S.th = "loop" /\ S.down # <<>>
        BY <1>7 DEF LoopRead
    <2>2. HearsOn(store', S, D) /\ HearsOn(store', S, R)
        BY <1>1, <2>1 DEF Sessions, HearsOn, Heard
    <2>3. QED BY <1>2, <1>7, <2>2, LoopReads
<1>8. CASE Handle(s)
    <2>1. S.th = "loop"
        BY <1>1, <1>8 DEF Handle, Good, InHand
    <2>2. \A done, reqs, ping : HearsOn(store', S, Answered(S, done, reqs, ping))
        BY <1>1, <2>1 DEF Sessions, HearsOn, Heard, Answered
    <2> HIDE DEF S
    <2>3. QED BY <1>2, <1>8, <2>2, Handlings DEF Handle, S
<1>9. QED BY <1>3, <1>4, <1>5, <1>6, <1>7, <1>8 DEF WssThread

\* The pinger and the timeouts bring no message.
LEMMA TimersHear ==
    ASSUME WsType, SessionInv, NEW s \in Session, Timers(s)
    PROVE  AllHear /\ Session' = Session
<1> DEFINE S == sess[s]
<1>1. S \in Sessions
    BY ASession
<1>2. \A T : Becomes(s, T) /\ HearsOn(store', S, T) => AllHear /\ Session' = Session
    BY OneHears, Others
<1>3. CASE PingSend(s)
    <2> DEFINE Q == Queued(S, <<Ping>>)
    <2>1. <<Ping>> \in Seq(Req)
        BY FetchesAreReq
    <2>2. Q \in Sessions /\ Q.down = S.down /\ Q.hand = S.hand /\ Q.th = S.th
        BY <1>1, <2>1, QueuedIs, QueuedSame
    <2>3. Becomes(s, [Q EXCEPT !.pinger = "record"])
        BY <1>3, PingSends
    <2> HIDE DEF Q
    <2>4. HearsOn(store', S, [Q EXCEPT !.pinger = "record"])
        BY <2>2 DEF Sessions, HearsOn, Heard
    <2>5. QED BY <1>2, <2>3, <2>4
<1>4. CASE PingRecord(s)
    <2>1. HearsOn(store', S, [S EXCEPT !.pinger = "sleep", !.ping = TRUE])
        BY <1>1 DEF Sessions, HearsOn, Heard
    <2>2. QED BY <1>2, <1>4, <2>1, PingRecords
<1>5. CASE PingTimeout(s)
    <2>1. HearsOn(store', S, [S EXCEPT !.conn = FALSE])
        BY <1>1 DEF Sessions, HearsOn, Heard
    <2>2. QED BY <1>2, <1>5, <2>1, PingTimesOut
<1>6. CASE FindStale(s)
    <2>1. PICK X \in SUBSET DOMAIN S.sent : Becomes(s, [S EXCEPT !.stale = Found(S, X)])
        BY <1>6, FindsStale
    <2>2. HearsOn(store', S, [S EXCEPT !.stale = Found(S, X)])
        BY <1>1 DEF Sessions, HearsOn, Heard
    <2>3. QED BY <1>2, <2>1, <2>2
<1>7. CASE SweepOne(s)
    <2>1. PICK m \in S.stale :
             /\ m \in [id : Id, req : Req, tries : 0 .. MaxRetries]
             /\ Becomes(s, GivenUp(S, m)) \/ Becomes(s, SentAgain(S, m))
        BY <1>7, SweepsOne
    <2> DEFINE K == Taken(S, m)
               Q == Queued(K, <<m.req>>)
    <2>2. K \in Sessions /\ K.down = S.down /\ K.hand = S.hand /\ K.th = S.th
        BY <1>1, TakenIs DEF Taken, Sessions
    <2>3. <<m.req>> \in Seq(Req)
        BY <2>1
    <2>4. Q \in Sessions /\ Q.down = S.down /\ Q.hand = S.hand /\ Q.th = S.th
        BY <2>2, <2>3, QueuedIs, QueuedSame
    <2>5. HearsOn(store', S, GivenUp(S, m))
        BY <2>2 DEF Sessions, HearsOn, Heard, GivenUp
    <2>6. HearsOn(store', S, SentAgain(S, m))
        <3> HIDE DEF Q
        <3>1. SentAgain(S, m) = [Q EXCEPT !.sent = TriedAgain(@, m.id)]
            BY DEF SentAgain, Q
        <3>2. QED BY <2>4, <3>1 DEF Sessions, HearsOn, Heard
    <2>7. QED BY <1>2, <2>1, <2>5, <2>6
<1>8. QED BY <1>3, <1>4, <1>5, <1>6, <1>7 DEF Timers

\* The server lets a session hear of a wallet as it is.
LEMMA ToldHears ==
    ASSUME NEW S \in Sessions, NEW R \in Sessions, R.down = S.down, R.hand = S.hand,
           R.th = S.th, NEW st, NEW a \in Message, a.kind = "wallet" => a.body = st[a.of]
    PROVE  HearsOn(st, S, Told(R, a))
<1>1. /\ Told(R, a).th = R.th /\ Told(R, a).hand = R.hand
      /\ Told(R, a).down = IF R.th = "done" THEN R.down ELSE Append(R.down, a)
    BY ToldIs
<1>2. QED BY <1>1 DEF HearsOn, Heard

\* The server tells of its wallets as they are.
LEMMA ServerHears ==
    ASSUME WsType, NEW s \in Session, Server(s)
    PROVE  AllHear /\ Session' = Session
<1> DEFINE S == sess[s]
<1>1. S \in Sessions
    BY ASession
<1>2. \A T : Becomes(s, T) /\ HearsOn(store', S, T) => AllHear /\ Session' = Session
    BY OneHears, Others
<1>3. ASSUME S.up # <<>>
      PROVE  /\ Served(S) \in Sessions /\ Served(S).down = S.down
             /\ Served(S).hand = S.hand /\ Served(S).th = S.th
    BY <1>1, <1>3, ServedIs DEF Served, Sessions
<1>4. CASE Serve(s)
    <2>1. S.up # <<>>
        BY <1>4 DEF Serve
    <2>2. PICK a : Reply(a, Head(S.up)) /\ Becomes(s, Told(Served(S), a))
        BY <1>4, Serves
    <2>3. a \in Message /\ (a.kind = "wallet" => a.body = store'[a.of])
        BY <2>2 DEF Reply
    <2>4. HearsOn(store', S, Told(Served(S), a))
        BY <1>1, <1>3, <2>1, <2>3, ToldHears
    <2>5. QED BY <1>2, <2>2, <2>4
<1>5. CASE ServeOddly(s)
    <2>1. S.up # <<>>
        BY <1>5 DEF ServeOddly
    <2>2. \/ \E a \in Message : /\ a.kind \in {"error", "unauthorized", "unknown", "pong"}
                                /\ Becomes(s, Told(Served(S), a))
          \/ Becomes(s, Served(S))
        BY <1>5, ServesOddly
    <2>3. ASSUME NEW a \in Message, a.kind \in {"error", "unauthorized", "unknown", "pong"}
          PROVE  HearsOn(store', S, Told(Served(S), a))
        BY <1>1, <1>3, <2>1, <2>3, ToldHears
    <2>4. HearsOn(store', S, Served(S))
        BY <1>3, <2>1 DEF HearsOn, Heard
    <2>5. QED BY <1>2, <2>2, <2>3, <2>4
<1>6. CASE Push(s) \/ RemoveMember(s)
    <2>1. PICK a \in Message : a.kind # "wallet" /\ Becomes(s, Told(S, a))
        BY <1>6, Pushes, RemovesMember
    <2>2. HearsOn(store', S, Told(S, a))
        BY <1>1, <2>1, ToldHears
    <2>3. QED BY <1>2, <2>1, <2>2
<1>7. CASE ServerCloses(s)
    <2>1. PICK a \in Message :
             /\ a.kind = "close"
             /\ Becomes(s, [Told(S, a) EXCEPT !.open = FALSE, !.up = <<>>])
        BY <1>7, ServerCloseIs
    <2> DEFINE T == Told(S, a)
    <2>2. HearsOn(store', S, T) /\ T \in Sessions
        BY <1>1, <2>1, ToldHears, ToldIs
    <2>3. Becomes(s, [T EXCEPT !.open = FALSE, !.up = <<>>])
        BY <2>1
    <2> HIDE DEF T
    <2>4. HearsOn(store', S, [T EXCEPT !.open = FALSE, !.up = <<>>])
        BY <2>2 DEF HearsOn, Heard, Sessions
    <2>5. QED BY <1>2, <2>3, <2>4
<1>8. QED BY <1>4, <1>5, <1>6, <1>7 DEF Server

\* Other users' edits are told as they are.
LEMMA ForeignHears ==
    ASSUME WsType, NEW w \in Wallet, ForeignEdit(w)
    PROVE  AllHear /\ Session' = Session
<1>1. PICK a \in Message :
         /\ a.of = w /\ a.body = store'[w] /\ Session' = Session
         /\ \A s \in Session :
               sess'[s] = IF /\ sess[s].th = "loop" /\ sess[s].open
                             /\ sess[s].who \in MemberOf[OrgOf[w]]
                          THEN Told(sess[s], a) ELSE sess[s]
    BY ForeignEdits
<1>2. ASSUME NEW s \in Session PROVE HearsOn(store', sess[s], sess'[s])
    <2>1. sess[s] \in Sessions
        BY ASession
    <2>2. HearsOn(store', sess[s], Told(sess[s], a))
        BY <1>1, <2>1, ToldHears
    <2>3. HearsOn(store', sess[s], sess[s])
        BY DEF HearsOn, Heard
    <2>4. QED BY <1>1, <2>2, <2>3
<1>3. QED BY <1>1, <1>2 DEF AllHear

\* What sessions hear in a step, and that the server's revisions only grow.
LEMMA NextHears ==
    ASSUME WsType, SessionInv, WsNext
    PROVE  /\ AllHear
           /\ \A s \in Session' \ Session : sess'[s].down = <<>> /\ sess'[s].hand = NoMessage
<1>1. CASE Gui
    BY <1>1, GuiHears
<1>2. CASE \E s \in Session : WssThread(s) \/ Timers(s) \/ Server(s)
    BY <1>2, WssThreadHears, TimersHear, ServerHears
<1>3. CASE \E w \in Wallet : ForeignEdit(w)
    BY <1>3, ForeignHears
<1>4. QED BY <1>1, <1>2, <1>3 DEF WsNext

\* The server's wallets after a step that is not its.
LEMMA ClientStore ==
    ASSUME NEW s, Gui \/ WssThread(s) \/ Timers(s)
    PROVE  store' = store
BY DEF Gui, SelectAccount, AuthRequest, CodeVerified, AuthCode, Logout, Edit, HandleNotif,
       PollPending, WssThread, TakeToken, Handshake, HandshakeFails, LoopRecv, LoopRead,
       Handle, HandledFrame, Timers, PingSend, PingRecord, PingTimeout, FindStale, SweepOne,
       OtherFrame

\* Revisions only grow.
LEMMA StoreGrows ==
    ASSUME WsType, SessionInv, WsNext
    PROVE  \A w \in Wallet : store'[w].rev >= store[w].rev
<1>0. /\ store \in [Wallet -> Snapshot]
      /\ \A w \in Wallet : store[w].rev \in Nat
    BY DEF WsType, Snapshot
<1>1. CASE store' = store
    BY <1>0, <1>1
<1>2. ASSUME NEW s \in Session, Serve(s)
      PROVE  \A w \in Wallet : store'[w].rev >= store[w].rev
    <2> DEFINE r == Head(sess[s].up).req
    <2>1. CASE r.kind # "edit"
        BY <1>0, <1>2, <2>1 DEF Serve
    <2>2. CASE r.kind = "edit"
        <3>1. store' = [store EXCEPT ![r.of] = [rev |-> @.rev + 1, by |-> sess[s].who,
                                                edit |-> r.edit]]
            BY <1>2, <2>2 DEF Serve
        <3> HIDE DEF r
        <3>2. \A w \in Wallet : store'[w].rev = IF w = r.of THEN store[w].rev + 1
                                                           ELSE store[w].rev
            BY <1>0, <3>1
        <3>3. QED BY <1>0, <3>2
    <2>3. QED BY <2>1, <2>2
<1>3. ASSUME NEW w \in Wallet, ForeignEdit(w)
      PROVE  \A v \in Wallet : store'[v].rev >= store[v].rev
    BY <1>3, ForeignEdits
<1>4. ASSUME NEW s \in Session, Server(s), ~Serve(s)
      PROVE  store' = store
    BY <1>4 DEF Server, ServeOddly, Push, RemoveMember, ServerCloses
<1>5. QED BY <1>1, <1>2, <1>3, <1>4, ClientStore DEF WsNext

-----------------------------------------------------------------------------
(* Wallets are not replaced by older ones. *)

\* Once a session was left without closing, that is so for good.
LEMMA StrayedStays ==
    ASSUME WsType, WsNext
    PROVE  strayed => strayed'
<1>1. CASE Gui
    <2>1. ASSUME NEW a \in Account, SelectAccount(a) \/ AuthRequest(a) \/ CodeVerified(a)
          PROVE  strayed => strayed'
        BY <2>1, StrayedIs DEF SelectAccount, AuthRequest, CodeVerified, auxVars
    <2>2. CASE AuthCode \/ Logout \/ (\E w \in Wallet : Edit(w)) \/ PollPending
        BY <2>2, StrayedIs DEF AuthCode, Logout, Edit, PollPending, auxVars
    <2>3. CASE HandleNotif
        BY <2>3, StrayedIs DEF HandleNotif, ConnectionFailed
    <2>4. QED BY <1>1, <2>1, <2>2, <2>3 DEF Gui
<1>2. ASSUME NEW s \in Session, WssThread(s) PROVE strayed' = strayed
    BY <1>2 DEF WssThread, TakeToken, Handshake, HandshakeFails, LoopRecv, LoopRead, Handle,
                HandledFrame, ThreadFrame
<1>3. ASSUME NEW s \in Session, Timers(s) PROVE strayed' = strayed
    BY <1>3 DEF Timers, PingSend, PingRecord, PingTimeout, FindStale, SweepOne, OtherFrame,
                ThreadFrame
<1>4. ASSUME NEW s \in Session, Server(s) PROVE strayed' = strayed
    BY <1>4 DEF Server, Serve, ServeOddly, Push, RemoveMember, ServerCloses, ServerFrame
<1>5. ASSUME NEW w \in Wallet, ForeignEdit(w) PROVE strayed' = strayed
    BY <1>5 DEF ForeignEdit, ServerFrame
<1>6. QED BY <1>1, <1>2, <1>3, <1>4, <1>5 DEF WsNext

\* Only the last session may live, the others have ended.
LastLives == ~strayed => \A s \in Session : s < Current => sess[s].th = "done"

\* Only connect_ws() makes a session.
LEMMA ConnectSteps ==
    ASSUME WsType, SessionInv, WsNext
    PROVE  (Session' = Session /\ Current' = Current) \/ ConnectWs
<1>1. CASE Gui
    <2>1. CASE UNCHANGED sess
        BY <2>1 DEF Session, Current
    <2>2. ASSUME NEW w \in Wallet, Edit(w) PROVE Session' = Session /\ Current' = Current
        <3>1. CASE UNCHANGED <<sess, edits>>
            BY <3>1 DEF Session, Current
        <3>2. QED BY <2>2, <3>1, Edits, Others
    <2>3. QED BY <1>1, <2>1, <2>2, LogsOut
              DEF Gui, SelectAccount, AuthRequest, CodeVerified, AuthCode, HandleNotif,
                  ConnectionFailed, PollPending
<1>2. CASE ~Gui
    <2>1. Session' = Session
        BY <1>2, WssThreadHears, TimersHear, ServerHears, ForeignHears DEF WsNext
    <2>2. sess \in Seq(Sessions) /\ sess' \in Seq(Sessions)
        BY NextType DEF WsType
    <2>3. 1 .. Len(sess') = 1 .. Len(sess) /\ Len(sess) \in Nat /\ Len(sess') \in Nat
        BY <2>1, <2>2 DEF Session
    <2>4. Len(sess') = Len(sess)
        BY <2>3
    <2>5. QED BY <2>1, <2>4 DEF Current
<1>3. QED BY <1>1, <1>2

\* Every step keeps the sessions before the last one ended, unless the run strays.
LEMMA LastLivesStays ==
    ASSUME WsType, SessionInv, LastLives, WsNext
    PROVE  LastLives'
<1> SUFFICES ASSUME ~strayed', NEW s \in Session', s < Current' PROVE sess'[s].th = "done"
    BY DEF LastLives
<1>1. ~strayed
    BY StrayedStays
<1>2. \A r \in Session : sess[r].th = "done" => sess'[r].th = "done"
    BY NextHears DEF AllHear, HearsOn
<1>3. CASE Session' = Session /\ Current' = Current
    BY <1>1, <1>2, <1>3 DEF LastLives
<1>4. CASE ConnectWs
    <2>1. ~LeftBehind /\ ~Connected
        BY <1>1, <1>4 DEF ConnectWs
    <2>2. s \in Session /\ s <= Current
        BY <1>4, ConnectsWs
    <2>3. sess # <<>>
        BY <2>2 DEF Session
    <2>4. sess[Current].th = "done"
        BY <2>1, <2>3 DEF LeftBehind, Connected
    <2>5. s \in Nat /\ Current \in Nat
        <3>1. sess \in Seq(Sessions)
            BY DEF WsType
        <3>2. QED BY <2>2, <3>1 DEF Session, Current
    <2>6. sess[s].th = "done"
        BY <1>1, <2>2, <2>4, <2>5 DEF LastLives
    <2>7. QED BY <1>2, <2>2, <2>6
<1>5. QED BY <1>3, <1>4, ConnectSteps

\* A session that hears of the newest state, at most, stays ordered.
LEMMA OrderedKept ==
    ASSUME NEW st \in [Wallet -> Snapshot], NEW su \in [Wallet -> Snapshot],
           \A w \in Wallet : su[w].rev >= st[w].rev,
           NEW S \in Sessions, NEW T \in Sessions, Ordered(st, S), Heard(su, S, T)
    PROVE  /\ Ordered(su, T)
           /\ \A m \in Coming(T) : \/ m \in Coming(S)
                                   \/ m.kind = "wallet" => m.body = su[m.of]
<1> DEFINE p == S.down
           q == T.down
<1>1. /\ p \in Seq(Message) /\ q \in Seq(Message) /\ S.hand \in Message /\ T.hand \in Message
    BY FieldsAre
<1>2. \A m \in Message : /\ m.body.rev \in Nat
                         /\ m.kind = "wallet" => m.of \in Wallet
    BY DEF Message, Snapshot
<1>3. /\ \A w \in Wallet : st[w].rev \in Nat /\ su[w].rev \in Nat
      /\ NoMessage \in Message /\ NoMessage.kind # "wallet"
    BY NoMessageIs DEF Snapshot
<1>4. /\ \A i, j \in DOMAIN p : i < j => Newer(p[i], p[j])
      /\ \A i \in DOMAIN p : Newer(S.hand, p[i])
      /\ \A m \in ToSet(p) \cup {S.hand} : m.kind = "wallet" => m.body.rev <= st[m.of].rev
    BY DEF Ordered, Coming
<1>5. \A m \in ToSet(p) \cup {S.hand} : m.kind = "wallet" => m.body.rev <= su[m.of].rev
    <2>1. ASSUME NEW m \in ToSet(p) \cup {S.hand}, m.kind = "wallet"
          PROVE  m.body.rev <= su[m.of].rev
        <3>1. m \in Message
            BY <1>1, ToSetOf
        <3>2. m.of \in Wallet /\ m.body.rev \in Nat
            BY <1>2, <2>1, <3>1
        <3>3. m.body.rev <= st[m.of].rev /\ su[m.of].rev >= st[m.of].rev
            BY <1>4, <2>1, <3>2
        <3>4. QED BY <1>3, <3>2, <3>3
    <2>2. QED BY <2>1
<1>6. Coming(S) = ToSet(p) \cup {S.hand} /\ Coming(T) = ToSet(q) \cup {T.hand}
    BY DEF Coming
<1>7. CASE q = p /\ T.hand \in {S.hand, NoMessage}
    BY <1>3, <1>4, <1>5, <1>6, <1>7 DEF Ordered, Newer
<1>8. CASE p # <<>> /\ q = Tail(p) /\ T.hand \in {S.hand, Head(p)}
    <2> HIDE DEF p, q
    <2>1. \A i \in DOMAIN q : i + 1 \in DOMAIN p /\ q[i] = p[i + 1]
        BY <1>1, <1>8
    <2>2. 1 \in DOMAIN p /\ Head(p) = p[1] /\ DOMAIN q \subseteq Nat \ {0}
        BY <1>1, <1>8
    <2>3. ToSet(q) \cup {T.hand} \subseteq ToSet(p) \cup {S.hand}
        BY <1>1, <1>8, ToSetOf
    <2>4. \A i, j \in DOMAIN q : i < j => i + 1 < j + 1
        BY <2>2
    <2>5. \A i \in DOMAIN q : 1 < i + 1
        BY <2>2
    <2>6. \A i, j \in DOMAIN q : i < j => Newer(q[i], q[j])
        BY <1>4, <2>1, <2>4
    <2>7. \A i \in DOMAIN q : Newer(T.hand, q[i])
        BY <1>4, <1>8, <2>1, <2>2, <2>5
    <2>8. QED BY <1>5, <1>6, <2>3, <2>6, <2>7 DEF Ordered, p, q
<1>9. CASE \E a \in Message : /\ a.kind = "wallet" => a.body = su[a.of]
                              /\ q = Append(p, a) /\ T.hand = S.hand
    <2>1. PICK a \in Message : /\ a.kind = "wallet" => a.body = su[a.of]
                               /\ q = Append(p, a) /\ T.hand = S.hand
        BY <1>9
    <2> HIDE DEF p, q
    <2>2. /\ DOMAIN q = DOMAIN p \cup {Len(p) + 1} /\ q[Len(p) + 1] = a
          /\ \A i \in DOMAIN p : q[i] = p[i] /\ i < Len(p) + 1 /\ ~(Len(p) + 1 < i)
          /\ Len(p) \in Nat
        BY <1>1, <2>1
    <2>3. ToSet(q) = ToSet(p) \cup {a}
        BY <1>1, <2>1, ToSetOf
    <2>4. a.kind = "wallet" => a.body.rev <= su[a.of].rev
        BY <1>2, <2>1
    <2>5. \A m \in ToSet(p) \cup {S.hand} : Newer(m, a)
        BY <1>5, <2>1 DEF Newer
    <2>6. \A i \in DOMAIN p : p[i] \in ToSet(p)
        BY DEF ToSet
    <2>7. \A i, j \in DOMAIN q : i < j => Newer(q[i], q[j])
        <3> SUFFICES ASSUME NEW i \in DOMAIN q, NEW j \in DOMAIN q, i < j
                     PROVE  Newer(q[i], q[j])
            OBVIOUS
        <3>1. CASE i \in DOMAIN p /\ j \in DOMAIN p
            BY <1>4, <2>2, <3>1
        <3>2. CASE i \in DOMAIN p /\ j = Len(p) + 1
            BY <2>2, <2>5, <2>6, <3>2
        <3>3. i # Len(p) + 1
            BY <2>2
        <3>4. QED BY <2>2, <3>1, <3>2, <3>3
    <2>8. \A i \in DOMAIN q : Newer(T.hand, q[i])
        BY <1>4, <2>1, <2>2, <2>5
    <2>9. \A m \in ToSet(q) \cup {T.hand} : m.kind = "wallet" => m.body.rev <= su[m.of].rev
        BY <1>5, <2>1, <2>3, <2>4
    <2>10. QED BY <1>6, <2>1, <2>3, <2>7, <2>8, <2>9 DEF Ordered, p, q
<1>10. QED BY <1>7, <1>8, <1>9 DEF Heard

\* Who writes the cached wallets.
LEMMA WalletsAfter ==
    ASSUME WsNext
    PROVE  \/ wallets' = wallets
           \/ wallets' = <<>>
           \/ \E s \in Session : HandleWallet(s) /\ sess[s].hand # NoMessage
<1>1. Gui => wallets' = wallets \/ wallets' = <<>>
    BY DEF Gui, SelectAccount, AuthRequest, CodeVerified, AuthCode, Logout, Edit,
           HandleNotif, PollPending, cacheVars
<1>2. ASSUME NEW s \in Session, Handle(s)
      PROVE  \/ wallets' = wallets
             \/ HandleWallet(s) /\ sess[s].hand # NoMessage
    BY <1>2 DEF Handle, HandleUnknown, HandleError, HandleMismatch, HandlePong, HandleOrg,
                HandleUser, HandleRemoved, cacheVars
<1>3. ASSUME NEW s \in Session, WssThread(s), ~Handle(s)
      PROVE  wallets' = wallets
    BY <1>3 DEF WssThread, TakeToken, Handshake, HandshakeFails, LoopRecv, LoopRead, cacheVars
<1>4. ASSUME NEW s \in Session, Timers(s)
      PROVE  wallets' = wallets
    BY <1>4 DEF Timers, PingSend, PingRecord, PingTimeout, FindStale, SweepOne, OtherFrame,
                cacheVars
<1>5. ASSUME NEW s \in Session, Server(s)
      PROVE  wallets' = wallets
    BY <1>5 DEF Server, Serve, ServeOddly, Push, RemoveMember, ServerCloses, ServerFrame,
                cacheVars
<1>6. ASSUME NEW w \in Wallet, ForeignEdit(w)
      PROVE  wallets' = wallets
    BY <1>6 DEF ForeignEdit, ServerFrame, cacheVars
<1>7. QED BY <1>1, <1>2, <1>3, <1>4, <1>5, <1>6 DEF WsNext

\* A wallet is cached.
LEMMA WalletCached ==
    ASSUME WsType, SessionInv, NEW s \in Session, HandleWallet(s), sess[s].hand # NoMessage
    PROVE  LET h == sess[s].hand IN
           /\ h \in Message /\ h.kind = "wallet" /\ h.of \in Wallet /\ h.body \in Snapshot
           /\ DOMAIN wallets' = DOMAIN wallets \cup {h.of} /\ wallets'[h.of] = h.body
           /\ \A w \in DOMAIN wallets \ {h.of} : wallets'[w] = wallets[w]
           /\ sess[s].th = "loop"
           /\ sess'[s].hand = NoMessage /\ sess'[s].down = sess[s].down
<1> DEFINE h == sess[s].hand
<1>1. h \in Message /\ h.kind = "wallet" /\ h.of \in Wallet /\ h.body \in Snapshot
    BY InHandIs DEF HandleWallet
<1>2. wallets' = With(wallets, h.of, h.body) /\ wallets \in Partial(Wallet, Snapshot)
    BY DEF HandleWallet, WsType
<1>3. sess[s].th = "loop"
    BY DEF SessionInv, Good, InHand
<1>4. sess'[s].hand = NoMessage /\ sess'[s].down = sess[s].down
    <2>1. sess[s] \in Sessions
        BY ASession
    <2>2. \A done, reqs, ping :
              /\ Answered(sess[s], done, reqs, ping).hand = NoMessage
              /\ Answered(sess[s], done, reqs, ping).down = sess[s].down
        BY <2>1 DEF Answered, Sessions
    <2>3. PICK reqs : Becomes(s, Answered(sess[s], h.id, reqs, sess[s].ping))
        BY Handlings
    <2>4. sess'[s] = Answered(sess[s], h.id, reqs, sess[s].ping)
        BY <2>3, Others
    <2>5. QED BY <2>2, <2>4
<1> HIDE DEF h
<1>5. /\ DOMAIN wallets' = DOMAIN wallets \cup {h.of} /\ wallets'[h.of] = h.body
      /\ \A w \in DOMAIN wallets \ {h.of} : wallets'[w] = wallets[w]
    BY <1>1, <1>2, WithIs
<1>6. QED BY <1>1, <1>3, <1>4, <1>5 DEF h

\* Every step keeps the revisions in order.
LEMMA RevStays ==
    ASSUME WsType, SessionInv, LastLives, RevInv, WsNext
    PROVE  RevInv'
<1>1. /\ store \in [Wallet -> Snapshot] /\ store' \in [Wallet -> Snapshot]
      /\ \A w \in Wallet : store'[w].rev >= store[w].rev
    BY NextType, StoreGrows DEF WsType
<1>2. \A w \in Wallet : store[w].rev \in Nat /\ store'[w].rev \in Nat
    BY <1>1 DEF Snapshot
<1>3. ASSUME NEW s \in Session
      PROVE  /\ s \in Session' /\ HearsOn(store', sess[s], sess'[s])
             /\ sess[s] \in Sessions /\ sess'[s] \in Sessions /\ Ordered(store, sess[s])
    <2>1. s \in Session' /\ HearsOn(store', sess[s], sess'[s])
        BY NextHears DEF AllHear
    <2>2. sess' \in Seq(Sessions)
        BY NextType DEF WsType
    <2>3. QED BY <2>1, <2>2, ASession DEF Session, RevInv
<1>4. ASSUME NEW s \in Session
      PROVE  /\ Ordered(store', sess'[s])
             /\ \A m \in Coming(sess'[s]) : \/ m \in Coming(sess[s])
                                            \/ m.kind = "wallet" => m.body = store'[m.of]
    BY <1>1, <1>3, OrderedKept DEF HearsOn
<1>5. ASSUME NEW s \in Session' \ Session
      PROVE  sess'[s].down = <<>> /\ sess'[s].hand = NoMessage /\ Coming(sess'[s]) = {NoMessage}
    BY NextHears DEF Coming, ToSet
<1>6. ASSUME NEW s \in Session' PROVE Ordered(store', sess'[s])
    <2>1. CASE s \in Session
        BY <1>4, <2>1
    <2>2. CASE s \notin Session
        <3> DEFINE T == sess'[s]
        <3>1. T.down = <<>> /\ T.hand = NoMessage /\ Coming(T) = {NoMessage}
            BY <1>5, <2>2
        <3> HIDE DEF T
        <3>2. DOMAIN T.down = {}
            BY <3>1
        <3>3. Ordered(store', T)
            BY <3>1, <3>2, NoMessageIs DEF Ordered
        <3>4. QED BY <3>3 DEF T
    <2>3. QED BY <2>1, <2>2
<1>7. /\ \A w \in DOMAIN wallets : wallets[w].rev \in Nat /\ w \in Wallet
      /\ \A w \in DOMAIN wallets : wallets[w].rev <= store[w].rev
    BY DEF WsType, Partial, Snapshot, RevInv
<1>8. ASSUME NEW w \in DOMAIN wallets' PROVE wallets'[w].rev <= store'[w].rev
    <2>1. CASE wallets' = wallets
        BY <1>1, <1>2, <1>7, <2>1
    <2>2. CASE wallets' = <<>>
        BY <2>2
    <2>3. ASSUME NEW s \in Session, HandleWallet(s), sess[s].hand # NoMessage
          PROVE  wallets'[w].rev <= store'[w].rev
        <3> DEFINE h == sess[s].hand
        <3>1. /\ h.kind = "wallet" /\ h.of \in Wallet /\ h.body \in Snapshot
              /\ DOMAIN wallets' = DOMAIN wallets \cup {h.of} /\ wallets'[h.of] = h.body
              /\ \A v \in DOMAIN wallets \ {h.of} : wallets'[v] = wallets[v]
            BY <2>3, WalletCached
        <3>2. h.body.rev <= store[h.of].rev /\ h.body.rev \in Nat
            BY <1>3, <3>1 DEF Ordered, Coming, Snapshot
        <3> HIDE DEF h
        <3>3. QED BY <1>1, <1>2, <1>7, <3>1, <3>2
    <2>4. QED BY <2>1, <2>2, <2>3, WalletsAfter
<1>9. ASSUME ~strayed', NEW s \in Session', sess'[s].th # "done",
             NEW m \in Coming(sess'[s]), m.kind = "wallet", m.of \in DOMAIN wallets'
      PROVE  wallets'[m.of].rev <= m.body.rev
    <2>1. ~strayed
        BY <1>9, StrayedStays
    <2>2. s \in Session
        BY <1>5, <1>9, NoMessageIs
    <2>3. sess[s].th # "done"
        BY <1>3, <1>9, <2>2 DEF HearsOn
    <2>4. m \in Message /\ m.of \in Wallet /\ m.body.rev \in Nat
        <3>1. sess'[s].down \in Seq(Message) /\ sess'[s].hand \in Message
            BY <1>3, <2>2, FieldsAre
        <3>2. m \in Message
            BY <3>1, ToSetOf DEF Coming
        <3>3. QED BY <1>9, <3>2 DEF Message, Snapshot
    <2>5. ASSUME m.of \in DOMAIN wallets PROVE wallets[m.of].rev <= m.body.rev
        <3>1. CASE m \in Coming(sess[s])
            BY <1>9, <2>1, <2>2, <2>3, <2>5, <3>1 DEF RevInv
        <3>2. CASE m.body = store'[m.of]
            BY <1>1, <1>2, <1>7, <2>4, <2>5, <3>2
        <3>3. QED BY <1>4, <1>9, <2>2, <3>1, <3>2
    <2>6. CASE wallets' = wallets
        BY <1>9, <2>5, <2>6
    <2>7. CASE wallets' = <<>>
        BY <1>9, <2>7
    <2>8. ASSUME NEW r \in Session, HandleWallet(r), sess[r].hand # NoMessage
          PROVE  wallets'[m.of].rev <= m.body.rev
        <3>1. LET h == sess[r].hand IN
              /\ h.kind = "wallet" /\ wallets'[h.of] = h.body
              /\ DOMAIN wallets' = DOMAIN wallets \cup {h.of}
              /\ \A v \in DOMAIN wallets \ {h.of} : wallets'[v] = wallets[v]
              /\ sess[r].th = "loop"
              /\ sess'[r].hand = NoMessage /\ sess'[r].down = sess[r].down
            BY <2>8, WalletCached
        <3>2. r = s
            <4>1. /\ Session = 1 .. Len(sess) /\ Len(sess) \in Nat /\ Current = Len(sess)
                BY DEF WsType, Session, Current
            <4>2. ~(r < Current) /\ ~(s < Current)
                BY <2>1, <2>2, <2>3, <3>1 DEF LastLives
            <4>3. QED BY <2>2, <4>1, <4>2
        <3>3. CASE m.of = sess[r].hand.of
            <4>1. m \in ToSet(sess[s].down)
                BY <1>9, <3>1, <3>2, NoMessageIs DEF Coming
            <4>2. Newer(sess[s].hand, m)
                BY <1>3, <2>2, <4>1 DEF Ordered, ToSet
            <4>3. QED BY <1>9, <3>1, <3>2, <3>3, <4>2 DEF Newer
        <3>4. CASE m.of # sess[r].hand.of
            BY <1>9, <2>5, <3>1, <3>4
        <3>5. QED BY <3>3, <3>4
    <2>9. QED BY <2>6, <2>7, <2>8, WalletsAfter
<1>10. QED BY <1>6, <1>8, <1>9 DEF RevInv

\* A wallet in the cache is never replaced by an older one, whatever the server answers
\* and tells unasked, as long as no session was left without closing.
THEOREM NeverOlder == WsSpec => CacheNotOlder
<1> DEFINE Inv == WsType /\ SessionInv /\ LastLives /\ RevInv
           Step == ~strayed' => \A w \in DOMAIN wallets \cap DOMAIN wallets' :
                                    wallets'[w].rev >= wallets[w].rev
<1>1. WsInit => Inv
    <2>1. WsInit => Session = {} /\ DOMAIN wallets = {}
        BY DEF WsInit, Session
    <2>2. QED BY <2>1, InitType DEF LastLives, RevInv
<1>2. Inv /\ [WsNext]_wsVars => Inv'
    <2>1. Inv /\ WsNext => Inv'
        BY NextType, NextGood, LastLivesStays, RevStays
    <2>2. Inv /\ UNCHANGED wsVars => Inv'
        BY StutterTypeGood DEF LastLives, RevInv, Session, Current, wsVars, cacheVars, auxVars
    <2>3. QED BY <2>1, <2>2
<1>3. Inv /\ [WsNext]_wsVars => [Step]_wsVars
    <2> SUFFICES ASSUME Inv, WsNext, ~strayed', NEW w \in DOMAIN wallets \cap DOMAIN wallets'
                 PROVE  wallets'[w].rev >= wallets[w].rev
        OBVIOUS
    <2>1. wallets[w].rev \in Nat
        BY DEF WsType, Partial, Snapshot
    <2>2. CASE wallets' = wallets
        BY <2>1, <2>2
    <2>3. ASSUME NEW s \in Session, HandleWallet(s), sess[s].hand # NoMessage
          PROVE  wallets'[w].rev >= wallets[w].rev
        <3> DEFINE h == sess[s].hand
        <3>1. /\ h.kind = "wallet" /\ wallets'[h.of] = h.body /\ h.body \in Snapshot
              /\ \A v \in DOMAIN wallets \ {h.of} : wallets'[v] = wallets[v]
              /\ sess[s].th = "loop"
            BY <2>3, WalletCached
        <3>2. h.of \in DOMAIN wallets => wallets[h.of].rev <= h.body.rev
            BY <3>1, StrayedStays DEF RevInv, Coming
        <3>3. h.body.rev \in Nat
            BY <3>1 DEF Snapshot
        <3> HIDE DEF h
        <3>4. QED BY <2>1, <3>1, <3>2, <3>3
    <2>4. QED BY <2>2, <2>3, WalletsAfter
<1>4. QED BY <1>1, <1>2, <1>3, PTL DEF WsSpec, CacheNotOlder

-----------------------------------------------------------------------------
(* The caches are of the account of the last session. *)

\* A step of a session that goes on with its account, and if it was told to close,
\* closes.
Plain(S, T) == /\ Own(T) /\ T.who = S.who /\ T.th \in {S.th, "done"}
               /\ Closing(S) => Closing(T) \/ T.th = "done"
               /\ T.conn => S.conn

\* A session that ends or loses its connection asks for nothing else.
LEMMA PlainFields ==
    ASSUME NEW S, NEW T, Own(S), T.who = S.who, T.queue = S.queue, T.sent = S.sent,
           T.up = S.up \/ T.up = <<>>, T.down = S.down, T.hand = S.hand, T.stale = S.stale,
           T.th \in {S.th, "done"}, T.conn => S.conn
    PROVE  Plain(S, T)
<1>1. ToSet(T.up) \subseteq ToSet(S.up)
    BY DEF ToSet
<1>2. Own(T)
    BY <1>1 DEF Own, MayAsk, MayHear, Coming
<1>3. QED BY <1>2 DEF Plain, Closing

\* Users may be asked for by anyone.
LEMMA AnyoneMay ==
    /\ \A S, u : MayAsk(S, FetchUser(u))
    /\ \A S : MayAsk(S, Ping) /\ MayAsk(S, Close)
    /\ \A S : MayHear(S, NoMessage)
BY NoMessageIs DEF MayAsk, MayHear, FetchUser, Ping, Close

\* Requests of its own may be queued, and closing may follow.
LEMMA PlainQueued ==
    ASSUME NEW S \in Sessions, Own(S), NEW reqs \in Seq(Req),
           \A r \in ToSet(reqs) : MayAsk(S, r)
    PROVE  /\ Plain(S, Queued(S, reqs)) /\ Plain(S, CloseOf(S))
           /\ Plain(S, [Queued(S, reqs) EXCEPT !.pinger = "record"])
           /\ S.th = "loop" /\ S.hand = NoMessage => Closing(CloseOf(S))
<1> DEFINE Q == Queued(S, reqs)
           P == [Queued(S, reqs) EXCEPT !.pinger = "record"]
           C == CloseOf(S)
<1>1. /\ Q.sent = S.sent /\ Q.stale = S.stale /\ Q.up = S.up /\ Q.down = S.down
      /\ Q.hand = S.hand /\ Q.who = S.who /\ Q.th = S.th /\ Q.conn = S.conn
      /\ Q.queue = (IF S.th = "done" THEN S.queue ELSE S.queue \o reqs) /\ Q \in Sessions
    BY QueuedSame, QueuedIs
<1>2. /\ P.sent = Q.sent /\ P.stale = Q.stale /\ P.up = Q.up /\ P.down = Q.down
      /\ P.hand = Q.hand /\ P.who = Q.who /\ P.th = Q.th /\ P.conn = Q.conn
      /\ P.queue = Q.queue
    BY <1>1 DEF Sessions
<1>3. /\ C.sent = S.sent /\ C.stale = S.stale /\ C.up = S.up /\ C.down = S.down
      /\ C.hand = S.hand /\ C.who = S.who /\ C.th = S.th /\ ~C.conn
      /\ C.queue = IF S.th = "done" THEN S.queue ELSE S.queue \o <<Close>>
    BY CloseOfIs
<1>4. /\ ToSet(S.queue \o reqs) = ToSet(S.queue) \cup ToSet(reqs)
      /\ ToSet(S.queue \o <<Close>>) = ToSet(S.queue) \cup {Close}
    <2> DEFINE p == S.queue
               c == <<Close>>
    <2>1. p \in Seq(Req) /\ c \in Seq(Req)
        BY FieldsAre, FetchesAreReq
    <2>2. ToSet(c) = {Close}
        BY DEF ToSet
    <2> HIDE DEF p, c, Q, P, C
    <2>3. ToSet(p \o reqs) = ToSet(p) \cup ToSet(reqs)
        BY <2>1, ToSetOf
    <2>4. ToSet(p \o c) = ToSet(p) \cup ToSet(c)
        BY <2>1, ToSetOf
    <2>5. QED BY <2>2, <2>3, <2>4 DEF p, c
<1> HIDE DEF Q, P, C
<1>5. ToSet(S.queue) \subseteq ToSet(Q.queue) /\ \A r \in ToSet(Q.queue) : MayAsk(S, r)
    BY <1>1, <1>4 DEF Own
<1>6. Plain(S, Q)
    <2>1. Own(Q)
        BY <1>1, <1>5 DEF Own, MayAsk, MayHear, Coming
    <2>2. QED BY <1>1, <1>5, <2>1 DEF Plain, Closing
<1>7. Plain(S, P)
    <2>1. Own(P)
        BY <1>1, <1>2, <1>5 DEF Own, MayAsk, MayHear, Coming
    <2>2. QED BY <1>1, <1>2, <1>5, <2>1 DEF Plain, Closing
<1>8. Plain(S, C)
    <2>1. Own(C)
        BY <1>3, <1>4, AnyoneMay DEF Own, MayAsk, MayHear, Coming
    <2>2. QED BY <1>3, <1>4, <2>1 DEF Plain, Closing
<1>9. S.th = "loop" /\ S.hand = NoMessage => Closing(C)
    BY <1>3, <1>4 DEF Closing
<1>10. QED BY <1>6, <1>7, <1>8, <1>9 DEF Q, P, C

\* Sending a request asks for nothing else.
LEMMA PlainReceived ==
    ASSUME NEW S \in Sessions, Own(S), S.th = "loop", S.queue # <<>>
    PROVE  /\ Plain(S, [S EXCEPT !.queue = Tail(@), !.th = "done", !.conn = FALSE,
                                 !.open = FALSE])
           /\ Plain(S, [S EXCEPT !.queue = Tail(@), !.th = "done"])
           /\ \A id \in Id : Head(S.queue) # Close => Plain(S, Sent(S, Head(S.queue), id))
<1> DEFINE q == S.queue
           r == Head(q)
           C == [S EXCEPT !.queue = Tail(@), !.th = "done", !.conn = FALSE, !.open = FALSE]
           F == [S EXCEPT !.queue = Tail(@), !.th = "done"]
<1>1. q \in Seq(Req) /\ q # <<>>
    BY FieldsAre
<1>2. /\ C.sent = S.sent /\ C.stale = S.stale /\ C.up = S.up /\ C.down = S.down
      /\ C.hand = S.hand /\ C.who = S.who /\ C.th = "done" /\ ~C.conn /\ C.queue = Tail(q)
    BY DEF Sessions
<1>3. /\ F.sent = S.sent /\ F.stale = S.stale /\ F.up = S.up /\ F.down = S.down
      /\ F.hand = S.hand /\ F.who = S.who /\ F.th = "done" /\ F.conn = S.conn
      /\ F.queue = Tail(q)
    BY DEF Sessions
<1> HIDE DEF q, C, F
<1>4. ToSet(q) = {r} \cup ToSet(Tail(q))
    BY <1>1, ToSetOf
<1>5. MayAsk(S, r) /\ \A x \in ToSet(Tail(q)) : MayAsk(S, x)
    BY <1>4 DEF Own, q
<1>6. Plain(S, C)
    BY <1>2, <1>5 DEF Plain, Own, MayAsk, MayHear, Coming
<1>7. Plain(S, F)
    BY <1>3, <1>5 DEF Plain, Own, MayAsk, MayHear, Coming
<1>8. ASSUME NEW id \in Id, r # Close PROVE Plain(S, Sent(S, r, id))
    <2> DEFINE T == Sent(S, r, id)
               v == [req |-> r, tries |-> 0]
               m == [id |-> id, req |-> r]
               f == S.sent
               p == S.up
               M == [id : Id, req : Req]
    <2>1. /\ T.sent = With(f, id, v) /\ T.up = IF S.open THEN Append(p, m) ELSE p
          /\ T.stale = S.stale /\ T.down = S.down /\ T.hand = S.hand /\ T.who = S.who
          /\ T.th = "loop" /\ T.conn = S.conn /\ T.queue = Tail(q)
        BY DEF Sent, Sessions, q
    <2>2. f \in Partial(Id, Entries) /\ p \in Seq(M)
        BY FieldsAre
    <2>3. r \in Req
        BY <1>1
    <2>4. m \in M /\ v.req = r /\ m.req = r
        BY <2>3
    <2>5. v \in Entries
        BY <2>3, WsClientAssumption DEF Entries
    <2>6. ToSet(T.up) \subseteq ToSet(p) \cup {m}
        <3> HIDE DEF p, m, M, T
        <3>1. ToSet(Append(p, m)) = ToSet(p) \cup {m}
            BY <2>2, <2>4, ToSetOf
        <3>2. QED BY <2>1, <3>1
    <2> HIDE DEF f, v, m, p, M, T, r
    <2>7. /\ DOMAIN With(f, id, v) = DOMAIN f \cup {id} /\ With(f, id, v)[id] = v
          /\ \A i \in DOMAIN f \ {id} : With(f, id, v)[i] = f[i]
        BY DEF With
    <2>8. \A i \in DOMAIN T.sent : MayAsk(S, T.sent[i].req)
        <3>1. \A i \in DOMAIN f : MayAsk(S, f[i].req)
            BY DEF Own, f
        <3>2. \A i \in DOMAIN With(f, id, v) : MayAsk(S, With(f, id, v)[i].req)
            BY <1>5, <2>4, <2>7, <3>1
        <3>3. T.sent = With(f, id, v)
            BY <2>1
        <3>4. QED BY <3>2, <3>3
    <2>9. \A n \in ToSet(T.up) \cup T.stale : MayAsk(S, n.req)
        BY <1>5, <2>1, <2>4, <2>6 DEF Own, p
    <2>10. Own(T)
        BY <1>5, <2>1, <2>8, <2>9 DEF Own, MayAsk, MayHear, Coming
    <2>11. Close \in ToSet(q) => Close \in ToSet(Tail(q))
        BY <1>4, <1>8
    <2>12. Plain(S, T)
        BY <2>1, <2>10, <2>11 DEF Plain, Closing, q
    <2>13. QED BY <2>12 DEF T
<1>9. QED BY <1>6, <1>7, <1>8 DEF C, F, q

\* Reading a message hears of nothing else.
LEMMA PlainRead ==
    ASSUME NEW S \in Sessions, Own(S), S.queue = <<>>, S.down # <<>>
    PROVE  /\ Plain(S, [S EXCEPT !.down = Tail(@), !.th = "done"])
           /\ Plain(S, [S EXCEPT !.down = Tail(@), !.hand = Head(S.down)])
<1> DEFINE q == S.down
           D == [S EXCEPT !.down = Tail(@), !.th = "done"]
           R == [S EXCEPT !.down = Tail(@), !.hand = Head(S.down)]
<1>1. q \in Seq(Message) /\ q # <<>>
    BY FieldsAre
<1>2. /\ D.sent = S.sent /\ D.stale = S.stale /\ D.up = S.up /\ D.down = Tail(q)
      /\ D.hand = S.hand /\ D.who = S.who /\ D.th = "done" /\ D.conn = S.conn
      /\ D.queue = S.queue
    BY DEF Sessions
<1>3. /\ R.sent = S.sent /\ R.stale = S.stale /\ R.up = S.up /\ R.down = Tail(q)
      /\ R.hand = Head(q) /\ R.who = S.who /\ R.th = S.th /\ R.conn = S.conn
      /\ R.queue = S.queue
    BY DEF Sessions
<1>4. ~Closing(S)
    BY DEF Closing, ToSet
<1> HIDE DEF q, D, R
<1>5. ToSet(q) = {Head(q)} \cup ToSet(Tail(q))
    BY <1>1, ToSetOf
<1>6. MayHear(S, Head(q)) /\ \A m \in ToSet(Tail(q)) : MayHear(S, m)
    BY <1>5 DEF Own, Coming, q
<1>7. Own(D)
    BY <1>2, <1>6 DEF Own, MayAsk, MayHear, Coming
<1>8. Own(R)
    BY <1>3, <1>6 DEF Own, MayAsk, MayHear, Coming
<1>9. Plain(S, D) /\ Plain(S, R)
    BY <1>2, <1>3, <1>4, <1>7, <1>8 DEF Plain
<1>10. QED BY <1>9 DEF D, R

\* A handler asks for what its session may ask for.
LEMMA PlainAnswered ==
    ASSUME NEW S \in Sessions, Own(S), S.hand # NoMessage, NEW done, NEW reqs \in Seq(Req),
           NEW ping, \A r \in ToSet(reqs) : MayAsk(S, r)
    PROVE  Plain(S, Answered(S, done, reqs, ping))
<1> DEFINE T == Answered(S, done, reqs, ping)
<1>1. /\ T.sent = Without(S.sent, done) /\ T.hand = NoMessage /\ T.up = S.up
      /\ T.down = S.down /\ T.stale = S.stale /\ T.th = S.th /\ T.conn = S.conn
      /\ T.who = S.who /\ T.queue = S.queue \o reqs
    BY DEF Answered, Sessions
<1> HIDE DEF T
<1>2. \A i \in DOMAIN T.sent : i \in DOMAIN S.sent /\ T.sent[i] = S.sent[i]
    <2>1. /\ DOMAIN Without(S.sent, done) = DOMAIN S.sent \ {done}
          /\ \A i \in DOMAIN S.sent \ {done} : Without(S.sent, done)[i] = S.sent[i]
        BY WithoutSent
    <2>2. T.sent = Without(S.sent, done)
        BY <1>1
    <2>3. QED BY <2>1, <2>2
<1>3. ToSet(T.queue) = ToSet(S.queue) \cup ToSet(reqs)
    BY <1>1, FieldsAre, ToSetOf
<1>4. Own(T)
    BY <1>1, <1>2, <1>3, AnyoneMay DEF Own, MayAsk, MayHear, Coming
<1>5. Plain(S, T)
    BY <1>1, <1>4 DEF Plain, Closing
<1>6. QED BY <1>5 DEF T

\* What is found stale was asked for.
LEMMA PlainStale ==
    ASSUME NEW S \in Sessions, Own(S), NEW X \in SUBSET DOMAIN S.sent
    PROVE  Plain(S, [S EXCEPT !.stale = Found(S, X)])
<1> DEFINE T == [S EXCEPT !.stale = Found(S, X)]
<1>1. /\ T.sent = S.sent /\ T.hand = S.hand /\ T.up = S.up /\ T.down = S.down
      /\ T.stale = Found(S, X) /\ T.th = S.th /\ T.conn = S.conn /\ T.who = S.who
      /\ T.queue = S.queue
    BY DEF Sessions
<1>2. \A m \in Found(S, X) : MayAsk(S, m.req)
    BY DEF Own, Found
<1> HIDE DEF T
<1>3. Own(T)
    BY <1>1, <1>2 DEF Own, MayAsk, MayHear, Coming
<1>4. Plain(S, T)
    BY <1>1, <1>3 DEF Plain, Closing
<1>5. QED BY <1>4 DEF T

\* What is given up or sent again was asked for.
LEMMA PlainSwept ==
    ASSUME NEW S \in Sessions, Own(S), NEW m \in S.stale
    PROVE  Plain(S, GivenUp(S, m)) /\ Plain(S, SentAgain(S, m))
<1> DEFINE G == GivenUp(S, m)
           A == SentAgain(S, m)
           c == <<m.req>>
           p == S.queue
<1>1. m \in [id : Id, req : Req, tries : 0 .. MaxRetries] /\ MayAsk(S, m.req)
    BY FieldsAre DEF Own
<1>2. Taken(S, m) \in Sessions /\ c \in Seq(Req) /\ p \in Seq(Req)
    BY <1>1, TakenIs, FieldsAre
<1>3. /\ G.sent = Without(S.sent, m.id) /\ G.stale = S.stale \ {m}
      /\ G.up = S.up /\ G.down = S.down /\ G.hand = S.hand /\ G.who = S.who
      /\ G.th = S.th /\ G.conn = S.conn /\ G.queue = S.queue
    BY DEF GivenUp, Taken, Sessions
<1>4. /\ A.sent = TriedAgain(S.sent, m.id) /\ A.stale = S.stale \ {m}
      /\ A.up = S.up /\ A.down = S.down /\ A.hand = S.hand /\ A.who = S.who
      /\ A.th = S.th /\ A.conn = S.conn
      /\ A.queue = IF S.th = "done" THEN p ELSE p \o c
    <2> DEFINE T == Taken(S, m)
               Q == Queued(T, c)
    <2>1. /\ T.sent = S.sent /\ T.stale = S.stale \ {m}
          /\ T.up = S.up /\ T.down = S.down /\ T.hand = S.hand /\ T.who = S.who
          /\ T.th = S.th /\ T.conn = S.conn /\ T.queue = p
        BY DEF Taken, Sessions
    <2>2. /\ Q.sent = T.sent /\ Q.stale = T.stale /\ Q.up = T.up /\ Q.down = T.down
          /\ Q.hand = T.hand /\ Q.who = T.who /\ Q.th = T.th /\ Q.conn = T.conn
          /\ Q.queue = (IF T.th = "done" THEN T.queue ELSE T.queue \o c)
          /\ Q \in Sessions
        BY <1>2, QueuedSame, QueuedIs
    <2> HIDE DEF Q
    <2>3. A = [Q EXCEPT !.sent = TriedAgain(Q.sent, m.id)]
        BY DEF SentAgain, Q
    <2>4. /\ A.sent = TriedAgain(Q.sent, m.id) /\ A.stale = Q.stale /\ A.up = Q.up
          /\ A.down = Q.down /\ A.hand = Q.hand /\ A.who = Q.who /\ A.th = Q.th
          /\ A.conn = Q.conn /\ A.queue = Q.queue
        BY <2>2, <2>3 DEF Sessions
    <2>5. QED BY <2>1, <2>2, <2>4
<1>5. /\ DOMAIN Without(S.sent, m.id) = DOMAIN S.sent \ {m.id}
      /\ \A i \in DOMAIN S.sent \ {m.id} : Without(S.sent, m.id)[i] = S.sent[i]
    BY WithoutSent
<1>6. /\ DOMAIN TriedAgain(S.sent, m.id) = DOMAIN S.sent
      /\ \A i \in DOMAIN S.sent : TriedAgain(S.sent, m.id)[i].req = S.sent[i].req
    BY TriedIs
<1>7. ToSet(c) = {m.req}
    BY DEF ToSet
<1>8. ToSet(p \o c) = ToSet(p) \cup {m.req}
    <2> HIDE DEF p, c
    <2>1. ToSet(p \o c) = ToSet(p) \cup ToSet(c)
        BY <1>2, ToSetOf
    <2>2. QED BY <1>7, <2>1
<1> HIDE DEF G, A, c
<1>9. Plain(S, G)
    <2>1. \A i \in DOMAIN G.sent : MayAsk(G, G.sent[i].req)
        BY <1>3, <1>5 DEF Own, MayAsk
    <2>2. \A r \in ToSet(G.queue) : MayAsk(G, r)
        BY <1>3 DEF Own, MayAsk
    <2>3. \A x \in ToSet(G.up) \cup G.stale : MayAsk(G, x.req)
        BY <1>3 DEF Own, MayAsk
    <2>4. \A x \in Coming(G) : MayHear(G, x)
        BY <1>3 DEF Own, MayHear, Coming
    <2>5. Own(G)
        BY <2>1, <2>2, <2>3, <2>4 DEF Own
    <2>6. QED BY <1>3, <2>5 DEF Plain, Closing
<1>10. Plain(S, A)
    <2>1. \A i \in DOMAIN A.sent : MayAsk(A, A.sent[i].req)
        BY <1>4, <1>6 DEF Own, MayAsk
    <2>2. \A r \in ToSet(A.queue) : MayAsk(A, r)
        <3>1. ToSet(A.queue) \subseteq ToSet(p) \cup {m.req}
            BY <1>4, <1>8
        <3>2. \A r \in ToSet(p) \cup {m.req} : MayAsk(S, r)
            BY <1>1 DEF Own
        <3>3. QED BY <1>4, <3>1, <3>2 DEF MayAsk
    <2>3. \A x \in ToSet(A.up) \cup A.stale : MayAsk(A, x.req)
        BY <1>4 DEF Own, MayAsk
    <2>4. \A x \in Coming(A) : MayHear(A, x)
        BY <1>4 DEF Own, MayHear, Coming
    <2>5. Own(A)
        BY <2>1, <2>2, <2>3, <2>4 DEF Own
    <2>6. QED BY <1>4, <1>8, <2>5 DEF Plain, Closing
<1>11. QED BY <1>9, <1>10 DEF G, A

\* A session may be told what it may hear of.
LEMMA PlainTold ==
    ASSUME NEW S \in Sessions, NEW R \in Sessions, Plain(S, R),
           NEW a \in Message, MayHear(S, a)
    PROVE  /\ Plain(S, Told(R, a))
           /\ Plain(S, [Told(R, a) EXCEPT !.open = FALSE, !.up = <<>>])
<1> DEFINE T == Told(R, a)
           C == [Told(R, a) EXCEPT !.open = FALSE, !.up = <<>>]
           q == R.down
<1>1. /\ T.sent = R.sent /\ T.stale = R.stale /\ T.up = R.up /\ T.hand = R.hand
      /\ T.who = R.who /\ T.th = R.th /\ T.conn = R.conn /\ T.queue = R.queue
      /\ T.down = (IF R.th = "done" THEN q ELSE Append(q, a)) /\ T \in Sessions
    BY ToldIs
<1>2. ToSet(T.down) \subseteq ToSet(q) \cup {a}
    <2>1. q \in Seq(Message)
        BY FieldsAre
    <2> HIDE DEF q, T
    <2>2. QED BY <1>1, <2>1, ToSetOf
<1> HIDE DEF T
<1>3. Own(T)
    <2>1. Own(R) /\ R.who = S.who
        BY DEF Plain
    <2>2. QED BY <1>1, <1>2, <2>1 DEF Own, MayAsk, MayHear, Coming
<1>4. Plain(S, T)
    BY <1>1, <1>3 DEF Plain, Closing
<1>5. Plain(T, C)
    <2>1. /\ C.sent = T.sent /\ C.stale = T.stale /\ C.up = <<>> /\ C.hand = T.hand
          /\ C.who = T.who /\ C.th = T.th /\ C.conn = T.conn /\ C.queue = T.queue
          /\ C.down = T.down
        BY <1>1 DEF Sessions, T
    <2> HIDE DEF C
    <2>2. QED BY <1>3, <2>1, PlainFields
<1>6. Plain(S, C)
    BY <1>4, <1>5 DEF Plain
<1>7. QED BY <1>4, <1>6 DEF T

\* What the server serves was asked for.
LEMMA PlainServed ==
    ASSUME NEW S \in Sessions, Own(S), S.up # <<>>
    PROVE  Plain(S, Served(S)) /\ MayAsk(S, Head(S.up).req)
<1> DEFINE q == S.up
           M == [id : Id, req : Req]
           R == Served(S)
<1>1. q \in Seq(M) /\ q # <<>>
    BY FieldsAre
<1>2. ToSet(q) = {Head(q)} \cup ToSet(Tail(q))
    <2> HIDE DEF q, M
    <2>1. QED BY <1>1, ToSetOf
<1>3. /\ R.sent = S.sent /\ R.stale = S.stale /\ R.th = S.th /\ R.who = S.who
      /\ R.conn = S.conn /\ R.up = Tail(q) /\ R.down = S.down /\ R.hand = S.hand
      /\ R.queue = S.queue
    BY DEF Served, Sessions
<1> HIDE DEF R
<1>4. Own(R) /\ MayAsk(S, Head(q).req)
    BY <1>2, <1>3 DEF Own, MayAsk, MayHear, Coming
<1>5. QED BY <1>3, <1>4 DEF Plain, Closing, R

\* The current session is the last one.
LEMMA CurrentIs ==
    ASSUME WsType
    PROVE  /\ sess # <<>> => Current \in Session
           /\ \A s \in Session : s <= Current /\ sess # <<>> /\ (s < Current \/ s = Current)
BY DEF WsType, Session, Current

\* What the last session does lets the caches be its account's.
LEMMA PlainKeepsOwn ==
    ASSUME WsType, OwnInv, ~strayed, sess # <<>>, sess' # <<>>, Current' = Current,
           Plain(sess[Current], sess'[Current]), UNCHANGED <<token, userId, view, orgs, wallets>>
    PROVE  OwnInv'
<1> DEFINE S == sess[Current]
           T == sess'[Current]
<1>1. /\ Own(S)
      /\ \A o \in orgs : S.who \in MemberOf[o]
      /\ \A w \in DOMAIN wallets : S.who \in MemberOf[OrgOf[w]]
      /\ S.th \in {"start", "handshake"} => orgs = {} /\ DOMAIN wallets = {}
      /\ token = NoOne => S.th \in {"start", "done"} \/ Closing(S)
      /\ S.conn => userId = S.who
      /\ view = "select" /\ token = NoOne => orgs = {} /\ DOMAIN wallets = {}
    BY DEF OwnInv
<1>2. sess'[Current'] = T
    OBVIOUS
<1>3. Plain(S, T)
    OBVIOUS
<1> HIDE DEF S, T
<1>4. /\ Own(T) /\ T.who = S.who /\ T.th \in {S.th, "done"} /\ (T.conn => S.conn)
      /\ (Closing(S) => Closing(T) \/ T.th = "done")
    BY <1>3 DEF Plain
<1>5. /\ Own(T)
      /\ \A o \in orgs' : T.who \in MemberOf[o]
      /\ \A w \in DOMAIN wallets' : T.who \in MemberOf[OrgOf[w]]
      /\ T.th \in {"start", "handshake"} => orgs' = {} /\ DOMAIN wallets' = {}
      /\ token' = NoOne => T.th \in {"start", "done"} \/ Closing(T)
      /\ T.conn => userId' = T.who
      /\ view' = "select" /\ token' = NoOne => orgs' = {} /\ DOMAIN wallets' = {}
    BY <1>1, <1>4
<1>6. QED BY <1>2, <1>5 DEF OwnInv

\* A step of one session that says nothing of the caches.
LEMMA OneKeepsOwn ==
    ASSUME WsType, OwnInv, ~strayed, NEW s \in Session, NEW T, Becomes(s, T),
           Own(sess[s]) => Plain(sess[s], T),
           UNCHANGED <<token, userId, view, orgs, wallets>>
    PROVE  OwnInv'
<1>1. /\ sess # <<>> /\ Current \in Session /\ sess' # <<>> /\ Current' = Current
      /\ sess'[s] = T /\ \A r \in Session : r # s => sess'[r] = sess[r]
    BY Others, CurrentIs
<1>2. Own(sess[Current])
    BY <1>1 DEF OwnInv
<1>3. Plain(sess[Current], sess'[Current])
    <2>1. CASE s = Current
        BY <1>1, <1>2, <2>1
    <2>2. CASE s # Current
        <3>1. sess'[Current] = sess[Current]
            BY <1>1, <2>2
        <3>2. QED BY <1>2, <3>1, PlainFields
    <2>3. QED BY <2>1, <2>2
<1>4. QED BY <1>1, <1>3, PlainKeepsOwn

\* A new session has asked for nothing.
LEMMA NewIsOwn ==
    ASSUME NEW mail
    PROVE  Own(NewSession(mail))
<1> DEFINE N == NewSession(mail)
<1>1. /\ N.queue = <<>> /\ N.sent = <<>> /\ N.up = <<>> /\ N.down = <<>>
      /\ N.hand = NoMessage /\ N.stale = {}
    BY DEF NewSession
<1>2. DOMAIN N.sent = {} /\ ToSet(N.up) = {} /\ ToSet(N.down) = {} /\ ToSet(N.queue) = {}
    BY <1>1 DEF ToSet
<1> HIDE DEF N
<1>3. Own(N)
    BY <1>1, <1>2, AnyoneMay DEF Own, Coming
<1>4. QED BY <1>3 DEF N

\* connect_ws() over empty caches keeps them their account's.
LEMMA ConnectKeepsOwn ==
    ASSUME WsType, ConnectWs, ~strayed', UNCHANGED <<orgs, wallets>>
    PROVE  OwnInv'
<1>1. orgs' = {} /\ DOMAIN wallets' = {}
    BY DEF ConnectWs, Remains
<1>2. sess' # <<>> /\ sess'[Current'] = NewSession(email)
    BY ConnectsWs
<1>3. Own(NewSession(email))
    BY NewIsOwn
<1>4. NewSession(email).th = "start" /\ NewSession(email).conn = FALSE
    BY DEF NewSession
<1>5. QED BY <1>1, <1>2, <1>3, <1>4 DEF OwnInv

\* What the GUI does keeps the caches their account's.
LEMMA GuiKeepsOwn ==
    ASSUME WsType, SessionInv, OwnInv, Gui, ~strayed, ~strayed'
    PROVE  OwnInv'
<1>1. ASSUME NEW a \in Account, SelectAccount(a) PROVE OwnInv'
    BY <1>1, ConnectKeepsOwn DEF SelectAccount, cacheVars
<1>2. ASSUME NEW a \in Account, AuthRequest(a) PROVE OwnInv'
    BY <1>2 DEF AuthRequest, OwnInv, Current, cacheVars, guiVars
<1>3. ASSUME NEW a \in Account, CodeVerified(a) PROVE OwnInv'
    <2>1. token' # NoOne
        BY <1>3, WsClientAssumption DEF CodeVerified, User
    <2>2. UNCHANGED <<sess, userId, view, orgs, wallets>>
        BY <1>3 DEF CodeVerified, cacheVars, guiVars
    <2>3. QED BY <2>1, <2>2 DEF OwnInv, Current
<1>4. CASE AuthCode
    BY <1>4 DEF AuthCode, OwnInv, Current, cacheVars, guiVars
<1>5. CASE PollPending
    BY <1>5 DEF PollPending, OwnInv, Current, clientVars, cacheVars, guiVars
<1>6. CASE HandleNotif
    <2>1. CASE ConnectWs
        BY <1>6, <2>1, ConnectKeepsOwn DEF HandleNotif, cacheVars
    <2>2. CASE /\ UNCHANGED <<sess, token>>
               /\ view' = "select" => view = "select"
        BY <1>6, <2>2 DEF HandleNotif, OwnInv, Current, cacheVars
    <2>3. QED BY <1>6, <2>1, <2>2 DEF HandleNotif, ConnectionFailed, guiVars
<1>7. CASE Logout
    <2>1. /\ orgs' = {} /\ wallets' = <<>> /\ DOMAIN wallets' = {}
          /\ strayed' = (strayed \/ LeftBehind)
        BY <1>7 DEF Logout
    <2>2. CASE sess = <<>>
        <3>1. sess' = <<>>
            BY <2>2, <1>7 DEF Logout, Closed, Connected
        <3>2. QED BY <2>1, <3>1 DEF OwnInv
    <2>3. CASE sess # <<>>
        <3> DEFINE S == sess[Current]
        <3>1. /\ Current \in Session /\ S \in Sessions /\ Current' = Current
              /\ sess'[Current] = IF Connected THEN CloseOf(S) ELSE S
            BY <1>7, <2>3, CurrentIs, ASession, LogsOut
        <3>2. Own(S) /\ Good(lost, S) /\ (Connected <=> S.conn)
            BY <2>3, <3>1 DEF OwnInv, SessionInv, Connected
        <3>0. ~LeftBehind
            BY <2>1
        <3>3. S.th = "done" \/ (S.conn /\ S.hand = NoMessage)
            BY <2>3, <3>0 DEF LeftBehind
        <3>4. S.conn => S.th \in {"loop", "done"}
            BY <3>1, <3>2, FieldsAre DEF Good, Early
        <3>5. Plain(S, CloseOf(S)) /\ (S.th = "loop" /\ S.hand = NoMessage => Closing(CloseOf(S)))
            <4>1. <<>> \in Seq(Req) /\ ToSet(<<>>) = {}
                BY DEF ToSet
            <4> HIDE DEF S
            <4>2. QED BY <3>1, <3>2, <4>1, PlainQueued
        <3>6. CloseOf(S).th = S.th /\ ~CloseOf(S).conn
            BY <3>1, CloseOfIs
        <3> DEFINE T == sess'[Current]
        <3>7. Own(T) /\ (T.th = "done" \/ Closing(T)) /\ ~T.conn
            BY <3>1, <3>2, <3>3, <3>4, <3>5, <3>6 DEF Plain
        <3>8. QED BY <2>1, <3>1, <3>7 DEF OwnInv
    <2>4. QED BY <2>2, <2>3
<1>8. ASSUME NEW w \in Wallet, Edit(w) PROVE OwnInv'
    <2>1. UNCHANGED <<token, userId, view, orgs, wallets>> /\ w \in DOMAIN wallets
        BY <1>8 DEF Edit, clientVars, cacheVars, guiVars
    <2>2. CASE UNCHANGED <<sess, edits>>
        BY <2>1, <2>2 DEF OwnInv, Current
    <2>3. CASE /\ Connected /\ Current \in Session /\ EditWallet(w, edits') \in Req
               /\ Becomes(Current, Queued(sess[Current], <<EditWallet(w, edits')>>))
        <3> DEFINE S == sess[Current]
                   r == EditWallet(w, edits')
        <3>1. S \in Sessions /\ r \in Req /\ r.of = w /\ S.who \in MemberOf[OrgOf[w]]
            BY <2>1, <2>3, ASession DEF OwnInv, Connected, EditWallet
        <3>2. Becomes(Current, Queued(S, <<r>>))
            BY <2>3
        <3> HIDE DEF S, r
        <3>3. <<r>> \in Seq(Req) /\ ToSet(<<r>>) = {r} /\ MayAsk(S, r)
            BY <3>1 DEF ToSet, MayAsk
        <3>4. Own(S) => Plain(S, Queued(S, <<r>>))
            BY <3>1, <3>3, PlainQueued
        <3>5. QED BY <2>1, <2>3, <3>2, <3>4, OneKeepsOwn DEF S
    <2>4. QED BY <1>8, <2>2, <2>3, Edits
<1>9. QED BY <1>1, <1>2, <1>3, <1>4, <1>5, <1>6, <1>7, <1>8 DEF Gui

\* Fetching users asks for users only.
LEMMA FetchesAreUsers ==
    ASSUME NEW X \in SUBSET User
    PROVE  \A r \in ToSet(Fetches(X)) : r.kind = "user"
<1>1. IsFiniteSet(X)
    BY WsClientAssumption, FS_Subset
<1>2. SetToSeq(X) \in [1 .. Cardinality(X) -> X]
    BY <1>1, SetInSeq
<1>3. Fetches(X) = [i \in 1 .. Cardinality(X) |-> FetchUser(SetToSeq(X)[i])]
    BY <1>2 DEF Fetches
<1>4. QED BY <1>3 DEF ToSet, FetchUser

\* What a handler asks for is of the account.
LEMMA OrgAsks ==
    ASSUME WsType, NEW o \in Org, NEW S, S.who \in MemberOf[o]
    PROVE  OrgFetches(o) \in Seq(Req) /\ \A r \in ToSet(OrgFetches(o)) : MayAsk(S, r)
<1> DEFINE X == MemberOf[o] \ users
           Y == {w \in Wallet : OrgOf[w] = o} \ DOMAIN wallets
           a == Fetches(X)
           b == WalletFetches(Y)
<1>1. X \in SUBSET User /\ Y \in SUBSET Wallet
    BY WsClientAssumption
<1>2. a \in Seq(Req) /\ b \in Seq(Req)
    BY <1>1, FetchesIs, WalletFetchesIs
<1>3. \A r \in ToSet(a) : MayAsk(S, r)
    BY <1>1, FetchesAreUsers DEF MayAsk
<1>4. \A r \in ToSet(b) : MayAsk(S, r)
    <2>1. \A r \in ToSet(b) : r.of \in Y
        BY <1>1, WalletFetchesIs
    <2>2. QED BY <2>1 DEF MayAsk
<1>5. OrgFetches(o) = a \o b
    BY DEF OrgFetches
<1> HIDE DEF a, b
<1>6. ToSet(a \o b) = ToSet(a) \cup ToSet(b)
    BY <1>2, ToSetOf
<1>7. a \o b \in Seq(Req)
    BY <1>2
<1>8. QED BY <1>3, <1>4, <1>5, <1>6, <1>7

\* What handle_wallet() asks for, every account may.
LEMMA WalletAsks ==
    ASSUME NEW u \in User \cup {NoOne}, NEW v \in User \cup {NoOne}, NEW S
    PROVE  LET q == FetchMaybe(u) \o FetchMaybe(v) IN
           q \in Seq(Req) /\ \A r \in ToSet(q) : MayAsk(S, r)
<1> DEFINE a == FetchMaybe(u)
           b == FetchMaybe(v)
<1>1. /\ a \in Seq(Req) /\ b \in Seq(Req)
      /\ \A r \in ToSet(a) \cup ToSet(b) : r.kind = "user"
    BY FetchMaybeIs
<1> HIDE DEF a, b
<1>2. ToSet(a \o b) = ToSet(a) \cup ToSet(b) /\ a \o b \in Seq(Req)
    BY <1>1, ToSetOf
<1>3. \A r \in ToSet(a \o b) : MayAsk(S, r)
    BY <1>1, <1>2 DEF MayAsk
<1>4. QED BY <1>2, <1>3 DEF a, b

\* The message in hand of the last session is handled.
LEMMA HandleKeepsOwn ==
    ASSUME WsType, SessionInv, OwnInv, ~strayed, Handle(Current), Current \in Session
    PROVE  OwnInv'
<1> DEFINE s == Current
           S == sess[s]
           m == S.hand
           T == sess'[s]
<1>1. /\ S \in Sessions /\ sess # <<>> /\ S.hand # NoMessage /\ S.th = "loop"
      /\ UNCHANGED <<token, userId, view>>
    BY ASession, CurrentIs DEF Handle, HandledFrame, ThreadFrame, guiVars, SessionInv, Good,
                               InHand
<1>2. /\ Own(S)
      /\ \A o \in orgs : S.who \in MemberOf[o]
      /\ \A w \in DOMAIN wallets : S.who \in MemberOf[OrgOf[w]]
      /\ S.conn => userId = S.who
      /\ MayHear(S, m)
    BY <1>1 DEF OwnInv, Own, Coming
<1>3. token # NoOne
    BY <1>1 DEF OwnInv, Closing
<1>4. /\ <<>> \in Seq(Req)
      /\ \A r \in ToSet(<<>>) : MayAsk(S, r)
    BY DEF ToSet
<1>5. HandleOrg(s) => /\ m.of \in Org /\ S.who \in MemberOf[m.of]
                      /\ OrgFetches(m.of) \in Seq(Req)
                      /\ \A r \in ToSet(OrgFetches(m.of)) : MayAsk(S, r)
    <2> SUFFICES ASSUME HandleOrg(s) PROVE /\ m.of \in Org /\ S.who \in MemberOf[m.of]
                      /\ OrgFetches(m.of) \in Seq(Req)
                      /\ \A r \in ToSet(OrgFetches(m.of)) : MayAsk(S, r)
        OBVIOUS
    <2>1. m.of \in Org /\ S.who \in MemberOf[m.of]
        BY <1>2, InHandIs DEF HandleOrg, MayHear
    <2>2. QED BY <2>1, OrgAsks
<1>6. HandleWallet(s) =>
          /\ m.of \in Wallet /\ S.who \in MemberOf[OrgOf[m.of]]
          /\ FetchMaybe(m.body.by) \o FetchMaybe(OwnerOf[m.of]) \in Seq(Req)
          /\ \A r \in ToSet(FetchMaybe(m.body.by) \o FetchMaybe(OwnerOf[m.of])) : MayAsk(S, r)
    <2> SUFFICES ASSUME HandleWallet(s) PROVE
          /\ m.of \in Wallet /\ S.who \in MemberOf[OrgOf[m.of]]
          /\ FetchMaybe(m.body.by) \o FetchMaybe(OwnerOf[m.of]) \in Seq(Req)
          /\ \A r \in ToSet(FetchMaybe(m.body.by) \o FetchMaybe(OwnerOf[m.of])) : MayAsk(S, r)
        OBVIOUS
    <2>1. m.of \in Wallet /\ S.who \in MemberOf[OrgOf[m.of]]
        BY <1>2, InHandIs DEF HandleWallet, MayHear
    <2>2. m.body.by \in User \cup {NoOne} /\ OwnerOf[m.of] \in User \cup {NoOne}
        BY <2>1, InHandIs, WsClientAssumption DEF Snapshot
    <2>3. QED BY <2>1, <2>2, WalletAsks
<1>7. \E done, reqs, ping :
         /\ reqs \in Seq(Req) /\ \A r \in ToSet(reqs) : MayAsk(S, r)
         /\ Becomes(s, Answered(S, done, reqs, ping))
    BY <1>4, <1>5, <1>6, Handlings DEF Handle
<1>8. Plain(S, T) /\ sess' # <<>> /\ Current' = Current
    <2>1. PICK done, reqs, ping :
             /\ reqs \in Seq(Req) /\ \A r \in ToSet(reqs) : MayAsk(S, r)
             /\ Becomes(s, Answered(S, done, reqs, ping))
        BY <1>7
    <2>2. Plain(S, Answered(S, done, reqs, ping))
        BY <1>1, <1>2, <2>1, PlainAnswered
    <2>3. QED BY <2>1, <2>2, Others
<1>9. /\ \A o \in orgs' : S.who \in MemberOf[o]
      /\ \A w \in DOMAIN wallets' : S.who \in MemberOf[OrgOf[w]]
    <2>1. CASE HandleUnknown(s) \/ HandleMismatch(s) \/ HandlePong(s)
        BY <1>2, <2>1 DEF HandleUnknown, HandleMismatch, HandlePong, cacheVars
    <2>2. CASE HandleError(s) \/ HandleUser(s) \/ HandleRemoved(s)
        BY <1>2, <2>2 DEF HandleError, HandleUser, HandleRemoved
    <2>3. CASE HandleOrg(s)
        BY <1>2, <1>5, <2>3 DEF HandleOrg
    <2>4. CASE HandleWallet(s)
        <3>1. wallets' = With(wallets, m.of, m.body) /\ orgs' = orgs
            BY <2>4 DEF HandleWallet
        <3>2. DOMAIN wallets' = DOMAIN wallets \cup {m.of}
            BY <3>1 DEF With
        <3>3. S.who \in MemberOf[OrgOf[m.of]]
            BY <1>6, <2>4
        <3> HIDE DEF S, m
        <3>4. QED BY <1>2, <3>1, <3>2, <3>3
    <2>5. QED BY <2>1, <2>2, <2>3, <2>4 DEF Handle
<1>10. /\ Own(T) /\ T.who = S.who /\ T.th \notin {"start", "handshake"} /\ (T.conn => S.conn)
    BY <1>1, <1>8 DEF Plain
<1>11. T = sess'[Current']
    BY <1>8
<1> HIDE DEF S, T
<1>12. QED BY <1>1, <1>2, <1>3, <1>8, <1>9, <1>10, <1>11 DEF OwnInv

\* What a session's thread does keeps the caches their account's.
LEMMA WssThreadKeepsOwn ==
    ASSUME WsType, SessionInv, LastLives, OwnInv, ~strayed, NEW s \in Session, WssThread(s)
    PROVE  OwnInv'
<1> DEFINE S == sess[s]
<1>1. S \in Sessions /\ Good(lost, S) /\ sess # <<>>
    BY ASession, CurrentIs DEF SessionInv
<1>2. S.th # "done"
    BY <1>1 DEF WssThread, TakeToken, Handshake, HandshakeFails, LoopRecv, LoopRead, Handle,
                Good, InHand
<1>3. s = Current
    BY <1>2, CurrentIs DEF LastLives
<1>4. Own(S)
    BY <1>1, <1>3 DEF OwnInv
<1>5. CASE TakeToken(s)
    <2> DEFINE H == [S EXCEPT !.th = "handshake", !.who = token']
    <2>1. UNCHANGED <<userId, view, orgs, wallets>> /\ S.th = "start"
        BY <1>5 DEF TakeToken, ThreadFrame, cacheVars, guiVars
    <2>2. orgs = {} /\ DOMAIN wallets = {}
        BY <1>1, <1>3, <2>1 DEF OwnInv
    <2>3. sess' # <<>> /\ Current' = Current
        BY <1>5, TakesToken, Others
    <2>4. CASE token' = NoOne /\ Becomes(s, [S EXCEPT !.th = "done"])
        <3> DEFINE D == [S EXCEPT !.th = "done"]
        <3>1. /\ D.who = S.who /\ D.queue = S.queue /\ D.sent = S.sent /\ D.up = S.up
              /\ D.down = S.down /\ D.hand = S.hand /\ D.stale = S.stale
              /\ D.th = "done" /\ D.conn = S.conn
            BY <1>1 DEF Sessions
        <3>2. sess'[Current'] = D
            BY <1>3, <2>3, <2>4, Others
        <3> HIDE DEF D, S
        <3>3. Own(D) /\ ~D.conn
            BY <1>1, <1>4, <2>1, <3>1, PlainFields DEF Plain, Good, Early
        <3>4. QED BY <2>1, <2>2, <2>3, <3>1, <3>2, <3>3 DEF OwnInv
    <2>5. CASE token' \in Account /\ Becomes(s, H)
        <3>1. /\ H.queue = S.queue /\ H.sent = S.sent /\ H.up = S.up
              /\ H.down = S.down /\ H.hand = S.hand /\ H.stale = S.stale
              /\ H.th = "handshake" /\ H.conn = S.conn
            BY <1>1 DEF Sessions
        <3>2. sess'[Current'] = H
            BY <1>3, <2>3, <2>5, Others
        <3>3. token' # NoOne
            BY <2>5, WsClientAssumption DEF User
        <3> HIDE DEF H, S
        <3>4. /\ H.queue = <<>> /\ DOMAIN H.sent = {} /\ H.up = <<>> /\ H.down = <<>>
              /\ H.hand = NoMessage /\ H.stale = {} /\ ~H.conn
            BY <1>1, <2>1, <3>1 DEF Good, Early
        <3>5. ToSet(H.queue) = {} /\ ToSet(H.up) = {} /\ ToSet(H.down) = {}
            BY <3>4 DEF ToSet
        <3>6. Own(H)
            BY <3>4, <3>5, AnyoneMay DEF Own, Coming
        <3>7. QED BY <2>1, <2>2, <2>3, <3>2, <3>3, <3>4, <3>6 DEF OwnInv
    <2>6. QED BY <1>5, <2>4, <2>5, TakesToken
<1>6. CASE Handshake(s)
    <2> DEFINE H == [S EXCEPT !.th = "loop", !.conn = TRUE, !.pinger = "send",
                              !.queue = Append(@, FetchUser(S.who))]
               q == S.queue
    <2>1. /\ S.th = "handshake" /\ Becomes(s, H) /\ userId' = S.who /\ S.who \in Account
          /\ UNCHANGED <<token, view, orgs, wallets>>
        BY <1>6, Handshakes DEF Handshake, ThreadFrame, cacheVars, guiVars
    <2>2. /\ H.queue = Append(q, FetchUser(S.who)) /\ H.sent = S.sent /\ H.up = S.up
          /\ H.down = S.down /\ H.hand = S.hand /\ H.stale = S.stale
          /\ H.th = "loop" /\ H.who = S.who
        BY <1>1 DEF Sessions
    <2>3. sess' # <<>> /\ Current' = Current /\ sess'[Current'] = H
        BY <1>3, <2>1, Others
    <2>4. orgs = {} /\ DOMAIN wallets = {}
        BY <1>1, <1>3, <2>1 DEF OwnInv
    <2>5. token # NoOne
        BY <1>1, <1>3, <2>1 DEF OwnInv, Closing
    <2>6. FetchUser(S.who) \in Req /\ q \in Seq(Req)
        BY <1>1, <2>1, FieldsAre, FetchesAreReq DEF User
    <2> HIDE DEF H, S, q
    <2>7. ToSet(Append(q, FetchUser(S.who))) = ToSet(q) \cup {FetchUser(S.who)}
        BY <2>6, ToSetOf
    <2>8. Own(H)
        <3>1. \A r \in ToSet(H.queue) : MayAsk(H, r)
            BY <1>4, <2>2, <2>7, AnyoneMay DEF Own, MayAsk, q
        <3>2. QED BY <1>4, <2>2, <3>1 DEF Own, MayAsk, MayHear, Coming
    <2>9. QED BY <2>1, <2>2, <2>3, <2>4, <2>5, <2>8 DEF OwnInv
<1>7. CASE HandshakeFails(s) \/ LoopRecv(s) \/ LoopRead(s)
    <2>1. UNCHANGED <<token, userId, view, orgs, wallets>>
        BY <1>7 DEF HandshakeFails, LoopRecv, LoopRead, ThreadFrame, cacheVars, guiVars
    <2>2. \A T : Becomes(s, T) /\ Plain(S, T) => OwnInv'
        BY <2>1, OneKeepsOwn
    <2>3. CASE HandshakeFails(s)
        <3> DEFINE D == [S EXCEPT !.th = "done"]
        <3>1. /\ D.who = S.who /\ D.queue = S.queue /\ D.sent = S.sent /\ D.up = S.up
              /\ D.down = S.down /\ D.hand = S.hand /\ D.stale = S.stale
              /\ D.th = "done" /\ D.conn = S.conn
            BY <1>1 DEF Sessions
        <3>2. Becomes(s, D)
            BY <2>3, HandshakeFailing
        <3> HIDE DEF D, S
        <3>3. Plain(S, D)
            BY <1>4, <3>1, PlainFields
        <3>4. QED BY <2>2, <3>2, <3>3
    <2>4. CASE LoopRecv(s)
        <3> DEFINE C == [S EXCEPT !.queue = Tail(@), !.th = "done", !.conn = FALSE,
                                  !.open = FALSE]
                   F == [S EXCEPT !.queue = Tail(@), !.th = "done"]
                   r == Head(S.queue)
        <3>1. S.th = "loop" /\ S.queue # <<>>
            BY <2>4 DEF LoopRecv
        <3>2. Plain(S, C) /\ Plain(S, F) /\ \A id \in Id : r # Close => Plain(S, Sent(S, r, id))
            BY <1>1, <1>4, <3>1, PlainReceived
        <3>3. /\ NewId(S) \in Id
              /\ Becomes(s, C) \/ Becomes(s, F) \/ (r # Close /\ Becomes(s, Sent(S, r, NewId(S))))
            BY <2>4, LoopReceives
        <3> HIDE DEF C, F, r, S
        <3>4. QED BY <2>2, <3>2, <3>3
    <2>5. CASE LoopRead(s)
        <3>1. S.queue = <<>> /\ S.down # <<>>
            BY <2>5 DEF LoopRead
        <3>2. QED BY <1>1, <1>4, <2>2, <2>5, <3>1, LoopReads, PlainRead
    <2>6. QED BY <1>7, <2>3, <2>4, <2>5
<1>8. CASE Handle(s)
    BY <1>3, <1>8, HandleKeepsOwn
<1>9. QED BY <1>5, <1>6, <1>7, <1>8 DEF WssThread

\* What the pinger and the timeouts do keeps the caches their account's.
LEMMA TimersKeepOwn ==
    ASSUME WsType, SessionInv, OwnInv, ~strayed, NEW s \in Session, Timers(s)
    PROVE  OwnInv'
<1> DEFINE S == sess[s]
<1>1. S \in Sessions
    BY ASession
<1>2. UNCHANGED <<token, userId, view, orgs, wallets>>
    BY DEF Timers, PingSend, PingRecord, PingTimeout, FindStale, SweepOne, OtherFrame,
           ThreadFrame, cacheVars, guiVars
<1>3. \A T : Becomes(s, T) /\ (Own(S) => Plain(S, T)) => OwnInv'
    BY <1>2, OneKeepsOwn
<1>4. CASE PingSend(s)
    <2>1. <<Ping>> \in Seq(Req) /\ ToSet(<<Ping>>) = {Ping}
        BY FetchesAreReq DEF ToSet
    <2> HIDE DEF S
    <2>2. Own(S) => Plain(S, [Queued(S, <<Ping>>) EXCEPT !.pinger = "record"])
        BY <1>1, <2>1, AnyoneMay, PlainQueued
    <2>3. QED BY <1>3, <1>4, <2>2, PingSends DEF S
<1>5. CASE PingRecord(s)
    <2> DEFINE T == [S EXCEPT !.pinger = "sleep", !.ping = TRUE]
    <2>1. /\ T.who = S.who /\ T.queue = S.queue /\ T.sent = S.sent /\ T.up = S.up
          /\ T.down = S.down /\ T.hand = S.hand /\ T.stale = S.stale
          /\ T.th = S.th /\ T.conn = S.conn
        BY <1>1 DEF Sessions
    <2>2. Becomes(s, T)
        BY <1>5, PingRecords
    <2> HIDE DEF S, T
    <2>3. QED BY <1>3, <2>1, <2>2, PlainFields
<1>6. CASE PingTimeout(s)
    <2> DEFINE T == [S EXCEPT !.conn = FALSE]
    <2>1. /\ T.who = S.who /\ T.queue = S.queue /\ T.sent = S.sent /\ T.up = S.up
          /\ T.down = S.down /\ T.hand = S.hand /\ T.stale = S.stale
          /\ T.th = S.th /\ ~T.conn
        BY <1>1 DEF Sessions
    <2>2. Becomes(s, T)
        BY <1>6, PingTimesOut
    <2> HIDE DEF S, T
    <2>3. QED BY <1>3, <2>1, <2>2, PlainFields
<1>7. CASE FindStale(s)
    BY <1>1, <1>3, <1>7, FindsStale, PlainStale
<1>8. CASE SweepOne(s)
    <2>1. PICK m \in S.stale : Becomes(s, GivenUp(S, m)) \/ Becomes(s, SentAgain(S, m))
        BY <1>8, SweepsOne
    <2>2. QED BY <1>1, <1>3, <2>1, PlainSwept
<1>9. QED BY <1>4, <1>5, <1>6, <1>7, <1>8 DEF Timers

\* What the server does keeps the caches their account's.
LEMMA ServerKeepsOwn ==
    ASSUME WsType, SessionInv, OwnInv, ~strayed, NEW s \in Session, Server(s)
    PROVE  OwnInv'
<1> DEFINE S == sess[s]
           m == Head(S.up)
<1>1. S \in Sessions
    BY ASession
<1>2. UNCHANGED <<token, userId, view, orgs, wallets>>
    BY DEF Server, Serve, ServeOddly, Push, RemoveMember, ServerCloses, ServerFrame,
           clientVars, cacheVars, guiVars
<1>3. \A T : Becomes(s, T) /\ (Own(S) => Plain(S, T)) => OwnInv'
    BY <1>2, OneKeepsOwn
<1>4. Own(S) => Plain(S, S)
    BY PlainFields
<1>5. CASE Serve(s)
    <2>1. S.up # <<>>
        BY <1>5, Serves
    <2>2. PICK a : Reply(a, m) /\ Becomes(s, Told(Served(S), a))
        BY <1>5, Serves
    <2>3. m.req \in Req /\ Served(S) \in Sessions
        BY <1>1, <2>1, ServedIs
    <2>4. MayAsk(S, m.req) => MayHear(S, a)
        BY <2>2, <2>3 DEF MayAsk, MayHear, Reply, Expected, Req, Request
    <2>5. a \in Message
        BY <2>2 DEF Reply
    <2> HIDE DEF S
    <2>6. Own(S) => Plain(S, Told(Served(S), a))
        <3> SUFFICES ASSUME Own(S) PROVE Plain(S, Told(Served(S), a))
            OBVIOUS
        <3>1. Plain(S, Served(S)) /\ MayAsk(S, m.req)
            BY <1>1, <2>1, PlainServed
        <3>2. QED BY <1>1, <2>3, <2>4, <2>5, <3>1, PlainTold
    <2>7. QED BY <1>3, <2>2, <2>6
<1>6. CASE ServeOddly(s)
    <2>1. S.up # <<>>
        BY <1>6, ServesOddly
    <2>2. \/ \E a \in Message : /\ a.kind \in {"error", "unauthorized", "unknown", "pong"}
                                /\ Becomes(s, Told(Served(S), a))
          \/ Becomes(s, Served(S))
        BY <1>6, ServesOddly
    <2>3. Served(S) \in Sessions
        BY <1>1, <2>1, ServedIs
    <2> HIDE DEF S
    <2>4. Own(S) => Plain(S, Served(S))
        BY <1>1, <2>1, PlainServed
    <2>5. ASSUME NEW a \in Message, a.kind \in {"error", "unauthorized", "unknown", "pong"}
          PROVE  Own(S) => Plain(S, Told(Served(S), a))
        <3>1. MayHear(S, a)
            BY <2>5 DEF MayHear
        <3>2. QED BY <1>1, <2>3, <2>4, <3>1, PlainTold
    <2>6. QED BY <1>3, <2>2, <2>4, <2>5
<1>7. CASE Push(s) \/ RemoveMember(s)
    <2>1. PICK a \in Message : MayHear(S, a) /\ Becomes(s, Told(S, a))
        BY <1>7, Pushes, RemovesMember DEF MayHear
    <2> HIDE DEF S
    <2>2. Own(S) => Plain(S, Told(S, a))
        BY <1>1, <1>4, <2>1, PlainTold
    <2>3. QED BY <1>3, <2>1, <2>2
<1>8. CASE ServerCloses(s)
    <2>1. PICK a \in Message :
             /\ a.kind = "close"
             /\ Becomes(s, [Told(S, a) EXCEPT !.open = FALSE, !.up = <<>>])
        BY <1>8, ServerCloseIs
    <2>2. MayHear(S, a)
        BY <2>1 DEF MayHear
    <2> HIDE DEF S
    <2>3. Own(S) => Plain(S, [Told(S, a) EXCEPT !.open = FALSE, !.up = <<>>])
        BY <1>1, <1>4, <2>2, PlainTold
    <2>4. QED BY <1>3, <2>1, <2>3
<1>9. QED BY <1>5, <1>6, <1>7, <1>8 DEF Server

\* What other users do keeps the caches their account's.
LEMMA ForeignKeepsOwn ==
    ASSUME WsType, SessionInv, OwnInv, ~strayed, NEW w \in Wallet, ForeignEdit(w)
    PROVE  OwnInv'
<1>1. UNCHANGED <<token, userId, view, orgs, wallets>>
    BY DEF ForeignEdit, ServerFrame, clientVars, cacheVars, guiVars
<1>2. PICK a \in Message :
         /\ a.kind = "wallet" /\ a.of = w /\ sess' \in Seq(Sessions)
         /\ Current' = Current /\ Session' = Session
         /\ \A s \in Session :
               sess'[s] = IF /\ sess[s].th = "loop" /\ sess[s].open
                             /\ sess[s].who \in MemberOf[OrgOf[w]]
                          THEN Told(sess[s], a) ELSE sess[s]
    BY ForeignEdits
<1>3. CASE sess = <<>>
    <2>1. Session = {}
        BY <1>3 DEF Session
    <2>2. sess' = <<>>
        BY <1>2, <2>1 DEF Session
    <2>3. QED BY <1>1, <1>3, <2>2 DEF OwnInv
<1>4. CASE sess # <<>>
    <2> DEFINE S == sess[Current]
    <2>1. Current \in Session /\ S \in Sessions /\ Own(S)
        BY <1>4, CurrentIs, ASession DEF OwnInv
    <2>2. sess' # <<>>
        BY <1>2, <2>1 DEF Session
    <2>3. Plain(S, S)
        BY <2>1, PlainFields
    <2>4. S.who \in MemberOf[OrgOf[w]] => MayHear(S, a)
        BY <1>2 DEF MayHear
    <2>5. sess'[Current] = S
          \/ (S.who \in MemberOf[OrgOf[w]] /\ sess'[Current] = Told(S, a))
        BY <1>2, <2>1
    <2>6. Plain(S, sess'[Current])
        <3> HIDE DEF S
        <3>1. S.who \in MemberOf[OrgOf[w]] => Plain(S, Told(S, a))
            BY <1>2, <2>1, <2>3, <2>4, PlainTold
        <3>2. QED BY <2>3, <2>5, <3>1
    <2>7. QED BY <1>1, <1>2, <1>4, <2>2, <2>6, PlainKeepsOwn
<1>5. QED BY <1>3, <1>4

\* Every step lets the caches be of the account of the last session.
LEMMA OwnStays ==
    ASSUME WsType, SessionInv, LastLives, OwnInv, WsNext
    PROVE  OwnInv'
<1>1. CASE strayed'
    BY <1>1 DEF OwnInv
<1>2. CASE ~strayed'
    <2>1. ~strayed
        BY <1>2, StrayedStays
    <2>2. CASE Gui
        BY <1>2, <2>1, <2>2, GuiKeepsOwn
    <2>3. CASE \E s \in Session : WssThread(s) \/ Timers(s) \/ Server(s)
        BY <2>1, <2>3, WssThreadKeepsOwn, TimersKeepOwn, ServerKeepsOwn
    <2>4. CASE \E w \in Wallet : ForeignEdit(w)
        BY <2>1, <2>4, ForeignKeepsOwn
    <2>5. QED BY <2>2, <2>3, <2>4 DEF WsNext
<1>3. QED BY <1>1, <1>2

\* What the caches hold is of the account of the last session, and nothing once the user
\* logged out, whatever the server answers and tells unasked, whenever the connection
\* breaks and however the requests time out, unless a session was left without closing
\* or a login found the caches full.
THEOREM CachesAreOwn == WsSpec => []OwnData
<1> DEFINE Inv == WsType /\ SessionInv /\ LastLives /\ OwnInv
<1>1. WsInit => Inv
    <2>1. WsInit => Session = {} /\ DOMAIN wallets = {} /\ sess = <<>> /\ orgs = {}
        BY DEF WsInit, Session
    <2>2. QED BY <2>1, InitType DEF LastLives, OwnInv
<1>2. Inv /\ [WsNext]_wsVars => Inv'
    <2>1. Inv /\ WsNext => Inv'
        BY NextType, NextGood, LastLivesStays, OwnStays
    <2>2. Inv /\ UNCHANGED wsVars => Inv'
        BY StutterTypeGood
           DEF LastLives, OwnInv, Session, Current, wsVars, clientVars, cacheVars, guiVars,
               auxVars
    <2>3. QED BY <2>1, <2>2
<1>3. Inv => OwnData
    BY DEF OwnInv, OwnData, Connected
<1>4. QED BY <1>1, <1>2, <1>3, PTL DEF WsSpec

-----------------------------------------------------------------------------
(* Edits are applied in the order they were made. *)

\* A session that asks for nothing more keeps its edits in line.
LEMMA LinedKept ==
    ASSUME NEW st \in [Wallet -> Snapshot], NEW su \in [Wallet -> Snapshot],
           \A w \in Wallet : su[w].edit = st[w].edit,
           NEW n \in Nat, NEW S \in Sessions, NEW T, Lined(st, n, S),
           T.queue = S.queue \/ (S.queue # <<>> /\ T.queue = Tail(S.queue)),
           T.up = S.up \/ T.up = <<>>
    PROVE  Lined(su, n, T)
<1> DEFINE p == S.queue
           q == T.queue
<1>1. p \in Seq(Req)
    BY FieldsAre
<1>2. \A r : Above(st, n, r) => Above(su, n, r)
    BY DEF Above
<1>3. /\ \A r \in ToSet(p) : Above(st, n, r)
      /\ \A m \in ToSet(S.up) : Above(st, n, m.req)
      /\ \A i, j \in DOMAIN p : i < j => Before(p[i], p[j])
      /\ \A i, j \in DOMAIN S.up : i < j => Before(S.up[i].req, S.up[j].req)
      /\ \A m \in ToSet(S.up), r \in ToSet(p) : Before(m.req, r)
    BY DEF Lined
<1>4. ToSet(q) \subseteq ToSet(p) /\ \A i, j \in DOMAIN q : i < j => Before(q[i], q[j])
    <2>1. CASE q = p
        BY <1>3, <2>1
    <2>2. CASE p # <<>> /\ q = Tail(p)
        <3> HIDE DEF p, q
        <3>1. ToSet(q) \subseteq ToSet(p)
            BY <1>1, <2>2, ToSetOf
        <3>2. \A i \in DOMAIN q : i \in Nat /\ i + 1 \in DOMAIN p /\ q[i] = p[i + 1]
            BY <1>1, <2>2
        <3>3. \A i, j \in DOMAIN q : i < j => i + 1 < j + 1
            BY <3>2
        <3>4. QED BY <1>3, <3>1, <3>2, <3>3
    <2>3. QED BY <2>1, <2>2
<1>5. /\ ToSet(T.up) \subseteq ToSet(S.up)
      /\ \A i, j \in DOMAIN T.up : i < j => Before(T.up[i].req, T.up[j].req)
    BY <1>3 DEF ToSet
<1>6. QED BY <1>2, <1>3, <1>4, <1>5 DEF Lined

\* Other requests are queued.
LEMMA LinedQueued ==
    ASSUME NEW st, NEW n, NEW S \in Sessions, NEW T, Lined(st, n, S),
           NEW reqs \in Seq(Req), \A r \in ToSet(reqs) : r.kind # "edit",
           T.queue = S.queue \o reqs \/ T.queue = S.queue, T.up = S.up
    PROVE  Lined(st, n, T)
<1> DEFINE p == S.queue
           q == T.queue
<1>1. p \in Seq(Req)
    BY FieldsAre
<1>2. /\ \A r \in ToSet(p) : Above(st, n, r)
      /\ \A i, j \in DOMAIN p : i < j => Before(p[i], p[j])
      /\ \A m \in ToSet(S.up), r \in ToSet(p) : Before(m.req, r)
    BY DEF Lined
<1>3. CASE q = p
    BY <1>3 DEF Lined
<1>4. CASE q = p \o reqs
    <2> HIDE DEF p, q
    <2>1. ToSet(q) = ToSet(p) \cup ToSet(reqs)
        BY <1>1, <1>4, ToSetOf
    <2>2. \A i \in DOMAIN q : \/ i \in DOMAIN p /\ q[i] = p[i]
                              \/ i \notin DOMAIN p /\ q[i] \in ToSet(reqs)
        <3>1. ASSUME NEW i \in DOMAIN q, i \notin DOMAIN p PROVE q[i] \in ToSet(reqs)
            <4>1. i - Len(p) \in DOMAIN reqs /\ q[i] = reqs[i - Len(p)]
                BY <1>1, <1>4, <3>1
            <4>2. QED BY <4>1 DEF ToSet
        <3>2. QED BY <1>1, <1>4, <3>1
    <2>3. \A i, j \in DOMAIN q : i < j => Before(q[i], q[j])
        BY <1>2, <2>2 DEF Before
    <2>4. /\ \A r \in ToSet(q) : Above(st, n, r)
          /\ \A m \in ToSet(S.up), r \in ToSet(q) : Before(m.req, r)
        BY <1>2, <2>1 DEF Above, Before
    <2>5. QED BY <2>3, <2>4 DEF Lined, p, q
<1>5. QED BY <1>3, <1>4

\* An edit is queued.
LEMMA LinedEdited ==
    ASSUME NEW st \in [Wallet -> Snapshot], NEW n \in Nat, Applied(st, n),
           NEW S \in Sessions, NEW T, Lined(st, n, S),
           NEW r \in Req, r.edit = n + 1,
           T.queue = S.queue \o <<r>> \/ T.queue = S.queue, T.up = S.up
    PROVE  Lined(st, n + 1, T) /\ Applied(st, n + 1)
<1> DEFINE p == S.queue
           q == T.queue
<1>1. p \in Seq(Req) /\ S.up \in Seq([id : Id, req : Req])
    BY FieldsAre
<1>2. \A w \in Wallet : st[w].edit \in Nat
    BY DEF Snapshot
<1>3. \A x \in Req : Above(st, n, x) => Above(st, n + 1, x) /\ Before(x, r)
    BY DEF Above, Before, Req, Request
<1>4. Above(st, n + 1, r) /\ Applied(st, n + 1)
    BY <1>2 DEF Above, Applied
<1>5. /\ \A x \in ToSet(p) : Above(st, n, x) /\ x \in Req
      /\ \A m \in ToSet(S.up) : Above(st, n, m.req) /\ m.req \in Req
      /\ \A i, j \in DOMAIN p : i < j => Before(p[i], p[j])
      /\ \A m \in ToSet(S.up), x \in ToSet(p) : Before(m.req, x)
    <2>1. \A x \in ToSet(p) : x \in Req
        BY <1>1 DEF ToSet
    <2>2. \A m \in ToSet(S.up) : m.req \in Req
        <3> DEFINE u == S.up
                   M == [id : Id, req : Req]
        <3>1. u \in Seq(M)
            BY <1>1
        <3> HIDE DEF u, M
        <3>2. ToSet(u) \subseteq M
            BY <3>1, ToSetOf
        <3>3. QED BY <3>2 DEF u, M
    <2>3. QED BY <2>1, <2>2 DEF Lined
<1>6. CASE q = p
    <2>1. QED BY <1>3, <1>4, <1>5, <1>6 DEF Lined
<1>7. CASE q = p \o <<r>>
    <2> HIDE DEF p, q
    <2>1. q = Append(p, r)
        BY <1>1, <1>7
    <2>2. ToSet(q) = ToSet(p) \cup {r}
        BY <1>1, <2>1, ToSetOf
    <2>3. /\ DOMAIN q = DOMAIN p \cup {Len(p) + 1} /\ q[Len(p) + 1] = r
          /\ \A i \in DOMAIN p : q[i] = p[i] /\ q[i] \in ToSet(p) /\ ~(Len(p) + 1 < i)
          /\ ~(Len(p) + 1 < Len(p) + 1)
        BY <1>1, <2>1 DEF ToSet
    <2>4. \A i, j \in DOMAIN q : i < j => Before(q[i], q[j])
        BY <1>3, <1>5, <2>3
    <2>5. /\ \A x \in ToSet(q) : Above(st, n + 1, x)
          /\ \A m \in ToSet(S.up), x \in ToSet(q) : Before(m.req, x)
        BY <1>3, <1>4, <1>5, <2>2
    <2>6. QED BY <1>3, <1>4, <1>5, <2>4, <2>5 DEF Lined, p, q
<1>8. QED BY <1>6, <1>7

\* A request goes from the channel to the wire.
LEMMA LinedSent ==
    ASSUME NEW st, NEW n, NEW S \in Sessions, NEW T, Lined(st, n, S), S.queue # <<>>,
           NEW m \in [id : Id, req : Req], m.req = Head(S.queue),
           T.queue = Tail(S.queue), T.up = S.up \/ T.up = Append(S.up, m)
    PROVE  Lined(st, n, T)
<1> DEFINE p == S.queue
           q == T.queue
           u == S.up
           v == T.up
           M == [id : Id, req : Req]
<1>1. p \in Seq(Req) /\ u \in Seq(M)
    BY FieldsAre
<1>2. /\ \A r \in ToSet(p) : Above(st, n, r)
      /\ \A k \in ToSet(u) : Above(st, n, k.req)
      /\ \A i, j \in DOMAIN p : i < j => Before(p[i], p[j])
      /\ \A i, j \in DOMAIN u : i < j => Before(u[i].req, u[j].req)
      /\ \A k \in ToSet(u), r \in ToSet(p) : Before(k.req, r)
    BY DEF Lined
<1>3. p # <<>> /\ q = Tail(p) /\ (v = u \/ v = Append(u, m)) /\ m.req = Head(p) /\ m \in M
    OBVIOUS
<1> HIDE DEF p, q, u, v, M
<1>4. ToSet(p) = {Head(p)} \cup ToSet(q)
    BY <1>1, <1>3, ToSetOf
<1>5. \A i \in DOMAIN q : i \in Nat /\ i + 1 \in DOMAIN p /\ q[i] = p[i + 1] /\ 1 < i + 1
    BY <1>1, <1>3
<1>6. 1 \in DOMAIN p /\ Head(p) = p[1]
    BY <1>1, <1>3
<1>7. \A i, j \in DOMAIN q : i < j => Before(q[i], q[j])
    <2>1. \A i, j \in DOMAIN q : i < j => i + 1 < j + 1
        BY <1>5
    <2>2. QED BY <1>2, <1>5, <2>1
<1>8. \A r \in ToSet(q) : Before(m.req, r)
    BY <1>2, <1>3, <1>5, <1>6 DEF ToSet
<1>9. ToSet(v) \subseteq ToSet(u) \cup {m}
    <2>1. ToSet(Append(u, m)) = ToSet(u) \cup {m}
        BY <1>1, <1>3, ToSetOf
    <2>2. QED BY <1>3, <2>1
<1>10. \A i, j \in DOMAIN v : i < j => Before(v[i].req, v[j].req)
    <2>1. CASE v = u
        BY <1>2, <2>1
    <2>2. CASE v = Append(u, m)
        <3>1. /\ DOMAIN v = DOMAIN u \cup {Len(u) + 1} /\ v[Len(u) + 1] = m
              /\ \A i \in DOMAIN u : v[i] = u[i] /\ ~(Len(u) + 1 < i)
              /\ ~(Len(u) + 1 < Len(u) + 1)
            BY <1>1, <1>3, <2>2
        <3>2. \A i \in DOMAIN u : Before(u[i].req, m.req)
            BY <1>2, <1>3, <1>4 DEF ToSet
        <3>3. QED BY <1>2, <3>1, <3>2
    <2>3. QED BY <1>3, <2>1, <2>2
<1>11. /\ \A r \in ToSet(q) : Above(st, n, r)
       /\ \A k \in ToSet(v) : Above(st, n, k.req)
       /\ \A k \in ToSet(v), r \in ToSet(q) : Before(k.req, r)
    BY <1>2, <1>3, <1>4, <1>8, <1>9
<1>12. QED BY <1>7, <1>10, <1>11 DEF Lined, p, q, u, v

\* The server carries out a request, or takes it at least.
LEMMA LinedServed ==
    ASSUME NEW st \in [Wallet -> Snapshot], NEW su \in [Wallet -> Snapshot],
           NEW n \in Nat, Applied(st, n),
           NEW S \in Sessions, NEW T, Lined(st, n, S), S.up # <<>>,
           \A w \in Wallet : \/ su[w].edit = st[w].edit
                             \/ /\ Head(S.up).req.kind = "edit"
                                /\ su[w].edit = Head(S.up).req.edit,
           T.queue = S.queue, T.up = Tail(S.up)
    PROVE  /\ Lined(su, n, T) /\ Applied(su, n)
           /\ \A w \in Wallet : su[w].edit = st[w].edit \/ su[w].edit > st[w].edit
<1> DEFINE p == S.queue
           u == S.up
           v == T.up
           M == [id : Id, req : Req]
           h == Head(u).req
<1>1. p \in Seq(Req) /\ u \in Seq(M) /\ u # <<>> /\ v = Tail(u)
    BY FieldsAre
<1>2. /\ \A r \in ToSet(p) : Above(st, n, r)
      /\ \A k \in ToSet(u) : Above(st, n, k.req)
      /\ \A i, j \in DOMAIN u : i < j => Before(u[i].req, u[j].req)
      /\ \A k \in ToSet(u), r \in ToSet(p) : Before(k.req, r)
    BY DEF Lined
<1>3. \A w \in Wallet : su[w].edit = st[w].edit \/ (h.kind = "edit" /\ su[w].edit = h.edit)
    OBVIOUS
<1> HIDE DEF p, u, v, M
<1>4. ToSet(u) = {Head(u)} \cup ToSet(v)
    BY <1>1, ToSetOf
<1>5. \A i \in DOMAIN v : i \in Nat /\ i + 1 \in DOMAIN u /\ v[i] = u[i + 1] /\ 1 < i + 1
    BY <1>1
<1>6. 1 \in DOMAIN u /\ Head(u) = u[1]
    BY <1>1
<1>7. \A i, j \in DOMAIN v : i < j => Before(v[i].req, v[j].req)
    <2>1. \A i, j \in DOMAIN v : i < j => i + 1 < j + 1
        BY <1>5
    <2>2. QED BY <1>2, <1>5, <2>1
<1>8. \A k \in ToSet(v) : Before(h, k.req)
    BY <1>2, <1>5, <1>6 DEF ToSet
<1>9. \A r \in ToSet(p) : Before(h, r)
    BY <1>2, <1>4
<1>10. \A r : Above(st, n, r) /\ Before(h, r) => Above(su, n, r)
    BY <1>3 DEF Above, Before
<1>11. h.kind = "edit" => h.edit <= n /\ \A w \in Wallet : st[w].edit < h.edit
    BY <1>2, <1>4 DEF Above
<1>12. h \in Req
    <2>1. Head(u) \in M
        BY <1>1
    <2>2. QED BY <2>1 DEF M
<1>13. \A w \in Wallet : st[w].edit \in Nat /\ su[w].edit \in Nat
    BY DEF Snapshot
<1>14. h.edit \in Nat
    BY <1>12 DEF Req, Request
<1>15. \A w \in Wallet : su[w].edit = st[w].edit \/ su[w].edit > st[w].edit
    <2> HIDE DEF h
    <2>1. QED BY <1>3, <1>11, <1>13, <1>14
<1>16. Applied(su, n)
    BY <1>3, <1>11 DEF Applied
<1>17. /\ \A r \in ToSet(p) : Above(su, n, r)
       /\ \A k \in ToSet(v) : Above(su, n, k.req)
       /\ \A k \in ToSet(v), r \in ToSet(p) : Before(k.req, r)
    BY <1>2, <1>4, <1>8, <1>9, <1>10
<1>18. QED BY <1>7, <1>15, <1>16, <1>17 DEF Lined, p, v

\* What the handlers fetch.
LEMMA HandlersFetch ==
    ASSUME WsType, NEW s \in Session, Handle(s)
    PROVE  \E done, reqs, ping : /\ reqs \in Seq(Req)
                                 /\ \A r \in ToSet(reqs) : r.kind # "edit"
                                 /\ Becomes(s, Answered(sess[s], done, reqs, ping))
<1> DEFINE m == sess[s].hand
<1>1. <<>> \in Seq(Req) /\ \A r \in ToSet(<<>>) : r.kind # "edit"
    BY DEF ToSet
<1>2. HandleOrg(s) => \A r \in ToSet(OrgFetches(m.of)) : r.kind # "edit"
    <2> SUFFICES ASSUME HandleOrg(s)
                 PROVE  \A r \in ToSet(OrgFetches(m.of)) : r.kind # "edit"
        OBVIOUS
    <2> DEFINE X == MemberOf[m.of] \ users
               Y == {w \in Wallet : OrgOf[w] = m.of} \ DOMAIN wallets
               a == Fetches(X)
               b == WalletFetches(Y)
    <2>1. m.of \in Org
        BY InHandIs DEF HandleOrg
    <2>2. X \in SUBSET User /\ Y \in SUBSET Wallet
        BY <2>1, WsClientAssumption
    <2>3. /\ a \in Seq(Req) /\ b \in Seq(Req)
          /\ \A r \in ToSet(a) : r.kind = "user"
          /\ \A r \in ToSet(b) : r.kind = "wallet"
        BY <2>2, FetchesIs, FetchesAreUsers, WalletFetchesIs
    <2>4. OrgFetches(m.of) = a \o b
        BY DEF OrgFetches
    <2> HIDE DEF a, b
    <2>5. ToSet(a \o b) = ToSet(a) \cup ToSet(b)
        BY <2>3, ToSetOf
    <2>6. QED BY <2>3, <2>4, <2>5
<1>3. HandleWallet(s) =>
          \A r \in ToSet(FetchMaybe(m.body.by) \o FetchMaybe(OwnerOf[m.of])) : r.kind # "edit"
    <2> SUFFICES ASSUME HandleWallet(s)
                 PROVE  \A r \in ToSet(FetchMaybe(m.body.by) \o FetchMaybe(OwnerOf[m.of])) :
                            r.kind # "edit"
        OBVIOUS
    <2> DEFINE a == FetchMaybe(m.body.by)
               b == FetchMaybe(OwnerOf[m.of])
    <2>1. m.body.by \in User \cup {NoOne} /\ OwnerOf[m.of] \in User \cup {NoOne}
        BY InHandIs, WsClientAssumption DEF HandleWallet, Snapshot
    <2>2. /\ a \in Seq(Req) /\ b \in Seq(Req)
          /\ \A r \in ToSet(a) \cup ToSet(b) : r.kind = "user"
        BY <2>1, FetchMaybeIs
    <2> HIDE DEF a, b
    <2>3. ToSet(a \o b) = ToSet(a) \cup ToSet(b)
        BY <2>2, ToSetOf
    <2>4. QED BY <2>2, <2>3 DEF a, b
<1>4. QED BY <1>1, <1>2, <1>3, Handlings DEF Handle

\* In the only session.
LEMMA OneLined ==
    ASSUME WsType, EditInv, NEW s \in Session, NEW T, Becomes(s, T), resent => resent',
           Applied(store, edits) /\ Lined(store, edits, sess[s]) /\ ~resent' =>
               Applied(store', edits') /\ Lined(store', edits', T)
    PROVE  EditInv'
<1> SUFFICES ASSUME ~resent', Len(sess') <= 1
             PROVE  /\ Applied(store', edits')
                    /\ \A r \in Session' : Lined(store', edits', sess'[r])
    BY DEF EditInv
<1>1. Len(sess) <= 1 /\ Session' = Session /\ sess'[s] = T
    BY Others
<1>2. \A r \in Session : r = s
    <2>1. sess \in Seq(Sessions)
        BY DEF WsType
    <2>2. QED BY <1>1, <2>1 DEF Session
<1>3. QED BY <1>1, <1>2 DEF EditInv

\* Nothing that matters to the edits happens.
LEMMA StillLined ==
    ASSUME WsType, EditInv, UNCHANGED <<sess, store, edits>>, resent => resent'
    PROVE  EditInv'
BY DEF EditInv, Session

\* connect_ws() keeps the edits in line, while there is one session.
LEMMA ConnectKeepsLined ==
    ASSUME WsType, EditInv, ConnectWs, UNCHANGED <<store, edits, resent>>
    PROVE  EditInv'
<1> SUFFICES ASSUME ~resent', Len(sess') <= 1
             PROVE  /\ Applied(store', edits')
                    /\ \A s \in Session' : Lined(store', edits', sess'[s])
    BY DEF EditInv
<1> DEFINE N == NewSession(email)
<1>1. /\ Len(sess') = Len(sess) + 1 /\ Session' = Session \cup {Len(sess) + 1}
      /\ sess'[Len(sess) + 1] = N
    BY ConnectsWs
<1>2. sess \in Seq(Sessions)
    BY DEF WsType
<1>3. Len(sess) = 0 /\ Session = {}
    BY <1>1, <1>2 DEF Session
<1>4. Applied(store', edits')
    BY <1>3 DEF EditInv, Applied
<1>5. N.queue = <<>> /\ N.up = <<>>
    BY DEF NewSession
<1> HIDE DEF N
<1>6. ToSet(N.queue) = {} /\ ToSet(N.up) = {} /\ DOMAIN N.queue = {} /\ DOMAIN N.up = {}
    BY <1>5 DEF ToSet
<1>7. Lined(store', edits', N)
    BY <1>6 DEF Lined
<1>8. QED BY <1>1, <1>3, <1>4, <1>7

\* What the GUI does keeps the edits in line.
LEMMA GuiKeepsLined ==
    ASSUME WsType, EditInv, Gui
    PROVE  EditInv'
<1>1. ASSUME NEW a \in Account, SelectAccount(a) PROVE EditInv'
    BY <1>1, ConnectKeepsLined DEF SelectAccount
<1>2. ASSUME NEW a \in Account, AuthRequest(a) \/ CodeVerified(a) PROVE EditInv'
    BY <1>2, StillLined DEF AuthRequest, CodeVerified, auxVars
<1>3. CASE AuthCode \/ PollPending
    BY <1>3, StillLined DEF AuthCode, PollPending, auxVars
<1>4. CASE HandleNotif
    BY <1>4, StillLined, ConnectKeepsLined DEF HandleNotif, ConnectionFailed
<1>5. CASE Logout
    <2>1. UNCHANGED <<store, edits, resent>>
        BY <1>5 DEF Logout
    <2>2. CASE sess' = sess
        BY <2>1, <2>2, StillLined
    <2>3. CASE Connected
        <3> DEFINE S == sess[Current]
        <3>1. Current \in Session /\ S \in Sessions /\ S.queue \in Seq(Req)
            BY <2>3, CurrentIs, ASession, FieldsAre DEF Connected
        <3>2. Becomes(Current, CloseOf(S))
            BY <1>5, <2>3, <3>1, CloseOfIs DEF Logout, Closed, CloseOf, Becomes
        <3> HIDE DEF S
        <3>3. <<Close>> \in Seq(Req) /\ \A r \in ToSet(<<Close>>) : r.kind # "edit"
            BY FetchesAreReq DEF ToSet, Close
        <3>4. /\ CloseOf(S).queue = S.queue \o <<Close>> \/ CloseOf(S).queue = S.queue
              /\ CloseOf(S).up = S.up
            BY <3>1, CloseOfIs
        <3>5. Lined(store, edits, S) => Lined(store, edits, CloseOf(S))
            BY <3>1, <3>3, <3>4, LinedQueued
        <3>6. QED BY <2>1, <3>1, <3>2, <3>5, OneLined DEF S
    <2>4. QED BY <1>5, <2>2, <2>3 DEF Logout, Closed
<1>6. ASSUME NEW w \in Wallet, Edit(w) PROVE EditInv'
    <2>1. UNCHANGED <<store, resent>>
        BY <1>6 DEF Edit
    <2>2. CASE UNCHANGED <<sess, edits>>
        BY <2>1, <2>2, StillLined
    <2>3. CASE /\ Current \in Session /\ edits' = edits + 1 /\ EditWallet(w, edits') \in Req
               /\ Becomes(Current, Queued(sess[Current], <<EditWallet(w, edits')>>))
        <3> DEFINE S == sess[Current]
                   r == EditWallet(w, edits')
        <3>1. /\ S \in Sessions /\ r \in Req /\ r.edit = edits + 1
              /\ edits \in Nat /\ store \in [Wallet -> Snapshot]
            BY <2>3, ASession DEF EditWallet, WsType
        <3>2. Becomes(Current, Queued(S, <<r>>))
            BY <2>3
        <3> HIDE DEF S, r
        <3>3. <<r>> \in Seq(Req)
            BY <3>1
        <3>4. /\ Queued(S, <<r>>).queue = S.queue \o <<r>> \/ Queued(S, <<r>>).queue = S.queue
              /\ Queued(S, <<r>>).up = S.up
            BY <3>1, <3>3, QueuedSame
        <3>5. Applied(store, edits) /\ Lined(store, edits, S) =>
                  Applied(store, edits + 1) /\ Lined(store, edits + 1, Queued(S, <<r>>))
            BY <3>1, <3>4, LinedEdited
        <3>6. store' = store /\ edits' = edits + 1 /\ (resent => resent')
            BY <2>1, <2>3
        <3>7. Applied(store, edits) /\ Lined(store, edits, S) =>
                  Applied(store', edits') /\ Lined(store', edits', Queued(S, <<r>>))
            BY <3>5, <3>6
        <3>8. QED BY <2>3, <3>2, <3>6, <3>7, OneLined DEF S
    <2>4. QED BY <1>6, <2>2, <2>3, Edits
<1>7. QED BY <1>1, <1>2, <1>3, <1>4, <1>5, <1>6 DEF Gui

\* What a session's thread does keeps the edits in line.
LEMMA WssThreadKeepsLined ==
    ASSUME WsType, SessionInv, EditInv, NEW s \in Session, WssThread(s)
    PROVE  EditInv'
<1> DEFINE S == sess[s]
<1>1. S \in Sessions /\ Good(lost, S) /\ store \in [Wallet -> Snapshot] /\ edits \in Nat
    BY ASession DEF SessionInv, WsType
<1>2. UNCHANGED <<store, edits, resent>>
    BY DEF WssThread, TakeToken, Handshake, HandshakeFails, LoopRecv, LoopRead, Handle,
           HandledFrame, ThreadFrame
<1>3. \A T : /\ Becomes(s, T)
             /\ Lined(store, edits, S) => Lined(store, edits, T)
             => EditInv'
    BY <1>2, OneLined
<1>4. \A T : /\ Becomes(s, T) /\ T.up = S.up
             /\ T.queue = S.queue \/ (S.queue # <<>> /\ T.queue = Tail(S.queue))
             => EditInv'
    <2> HIDE DEF S
    <2>1. QED BY <1>1, <1>3, LinedKept
<1>5. CASE TakeToken(s) \/ HandshakeFails(s)
    <2>1. /\ [S EXCEPT !.th = "done"].up = S.up /\ [S EXCEPT !.th = "done"].queue = S.queue
          /\ \A t : /\ [S EXCEPT !.th = "handshake", !.who = t].up = S.up
                    /\ [S EXCEPT !.th = "handshake", !.who = t].queue = S.queue
        BY <1>1 DEF Sessions
    <2>2. QED BY <1>4, <1>5, <2>1, TakesToken, HandshakeFailing
<1>6. CASE Handshake(s)
    <2> DEFINE r == FetchUser(S.who)
               H == [S EXCEPT !.th = "loop", !.conn = TRUE, !.pinger = "send",
                              !.queue = Append(@, r)]
    <2>1. Becomes(s, H) /\ S.who \in Account /\ S.queue = <<>>
        BY <1>1, <1>6, Handshakes DEF Handshake, Good, Early
    <2>2. r \in Req /\ r.kind = "user"
        BY <2>1, FetchesAreReq DEF User, FetchUser
    <2>3. H.up = S.up /\ H.queue = Append(S.queue, r)
        BY <1>1 DEF Sessions
    <2>4. H.queue = S.queue \o <<r>>
        BY <2>1, <2>3
    <2> HIDE DEF S, r, H
    <2>5. <<r>> \in Seq(Req) /\ \A x \in ToSet(<<r>>) : x.kind # "edit"
        BY <2>2 DEF ToSet
    <2>6. Lined(store, edits, S) => Lined(store, edits, H)
        BY <1>1, <2>3, <2>4, <2>5, LinedQueued
    <2>7. QED BY <1>3, <2>1, <2>6
<1>7. CASE LoopRecv(s)
    <2> DEFINE r == Head(S.queue)
               id == NewId(S)
               C == [S EXCEPT !.queue = Tail(@), !.th = "done", !.conn = FALSE,
                              !.open = FALSE]
               F == [S EXCEPT !.queue = Tail(@), !.th = "done"]
               m == [id |-> id, req |-> r]
    <2>1. /\ S.queue # <<>> /\ r \in Req /\ id \in Id
          /\ Becomes(s, C) \/ Becomes(s, Sent(S, r, id)) \/ Becomes(s, F)
        BY <1>7, LoopReceives
    <2>2. /\ C.queue = Tail(S.queue) /\ C.up = S.up
          /\ F.queue = Tail(S.queue) /\ F.up = S.up
        BY <1>1 DEF Sessions
    <2>3. /\ Sent(S, r, id).queue = Tail(S.queue)
          /\ Sent(S, r, id).up = S.up \/ Sent(S, r, id).up = Append(S.up, m)
        BY <1>1 DEF Sent, Sessions
    <2>4. m \in [id : Id, req : Req] /\ m.req = Head(S.queue)
        BY <2>1
    <2> HIDE DEF S, C, F, m, id
    <2>5. Lined(store, edits, S) => Lined(store, edits, Sent(S, r, id))
        BY <1>1, <2>1, <2>3, <2>4, LinedSent
    <2>6. QED BY <1>3, <1>4, <2>1, <2>2, <2>5
<1>8. CASE LoopRead(s)
    <2> DEFINE D == [S EXCEPT !.down = Tail(@), !.th = "done"]
               R == [S EXCEPT !.down = Tail(@), !.hand = Head(S.down)]
    <2>1. Becomes(s, D) \/ Becomes(s, R)
        BY <1>8, LoopReads
    <2>2. D.up = S.up /\ D.queue = S.queue /\ R.up = S.up /\ R.queue = S.queue
        BY <1>1 DEF Sessions
    <2> HIDE DEF S, D, R
    <2>3. QED BY <1>4, <2>1, <2>2
<1>9. CASE Handle(s)
    <2>1. PICK done, reqs, ping : /\ reqs \in Seq(Req)
                                  /\ \A r \in ToSet(reqs) : r.kind # "edit"
                                  /\ Becomes(s, Answered(S, done, reqs, ping))
        BY <1>9, HandlersFetch
    <2> DEFINE T == Answered(S, done, reqs, ping)
    <2>2. T.queue = S.queue \o reqs /\ T.up = S.up
        BY <1>1 DEF Answered, Sessions
    <2>3. Becomes(s, T)
        BY <2>1
    <2> HIDE DEF S, T
    <2>4. Lined(store, edits, S) => Lined(store, edits, T)
        BY <1>1, <2>1, <2>2, LinedQueued
    <2>5. QED BY <1>3, <2>3, <2>4
<1>10. QED BY <1>5, <1>6, <1>7, <1>8, <1>9 DEF WssThread

\* What the timeouts do keeps the edits in line, unless a request is sent again.
LEMMA TimersKeepLined ==
    ASSUME WsType, SessionInv, EditInv, NEW s \in Session, Timers(s)
    PROVE  EditInv'
<1> DEFINE S == sess[s]
<1>1. S \in Sessions /\ store \in [Wallet -> Snapshot] /\ edits \in Nat /\ resent \in BOOLEAN
    BY ASession DEF WsType
<1>2. UNCHANGED <<store, edits>> /\ (resent => resent')
    BY <1>1 DEF Timers, PingSend, PingRecord, PingTimeout, FindStale, SweepOne, OtherFrame,
                ThreadFrame
<1>3. \A T : /\ Becomes(s, T)
             /\ ~resent' /\ Lined(store, edits, S) => Lined(store, edits, T)
             => EditInv'
    BY <1>2, OneLined
<1>4. \A T : Becomes(s, T) /\ T.up = S.up /\ T.queue = S.queue => EditInv'
    <2> HIDE DEF S
    <2>1. QED BY <1>1, <1>3, LinedKept
<1>5. CASE PingSend(s)
    <2> DEFINE Q == Queued(S, <<Ping>>)
               T == [Q EXCEPT !.pinger = "record"]
    <2>1. Becomes(s, T)
        BY <1>5, PingSends
    <2>2. <<Ping>> \in Seq(Req) /\ \A r \in ToSet(<<Ping>>) : r.kind # "edit"
        BY FetchesAreReq DEF ToSet, Ping
    <2>3. /\ Q \in Sessions /\ Q.up = S.up
          /\ Q.queue = S.queue \o <<Ping>> \/ Q.queue = S.queue
        BY <1>1, <2>2, QueuedIs, QueuedSame
    <2> HIDE DEF Q
    <2>4. T.up = Q.up /\ T.queue = Q.queue
        BY <2>3 DEF Sessions
    <2> HIDE DEF S, T
    <2>5. Lined(store, edits, S) => Lined(store, edits, T)
        BY <1>1, <2>2, <2>3, <2>4, LinedQueued
    <2>6. QED BY <1>3, <2>1, <2>5
<1>6. CASE PingRecord(s) \/ PingTimeout(s)
    <2>1. /\ [S EXCEPT !.pinger = "sleep", !.ping = TRUE].up = S.up
          /\ [S EXCEPT !.pinger = "sleep", !.ping = TRUE].queue = S.queue
          /\ [S EXCEPT !.conn = FALSE].up = S.up /\ [S EXCEPT !.conn = FALSE].queue = S.queue
        BY <1>1 DEF Sessions
    <2>2. QED BY <1>4, <1>6, <2>1, PingRecords, PingTimesOut
<1>7. CASE FindStale(s)
    <2>1. \A X : /\ [S EXCEPT !.stale = X].up = S.up
                 /\ [S EXCEPT !.stale = X].queue = S.queue
        BY <1>1 DEF Sessions
    <2>2. QED BY <1>4, <1>7, <2>1, FindsStale
<1>8. CASE SweepOne(s)
    <2>1. \A m : GivenUp(S, m).up = S.up /\ GivenUp(S, m).queue = S.queue
        BY <1>1 DEF GivenUp, Taken, Sessions
    <2>2. PICK m : Becomes(s, GivenUp(S, m)) \/ (resent' /\ Becomes(s, SentAgain(S, m)))
        BY <1>8, SweepsOne
    <2> HIDE DEF S
    <2>3. QED BY <1>3, <1>4, <2>1, <2>2
<1>9. QED BY <1>5, <1>6, <1>7, <1>8 DEF Timers

\* What a request carried out does to the server's wallets.
LEMMA StoreServed ==
    ASSUME WsType, NEW s \in Session, Serve(s)
    PROVE  LET r == Head(sess[s].up).req IN
           \A w \in Wallet : \/ store'[w].edit = store[w].edit
                             \/ r.kind = "edit" /\ store'[w].edit = r.edit
<1> DEFINE r == Head(sess[s].up).req
<1>1. store \in [Wallet -> Snapshot]
    BY DEF WsType
<1>2. store' = IF r.kind = "edit"
               THEN [store EXCEPT ![r.of] = [rev |-> store[r.of].rev + 1,
                                             by |-> sess[s].who, edit |-> r.edit]]
               ELSE store
    BY DEF Serve
<1> HIDE DEF r
<1>3. QED BY <1>1, <1>2 DEF r

\* What the server does keeps the edits in line.
LEMMA ServerKeepsLined ==
    ASSUME WsType, SessionInv, EditInv, NEW s \in Session, Server(s)
    PROVE  EditInv'
<1> DEFINE S == sess[s]
<1>1. /\ S \in Sessions /\ store \in [Wallet -> Snapshot] /\ edits \in Nat
      /\ store' \in [Wallet -> Snapshot]
    BY ASession, NextType DEF WsType, WsNext
<1>2. UNCHANGED <<edits, resent>>
    BY DEF Server, Serve, ServeOddly, Push, RemoveMember, ServerCloses, ServerFrame
<1>3. ASSUME Serve(s) \/ ServeOddly(s)
      PROVE  /\ S.up # <<>>
             /\ \/ Becomes(s, Served(S))
                \/ \E a \in Message : Becomes(s, Told(Served(S), a))
             /\ \A w \in Wallet : \/ store'[w].edit = store[w].edit
                                  \/ /\ Head(S.up).req.kind = "edit"
                                     /\ store'[w].edit = Head(S.up).req.edit
    <2>1. CASE Serve(s)
        BY <2>1, Serves, StoreServed DEF Reply
    <2>2. CASE ServeOddly(s)
        <3>1. store' = store
            BY <2>2 DEF ServeOddly
        <3>2. QED BY <2>2, <3>1, ServesOddly
    <2>3. QED BY <1>3, <2>1, <2>2
<1>4. ASSUME Push(s) \/ RemoveMember(s) \/ ServerCloses(s)
      PROVE  /\ store' = store
             /\ \E a \in Message :
                   \/ Becomes(s, Told(S, a))
                   \/ Becomes(s, [Told(S, a) EXCEPT !.open = FALSE, !.up = <<>>])
    BY <1>4, Pushes, RemovesMember, ServerCloseIs DEF Push, RemoveMember, ServerCloses
<1>5. \A T : /\ Becomes(s, T)
             /\ Applied(store, edits) /\ Lined(store, edits, S) =>
                    Applied(store', edits) /\ Lined(store', edits, T)
             => EditInv'
    BY <1>2, OneLined
<1>6. CASE Serve(s) \/ ServeOddly(s)
    <2>1. Served(S) \in Sessions
        BY <1>1, <1>3, <1>6, ServedIs
    <2>2. Served(S).queue = S.queue /\ Served(S).up = Tail(S.up)
        BY <1>1 DEF Served, Sessions
    <2> HIDE DEF S
    <2>3. \A a \in Message : /\ Told(Served(S), a).queue = S.queue
                             /\ Told(Served(S), a).up = Tail(S.up)
        BY <2>1, <2>2, ToldIs
    <2>4. \A T : /\ T.queue = S.queue /\ T.up = Tail(S.up)
                 /\ Applied(store, edits) /\ Lined(store, edits, S)
                 => Applied(store', edits) /\ Lined(store', edits, T)
        BY <1>1, <1>3, <1>6, LinedServed
    <2>5. QED BY <1>3, <1>5, <1>6, <2>2, <2>3, <2>4
<1>7. CASE Push(s) \/ RemoveMember(s) \/ ServerCloses(s)
    <2> HIDE DEF S
    <2>1. ASSUME NEW a \in Message
          PROVE  /\ Told(S, a).queue = S.queue /\ Told(S, a).up = S.up
                 /\ [Told(S, a) EXCEPT !.open = FALSE, !.up = <<>>].queue = S.queue
                 /\ [Told(S, a) EXCEPT !.open = FALSE, !.up = <<>>].up = <<>>
        <3> DEFINE T == Told(S, a)
        <3>1. T \in Sessions /\ T.queue = S.queue /\ T.up = S.up
            BY <1>1, ToldIs
        <3> HIDE DEF T
        <3>2. /\ [T EXCEPT !.open = FALSE, !.up = <<>>].queue = S.queue
              /\ [T EXCEPT !.open = FALSE, !.up = <<>>].up = <<>>
            BY <3>1 DEF Sessions
        <3>3. QED BY <3>1, <3>2 DEF T
    <2>2. \A T : /\ T.queue = S.queue /\ (T.up = S.up \/ T.up = <<>>)
                 /\ Lined(store, edits, S)
                 => Lined(store, edits, T)
        BY <1>1, LinedKept
    <2>3. QED BY <1>4, <1>5, <1>7, <2>1, <2>2
<1>8. QED BY <1>6, <1>7 DEF Server

\* What other users do keeps the edits in line: they are theirs.
LEMMA ForeignKeepsLined ==
    ASSUME WsType, EditInv, NEW w \in Wallet, ForeignEdit(w)
    PROVE  EditInv'
<1>1. /\ UNCHANGED <<edits, resent>> /\ store \in [Wallet -> Snapshot] /\ edits \in Nat
    BY DEF ForeignEdit, ServerFrame, WsType
<1>2. /\ store' \in [Wallet -> Snapshot]
      /\ \A v \in Wallet : store'[v].edit = store[v].edit
    BY ForeignEdits
<1>3. PICK a \in Message :
         /\ Session' = Session /\ Len(sess') = Len(sess)
         /\ \A s \in Session : sess'[s] = Told(sess[s], a) \/ sess'[s] = sess[s]
    BY ForeignEdits
<1>4. ASSUME NEW s \in Session, Lined(store, edits, sess[s])
      PROVE  Lined(store', edits, sess'[s])
    <2>1. sess[s] \in Sessions
        BY ASession
    <2>2. sess'[s].queue = sess[s].queue /\ sess'[s].up = sess[s].up
        BY <1>3, <2>1, ToldIs
    <2>3. QED BY <1>1, <1>2, <1>4, <2>1, <2>2, LinedKept
<1>5. Applied(store, edits) => Applied(store', edits)
    BY <1>2 DEF Applied
<1>6. QED BY <1>1, <1>3, <1>4, <1>5 DEF EditInv

\* Edits are applied in the order they were made, each once, as long as no request is
\* sent again: whatever the server refuses, and whenever the connection breaks.
THEOREM InOrder == WsSpec => EditsInOrder
<1> DEFINE Inv == WsType /\ SessionInv /\ EditInv
           Step == \A w \in Wallet : \/ store'[w].edit = store[w].edit
                                     \/ store'[w].edit > store[w].edit
                                     \/ resent' \/ Len(sess) > 1
<1>1. WsInit => Inv
    <2> SUFFICES ASSUME WsInit PROVE EditInv
        BY InitType
    <2>1. Session = {} /\ store = [w \in Wallet |-> NoSnapshot] /\ edits = 0
        BY DEF WsInit, Session
    <2>2. Applied(store, edits)
        BY <2>1 DEF Applied, NoSnapshot
    <2>3. QED BY <2>1, <2>2 DEF EditInv
<1>2. Inv /\ [WsNext]_wsVars => Inv'
    <2>1. Inv /\ WsNext => EditInv'
        BY GuiKeepsLined, WssThreadKeepsLined, TimersKeepLined, ServerKeepsLined,
           ForeignKeepsLined DEF WsNext
    <2>2. Inv /\ UNCHANGED wsVars => Inv'
        BY StutterTypeGood DEF EditInv, Session, wsVars, auxVars
    <2>3. QED BY <2>1, <2>2, NextType, NextGood
<1>3. Inv /\ [WsNext]_wsVars => [Step]_wsVars
    <2> SUFFICES ASSUME Inv, WsNext, ~resent', ~(Len(sess) > 1), NEW w \in Wallet
                 PROVE  store'[w].edit = store[w].edit \/ store'[w].edit > store[w].edit
        OBVIOUS
    <2>1. CASE store' = store
        BY <2>1
    <2>2. ASSUME NEW v \in Wallet, ForeignEdit(v) PROVE store'[w].edit = store[w].edit
        BY <2>2, ForeignEdits
    <2>3. ASSUME NEW s \in Session, Serve(s)
          PROVE  store'[w].edit = store[w].edit \/ store'[w].edit > store[w].edit
        <3> DEFINE S == sess[s]
        <3>1. /\ S \in Sessions /\ S.up # <<>> /\ Served(S) \in Sessions
              /\ store \in [Wallet -> Snapshot] /\ store' \in [Wallet -> Snapshot]
              /\ edits \in Nat
            BY <2>3, ASession, Serves, ServedIs, StoreAfter DEF WsType
        <3>2. Len(sess) <= 1 /\ ~resent
            <4>1. sess \in Seq(Sessions)
                BY DEF WsType
            <4>2. ~resent
                BY <2>3 DEF Serve, ServerFrame
            <4>3. QED BY <4>1, <4>2
        <3>3. Applied(store, edits) /\ Lined(store, edits, S)
            BY <3>2 DEF EditInv
        <3>4. \A v \in Wallet : \/ store'[v].edit = store[v].edit
                                \/ /\ Head(S.up).req.kind = "edit"
                                   /\ store'[v].edit = Head(S.up).req.edit
            BY <2>3, StoreServed
        <3>5. Served(S).queue = S.queue /\ Served(S).up = Tail(S.up)
            BY <3>1 DEF Served, Sessions
        <3> HIDE DEF S
        <3>6. QED BY <3>1, <3>3, <3>4, <3>5, LinedServed
    <2>4. ASSUME NEW s \in Session, Server(s), ~Serve(s) PROVE store' = store
        BY <2>4 DEF Server, ServeOddly, Push, RemoveMember, ServerCloses
    <2>5. QED BY <2>1, <2>2, <2>3, <2>4, ClientStore DEF WsNext
<1>4. QED BY <1>1, <1>2, <1>3, PTL DEF WsSpec, EditsInOrder

-----------------------------------------------------------------------------
(* What the caches refer to is cached or asked for. *)

\* What was asked for stays so in a session that goes on.
StillAsked(S, T) == T.conn /\ T.open =>
                        S.conn /\ S.open /\ \A r : Asked(S, r) => Asked(T, r)

\* What is asked for stays so while neither queue nor requests change.
LEMMA AskedKept ==
    ASSUME NEW S, NEW T, T.queue = S.queue, T.sent = S.sent,
           T.conn => S.conn, T.open => S.open
    PROVE  StillAsked(S, T)
BY DEF StillAsked, Asked

\* Queueing more forgets nothing.
LEMMA AskedQueued ==
    ASSUME NEW S \in Sessions, NEW reqs \in Seq(Req)
    PROVE  /\ StillAsked(S, Queued(S, reqs))
           /\ StillAsked(S, [Queued(S, reqs) EXCEPT !.pinger = "record"])
<1> DEFINE Q == Queued(S, reqs)
           P == [Queued(S, reqs) EXCEPT !.pinger = "record"]
           p == S.queue
<1>1. /\ Q.sent = S.sent /\ Q.open = S.open /\ Q.conn = S.conn
      /\ Q.queue = (IF S.th = "done" THEN p ELSE p \o reqs) /\ Q \in Sessions
    BY QueuedSame, QueuedIs
<1>2. ToSet(p) \subseteq ToSet(Q.queue)
    <2>1. p \in Seq(Req)
        BY FieldsAre
    <2> HIDE DEF p, Q
    <2>2. ToSet(p \o reqs) = ToSet(p) \cup ToSet(reqs)
        BY <2>1, ToSetOf
    <2>3. QED BY <1>1, <2>2
<1>3. StillAsked(S, Q)
    <2> HIDE DEF Q
    <2>1. QED BY <1>1, <1>2 DEF StillAsked, Asked
<1>4. /\ P.sent = Q.sent /\ P.open = Q.open /\ P.conn = Q.conn /\ P.queue = Q.queue
    <2> HIDE DEF Q
    <2>1. [Q EXCEPT !.pinger = "record"].queue = Q.queue
          /\ [Q EXCEPT !.pinger = "record"].sent = Q.sent
          /\ [Q EXCEPT !.pinger = "record"].open = Q.open
          /\ [Q EXCEPT !.pinger = "record"].conn = Q.conn
        BY <1>1 DEF Sessions
    <2>2. QED BY <2>1 DEF Q
<1>5. StillAsked(S, P)
    <2> HIDE DEF P, Q
    <2>1. QED BY <1>3, <1>4 DEF StillAsked, Asked
<1>6. QED BY <1>3, <1>5

\* A request sent is on its way.
LEMMA AskedSent ==
    ASSUME NEW S \in Sessions, S.queue # <<>>, NEW r \in Req, r = Head(S.queue),
           NEW id \in Id, id \notin Ids(S)
    PROVE  StillAsked(S, Sent(S, r, id))
<1> DEFINE T == Sent(S, r, id)
           v == [req |-> r, tries |-> 0]
           p == S.queue
           q == Tail(S.queue)
<1>1. /\ T.queue = q /\ T.conn = S.conn /\ T.open = S.open
      /\ T.sent = With(S.sent, id, v)
    BY DEF Sent, Sessions
<1>2. v \in Entries
    BY WsClientAssumption DEF Entries
<1>3. id \notin DOMAIN S.sent
    BY DEF Ids
<1>4. ToSet(p) = {r} \cup ToSet(q)
    <2>1. p \in Seq(Req) /\ p # <<>>
        BY FieldsAre
    <2> HIDE DEF p
    <2>2. ToSet(p) = {Head(p)} \cup ToSet(Tail(p))
        BY <2>1, ToSetOf
    <2>3. QED BY <2>2 DEF p
<1> DEFINE f == With(S.sent, id, v)
<1>5. /\ DOMAIN f = DOMAIN S.sent \cup {id} /\ f[id] = v
      /\ \A i \in DOMAIN S.sent \ {id} : f[i] = S.sent[i]
    <2> HIDE DEF v
    <2>1. DOMAIN f = DOMAIN S.sent \cup {id}
        BY <1>2, WithSent
    <2>2. f[id] = v
        BY <1>2, WithSent
    <2>3. \A i \in DOMAIN S.sent \ {id} : f[i] = S.sent[i]
        BY <1>2, WithSent
    <2>4. QED BY <2>1, <2>2, <2>3
<1>6. v.req = r /\ v.tries < MaxRetries
    BY WsClientAssumption
<1> HIDE DEF T, f, v, p, q
<1>7. T.sent = f
    BY <1>1 DEF f
<1>8. ASSUME NEW x, Asked(S, x) PROVE Asked(T, x)
    <2>1. CASE x \in ToSet(q)
        BY <1>1, <2>1 DEF Asked
    <2>2. CASE x = r
        BY <1>5, <1>6, <1>7, <2>2 DEF Asked
    <2>3. CASE \E i \in DOMAIN S.sent : S.sent[i].req = x /\ S.sent[i].tries < MaxRetries
        BY <1>3, <1>5, <1>7, <2>3 DEF Asked
    <2>4. QED BY <1>4, <1>8, <2>1, <2>2, <2>3 DEF Asked, p
<1>9. QED BY <1>1, <1>8 DEF StillAsked, T

\* A stale request was given up after all its tries, each of which asked anew.
LEMMA AskedSwept ==
    ASSUME NEW l, NEW S \in Sessions, Good(l, S), NEW m \in S.stale
    PROVE  /\ m.tries >= MaxRetries => StillAsked(S, GivenUp(S, m))
           /\ StillAsked(S, SentAgain(S, m))
<1> DEFINE G == GivenUp(S, m)
           A == SentAgain(S, m)
           Q == Queued(Taken(S, m), <<m.req>>)
<1>1. /\ m \in [id : Id, req : Req, tries : 0 .. MaxRetries]
      /\ m.id \in DOMAIN S.sent => S.sent[m.id].req = m.req /\ S.sent[m.id].tries = m.tries
      /\ S.th = "done" /\ S.conn => ~S.open
    BY FieldsAre DEF Good, Filed, Ends
<1>2. /\ G.queue = S.queue /\ G.conn = S.conn /\ G.open = S.open
      /\ G.sent = Without(S.sent, m.id)
    BY DEF GivenUp, Taken, Sessions
<1>3. ASSUME m.tries >= MaxRetries PROVE StillAsked(S, G)
    <2> DEFINE f == Without(S.sent, m.id)
    <2>1. /\ DOMAIN f = DOMAIN S.sent \ {m.id}
          /\ \A i \in DOMAIN S.sent \ {m.id} : f[i] = S.sent[i]
        BY WithoutSent
    <2>2. \A i \in DOMAIN S.sent : S.sent[i].tries < MaxRetries => i # m.id
        BY <1>1, <1>3, WsClientAssumption
    <2>3. G.sent = f
        BY <1>2
    <2> HIDE DEF G, f
    <2>4. QED BY <1>2, <2>1, <2>2, <2>3 DEF StillAsked, Asked
<1>4. Taken(S, m) \in Sessions /\ <<m.req>> \in Seq(Req)
    BY <1>1, TakenIs
<1>5. /\ Taken(S, m).queue = S.queue /\ Taken(S, m).sent = S.sent /\ Taken(S, m).th = S.th
      /\ Taken(S, m).conn = S.conn /\ Taken(S, m).open = S.open
    BY DEF Taken, Sessions
<1>6. /\ Q \in Sessions /\ Q.sent = S.sent /\ Q.conn = S.conn /\ Q.open = S.open
      /\ Q.queue = IF S.th = "done" THEN S.queue ELSE S.queue \o <<m.req>>
    <2> DEFINE R == Taken(S, m)
               reqs == <<m.req>>
    <2>1. R \in Sessions /\ reqs \in Seq(Req)
        BY <1>4
    <2> HIDE DEF R, reqs
    <2>2. /\ Queued(R, reqs) \in Sessions /\ Queued(R, reqs).sent = R.sent
          /\ Queued(R, reqs).conn = R.conn /\ Queued(R, reqs).open = R.open
          /\ Queued(R, reqs).queue = IF R.th = "done" THEN R.queue ELSE R.queue \o reqs
        BY <2>1, QueuedIs, QueuedSame
    <2>3. QED BY <1>5, <2>2 DEF R, reqs
<1>7. /\ A.queue = Q.queue /\ A.conn = Q.conn /\ A.open = Q.open
      /\ A.sent = TriedAgain(S.sent, m.id)
    <2> HIDE DEF Q
    <2>1. [Q EXCEPT !.sent = TriedAgain(@, m.id)].queue = Q.queue
          /\ [Q EXCEPT !.sent = TriedAgain(@, m.id)].conn = Q.conn
          /\ [Q EXCEPT !.sent = TriedAgain(@, m.id)].open = Q.open
          /\ [Q EXCEPT !.sent = TriedAgain(@, m.id)].sent = TriedAgain(Q.sent, m.id)
        BY <1>6 DEF Sessions
    <2>2. QED BY <1>6, <2>1 DEF SentAgain, Q
<1>8. StillAsked(S, A)
    <2> DEFINE p == S.queue
               f == TriedAgain(S.sent, m.id)
    <2>1. ToSet(p \o <<m.req>>) = ToSet(p) \cup {m.req}
        <3>1. p \in Seq(Req) /\ ToSet(<<m.req>>) = {m.req}
            BY FieldsAre DEF ToSet
        <3> DEFINE s == <<m.req>>
        <3>2. s \in Seq(Req) /\ ToSet(s) = {m.req}
            BY <1>4, <3>1
        <3> HIDE DEF p, s
        <3>3. ToSet(p \o s) = ToSet(p) \cup ToSet(s)
            BY <3>1, <3>2, ToSetOf
        <3>4. QED BY <3>2, <3>3 DEF s
    <2>2. DOMAIN f = DOMAIN S.sent /\ \A i \in DOMAIN S.sent \ {m.id} : f[i] = S.sent[i]
        <3> DEFINE g == S.sent
        <3>1. g \in Partial(Id, Entries)
            BY FieldsAre
        <3> HIDE DEF g
        <3>2. PICK D \in SUBSET Id : g \in [D -> Entries]
            BY <3>1 DEF Partial
        <3>3. /\ DOMAIN TriedAgain(g, m.id) = DOMAIN g
              /\ \A i \in DOMAIN g \ {m.id} : TriedAgain(g, m.id)[i] = g[i]
            BY <3>2 DEF TriedAgain
        <3>4. QED BY <3>3 DEF g
    <2>3. A.sent = f
        BY <1>7
    <2> HIDE DEF A, Q, f, p
    <2> SUFFICES ASSUME S.th # "done", NEW x, Asked(S, x) PROVE Asked(A, x)
        BY <1>1, <1>6, <1>7 DEF StillAsked
    <2>4. A.queue = p \o <<m.req>>
        BY <1>6, <1>7 DEF p
    <2>5. CASE x \in ToSet(p) \cup {m.req}
        BY <2>1, <2>4, <2>5 DEF Asked
    <2>6. ASSUME NEW i \in DOMAIN S.sent, S.sent[i].req = x, S.sent[i].tries < MaxRetries
          PROVE  Asked(A, x)
        <3>1. CASE i = m.id
            BY <1>1, <2>5, <2>6, <3>1
        <3>2. CASE i # m.id
            BY <2>2, <2>3, <2>6, <3>2 DEF Asked
        <3>3. QED BY <3>1, <3>2
    <2>7. QED BY <2>5, <2>6 DEF Asked, p
<1>9. QED BY <1>3, <1>8

\* What a handled message leaves asked for.
LEMMA AskedAnswered ==
    ASSUME NEW S \in Sessions, NEW done, NEW reqs \in Seq(Req), NEW ping, NEW r,
           \/ r \in ToSet(reqs)
           \/ Asked(S, r) /\ (done \in DOMAIN S.sent => S.sent[done].req # r)
    PROVE  Asked(Answered(S, done, reqs, ping), r)
<1> DEFINE T == Answered(S, done, reqs, ping)
           f == Without(S.sent, done)
           p == S.queue
<1>1. T.queue = p \o reqs /\ T.sent = f
    BY DEF Answered, Sessions
<1>2. /\ DOMAIN f = DOMAIN S.sent \ {done}
      /\ \A i \in DOMAIN S.sent \ {done} : f[i] = S.sent[i]
    BY WithoutSent
<1>3. ToSet(p \o reqs) = ToSet(p) \cup ToSet(reqs)
    <2>1. p \in Seq(Req)
        BY FieldsAre
    <2> HIDE DEF p
    <2>2. QED BY <2>1, ToSetOf
<1> HIDE DEF T, f, p
<1>4. CASE r \in ToSet(reqs) \/ r \in ToSet(p)
    BY <1>1, <1>3, <1>4 DEF Asked, T
<1>5. CASE /\ done \in DOMAIN S.sent => S.sent[done].req # r
           /\ \E i \in DOMAIN S.sent : S.sent[i].req = r /\ S.sent[i].tries < MaxRetries
    BY <1>1, <1>2, <1>5 DEF Asked, T
<1>6. QED BY <1>4, <1>5 DEF Asked, p

\* A step of one session that leaves the caches.
LEMMA OneFetches ==
    ASSUME WsType, FetchInv, NEW s \in Session, NEW T, Becomes(s, T),
           strayed => strayed', lost' = "no" => lost = "no", UNCHANGED cacheVars,
           StillAsked(sess[s], T)
    PROVE  FetchInv'
<1> SUFFICES ASSUME ~strayed', lost' = "no", Connected', sess'[Current'].open,
                    NEW r, Missing(r)'
             PROVE  Asked(sess'[Current'], r)
    BY DEF FetchInv
<1>1. /\ Current' = Current /\ sess # <<>> /\ Current \in Session /\ sess'[s] = T
      /\ \A x \in Session : x # s => sess'[x] = sess[x]
    BY Others, CurrentIs
<1>2. sess'[Current].conn /\ sess'[Current].open
    BY <1>1 DEF Connected
<1>3. Missing(r)
    BY DEF Missing, Refers, cacheVars
<1>4. /\ sess[Current].conn /\ sess[Current].open
      /\ Asked(sess[Current], r) => Asked(sess'[Current], r)
    BY <1>1, <1>2 DEF StillAsked
<1>5. Asked(sess[Current], r)
    BY <1>1, <1>3, <1>4 DEF FetchInv, Connected
<1>6. QED BY <1>1, <1>4, <1>5

\* What the GUI does leaves what is missing asked for.
LEMMA GuiKeepsFetch ==
    ASSUME WsType, SessionInv, FetchInv, Gui, strayed => strayed'
    PROVE  FetchInv'
<1>1. CASE ConnectWs
    <2>1. sess'[Current'] = NewSession(email)
        BY <1>1, ConnectsWs
    <2>2. ~NewSession(email).conn
        BY DEF NewSession
    <2>3. ~Connected'
        BY <2>1, <2>2 DEF Connected
    <2>4. QED BY <2>3 DEF FetchInv
<1>2. CASE Logout
    <2>1. CASE sess = <<>>
        <3>1. sess' = <<>>
            BY <1>2, <2>1 DEF Logout, Closed, Connected
        <3>2. QED BY <3>1 DEF FetchInv, Connected
    <2>2. CASE sess # <<>>
        <3> DEFINE S == sess[Current]
        <3>1. /\ Current \in Session /\ S \in Sessions /\ Current' = Current
              /\ sess'[Current] = IF Connected THEN CloseOf(S) ELSE S
            BY <1>2, <2>2, CurrentIs, ASession, LogsOut
        <3>2. ~sess'[Current].conn
            BY <2>2, <3>1, CloseOfIs DEF Connected
        <3>3. QED BY <3>1, <3>2 DEF FetchInv, Connected
    <2>3. QED BY <2>1, <2>2
<1>3. ASSUME NEW w \in Wallet, Edit(w) PROVE FetchInv'
    <2>1. UNCHANGED <<cacheVars, strayed, lost>>
        BY <1>3 DEF Edit
    <2>2. CASE UNCHANGED <<sess, edits>>
        BY <2>1, <2>2 DEF FetchInv, Connected, Current, Missing, Refers, Asked, cacheVars
    <2>3. CASE /\ Current \in Session /\ EditWallet(w, edits') \in Req
               /\ Becomes(Current, Queued(sess[Current], <<EditWallet(w, edits')>>))
        <3> DEFINE S == sess[Current]
                   reqs == <<EditWallet(w, edits')>>
        <3>1. S \in Sessions /\ reqs \in Seq(Req)
            BY <2>3, ASession
        <3>2. Becomes(Current, Queued(S, reqs))
            BY <2>3
        <3> HIDE DEF S, reqs
        <3>3. StillAsked(S, Queued(S, reqs))
            BY <3>1, AskedQueued
        <3>4. QED BY <2>1, <2>3, <3>2, <3>3, OneFetches DEF S
    <2>4. QED BY <1>3, <2>2, <2>3, Edits
<1>4. CASE UNCHANGED <<sess, cacheVars, strayed, lost>>
    BY <1>4 DEF FetchInv, Connected, Current, Missing, Refers, Asked, cacheVars
<1>5. QED BY <1>1, <1>2, <1>3, <1>4
          DEF Gui, SelectAccount, AuthRequest, CodeVerified, AuthCode, HandleNotif,
              ConnectionFailed, PollPending, auxVars

\* A message is handled: what was missing and is still was asked for otherwise than by
\* the request it answers, and what is missing now is fetched.
LEMMA HandleFetches ==
    ASSUME WsType, SessionInv, lost = "no", NEW s \in Session, Handle(s)
    PROVE  \E done, reqs, ping :
              /\ reqs \in Seq(Req) /\ Becomes(s, Answered(sess[s], done, reqs, ping))
              /\ \A r : Missing(r)' =>
                    \/ r \in ToSet(reqs)
                    \/ /\ Missing(r)
                       /\ done \in DOMAIN sess[s].sent => sess[s].sent[done].req # r
<1> DEFINE S == sess[s]
           m == S.hand
           q == S.sent[m.id].req
           Fine(done, reqs) ==
               \A r : Missing(r)' => \/ r \in ToSet(reqs)
                                     \/ /\ Missing(r)
                                        /\ done \in DOMAIN S.sent => S.sent[done].req # r
<1>0. S \in Sessions /\ <<>> \in Seq(Req)
    BY ASession
<1>1. m.id \in DOMAIN S.sent =>
          \/ m.kind = Expected(q) /\ m.of = q.of
          \/ m.kind = "unauthorized" /\ q.kind = "user"
    BY DEF SessionInv, Good, Answers, Coming, Fits
<1>2. /\ Expected(q) \in {"pong", "user", "wallet", "none"}
      /\ Expected(q) = "pong" => q.kind = "ping"
      /\ Expected(q) = "user" => q.kind = "user"
      /\ Expected(q) = "wallet" => q.kind \in {"wallet", "edit"}
    BY DEF Expected
<1>3. /\ m \in Message /\ m.body \in Snapshot
      /\ m.kind = "wallet" => m.of \in Wallet
      /\ m.kind \in {"org", "removed"} => m.of \in Org
    BY InHandIs
<1>4. 0 \notin DOMAIN S.sent
    BY <1>0, FieldsAre DEF Partial, Id
<1> HIDE DEF q
<1>5. HandleUnknown(s) => Fine(m.id, <<>>)
    <2> SUFFICES ASSUME HandleUnknown(s) PROVE Fine(m.id, <<>>)
        OBVIOUS
    <2>1. m.id \notin DOMAIN S.sent /\ UNCHANGED cacheVars
        BY <1>1, <1>2 DEF HandleUnknown
    <2>2. QED BY <2>1 DEF Missing, Refers, cacheVars
<1>6. HandleError(s) => Fine(m.id, <<>>)
    <2> SUFFICES ASSUME HandleError(s), NEW r, Missing(r)'
                 PROVE  Missing(r) /\ (m.id \in DOMAIN S.sent => q # r)
        BY DEF q
    <2>1. UNCHANGED <<orgs, wallets>> /\ users \subseteq users'
        BY DEF HandleError
    <2>2. m.id \in DOMAIN S.sent => q.kind = "user" /\ q.of \in users'
        BY <1>1, <1>2 DEF HandleError, Entry, q
    <2>3. QED BY <2>1, <2>2 DEF Missing, Refers, FetchUser, FetchWallet
<1>7. ~HandleMismatch(s)
    BY <1>1 DEF HandleMismatch, Matches, Entry, q
<1>8. HandlePong(s) => Fine(m.id, <<>>)
    <2> SUFFICES ASSUME HandlePong(s), NEW r, Missing(r)'
                 PROVE  Missing(r) /\ (m.id \in DOMAIN S.sent => q # r)
        BY DEF q
    <2>1. UNCHANGED cacheVars /\ (m.id \in DOMAIN S.sent => q.kind = "ping")
        BY <1>1, <1>2 DEF HandlePong
    <2>2. QED BY <2>1 DEF Missing, Refers, FetchUser, FetchWallet, cacheVars
<1>9. HandleOrg(s) => Fine(m.id, OrgFetches(m.of))
    <2> DEFINE X == MemberOf[m.of] \ users
               Y == {w \in Wallet : OrgOf[w] = m.of} \ DOMAIN wallets
               a == Fetches(X)
               b == WalletFetches(Y)
    <2> SUFFICES ASSUME HandleOrg(s), NEW r, Missing(r)', ~Missing(r)
                 PROVE  r \in ToSet(OrgFetches(m.of))
        BY <1>1, <1>2 DEF HandleOrg
    <2>1. X \in SUBSET User /\ Y \in SUBSET Wallet
        BY <1>3, WsClientAssumption DEF HandleOrg
    <2>2. /\ a \in Seq(Req) /\ b \in Seq(Req)
          /\ \A u \in X : FetchUser(u) \in ToSet(a)
          /\ \A w \in Y : FetchWallet(w) \in ToSet(b)
        BY <2>1, FetchesIs, WalletFetchesIs
    <2>3. OrgFetches(m.of) = a \o b
        BY DEF OrgFetches
    <2>4. ToSet(a \o b) = ToSet(a) \cup ToSet(b)
        <3> HIDE DEF a, b
        <3>1. QED BY <2>2, ToSetOf
    <2>5. orgs' = orgs \cup {m.of} /\ wallets' = wallets /\ users' = users
        BY DEF HandleOrg
    <2>6. (\E u \in X : r = FetchUser(u)) \/ (\E w \in Y : r = FetchWallet(w))
        BY <2>5 DEF Missing, Refers
    <2> HIDE DEF a, b, X, Y
    <2>7. QED BY <2>2, <2>3, <2>4, <2>6
<1>10. HandleWallet(s) => Fine(m.id, FetchMaybe(m.body.by) \o FetchMaybe(OwnerOf[m.of]))
    <2> DEFINE x == m.body.by
               y == OwnerOf[m.of]
               a == FetchMaybe(x)
               b == FetchMaybe(y)
    <2> SUFFICES ASSUME HandleWallet(s), NEW r, Missing(r)', r \notin ToSet(a \o b)
                 PROVE  Missing(r) /\ (m.id \in DOMAIN S.sent => q # r)
        BY DEF q
    <2>1. m.of \in Wallet /\ x \in User \cup {NoOne} /\ y \in User \cup {NoOne}
        BY <1>3, WsClientAssumption DEF HandleWallet, Snapshot
    <2>2. /\ a \in Seq(Req) /\ b \in Seq(Req)
          /\ x \notin users \cup {NoOne} => FetchUser(x) \in ToSet(a)
          /\ y \notin users \cup {NoOne} => FetchUser(y) \in ToSet(b)
        BY <2>1, FetchMaybeIs
    <2>3. ToSet(a \o b) = ToSet(a) \cup ToSet(b)
        <3> HIDE DEF a, b
        <3>1. QED BY <2>2, ToSetOf
    <2>4. /\ DOMAIN wallets' = DOMAIN wallets \cup {m.of} /\ wallets'[m.of].by = x
          /\ \A w \in DOMAIN wallets \ {m.of} : wallets'[w] = wallets[w]
          /\ orgs' = orgs /\ users' = users
        <3>1. wallets' = With(wallets, m.of, m.body)
            BY DEF HandleWallet
        <3>2. QED BY <3>1 DEF With, HandleWallet
    <2>5. m.id \in DOMAIN S.sent => q.kind \in {"wallet", "edit"} /\ q.of = m.of
        BY <1>1, <1>2 DEF HandleWallet
    <2> HIDE DEF a, b, x
    <2>6. CASE \E u : Refers(u)' /\ u \notin users' /\ r = FetchUser(u)
        <3>1. PICK u : Refers(u)' /\ u \notin users /\ r = FetchUser(u)
            BY <2>4, <2>6
        <3>2. u \notin {x, y} \/ u = NoOne
            BY <2>2, <2>3, <3>1
        <3>3. Refers(u)
            BY <2>4, <3>1, <3>2 DEF Refers
        <3>4. QED BY <2>5, <3>1, <3>3 DEF Missing, FetchUser
    <2>7. CASE \E w \in Wallet : /\ OrgOf[w] \in orgs' /\ w \notin DOMAIN wallets'
                                 /\ r = FetchWallet(w)
        BY <2>4, <2>5, <2>7 DEF Missing, FetchWallet
    <2>8. QED BY <2>6, <2>7 DEF Missing
<1>11. HandleUser(s) => Fine(m.id, <<>>)
    <2> SUFFICES ASSUME HandleUser(s), NEW r, Missing(r)'
                 PROVE  Missing(r) /\ (m.id \in DOMAIN S.sent => q # r)
        BY DEF q
    <2>1. UNCHANGED <<orgs, wallets>> /\ users' = users \cup {m.of}
        BY DEF HandleUser
    <2>2. m.id \in DOMAIN S.sent => q.kind = "user" /\ q.of = m.of
        BY <1>1, <1>2 DEF HandleUser
    <2>3. QED BY <2>1, <2>2 DEF Missing, Refers, FetchUser, FetchWallet
<1>12. HandleRemoved(s) => Fine(m.id, <<>>)
    <2> SUFFICES ASSUME HandleRemoved(s), NEW r, Missing(r)'
                 PROVE  Missing(r) /\ (m.id \in DOMAIN S.sent => q # r)
        BY DEF q
    <2>1. /\ UNCHANGED <<wallets, users>> /\ orgs' \subseteq orgs
          /\ m.id \notin DOMAIN S.sent
        BY <1>1, <1>2 DEF HandleRemoved
    <2>2. QED BY <2>1 DEF Missing, Refers
<1>13. \E done, reqs, ping : /\ reqs \in Seq(Req) /\ Fine(done, reqs)
                             /\ Becomes(s, Answered(S, done, reqs, ping))
    <2> HIDE DEF Fine
    <2>1. QED BY <1>0, <1>5, <1>6, <1>7, <1>8, <1>9, <1>10, <1>11, <1>12, Handlings DEF Handle
<1>14. QED BY <1>13

\* A handler asks for what its message makes missing.
LEMMA WssThreadKeepsFetch ==
    ASSUME WsType, SessionInv, LastLives, OwnInv, FetchInv, ~strayed,
           NEW s \in Session, WssThread(s)
    PROVE  FetchInv'
<1> DEFINE S == sess[s]
<1>1. S \in Sessions /\ Good(lost, S) /\ sess # <<>>
    BY ASession, CurrentIs DEF SessionInv
<1>2. lost' = lost /\ strayed' = strayed
    BY DEF WssThread, TakeToken, Handshake, HandshakeFails, LoopRecv, LoopRead, Handle,
           HandledFrame, ThreadFrame
<1>3. \A T : Becomes(s, T) /\ StillAsked(S, T) /\ UNCHANGED cacheVars => FetchInv'
    BY <1>2, OneFetches
<1>4. S.th # "done" => s = Current
    BY CurrentIs DEF LastLives
<1>5. CASE TakeToken(s)
    <2> DEFINE D == [S EXCEPT !.th = "done"]
               H == [S EXCEPT !.th = "handshake", !.who = token']
    <2>1. /\ D.queue = S.queue /\ D.sent = S.sent /\ D.conn = S.conn /\ D.open = S.open
          /\ H.queue = S.queue /\ H.sent = S.sent /\ H.conn = S.conn /\ H.open = S.open
        BY <1>1 DEF Sessions
    <2>2. (Becomes(s, D) \/ Becomes(s, H)) /\ UNCHANGED cacheVars
        BY <1>5, TakesToken DEF TakeToken
    <2> HIDE DEF D, H, S
    <2>3. QED BY <1>3, <2>1, <2>2, AskedKept
<1>6. CASE HandshakeFails(s)
    <2> DEFINE D == [S EXCEPT !.th = "done"]
    <2>1. D.queue = S.queue /\ D.sent = S.sent /\ D.conn = S.conn /\ D.open = S.open
        BY <1>1 DEF Sessions
    <2>2. Becomes(s, D) /\ UNCHANGED cacheVars
        BY <1>6, HandshakeFailing DEF HandshakeFails
    <2> HIDE DEF D, S
    <2>3. QED BY <1>3, <2>1, <2>2, AskedKept
<1>7. CASE Handshake(s)
    <2>1. s = Current /\ S.th = "handshake" /\ UNCHANGED cacheVars
        BY <1>4, <1>7 DEF Handshake
    <2>2. orgs' = {} /\ DOMAIN wallets' = {}
        BY <1>1, <2>1 DEF OwnInv, cacheVars
    <2>3. \A r : ~Missing(r)'
        BY <2>2 DEF Missing, Refers
    <2>4. QED BY <2>3 DEF FetchInv
<1>8. CASE LoopRecv(s)
    <2> DEFINE r == Head(S.queue)
               id == NewId(S)
               C == [S EXCEPT !.queue = Tail(@), !.th = "done", !.conn = FALSE,
                              !.open = FALSE]
               F == [S EXCEPT !.queue = Tail(@), !.th = "done"]
    <2>1. /\ S.queue # <<>> /\ r \in Req /\ id \in Id /\ id \notin Ids(S)
          /\ \/ Becomes(s, C)
             \/ Becomes(s, Sent(S, r, id))
             \/ ~S.open /\ Becomes(s, F)
        BY <1>8, LoopReceives
    <2>2. ~C.conn /\ F.open = S.open
        BY <1>1 DEF Sessions
    <2>3. UNCHANGED cacheVars
        BY <1>8 DEF LoopRecv
    <2> HIDE DEF S, C, F, id
    <2>4. StillAsked(S, C) /\ (~S.open => StillAsked(S, F))
        BY <2>2 DEF StillAsked
    <2>5. StillAsked(S, Sent(S, r, id))
        BY <1>1, <2>1, AskedSent
    <2>6. QED BY <1>3, <2>1, <2>3, <2>4, <2>5
<1>9. CASE LoopRead(s)
    <2> DEFINE D == [S EXCEPT !.down = Tail(@), !.th = "done"]
               R == [S EXCEPT !.down = Tail(@), !.hand = Head(S.down)]
    <2>1. (Becomes(s, D) \/ Becomes(s, R)) /\ UNCHANGED cacheVars
        BY <1>9, LoopReads DEF LoopRead
    <2>2. /\ D.queue = S.queue /\ D.sent = S.sent /\ D.conn = S.conn /\ D.open = S.open
          /\ R.queue = S.queue /\ R.sent = S.sent /\ R.conn = S.conn /\ R.open = S.open
        BY <1>1 DEF Sessions
    <2> HIDE DEF S, D, R
    <2>3. QED BY <1>3, <2>1, <2>2, AskedKept
<1>10. CASE Handle(s)
    <2> SUFFICES ASSUME lost' = "no", Connected', sess'[Current'].open, NEW r, Missing(r)'
                 PROVE  Asked(sess'[Current'], r)
        BY DEF FetchInv
    <2>1. PICK done, reqs, ping :
             /\ reqs \in Seq(Req) /\ Becomes(s, Answered(S, done, reqs, ping))
             /\ \A x : Missing(x)' =>
                   \/ x \in ToSet(reqs)
                   \/ /\ Missing(x)
                      /\ done \in DOMAIN S.sent => S.sent[done].req # x
        BY <1>2, <1>10, HandleFetches
    <2>2. s = Current /\ S.th = "loop"
        BY <1>1, <1>4, <1>10 DEF Handle, Good, InHand
    <2>3. Current' = Current /\ sess'[Current] = Answered(S, done, reqs, ping)
        BY <2>1, <2>2, Others
    <2>4. Answered(S, done, reqs, ping).conn = S.conn
          /\ Answered(S, done, reqs, ping).open = S.open
        BY <1>1 DEF Answered, Sessions
    <2>5. S.conn /\ S.open
        BY <2>3, <2>4 DEF Connected
    <2>6. Missing(r) => Asked(S, r)
        BY <1>1, <1>2, <2>2, <2>5 DEF FetchInv, Connected
    <2>7. Asked(Answered(S, done, reqs, ping), r)
        <3> HIDE DEF S
        <3>1. QED BY <1>1, <2>1, <2>6, AskedAnswered
    <2>8. QED BY <2>3, <2>7
<1>11. QED BY <1>5, <1>6, <1>7, <1>8, <1>9, <1>10 DEF WssThread

\* A request sent again is asked for; one given up was sent again before.
LEMMA TimersKeepFetch ==
    ASSUME WsType, SessionInv, FetchInv, NEW s \in Session, Timers(s)
    PROVE  FetchInv'
<1> DEFINE S == sess[s]
<1>1. S \in Sessions /\ Good(lost, S)
    BY ASession DEF SessionInv
<1>2. UNCHANGED <<lost, strayed>> /\ UNCHANGED cacheVars
    BY DEF Timers, PingSend, PingRecord, PingTimeout, FindStale, SweepOne, OtherFrame,
           ThreadFrame
<1>3. \A T : Becomes(s, T) /\ StillAsked(S, T) => FetchInv'
    BY <1>2, OneFetches
<1>4. \A T : /\ Becomes(s, T) /\ T.queue = S.queue /\ T.sent = S.sent
             /\ T.conn => S.conn
             /\ T.open => S.open
             => FetchInv'
    <2> HIDE DEF S
    <2>1. QED BY <1>3, AskedKept
<1>5. CASE PingSend(s)
    <2>1. <<Ping>> \in Seq(Req)
        BY FetchesAreReq
    <2>2. Becomes(s, [Queued(S, <<Ping>>) EXCEPT !.pinger = "record"])
        BY <1>5, PingSends
    <2> HIDE DEF S
    <2>3. QED BY <1>1, <1>3, <2>1, <2>2, AskedQueued
<1>6. CASE PingRecord(s)
    <2> DEFINE T == [S EXCEPT !.pinger = "sleep", !.ping = TRUE]
    <2>1. T.queue = S.queue /\ T.sent = S.sent /\ T.conn = S.conn /\ T.open = S.open
        BY <1>1 DEF Sessions
    <2>2. Becomes(s, T)
        BY <1>6, PingRecords
    <2> HIDE DEF S, T
    <2>3. QED BY <1>4, <2>1, <2>2
<1>7. CASE PingTimeout(s)
    <2> DEFINE T == [S EXCEPT !.conn = FALSE]
    <2>1. T.queue = S.queue /\ T.sent = S.sent /\ ~T.conn /\ T.open = S.open
        BY <1>1 DEF Sessions
    <2>2. Becomes(s, T)
        BY <1>7, PingTimesOut
    <2> HIDE DEF S, T
    <2>3. QED BY <1>4, <2>1, <2>2
<1>8. CASE FindStale(s)
    <2>1. PICK X : Becomes(s, [S EXCEPT !.stale = Found(S, X)])
        BY <1>8, FindsStale
    <2> DEFINE T == [S EXCEPT !.stale = Found(S, X)]
    <2>2. T.queue = S.queue /\ T.sent = S.sent /\ T.conn = S.conn /\ T.open = S.open
        BY <1>1 DEF Sessions
    <2>3. Becomes(s, T)
        BY <2>1
    <2> HIDE DEF S, T
    <2>4. QED BY <1>4, <2>2, <2>3
<1>9. CASE SweepOne(s)
    <2>1. PICK m \in S.stale : \/ m.tries >= MaxRetries /\ Becomes(s, GivenUp(S, m))
                               \/ Becomes(s, SentAgain(S, m))
        BY <1>9, SweepsOne
    <2> HIDE DEF S
    <2>2. QED BY <1>1, <1>3, <2>1, AskedSwept
<1>10. QED BY <1>5, <1>6, <1>7, <1>8, <1>9 DEF Timers

\* What the server does leaves what is missing asked for.
LEMMA ServerKeepsFetch ==
    ASSUME WsType, SessionInv, FetchInv, NEW s \in Session, Server(s)
    PROVE  FetchInv'
<1> DEFINE S == sess[s]
<1>1. S \in Sessions
    BY ASession
<1>2. strayed' = strayed /\ UNCHANGED cacheVars
    BY DEF Server, Serve, ServeOddly, Push, RemoveMember, ServerCloses, ServerFrame
<1>3. lost' = "no" => lost = "no"
    BY DEF Server, Serve, ServeOddly, Push, RemoveMember, ServerCloses
<1>4. \A T : /\ Becomes(s, T) /\ T.queue = S.queue /\ T.sent = S.sent
             /\ T.conn => S.conn
             /\ T.open => S.open
             => FetchInv'
    <2>1. \A T : Becomes(s, T) /\ StillAsked(S, T) => FetchInv'
        BY <1>2, <1>3, OneFetches
    <2> HIDE DEF S
    <2>2. QED BY <2>1, AskedKept
<1>5. CASE Serve(s) \/ ServeOddly(s)
    <2>1. /\ S.up # <<>>
          /\ Becomes(s, Served(S)) \/ \E a \in Message : Becomes(s, Told(Served(S), a))
        BY <1>5, Serves, ServesOddly DEF Reply
    <2>2. Served(S) \in Sessions
        BY <1>1, <2>1, ServedIs
    <2>3. /\ Served(S).queue = S.queue /\ Served(S).sent = S.sent
          /\ Served(S).conn = S.conn /\ Served(S).open = S.open
        BY <1>1 DEF Served, Sessions
    <2> HIDE DEF S
    <2>4. \A a \in Message :
             /\ Told(Served(S), a).queue = S.queue /\ Told(Served(S), a).sent = S.sent
             /\ Told(Served(S), a).conn = S.conn /\ Told(Served(S), a).open = S.open
        BY <2>2, <2>3, ToldIs
    <2>5. QED BY <1>4, <2>1, <2>3, <2>4
<1>6. CASE Push(s) \/ RemoveMember(s) \/ ServerCloses(s)
    <2>1. PICK a \in Message :
             \/ Becomes(s, Told(S, a))
             \/ Becomes(s, [Told(S, a) EXCEPT !.open = FALSE, !.up = <<>>])
        BY <1>6, Pushes, RemovesMember, ServerCloseIs
    <2> DEFINE T == Told(S, a)
               C == [T EXCEPT !.open = FALSE, !.up = <<>>]
    <2>2. /\ T \in Sessions /\ T.queue = S.queue /\ T.sent = S.sent
          /\ T.conn = S.conn /\ T.open = S.open
        BY <1>1, ToldIs
    <2>3. Becomes(s, T) \/ Becomes(s, C)
        BY <2>1
    <2> HIDE DEF T, S
    <2>4. C.queue = T.queue /\ C.sent = T.sent /\ C.conn = T.conn /\ ~C.open
        BY <2>2 DEF Sessions
    <2> HIDE DEF C
    <2>5. QED BY <1>4, <2>2, <2>3, <2>4
<1>7. QED BY <1>5, <1>6 DEF Server

\* What other users do leaves what is missing asked for.
LEMMA ForeignKeepsFetch ==
    ASSUME WsType, FetchInv, NEW w \in Wallet, ForeignEdit(w)
    PROVE  FetchInv'
<1>1. UNCHANGED <<strayed, lost>> /\ UNCHANGED cacheVars
    BY DEF ForeignEdit, ServerFrame
<1>2. PICK a \in Message :
         /\ Session' = Session /\ Current' = Current
         /\ \A s \in Session : sess'[s] = Told(sess[s], a) \/ sess'[s] = sess[s]
    BY ForeignEdits
<1>3. CASE sess = <<>>
    <2>1. sess' = <<>>
        BY <1>2, <1>3, ForeignEdits DEF Session
    <2>2. QED BY <2>1 DEF FetchInv, Connected
<1>4. CASE sess # <<>>
    <2> DEFINE S == sess[Current]
               T == sess'[Current]
    <2>1. Current \in Session /\ S \in Sessions
        BY <1>4, CurrentIs, ASession
    <2>2. T = Told(S, a) \/ T = S
        BY <1>2, <2>1
    <2>3. T.queue = S.queue /\ T.sent = S.sent /\ T.conn = S.conn /\ T.open = S.open
        <3> HIDE DEF S, T
        <3>1. QED BY <2>1, <2>2, ToldIs
    <2>4. \A r : Asked(S, r) => Asked(T, r)
        <3> HIDE DEF S, T
        <3>1. QED BY <2>3 DEF Asked
    <2>5. \A r : Missing(r)' => Missing(r)
        BY <1>1 DEF Missing, Refers, cacheVars
    <2>6. QED BY <1>1, <1>2, <1>4, <2>3, <2>4, <2>5 DEF FetchInv, Connected
<1>5. QED BY <1>3, <1>4

\* Who and what the caches refer to is cached or asked for, as long as the server denies
\* nothing but users and the connection holds: however the requests time out, and in
\* whatever order answers and notifications come.
THEOREM NothingForgotten == WsSpec => []MissingAreFetched
<1> DEFINE Inv == WsType /\ SessionInv /\ LastLives /\ OwnInv /\ FetchInv
<1>1. WsInit => Inv
    <2>1. WsInit => /\ Session = {} /\ DOMAIN wallets = {} /\ sess = <<>> /\ orgs = {}
                    /\ ~Connected
        BY DEF WsInit, Session, Connected
    <2>2. QED BY <2>1, InitType DEF LastLives, OwnInv, FetchInv
<1>2. Inv /\ [WsNext]_wsVars => Inv'
    <2>1. Inv /\ WsNext => FetchInv'
        <3> SUFFICES ASSUME Inv, WsNext PROVE FetchInv'
            OBVIOUS
        <3>1. CASE strayed'
            BY <3>1 DEF FetchInv
        <3>2. CASE ~strayed'
            BY <3>2, StrayedStays, GuiKeepsFetch, WssThreadKeepsFetch, TimersKeepFetch,
               ServerKeepsFetch, ForeignKeepsFetch DEF WsNext
        <3>3. QED BY <3>1, <3>2
    <2>2. Inv /\ WsNext => Inv'
        BY <2>1, NextType, NextGood, LastLivesStays, OwnStays
    <2>3. Inv /\ UNCHANGED wsVars => Inv'
        BY StutterTypeGood
           DEF LastLives, OwnInv, FetchInv, Connected, Missing, Refers, Asked, Session,
               Current, wsVars, clientVars, cacheVars, guiVars, auxVars
    <2>4. QED BY <2>2, <2>3
<1>3. Inv => MissingAreFetched
    <2> SUFFICES ASSUME Inv, ~strayed, lost = "no", Connected, sess[Current].open
                 PROVE  LET S == sess[Current]
                            asked == ToSet(S.queue) \cup {S.sent[i].req : i \in DOMAIN S.sent}
                        IN  /\ \A u \in Referenced \ users : FetchUser(u) \in asked
                            /\ \A w \in Wallet : OrgOf[w] \in orgs /\ w \notin DOMAIN wallets =>
                                                   FetchWallet(w) \in asked
        BY DEF MissingAreFetched
    <2> DEFINE S == sess[Current]
               asked == ToSet(S.queue) \cup {S.sent[i].req : i \in DOMAIN S.sent}
    <2>1. \A r : Missing(r) => r \in asked
        BY DEF FetchInv, Asked
    <2>2. \A u \in Referenced \ users : Missing(FetchUser(u))
        <3>1. \A u \in Referenced : Refers(u)
            BY DEF Referenced, Refers
        <3>2. QED BY <3>1 DEF Missing
    <2>3. \A w \in Wallet : OrgOf[w] \in orgs /\ w \notin DOMAIN wallets =>
                                Missing(FetchWallet(w))
        BY DEF Missing
    <2>4. QED BY <2>1, <2>2, <2>3
<1>4. QED BY <1>1, <1>2, <1>3, PTL DEF WsSpec
=============================================================================

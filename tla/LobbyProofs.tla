----------------------------- MODULE LobbyProofs -----------------------------
(*****************************************************************************)
(* Proofs about the lobby server and its clients, for every finite set of    *)
(* connections, every assignment of identities and passwords to them, and    *)
(* every limit on output, attempts and messages.                             *)
(*                                                                           *)
(* What a client knows, what is on its way to it and what the server holds   *)
(* of it must add up. Sound says this of one connection: the messages sent   *)
(* or queued are in an order that the client accepts (Orderly), between a    *)
(* client outside and the server one message is under way (Converses), and   *)
(* a member that has read everything knows exactly the others (Informed).    *)
(* Tied, Heard and Alone relate the lobby to its members' connections, to    *)
(* the host's events and to identities; Counted bounds the lobbies made by   *)
(* the connections that have been or are members.                            *)
(*                                                                           *)
(* A turn of the loop is a fold over queued messages, input and evictions.   *)
(* ServerInv is what each handler keeps of a server that is a record, so     *)
(* that a fold keeps it by StepByStep; Consistent is the part that holds in  *)
(* the middle of a handler as well.                                          *)
(*****************************************************************************)
EXTENDS Lobby, VectorTheorems

-----------------------------------------------------------------------------
(* The inductive invariant                                                   *)

ConnectionTypes ==
    [stage : {"none", "hello", "identity", "ready"}, lobby : Nat, closing : BOOLEAN,
     dead : BOOLEAN, output : Seq(Messages)]
ServerTypes ==
    [connections : [Connections -> ConnectionTypes],
     lobby : [id : Nat, password : Passwords \cup {0}, members : Seq(Connections)],
     lastLobby : Nat,
     heard : [open : SUBSET Nat, members : SUBSET (Nat \X Identities), consistent : BOOLEAN]]

\* What the invariant says of the clients: the ends of their connections and what they know.
Reader == [link |-> link, state |-> state, peers |-> peers, joined |-> joinedLobby,
           inbox |-> toClient]
Links == {"none", "open", "client closed", "server closed"}
States == {"off", "joined", "ended"} \cup Waits
ReaderTypes ==
    [link : [Connections -> Links], state : [Connections -> States],
     peers : [Connections -> Seq(Identities)], joined : [Connections -> Nat],
     inbox : [Connections -> Seq(Messages)]]

Runs(st) == st \in Waits \cup {"joined"}

\* The end of a connection that a client in state st has, the lobby l that it is in, and the
\* messages tc and q that are under way to it and from it.
Ends(lk, st, l, tc, q) ==
    /\ lk = "none" => Len(q) = 0
    /\ st = "off" <=> lk = "none"
    /\ lk \in {"none", "client closed"} => Len(tc) = 0 /\ ~Runs(st)
    /\ st = "ended" => lk # "open"
    /\ st # "joined" => l = 0

\* The connections in the table are the ones that the server has not closed.
Tabled(lk, x) ==
    /\ x.stage = "none" => x = NoConnection
    /\ x.stage # "none" => lk \in {"open", "client closed"}

\* What a client asks for, and the stage of its connection when it does and when it is answered.
Asked(st) ==
    CASE st = "keys" -> "hello" [] st = "welcome" -> "identity" [] st = "info" -> "query"
      [] st = "created" -> "create" [] st = "listed" -> "join" [] OTHER -> "send"
StagesOf(st, asks) ==
    CASE st = "keys" -> IF asks THEN {"none", "hello"} ELSE {"identity"}
      [] st = "welcome" -> IF asks THEN {"identity"} ELSE {"ready"}
      [] OTHER -> {"ready"}
News == {"member joined", "member left", "message", "server message"}
Answers(st) ==
    CASE st = "keys" -> {"keys"} [] st = "welcome" -> {"welcome"} [] st = "info" -> {"info"}
      [] st \in {"created", "listed"} -> {"refused", "joined"} [] OTHER -> News

\* Between a client and its connection x, before it is in a lobby, one message is under way: what
\* it asks, q, or the answer, w.
Converses(st, x, q, w) ==
    /\ \A i \in DOMAIN q : q[i].kind = Asked(st)
    /\ x.stage \in StagesOf(st, Len(q) > 0)
    /\ x.lobby # 0 <=> st = "joined" \/ (Len(w) > 0 /\ w[1].kind = "joined")
    /\ x.lobby # 0 /\ st # "joined" => Len(q) = 0

\* What the message m may say to a client of identity id that knows the peers of known.
Fits(id, known, m) ==
    /\ m.kind = "joined" => IsInjective(m.members) /\ id \notin Range(m.members)
    /\ m.kind = "member joined" => m.what \notin Range(known) \cup {id}
    /\ m.kind = "message" => m.what \in Range(known) \cup {id}

\* The lobbies that a client of the lobby l will have been in when it has read w.
Entered(l, w) == {l} \cup {w[i].lobby : i \in {j \in DOMAIN w : w[j].kind = "joined"}}

\* A message of the host is for one of the lobbies ls.
Concerns(m, ls) == m.kind = "server message" => m.what \in ls

\* The messages w on their way to a client: an answer that it awaits, then news, and a goodbye at
\* the end.
Orderly(id, st, known, l, w) ==
    /\ Len(w) > 0 => w[1].kind \in Answers(st) \cup {"goodbye"}
    /\ \A i \in 2..Len(w) : w[i].kind \in News \cup {"goodbye"}
    /\ \A i \in 1..(Len(w) - 1) : w[i].kind # "goodbye"
    /\ Len(w) > 1 /\ w[1].kind \notin News \cup {"joined"} => w[2].kind = "goodbye"
    /\ \A i \in 1..Len(w) : Fits(id, Rosters(known, w)[i - 1], w[i])
    /\ \A i \in 1..Len(w) : Concerns(w[i], Entered(l, w))

\* The message m may be the next after those of w: an answer if nothing is under way, and
\* otherwise news, or the goodbye.
Follows(id, st, known, l, w, m) ==
    /\ \A i \in 1..Len(w) : w[i].kind # "goodbye"
    /\ Len(w) = 0 => m.kind \in Answers(st) \cup {"goodbye"}
    /\ Len(w) > 0 => m.kind \in News \cup {"goodbye"}
    /\ Len(w) > 0 /\ w[1].kind \notin News \cup {"joined"} => m.kind = "goodbye"
    /\ Fits(id, Rosters(known, w)[Len(w)], m)
    /\ Concerns(m, Entered(l, w))

\* What a member knows when it has read w, and that it has entered the lobby by then.
Informed(known, l, w, lobbyId, others) ==
    /\ IsInjective(Rosters(known, w)[Len(w)])
    /\ Range(Rosters(known, w)[Len(w)]) = others
    /\ lobbyId \in Entered(l, w)

\* A connection x that is not ending: a conversation, then the news of the lobby.
Speaks(lk, st, known, l, q, x, w, lobbyId, others) ==
    /\ lk # "server closed" /\ x.lobby = 0 => Len(w) + Len(q) <= 1
    /\ lk = "open" =>
          /\ Converses(st, x, q, w)
          /\ \A i \in 1..Len(w) : w[i].kind # "goodbye"
          /\ x.lobby # 0 => Informed(known, l, w, lobbyId, others)

\* What is under way from and to one client; last bounds the lobbies that have been made.
Flow(id, lk, st, known, l, q, x, w, lobbyId, others, last) ==
    /\ ~Silent(x) => Speaks(lk, st, known, l, q, x, w, lobbyId, others)
    /\ Runs(st) => Orderly(id, st, known, l, w)
    /\ l <= last
    /\ \A i \in 1..Len(w) : w[i].kind = "joined" => w[i].lobby <= last

Sound(id, lk, st, known, l, tc, q, x, lobbyId, others, last) ==
    /\ Ends(lk, st, l, tc, q)
    /\ Tabled(lk, x)
    /\ Flow(id, lk, st, known, l, q, x, tc \o x.output, lobbyId, others, last)

Others(members, c) == {IdentityOf[d] : d \in Range(members) \ {c}}
AllSound(s, r, asks) ==
    \A c \in Connections :
        Sound(IdentityOf[c], r.link[c], r.state[c], r.peers[c], r.joined[c], r.inbox[c], asks[c],
              s.connections[c], s.lobby.id, Others(s.lobby.members, c), s.lastLobby)

Tied(s) ==
    /\ \A i, j \in DOMAIN s.lobby.members :
          IdentityOf[s.lobby.members[i]] = IdentityOf[s.lobby.members[j]] => i = j
    /\ \A c \in Connections : s.connections[c].lobby # 0 <=> c \in Range(s.lobby.members)
    /\ \A c \in Connections : s.connections[c].lobby # 0 =>
          s.connections[c].lobby = s.lobby.id /\ s.connections[c].stage = "ready"

Erased(s) == s.lobby.members = <<>> => s.lobby = NoLobby

Heard(s) ==
    /\ s.heard.consistent
    /\ s.heard.open = IF s.lobby.id = 0 THEN {} ELSE {s.lobby.id}
    /\ s.heard.members = {<<s.lobby.id, IdentityOf[c]>> : c \in Range(s.lobby.members)}

\* A connection makes one lobby at most: it is a member from then on until it is ending.
Users(conns, links) ==
    {c \in Connections : conns[c].lobby # 0 \/ conns[c].closing \/ links[c] = "server closed"}
Counted(s, links) ==
    s.lobby.id <= s.lastLobby /\ s.lastLobby <= Cardinality(Users(s.connections, links))

\* An identity that connects again ends its other connections, but for the dead ones, and is not
\* heard again in the turn that removes those.
Alone(conns, active) ==
    \A c, d \in Connections :
        c # d /\ IdentityOf[c] = IdentityOf[d] /\ conns[c].stage = "ready" /\ ~Silent(conns[c]) =>
            /\ conns[d].stage = "ready" => Silent(conns[d])
            /\ conns[d].lobby # 0 => conns[d].dead /\ c \notin active

\* The server s while it handles a message: asks are the messages to it, active the connections
\* that it may still hear in this turn, table those that it visits.
Consistent(s, r, asks, active, table) ==
    /\ s \in ServerTypes /\ r \in ReaderTypes /\ asks \in [Connections -> Seq(Messages)]
    /\ Tied(s) /\ Heard(s) /\ Alone(s.connections, active)
    /\ \A c \in table : s.connections[c].stage # "none"
    /\ AllSound(s, r, asks)

\* Between two messages no lobby is empty, and none is made twice.
ServerInv(s, r, asks, active, table) ==
    Consistent(s, r, asks, active, table) /\ Erased(s) /\ Counted(s, r.link)

\* A member d has the identity of the connection c, which is heard instead of it.
Replaced(conns, c, d) ==
    /\ c # d /\ IdentityOf[c] = IdentityOf[d]
    /\ conns[c].stage = "ready" /\ ~Silent(conns[c]) /\ conns[d].lobby # 0

\* A turn of the server's loop visits connections in its table, and ends when it has closed the
\* members that others replace: one that dies while others are closed, and may be passed over
\* till the next turn, is not one of them.
Turns ==
    /\ phase \in {"poll", "receive", "close"} /\ todo \subseteq Connections
    /\ outgoing \in Seq(1..lastLobby)
    /\ phase = "poll" => todo = {}
    /\ phase # "receive" => \A c, d \in Connections : Replaced(connections, c, d) => d \in todo

Tries ==
    /\ attempt \in [Connections -> 0..Attempts]
    /\ \A c \in Connections : state[c] \in {"off", "keys", "welcome"} => attempt[c] = 0

LobbyInv ==
    /\ ServerInv(Server, Reader, toServer, todo, todo)
    /\ Turns /\ Tries
    /\ ~broken /\ ~dropped

-----------------------------------------------------------------------------
(* Lists and numbers                                                         *)

\* What holds at the start of a sequence and is kept by each step holds at its end.  (The
\* induction theorems of the library take an operator, which the provers cannot instantiate;
\* the sets H of the lemma's uses name the numbers up to which it holds.)
LEMMA StepByStep ==
    ASSUME NEW n \in Nat, NEW H, 0 \in H, \A i \in 1..n : i - 1 \in H => i \in H
    PROVE  \A i \in 0..n : i \in H
<1>. DEFINE F == {i \in 1..n : i \notin H}
<1>1. SUFFICES ASSUME F # {} PROVE FALSE
  OBVIOUS
<1>2. F \in SUBSET (1..n)
  OBVIOUS
<1>3. PICK k \in F : \A j \in F : k <= j
  <2>. HIDE DEF F
  <2>. QED
    BY <1>1, <1>2, LeastNumber
<1>4. k \in 1..n /\ k - 1 \in 0..n /\ ~(k <= k - 1)
  OBVIOUS
<1>5. k - 1 \notin F
  BY <1>3, <1>4
<1>6. k - 1 = 0 \/ k - 1 \in 1..n
  BY <1>4
<1>. QED
  BY <1>4, <1>5, <1>6

\* The elements of a list with one more, and of the rest of a list.
LEMMA RangeAppended ==
    ASSUME NEW S, NEW s \in Seq(S), NEW e \in S
    PROVE  /\ Append(s, e) \in Seq(S) /\ Append(s, e) # <<>>
           /\ Len(Append(s, e)) = Len(s) + 1 /\ Append(s, e)[Len(s) + 1] = e
           /\ \A i \in 1..Len(s) : Append(s, e)[i] = s[i]
           /\ DOMAIN Append(s, e) = 1..(Len(s) + 1)
           /\ Range(Append(s, e)) = Range(s) \union {e}
<1>1. /\ Append(s, e) \in Seq(S) /\ DOMAIN s = 1..Len(s)
      /\ DOMAIN Append(s, e) = 1..(Len(s) + 1) /\ Len(s) \in Nat
      /\ Len(Append(s, e)) = Len(s) + 1
      /\ Append(s, e)[Len(s) + 1] = e /\ \A i \in 1..Len(s) : Append(s, e)[i] = s[i]
  OBVIOUS
<1>2. Range(Append(s, e)) = Range(s) \union {e}
  BY <1>1 DEF Range
<1>3. Append(s, e) # <<>>
  BY <1>2 DEF Range
<1>. QED
  BY <1>1, <1>2, <1>3

LEMMA RangeOfTail ==
    ASSUME NEW S, NEW s \in Seq(S), s # <<>>
    PROVE  /\ Tail(s) \in Seq(S) /\ s[1] \in S /\ Head(s) = s[1]
           /\ Len(s) \in Nat \ {0} /\ DOMAIN s = 1..Len(s)
           /\ Len(Tail(s)) = Len(s) - 1 /\ DOMAIN Tail(s) = 1..(Len(s) - 1)
           /\ \A i \in 1..(Len(s) - 1) : i + 1 \in 1..Len(s) /\ Tail(s)[i] = s[i + 1]
           /\ Range(s) = Range(Tail(s)) \union {s[1]}
<1>1. /\ Tail(s) \in Seq(S) /\ s[1] \in S /\ Len(s) \in Nat /\ Len(s) > 0 /\ Head(s) = s[1]
      /\ Len(Tail(s)) = Len(s) - 1
      /\ DOMAIN s = 1..Len(s) /\ DOMAIN Tail(s) = 1..(Len(s) - 1)
      /\ \A i \in 1..(Len(s) - 1) : i + 1 \in 1..Len(s) /\ Tail(s)[i] = s[i + 1]
  OBVIOUS
<1>2. \A i \in 1..Len(s) : i = 1 \/ (i - 1 \in 1..(Len(s) - 1) /\ Tail(s)[i - 1] = s[i])
  BY <1>1
<1>3. 1 \in 1..Len(s)
  BY <1>1
<1>4. Range(s) \subseteq Range(Tail(s)) \union {s[1]}
  BY <1>1, <1>2 DEF Range
<1>5. Range(Tail(s)) \subseteq Range(s)
  BY <1>1 DEF Range
<1>6. s[1] \in Range(s)
  BY <1>1, <1>3 DEF Range
<1>. QED
  BY <1>1, <1>4, <1>5, <1>6

\* A list without the element e.
Without(s, e) == Filter(s, LAMBDA d : d # e)

LEMMA RangeWithout ==
    ASSUME NEW S, NEW s \in Seq(S), NEW e
    PROVE  Without(s, e) \in Seq(S) /\ Range(Without(s, e)) = Range(s) \ {e}
<1>. DEFINE K == {i \in 1..Len(s) : s[i] # e}
<1>1. Without(s, e) = Picked(s, K)
  BY DEF Without, Filter
<1>2. K \in SUBSET (1..Len(s))
  OBVIOUS
<1>3. {s[k] : k \in K} = {s[i] : i \in 1..Len(s)} \ {e}
  OBVIOUS
<1>. HIDE DEF K
<1>4. Picked(s, K) \in Seq(S)
  BY <1>2, PickedOf
<1>5. {Picked(s, K)[i] : i \in 1..Len(Picked(s, K))} = {s[k] : k \in K}
  BY <1>2, PickedRange
<1>6. DOMAIN Picked(s, K) = 1..Len(Picked(s, K)) /\ DOMAIN s = 1..Len(s)
  BY <1>4
<1>. QED
  BY <1>1, <1>3, <1>4, <1>5, <1>6 DEF Range

\* If f tells the elements of a list apart, it tells those of the list without e apart.
LEMMA DistinctWithout ==
    ASSUME NEW S, NEW s \in Seq(S), NEW e, NEW f,
           \A i, j \in DOMAIN s : f[s[i]] = f[s[j]] => i = j
    PROVE  LET r == Without(s, e) IN
           \A i, j \in DOMAIN r : f[r[i]] = f[r[j]] => i = j
<1>. DEFINE K == {i \in 1..Len(s) : s[i] # e}
<1>1. Without(s, e) = Picked(s, K)
  BY DEF Without, Filter
<1>2. K \in SUBSET (1..Len(s)) /\ DOMAIN s = 1..Len(s)
  OBVIOUS
<1>. HIDE DEF K
<1>3. /\ Picked(s, K) \in Seq(S) /\ Len(Picked(s, K)) = Cardinality(K)
      /\ Cardinality(K) \in 0..Len(s)
      /\ \A i \in 1..Cardinality(K) : Nth(K, i) \in K /\ Picked(s, K)[i] = s[Nth(K, i)]
      /\ \A i, j \in 1..Cardinality(K) : i < j => Nth(K, i) < Nth(K, j)
  BY <1>2, PickedOf
<1>4. DOMAIN Picked(s, K) = 1..Cardinality(K)
  BY <1>3
<1>5. ASSUME NEW i \in 1..Cardinality(K), NEW j \in 1..Cardinality(K),
             f[Picked(s, K)[i]] = f[Picked(s, K)[j]]
      PROVE  i = j
  <2>1. Nth(K, i) \in 1..Len(s) /\ Nth(K, j) \in 1..Len(s)
    BY <1>2, <1>3
  <2>2. f[s[Nth(K, i)]] = f[s[Nth(K, j)]]
    BY <1>3, <1>5
  <2>3. Nth(K, i) = Nth(K, j)
    BY <1>2, <2>1, <2>2
  <2>4. ~(i < j) /\ ~(j < i)
    BY <1>3, <2>1, <2>3
  <2>. QED
    BY <2>4
<1>. QED
  BY <1>1, <1>4, <1>5

-----------------------------------------------------------------------------
(* What a client learns from the messages of a list                          *)

\* What is known after each message.
LEMMA RostersIs ==
    ASSUME NEW known, NEW news, Len(news) \in Nat
    PROVE  /\ Rosters(known, news)[0] = known
           /\ \A i \in 1..Len(news) : Rosters(known, news)[i] = Learn(Rosters(known, news)[i - 1], news[i])
<1>. DEFINE n == Len(news)
            Made(f, m) == f = [i \in 0..m |-> IF i = 0 THEN known ELSE Learn(f[i - 1], news[i])]
            H == {m \in 0..n : \E f : Made(f, m)}
<1>1. 0 \in H
  <2>1. Made([i \in 0..0 |-> known], 0)
    OBVIOUS
  <2>2. 0 \in 0..n
    OBVIOUS
  <2>. QED
    BY <2>1, <2>2
<1>2. ASSUME NEW m \in 1..n, m - 1 \in H PROVE m \in H
  <2>1. PICK f : Made(f, m - 1)
    BY <1>2
  <2>2. PICK g : g = [i \in 0..m |-> IF i = m THEN Learn(f[m - 1], news[m]) ELSE f[i]]
    OBVIOUS
  <2>3. \A i \in 0..(m - 1) : f[i] = IF i = 0 THEN known ELSE Learn(f[i - 1], news[i])
    BY <2>1
  <2>4. \A i \in 0..m : i = m \/ i \in 0..(m - 1)
    OBVIOUS
  <2>5. \A i \in 0..(m - 1) : g[i] = f[i]
    BY <2>2
  <2>6. \A i \in 1..m : i - 1 \in 0..(m - 1)
    OBVIOUS
  <2>7. g[m] = Learn(g[m - 1], news[m])
    BY <2>2, <2>5, <2>6
  <2>8. ASSUME NEW i \in 0..m PROVE g[i] = IF i = 0 THEN known ELSE Learn(g[i - 1], news[i])
    <3>1. CASE i = m
      BY <2>7, <3>1
    <3>2. CASE i \in 0..(m - 1)
      <4>1. i # 0 => i - 1 \in 0..(m - 1)
        BY <3>2
      <4>. QED
        BY <2>3, <2>5, <3>2, <4>1
    <3>. QED
      BY <2>4, <3>1, <3>2
  <2>9. Made(g, m)
    BY <2>2, <2>8
  <2>. QED
    BY <2>9
<1>3. n \in Nat /\ n \in 0..n
  OBVIOUS
<1>. HIDE DEF n, H
<1>4. n \in H
  BY <1>1, <1>2, <1>3, StepByStep
<1>5. PICK f : Made(f, n)
  BY <1>4 DEF H
<1>6. Rosters(known, news) = CHOOSE g : Made(g, n)
  BY DEF Rosters, n
<1>7. Made(Rosters(known, news), n)
  BY <1>5, <1>6
<1>8. \A i \in 1..n : i \in 0..n /\ i # 0
  BY <1>3
<1>9. 0 \in 0..n
  BY <1>3
<1>. QED
  BY <1>7, <1>8, <1>9 DEF n

\* The kinds of messages.
LEMMA MessageKinds ==
    \A m : m \in Messages <=>
        \/ \E k \in {"hello", "identity", "keys", "welcome", "query", "send", "goodbye"} : m = Plain(k)
        \/ \E e \in BOOLEAN : m = About("info", e)
        \/ \E w \in {"exists", "missing", "password"} : m = About("refused", w)
        \/ \E k \in {"create", "join"}, p \in Passwords : m = About(k, p)
        \/ \E k \in {"member joined", "member left", "message"}, i \in Identities : m = About(k, i)
        \/ \E l \in 1..Cardinality(Connections) : m = About("server message", l)
        \/ m \in [kind : {"joined"}, members : Seq(Identities), lobby : 1..Cardinality(Connections)]
<1>. SUFFICES ASSUME NEW m
              PROVE  m \in Messages <=>
        \/ \E k \in {"hello", "identity", "keys", "welcome", "query", "send", "goodbye"} : m = Plain(k)
        \/ \E e \in BOOLEAN : m = About("info", e)
        \/ \E w \in {"exists", "missing", "password"} : m = About("refused", w)
        \/ \E k \in {"create", "join"}, p \in Passwords : m = About(k, p)
        \/ \E k \in {"member joined", "member left", "message"}, i \in Identities : m = About(k, i)
        \/ \E l \in 1..Cardinality(Connections) : m = About("server message", l)
        \/ m \in [kind : {"joined"}, members : Seq(Identities), lobby : 1..Cardinality(Connections)]
  OBVIOUS
<1>. DEFINE A == {Plain(k) : k \in {"hello", "identity", "keys", "welcome", "query", "send", "goodbye"}}
            B == {About("info", e) : e \in BOOLEAN}
            C == {About("refused", w) : w \in {"exists", "missing", "password"}}
            D == {About(k, p) : k \in {"create", "join"}, p \in Passwords}
            E == {About(k, i) : k \in {"member joined", "member left", "message"}, i \in Identities}
            F == {About("server message", l) : l \in 1..Cardinality(Connections)}
            G == [kind : {"joined"}, members : Seq(Identities), lobby : 1..Cardinality(Connections)]
<1>1. m \in A <=> \E k \in {"hello", "identity", "keys", "welcome", "query", "send", "goodbye"} : m = Plain(k)
  OBVIOUS
<1>2. m \in B <=> \E e \in BOOLEAN : m = About("info", e)
  BY Zenon
<1>3. m \in C <=> \E w \in {"exists", "missing", "password"} : m = About("refused", w)
  OBVIOUS
<1>4. m \in D <=> \E k \in {"create", "join"}, p \in Passwords : m = About(k, p)
  OBVIOUS
<1>5. m \in E <=> \E k \in {"member joined", "member left", "message"}, i \in Identities : m = About(k, i)
  OBVIOUS
<1>6. m \in F <=> \E l \in 1..Cardinality(Connections) : m = About("server message", l)
  OBVIOUS
<1>7. Messages = A \cup B \cup C \cup D \cup E \cup F \cup G
  BY DEF Messages
<1>. HIDE DEF A, B, C, D, E, F
<1>. QED
  BY <1>1, <1>2, <1>3, <1>4, <1>5, <1>6, <1>7

\* The fields of a message, and the messages that the server and the clients make.
LEMMA MessageFields ==
    ASSUME NEW m \in Messages
    PROVE  /\ m.kind = "joined" => m.members \in Seq(Identities) /\ m.lobby \in 1..Cardinality(Connections)
           /\ m.kind \in {"member joined", "member left", "message"} => m.what \in Identities
           /\ m.kind = "server message" => m.what \in 1..Cardinality(Connections)
           /\ m.kind \in {"create", "join"} => m.what \in Passwords
           /\ m.kind = "info" => m.what \in BOOLEAN
           /\ m.kind = "refused" => m.what \in {"exists", "missing", "password"}
           /\ m.kind \in {"hello", "identity", "keys", "welcome", "query", "send", "goodbye", "info",
                          "refused", "create", "join", "joined"} \cup News
<1>1. (\A k : Plain(k).kind = k) /\ \A k, e : About(k, e).kind = k /\ About(k, e).what = e
  BY DEF Plain, About
<1>2. m \in [kind : {"joined"}, members : Seq(Identities), lobby : 1..Cardinality(Connections)] =>
          m.kind = "joined" /\ m.members \in Seq(Identities) /\ m.lobby \in 1..Cardinality(Connections)
  OBVIOUS
<1>3. CASE \E k \in {"hello", "identity", "keys", "welcome", "query", "send", "goodbye"} : m = Plain(k)
  <2>1. PICK k \in {"hello", "identity", "keys", "welcome", "query", "send", "goodbye"} : m = Plain(k)
    BY <1>3
  <2>2. m.kind = k
    BY <1>1, <2>1
  <2>. QED
    BY <2>1, <2>2 DEF News
<1>4. CASE \E e \in BOOLEAN : m = About("info", e)
  <2>1. PICK e \in BOOLEAN : m = About("info", e)
    BY <1>4
  <2>2. m.kind = "info" /\ m.what = e
    BY <1>1, <2>1
  <2>. QED
    BY <2>1, <2>2 DEF News
<1>5. CASE \E w \in {"exists", "missing", "password"} : m = About("refused", w)
  <2>1. PICK w \in {"exists", "missing", "password"} : m = About("refused", w)
    BY <1>5
  <2>2. m.kind = "refused" /\ m.what = w
    BY <1>1, <2>1
  <2>. QED
    BY <2>1, <2>2 DEF News
<1>6. CASE \E k \in {"create", "join"}, p \in Passwords : m = About(k, p)
  <2>1. PICK k \in {"create", "join"}, p \in Passwords : m = About(k, p)
    BY <1>6
  <2>2. m.kind = k /\ m.what = p
    BY <1>1, <2>1
  <2>. QED
    BY <2>1, <2>2 DEF News
<1>7. CASE \E k \in {"member joined", "member left", "message"}, i \in Identities : m = About(k, i)
  <2>1. PICK k \in {"member joined", "member left", "message"}, i \in Identities : m = About(k, i)
    BY <1>7
  <2>2. m.kind = k /\ m.what = i
    BY <1>1, <2>1
  <2>. QED
    BY <2>1, <2>2 DEF News
<1>8. CASE \E l \in 1..Cardinality(Connections) : m = About("server message", l)
  <2>1. PICK l \in 1..Cardinality(Connections) : m = About("server message", l)
    BY <1>8
  <2>2. m.kind = "server message" /\ m.what = l
    BY <1>1, <2>1
  <2>. QED
    BY <2>1, <2>2 DEF News
<1>9. CASE m.kind = "joined" /\ m.members \in Seq(Identities) /\ m.lobby \in 1..Cardinality(Connections)
  BY <1>9 DEF News
<1>. QED
  BY <1>2, <1>3, <1>4, <1>5, <1>6, <1>7, <1>8, <1>9, MessageKinds

LEMMA MessagesMade ==
    /\ \A k \in {"hello", "identity", "keys", "welcome", "query", "send", "goodbye"} :
          Plain(k) \in Messages /\ Plain(k).kind = k
    /\ \A e \in BOOLEAN :
          About("info", e) \in Messages /\ About("info", e).kind = "info" /\ About("info", e).what = e
    /\ \A w \in {"exists", "missing", "password"} :
          /\ About("refused", w) \in Messages /\ About("refused", w).kind = "refused"
          /\ About("refused", w).what = w
    /\ \A k \in {"create", "join"}, p \in Passwords :
          About(k, p) \in Messages /\ About(k, p).kind = k /\ About(k, p).what = p
    /\ \A k \in {"member joined", "member left", "message"}, i \in Identities :
          About(k, i) \in Messages /\ About(k, i).kind = k /\ About(k, i).what = i
    /\ \A l \in 1..Cardinality(Connections) :
          /\ About("server message", l) \in Messages /\ About("server message", l).kind = "server message"
          /\ About("server message", l).what = l
    /\ \A ids \in Seq(Identities), l \in 1..Cardinality(Connections) :
          [kind |-> "joined", members |-> ids, lobby |-> l] \in Messages
<1>1. (\A k : Plain(k).kind = k) /\ \A k, e : About(k, e).kind = k /\ About(k, e).what = e
  BY DEF Plain, About
<1>2. \A ids \in Seq(Identities), l \in 1..Cardinality(Connections) :
          [kind |-> "joined", members |-> ids, lobby |-> l]
             \in [kind : {"joined"}, members : Seq(Identities), lobby : 1..Cardinality(Connections)]
  OBVIOUS
<1>3. \A k \in {"hello", "identity", "keys", "welcome", "query", "send", "goodbye"} : Plain(k) \in Messages
  BY MessageKinds, Zenon
<1>4. \A e \in BOOLEAN : About("info", e) \in Messages
  BY MessageKinds, Zenon
<1>5. \A w \in {"exists", "missing", "password"} : About("refused", w) \in Messages
  BY MessageKinds, Zenon
<1>6. \A k \in {"create", "join"}, p \in Passwords : About(k, p) \in Messages
  BY MessageKinds, Zenon
<1>7. \A k \in {"member joined", "member left", "message"}, i \in Identities : About(k, i) \in Messages
  BY MessageKinds, Zenon
<1>8. \A l \in 1..Cardinality(Connections) : About("server message", l) \in Messages
  BY MessageKinds, Zenon
<1>9. \A ids \in Seq(Identities), l \in 1..Cardinality(Connections) :
          [kind |-> "joined", members |-> ids, lobby |-> l] \in Messages
  BY <1>2, MessageKinds
<1>. QED
  BY <1>1, <1>3, <1>4, <1>5, <1>6, <1>7, <1>8, <1>9, Zenon

\* A client knows identities.
LEMMA LearnTyped ==
    ASSUME NEW known \in Seq(Identities), NEW m \in Messages
    PROVE  Learn(known, m) \in Seq(Identities)
<1>1. CASE m.kind = "joined"
  BY <1>1, MessageFields DEF Learn
<1>2. CASE m.kind = "member joined"
  <2>1. m.what \in Identities
    BY <1>2, MessageFields
  <2>2. Learn(known, m) = Append(known, m.what)
    BY <1>2 DEF Learn
  <2>. QED
    BY <2>1, <2>2
<1>3. CASE m.kind = "member left"
  <2>1. Learn(known, m) = Without(known, m.what)
    BY <1>3 DEF Learn, Without
  <2>. QED
    BY <2>1, RangeWithout
<1>4. CASE m.kind \notin {"joined", "member joined", "member left"}
  BY <1>4 DEF Learn
<1>. QED
  BY <1>1, <1>2, <1>3, <1>4

LEMMA RostersTyped ==
    ASSUME NEW known \in Seq(Identities), NEW w \in Seq(Messages)
    PROVE  \A i \in 0..Len(w) : Rosters(known, w)[i] \in Seq(Identities)
<1>. DEFINE n == Len(w)
            H == {i \in 0..n : Rosters(known, w)[i] \in Seq(Identities)}
<1>1. n \in Nat /\ \A i \in 1..n : w[i] \in Messages
  OBVIOUS
<1>2. /\ Rosters(known, w)[0] = known
      /\ \A i \in 1..n : Rosters(known, w)[i] = Learn(Rosters(known, w)[i - 1], w[i])
  BY <1>1, RostersIs
<1>3. 0 \in H
  BY <1>1, <1>2
<1>4. ASSUME NEW i \in 1..n, i - 1 \in H PROVE i \in H
  <2>1. Rosters(known, w)[i] \in Seq(Identities)
    BY <1>1, <1>2, <1>4, LearnTyped
  <2>. QED
    BY <2>1
<1>. HIDE DEF n, H
<1>5. \A i \in 0..n : i \in H
  BY <1>1, <1>3, <1>4, StepByStep
<1>. QED
  BY <1>5 DEF H, n

\* What is known after the first messages of a list does not depend on the rest of it.
LEMMA RostersOfPrefix ==
    ASSUME NEW known, NEW v \in Seq(Messages), NEW w \in Seq(Messages), Len(v) <= Len(w),
           \A i \in 1..Len(v) : v[i] = w[i]
    PROVE  \A i \in 0..Len(v) : Rosters(known, v)[i] = Rosters(known, w)[i]
<1>. DEFINE n == Len(v)
            H == {i \in 0..n : Rosters(known, v)[i] = Rosters(known, w)[i]}
<1>1. n \in Nat /\ Len(w) \in Nat /\ \A i \in 1..n : i \in 1..Len(w) /\ v[i] = w[i]
  OBVIOUS
<1>2. /\ Rosters(known, v)[0] = known
      /\ \A i \in 1..n : Rosters(known, v)[i] = Learn(Rosters(known, v)[i - 1], v[i])
  BY <1>1, RostersIs
<1>3. /\ Rosters(known, w)[0] = known
      /\ \A i \in 1..Len(w) : Rosters(known, w)[i] = Learn(Rosters(known, w)[i - 1], w[i])
  BY <1>1, RostersIs
<1>4. 0 \in H
  BY <1>1, <1>2, <1>3
<1>5. ASSUME NEW i \in 1..n, i - 1 \in H PROVE i \in H
  <2>1. Rosters(known, v)[i] = Rosters(known, w)[i]
    BY <1>1, <1>2, <1>3, <1>5
  <2>. QED
    BY <2>1
<1>. HIDE DEF n, H
<1>6. \A i \in 0..n : i \in H
  BY <1>1, <1>4, <1>5, StepByStep
<1>. QED
  BY <1>6 DEF H, n

\* One message more.
LEMMA RostersAppended ==
    ASSUME NEW known, NEW w \in Seq(Messages), NEW m \in Messages
    PROVE  /\ \A i \in 0..Len(w) : Rosters(known, Append(w, m))[i] = Rosters(known, w)[i]
           /\ Rosters(known, Append(w, m))[Len(w) + 1] = Learn(Rosters(known, w)[Len(w)], m)
<1>1. /\ Append(w, m) \in Seq(Messages) /\ Len(w) \in Nat /\ Len(Append(w, m)) = Len(w) + 1
      /\ Len(Append(w, m)) \in Nat /\ Len(w) <= Len(Append(w, m))
      /\ \A i \in 1..Len(w) : Append(w, m)[i] = w[i]
      /\ Append(w, m)[Len(w) + 1] = m
  BY RangeAppended
<1>2. \A i \in 0..Len(w) : Rosters(known, w)[i] = Rosters(known, Append(w, m))[i]
  BY <1>1, RostersOfPrefix
<1>3. PICK v : v = Append(w, m)
  OBVIOUS
<1>6. \A i \in 1..Len(v) : Rosters(known, v)[i] = Learn(Rosters(known, v)[i - 1], v[i])
  <2>1. Len(v) \in Nat
    BY <1>1, <1>3
  <2>. QED
    BY <2>1, RostersIs
<1>4. Len(w) + 1 \in 1..Len(Append(w, m)) /\ (Len(w) + 1) - 1 = Len(w) /\ Len(w) \in 0..Len(w)
  BY <1>1
<1>5. Rosters(known, Append(w, m))[Len(w) + 1] = Learn(Rosters(known, Append(w, m))[Len(w)], m)
  BY <1>1, <1>3, <1>4, <1>6
<1>. QED
  BY <1>2, <1>4, <1>5

\* A client that has read the first message.
LEMMA RostersOfRest ==
    ASSUME NEW known, NEW w \in Seq(Messages), w # <<>>
    PROVE  \A i \in 0..(Len(w) - 1) :
              Rosters(Learn(known, w[1]), Tail(w))[i] = Rosters(known, w)[i + 1]
<1>. DEFINE n == Len(w) - 1
            R == Rosters(Learn(known, w[1]), Tail(w))
            H == {i \in 0..n : R[i] = Rosters(known, w)[i + 1]}
<1>1. /\ n \in Nat /\ Len(w) \in Nat /\ Len(w) # 0 /\ Len(Tail(w)) = n /\ Len(Tail(w)) \in Nat
      /\ Tail(w) \in Seq(Messages)
      /\ \A i \in 1..n : i + 1 \in 1..Len(w) /\ Tail(w)[i] = w[i + 1]
  BY RangeOfTail
<1>2. R[0] = Learn(known, w[1]) /\ \A i \in 1..n : R[i] = Learn(R[i - 1], Tail(w)[i])
  <2>1. PICK v, k : v = Tail(w) /\ k = Learn(known, w[1])
    OBVIOUS
  <2>2. Len(v) \in Nat
    BY <1>1, <2>1
  <2>3. /\ Rosters(k, v)[0] = k
        /\ \A i \in 1..Len(v) : Rosters(k, v)[i] = Learn(Rosters(k, v)[i - 1], v[i])
    BY <2>2, RostersIs
  <2>. HIDE DEF n
  <2>. QED
    BY <1>1, <2>1, <2>3
<1>3. /\ Rosters(known, w)[0] = known
      /\ \A i \in 1..Len(w) : Rosters(known, w)[i] = Learn(Rosters(known, w)[i - 1], w[i])
  BY <1>1, RostersIs
<1>4. 0 \in H
  <2>1. 1 \in 1..Len(w) /\ 1 - 1 = 0 /\ 0 + 1 = 1 /\ 0 \in 0..n
    BY <1>1
  <2>2. Rosters(known, w)[1] = Learn(known, w[1])
    BY <1>3, <2>1
  <2>. QED
    BY <1>2, <2>1, <2>2
<1>5. ASSUME NEW i \in 1..n, i - 1 \in H PROVE i \in H
  <2>1. i + 1 \in 1..Len(w) /\ (i + 1) - 1 = i /\ (i - 1) + 1 = i /\ i \in 0..n
    BY <1>1
  <2>2. R[i - 1] = Rosters(known, w)[i]
    BY <1>5, <2>1
  <2>3. Rosters(known, w)[i + 1] = Learn(Rosters(known, w)[i], w[i + 1])
    BY <1>3, <2>1
  <2>4. R[i] = Learn(R[i - 1], w[i + 1])
    BY <1>1, <1>2
  <2>. QED
    BY <2>1, <2>2, <2>3, <2>4
<1>. HIDE DEF n, R, H
<1>6. \A i \in 0..n : i \in H
  BY <1>1, <1>4, <1>5, StepByStep
<1>. QED
  BY <1>6 DEF H, n, R

-----------------------------------------------------------------------------
(* The order of the messages to a client                                     *)

LEMMA EnteredOfPrefix ==
    ASSUME NEW l, NEW v \in Seq(Messages), NEW w \in Seq(Messages), Len(v) <= Len(w),
           \A i \in 1..Len(v) : v[i] = w[i]
    PROVE  Entered(l, v) \subseteq Entered(l, w)
<1>1. DOMAIN v = 1..Len(v) /\ DOMAIN w = 1..Len(w) /\ \A i \in 1..Len(v) : i \in 1..Len(w)
  OBVIOUS
<1>. QED
  BY <1>1 DEF Entered

\* One message more.
LEMMA OrderlyAppended ==
    ASSUME NEW id, NEW st, NEW known, NEW l, NEW w \in Seq(Messages), NEW m \in Messages,
           Orderly(id, st, known, l, w), Follows(id, st, known, l, w, m)
    PROVE  Orderly(id, st, known, l, Append(w, m))
<1>15. /\ Append(w, m) \in Seq(Messages) /\ Len(Append(w, m)) = Len(w) + 1
       /\ \A i \in 1..Len(w) : Append(w, m)[i] = w[i]
       /\ Append(w, m)[Len(w) + 1] = m
  BY RangeAppended
<1>1. PICK n, v : v = Append(w, m) /\ n = Len(w)
  OBVIOUS
<1>18. n \in Nat
  BY <1>1
<1>2. /\ v \in Seq(Messages) /\ n \in Nat /\ Len(v) = n + 1
      /\ \A i \in 1..n : v[i] = w[i]
      /\ v[n + 1] = m /\ n = Len(w)
  BY <1>1, <1>15, <1>18
<1>16. /\ \A i \in 1..n : w[i].kind # "goodbye"
       /\ n = 0 => m.kind \in Answers(st) \cup {"goodbye"}
       /\ n > 0 => m.kind \in News \cup {"goodbye"}
       /\ n > 0 /\ w[1].kind \notin News \cup {"joined"} => m.kind = "goodbye"
       /\ Fits(id, Rosters(known, w)[n], m)
       /\ Concerns(m, Entered(l, w))
  BY <1>1, Zenon DEF Follows
<1>17. /\ n > 0 => w[1].kind \in Answers(st) \cup {"goodbye"}
       /\ \A i \in 2..n : w[i].kind \in News \cup {"goodbye"}
       /\ n > 1 /\ w[1].kind \notin News \cup {"joined"} => w[2].kind = "goodbye"
       /\ \A i \in 1..n : Fits(id, Rosters(known, w)[i - 1], w[i])
       /\ \A i \in 1..n : Concerns(w[i], Entered(l, w))
  BY <1>1, Zenon DEF Orderly
<1>3. /\ \A i \in 0..n : Rosters(known, v)[i] = Rosters(known, w)[i]
  BY <1>1, RostersAppended
<1>4. Entered(l, w) \subseteq Entered(l, v)
  <2>1. Len(w) <= Len(v)
    BY <1>2
  <2>. QED
    BY <1>2, <2>1, EnteredOfPrefix
<1>6. \A i \in 1..(n + 1) : i \in 1..n \/ i = n + 1
  BY <1>2
<1>7. v[1].kind \in Answers(st) \cup {"goodbye"}
  <2>1. CASE n = 0
    BY <1>2, <2>1, <1>16
  <2>2. CASE n # 0
    <3>1. 1 \in 1..n
      BY <1>2, <2>2
    <3>. QED
      BY <1>2, <2>2, <3>1, <1>17
  <2>. QED
    BY <2>1, <2>2
<1>8. \A i \in 2..(n + 1) : v[i].kind \in News \cup {"goodbye"}
  <2>1. SUFFICES ASSUME NEW i \in 2..(n + 1) PROVE v[i].kind \in News \cup {"goodbye"}
    OBVIOUS
  <2>2. CASE i = n + 1
    BY <1>2, <2>2, <1>16
  <2>3. CASE i \in 2..n
    <3>1. w[i].kind \in News \cup {"goodbye"}
      BY <1>2, <2>3, <1>17
    <3>. QED
      BY <1>2, <2>3, <3>1
  <2>. QED
    BY <1>2, <2>2, <2>3
<1>9. \A i \in 1..n : v[i].kind # "goodbye"
  BY <1>2, <1>16
<1>10. n + 1 > 1 /\ v[1].kind \notin News \cup {"joined"} => v[2].kind = "goodbye"
  <2>1. SUFFICES ASSUME n + 1 > 1, v[1].kind \notin News \cup {"joined"} PROVE v[2].kind = "goodbye"
    OBVIOUS
  <2>2. n >= 1 /\ 1 \in 1..n /\ v[1] = w[1]
    BY <1>2, <2>1, <1>16
  <2>3. m.kind = "goodbye"
    BY <1>2, <2>1, <2>2, <1>16
  <2>4. CASE n = 1
    BY <1>2, <2>3, <2>4
  <2>5. CASE n > 1
    <3>1. w[2].kind = "goodbye" /\ 2 \in 1..n
      BY <1>2, <2>1, <2>2, <2>5, <1>17
    <3>. QED
      BY <1>2, <3>1
  <2>. QED
    BY <1>2, <2>2, <2>4, <2>5
<1>11. \A i \in 1..(n + 1) : Fits(id, Rosters(known, v)[i - 1], v[i])
  <2>1. SUFFICES ASSUME NEW i \in 1..(n + 1) PROVE Fits(id, Rosters(known, v)[i - 1], v[i])
    OBVIOUS
  <2>2. i - 1 \in 0..n
    BY <1>2
  <2>3. Rosters(known, v)[i - 1] = Rosters(known, w)[i - 1]
    BY <1>3, <2>2
  <2>4. CASE i = n + 1
    <3>1. i - 1 = n
      BY <1>2, <2>4
    <3>. QED
      BY <1>2, <2>3, <2>4, <3>1, <1>16
  <2>5. CASE i \in 1..n
    BY <1>2, <2>3, <2>5, <1>17
  <2>. QED
    BY <1>6, <2>4, <2>5
<1>12. \A i \in 1..(n + 1) : Concerns(v[i], Entered(l, v))
  <2>1. SUFFICES ASSUME NEW i \in 1..(n + 1) PROVE Concerns(v[i], Entered(l, v))
    OBVIOUS
  <2>2. Concerns(v[i], Entered(l, w))
    BY <1>2, <1>6, <1>16, <1>17
  <2>. QED
    BY <1>4, <2>2 DEF Concerns
<1>13. (n + 1) - 1 = n
  BY <1>2
<1>14. Orderly(id, st, known, l, v)
  BY <1>2, <1>7, <1>8, <1>9, <1>10, <1>11, <1>12, <1>13 DEF Orderly
<1>. QED
  BY <1>1, <1>14

\* What is under way to a client whose connection the server closes.
LEMMA OrderlyPrefix ==
    ASSUME NEW id, NEW st, NEW known, NEW l, NEW v \in Seq(Messages), NEW w \in Seq(Messages),
           Len(v) <= Len(w), \A i \in 1..Len(v) : v[i] = w[i],
           Orderly(id, st, known, l, w)
    PROVE  Orderly(id, st, known, l, v)
<1>1. PICK n \in Nat, k \in Nat : n = Len(v) /\ k = Len(w)
  OBVIOUS
<1>2. /\ n <= k /\ \A i \in 1..n : v[i] = w[i] /\ i \in 1..k
      /\ DOMAIN v = 1..n /\ DOMAIN w = 1..k
  BY <1>1
<1>3. n > 0 => 1 \in 1..n /\ v[1] = w[1] /\ k > 0
  BY <1>2
<1>4. \A i \in 0..n : Rosters(known, v)[i] = Rosters(known, w)[i]
  BY <1>1, RostersOfPrefix
<1>5. \A i \in 1..n : i - 1 \in 0..n
  OBVIOUS
<1>6. n > 0 => v[1].kind \in Answers(st) \cup {"goodbye"}
  BY <1>1, <1>2, <1>3 DEF Orderly
<1>7. \A i \in 2..n : i \in 1..n /\ i \in 2..k
  BY <1>2
<1>8. \A i \in 2..n : v[i].kind \in News \cup {"goodbye"}
  BY <1>1, <1>2, <1>7 DEF Orderly
<1>9. \A i \in 1..(n - 1) : i \in 1..n /\ i \in 1..(k - 1)
  BY <1>2
<1>10. \A i \in 1..(n - 1) : v[i].kind # "goodbye"
  BY <1>1, <1>2, <1>9 DEF Orderly
<1>11. n > 1 /\ v[1].kind \notin News \cup {"joined"} => v[2].kind = "goodbye"
  <2>1. n > 1 => 1 \in 1..n /\ 2 \in 1..n /\ k > 1
    BY <1>2
  <2>. QED
    BY <1>1, <1>2, <2>1 DEF Orderly
<1>12. \A i \in 1..n : Fits(id, Rosters(known, v)[i - 1], v[i])
  BY <1>1, <1>2, <1>4, <1>5 DEF Orderly
<1>13. \A j \in DOMAIN w : w[j].kind = "joined" => j = 1
  <2>1. SUFFICES ASSUME NEW j \in 1..k, w[j].kind = "joined", j # 1 PROVE FALSE
    BY <1>2
  <2>2. j \in 2..k
    BY <2>1
  <2>. QED
    BY <1>1, <2>1, <2>2 DEF Orderly, News
<1>14. n # 0 => Entered(l, w) = Entered(l, v)
  <2>1. SUFFICES ASSUME n # 0 PROVE Entered(l, w) = Entered(l, v)
    OBVIOUS
  <2>2. Entered(l, v) \subseteq Entered(l, w)
    BY <1>1, EnteredOfPrefix
  <2>3. \A j \in DOMAIN w : w[j].kind = "joined" => j \in DOMAIN v /\ v[j] = w[j]
    BY <1>2, <1>3, <1>13, <2>1
  <2>. QED
    BY <2>2, <2>3 DEF Entered
<1>15. \A i \in 1..n : Concerns(v[i], Entered(l, v))
  <2>1. SUFFICES ASSUME NEW i \in 1..n PROVE Concerns(v[i], Entered(l, v))
    OBVIOUS
  <2>2. i \in 1..k /\ v[i] = w[i] /\ n # 0
    BY <1>2
  <2>3. Concerns(w[i], Entered(l, w))
    BY <1>1, <2>2 DEF Orderly
  <2>. QED
    BY <1>14, <2>2, <2>3
<1>. QED
  BY <1>1, <1>6, <1>8, <1>10, <1>11, <1>12, <1>15 DEF Orderly

\* A client reads the answer that it is in the lobby, or news.
LEMMA OrderlyRest ==
    ASSUME NEW id, NEW st, NEW known, NEW l, NEW k, NEW w \in Seq(Messages), w # <<>>,
           w[1].kind \in News \cup {"joined"},
           IF w[1].kind = "joined" THEN k = w[1].lobby /\ l = 0 ELSE k = l,
           Orderly(id, st, known, l, w)
    PROVE  Orderly(id, "joined", Learn(known, w[1]), k, Tail(w))
<1>14. /\ Tail(w) \in Seq(Messages) /\ Len(w) - 1 \in Nat /\ Len(w) = (Len(w) - 1) + 1
       /\ Len(Tail(w)) = Len(w) - 1
       /\ \A i \in 1..(Len(w) - 1) : i + 1 \in 1..Len(w) /\ Tail(w)[i] = w[i + 1]
       /\ DOMAIN w = 1..Len(w) /\ DOMAIN Tail(w) = 1..(Len(w) - 1)
  BY RangeOfTail
<1>1. PICK v, n : v = Tail(w) /\ n = Len(w) - 1
  OBVIOUS
<1>2. /\ v \in Seq(Messages) /\ n \in Nat /\ Len(w) = n + 1 /\ Len(v) = n
      /\ \A i \in 1..n : i + 1 \in 1..(n + 1) /\ v[i] = w[i + 1]
      /\ DOMAIN v = 1..n /\ DOMAIN w = 1..(n + 1)
  BY <1>1, <1>14
<1>3. \A i \in 0..n : Rosters(Learn(known, w[1]), v)[i] = Rosters(known, w)[i + 1]
  BY <1>1, RostersOfRest
<1>4. \A i \in 1..n : v[i].kind \in News \cup {"goodbye"}
  <2>1. \A i \in 1..n : i + 1 \in 2..(n + 1)
    BY <1>2
  <2>2. \A i \in 2..(n + 1) : w[i].kind \in News \cup {"goodbye"}
    BY <1>2 DEF Orderly
  <2>. QED
    BY <1>2, <2>1, <2>2
<1>5. \A i \in 1..(n - 1) : v[i].kind # "goodbye"
  <2>1. \A i \in 1..(n - 1) : i \in 1..n /\ i + 1 \in 1..((n + 1) - 1)
    BY <1>2
  <2>2. \A i \in 1..((n + 1) - 1) : w[i].kind # "goodbye"
    BY <1>2 DEF Orderly
  <2>. QED
    BY <1>2, <2>1, <2>2
<1>6. n > 1 /\ v[1].kind \notin News \cup {"joined"} => v[2].kind = "goodbye"
  <2>1. n > 1 => 1 \in 1..n /\ 1 \in 1..(n - 1)
    BY <1>2
  <2>. QED
    BY <1>4, <1>5, <2>1
<1>7. \A i \in 1..n : Fits(id, Rosters(Learn(known, w[1]), v)[i - 1], v[i])
  <2>1. SUFFICES ASSUME NEW i \in 1..n
                 PROVE  Fits(id, Rosters(Learn(known, w[1]), v)[i - 1], v[i])
    OBVIOUS
  <2>2. i - 1 \in 0..n /\ (i - 1) + 1 = i /\ i + 1 \in 1..(n + 1) /\ (i + 1) - 1 = i
    BY <1>2
  <2>3. Rosters(Learn(known, w[1]), v)[i - 1] = Rosters(known, w)[i]
    BY <1>3, <2>2
  <2>4. Fits(id, Rosters(known, w)[(i + 1) - 1], w[i + 1])
    BY <1>2, <2>2 DEF Orderly
  <2>. QED
    BY <1>2, <2>2, <2>3, <2>4
<1>8. \A j \in DOMAIN w : w[j].kind = "joined" => j = 1
  <2>1. SUFFICES ASSUME NEW j \in 1..(n + 1), w[j].kind = "joined", j # 1 PROVE FALSE
    BY <1>2
  <2>2. j \in 2..(n + 1)
    BY <2>1
  <2>. QED
    BY <1>2, <2>1, <2>2 DEF Orderly, News
<1>9. Entered(l, w) \subseteq {l, k}
  <2>1. \A j \in DOMAIN w : w[j].kind = "joined" => w[j].lobby = k
    BY <1>8
  <2>. QED
    BY <2>1 DEF Entered
<1>10. \A i \in 1..n : Concerns(v[i], Entered(k, v))
  <2>1. SUFFICES ASSUME NEW i \in 1..n PROVE Concerns(v[i], Entered(k, v))
    OBVIOUS
  <2>2. i + 1 \in 1..(n + 1) /\ v[i] = w[i + 1] /\ v[i] \in Messages
    BY <1>2
  <2>3. Concerns(v[i], Entered(l, w))
    BY <1>2, <2>2 DEF Orderly
  <2>4. v[i].kind = "server message" => v[i].what # 0
    <3>1. SUFFICES ASSUME v[i].kind = "server message" PROVE v[i].what # 0
      OBVIOUS
    <3>2. v[i].what \in 1..Cardinality(Connections)
      BY <2>2, <3>1, MessageFields
    <3>3. \A e \in 1..Cardinality(Connections) : e # 0
      OBVIOUS
    <3>. QED
      BY <3>2, <3>3, Zenon
  <2>5. k \in Entered(k, v)
    BY DEF Entered
  <2>6. \A e \in Entered(l, w) : e = k \/ e = 0
    <3>1. l = k \/ l = 0
      OBVIOUS
    <3>. QED
      BY <1>9, <3>1
  <2>. QED
    BY <2>3, <2>4, <2>5, <2>6 DEF Concerns
<1>11. n > 0 => 1 \in 1..n
  BY <1>2
<1>12. Answers("joined") = News
  BY DEF Answers
<1>13. Orderly(id, "joined", Learn(known, w[1]), k, v)
  <2>1. \A i \in 2..n : i \in 1..n
    BY <1>2
  <2>. QED
    BY <1>2, <1>4, <1>5, <1>6, <1>7, <1>10, <1>11, <1>12, <2>1 DEF Orderly
<1>. QED
  BY <1>1, <1>13

\* A client reads another answer: no more is under way to it but a goodbye.
LEMMA OrderlyDone ==
    ASSUME NEW id, NEW st, NEW known, NEW l, NEW w \in Seq(Messages), w # <<>>,
           w[1].kind \notin News \cup {"joined"},
           Orderly(id, st, known, l, w), NEW st2, NEW known2, NEW l2
    PROVE  Orderly(id, st2, known2, l2, Tail(w))
<1>14. /\ Tail(w) \in Seq(Messages) /\ Len(w) - 1 \in Nat /\ Len(w) = (Len(w) - 1) + 1
       /\ Len(Tail(w)) = Len(w) - 1
       /\ \A i \in 1..(Len(w) - 1) : i + 1 \in 1..Len(w) /\ Tail(w)[i] = w[i + 1]
       /\ DOMAIN w = 1..Len(w) /\ DOMAIN Tail(w) = 1..(Len(w) - 1)
  BY RangeOfTail
<1>1. PICK v, n : v = Tail(w) /\ n = Len(w) - 1
  OBVIOUS
<1>2. /\ v \in Seq(Messages) /\ n \in Nat /\ Len(w) = n + 1 /\ Len(v) = n
      /\ \A i \in 1..n : i + 1 \in 1..(n + 1) /\ v[i] = w[i + 1]
  BY <1>1, <1>14
<1>3. n # 0 => v[1].kind = "goodbye" /\ w[2].kind = "goodbye"
  <2>1. n # 0 => n + 1 > 1 /\ 1 \in 1..n /\ 1 + 1 = 2
    BY <1>2
  <2>2. n # 0 => w[2].kind = "goodbye"
    BY <1>2, <2>1 DEF Orderly
  <2>. QED
    BY <1>2, <2>1, <2>2
<1>4. n <= 1
  <2>1. SUFFICES ASSUME n > 1 PROVE FALSE
    BY <1>2
  <2>2. 2 \in 1..((n + 1) - 1) /\ n # 0
    BY <1>2, <2>1
  <2>. QED
    BY <1>2, <1>3, <2>2 DEF Orderly
<1>5. \A i \in 1..n : i = 1 /\ v[i].kind = "goodbye"
  <2>1. \A i \in 1..n : i = 1 /\ n # 0
    BY <1>2, <1>4
  <2>. QED
    BY <1>3, <2>1
<1>6. \A i \in 1..n : Fits(id, Rosters(known2, v)[i - 1], v[i])
  BY <1>5 DEF Fits
<1>7. \A i \in 2..n : FALSE
  BY <1>2, <1>4
<1>8. \A i \in 1..(n - 1) : FALSE
  BY <1>2, <1>4
<1>9. ~(n > 1)
  BY <1>2, <1>4
<1>10. Orderly(id, st2, known2, l2, v)
  <2>1. \A i \in 1..n : Concerns(v[i], Entered(l2, v))
    BY <1>5 DEF Concerns
  <2>2. n > 0 => v[1].kind \in Answers(st2) \cup {"goodbye"}
    BY <1>2, <1>3
  <2>. QED
    BY <1>2, <1>6, <1>7, <1>8, <1>9, <2>1, <2>2 DEF Orderly
<1>. QED
  BY <1>1, <1>10

LEMMA OrderlyNothing ==
    ASSUME NEW id, NEW st, NEW known, NEW l
    PROVE  Orderly(id, st, known, l, <<>>)
<1>1. Len(<<>>) = 0 /\ (\A i \in 1..0 : FALSE) /\ (\A i \in 2..0 : FALSE) /\ (\A i \in 1..(0 - 1) : FALSE)
      /\ ~(0 > 1)
  OBVIOUS
<1>. QED
  BY <1>1 DEF Orderly

\* What has been sent to a client and what is still to be flushed.
LEMMA LineAppended ==
    ASSUME NEW tc \in Seq(Messages), NEW o \in Seq(Messages), NEW m \in Messages
    PROVE  /\ tc \o Append(o, m) = Append(tc \o o, m)
           /\ tc \o o \in Seq(Messages)
<1>1. <<m>> \in Seq(Messages)
  OBVIOUS
<1>2. Append(o, m) = o \o <<m>>
  BY AppendIsConcat
<1>3. tc \o o \in Seq(Messages)
  BY ConcatProperties
<1>4. Append(tc \o o, m) = (tc \o o) \o <<m>>
  BY <1>3, AppendIsConcat
<1>. QED
  BY <1>1, <1>2, <1>3, <1>4, ConcatAssociative

LEMMA LineRead ==
    ASSUME NEW tc \in Seq(Messages), NEW o \in Seq(Messages), tc # <<>>
    PROVE  /\ Tail(tc) \o o = Tail(tc \o o) /\ tc \o o # <<>>
           /\ (tc \o o)[1] = tc[1] /\ Tail(tc) \in Seq(Messages)
<1>1. /\ Tail(tc) \in Seq(Messages) /\ Len(tc) \in Nat /\ Len(tc) > 0 /\ Len(Tail(tc)) = Len(tc) - 1
      /\ \A i \in 1..(Len(tc) - 1) : Tail(tc)[i] = tc[i + 1]
  BY RangeOfTail
<1>2. Len(o) \in Nat
  OBVIOUS
<1>3. /\ tc \o o \in Seq(Messages) /\ Len(tc \o o) = Len(tc) + Len(o)
      /\ \A i \in 1 .. Len(tc) + Len(o) : (tc \o o)[i] = IF i <= Len(tc) THEN tc[i] ELSE o[i - Len(tc)]
  BY ConcatProperties
<1>4. PICK v : v = tc \o o
  OBVIOUS
<1>5. v # <<>>
  BY <1>1, <1>2, <1>3, <1>4, EmptySeq
<1>6. /\ Tail(v) \in Seq(Messages) /\ Len(Tail(v)) = Len(v) - 1
      /\ \A i \in 1..(Len(v) - 1) : i + 1 \in 1..Len(v) /\ Tail(v)[i] = v[i + 1]
  BY <1>3, <1>4, <1>5, RangeOfTail
<1>7. PICK p : p = Tail(tc)
  OBVIOUS
<1>8. /\ p \o o \in Seq(Messages) /\ Len(p \o o) = Len(p) + Len(o)
      /\ \A i \in 1 .. Len(p) + Len(o) : (p \o o)[i] = IF i <= Len(p) THEN p[i] ELSE o[i - Len(p)]
  BY <1>1, <1>7, ConcatProperties
<1>14. Len(p) \in Nat /\ Len(tc) = Len(p) + 1
  BY <1>1, <1>7
<1>9. PICK n \in Nat, k \in Nat : n = Len(p) /\ k = Len(o) /\ Len(tc) = n + 1
  BY <1>2, <1>14
<1>10. ASSUME NEW i \in 1..(n + k) PROVE (p \o o)[i] = Tail(v)[i]
  <2>1. i + 1 \in 1..((n + 1) + k) /\ i \in 1..(((n + 1) + k) - 1)
    BY <1>9
  <2>2. Tail(v)[i] = v[i + 1]
    BY <1>3, <1>4, <1>6, <1>9, <2>1
  <2>3. v[i + 1] = IF i + 1 <= n + 1 THEN tc[i + 1] ELSE o[(i + 1) - (n + 1)]
    BY <1>3, <1>4, <1>9, <2>1
  <2>4. (p \o o)[i] = IF i <= n THEN p[i] ELSE o[i - n]
    BY <1>8, <1>9
  <2>5. CASE i <= n
    <3>1. i \in 1..((n + 1) - 1) /\ i + 1 <= n + 1
      BY <1>9, <2>5
    <3>2. p[i] = tc[i + 1]
      BY <1>1, <1>7, <1>9, <3>1
    <3>. QED
      BY <2>2, <2>3, <2>4, <2>5, <3>1, <3>2
  <2>6. CASE ~(i <= n)
    <3>1. ~(i + 1 <= n + 1) /\ (i + 1) - (n + 1) = i - n
      BY <1>9, <2>6
    <3>. QED
      BY <2>2, <2>3, <2>4, <2>6, <3>1
  <2>. QED
    BY <2>5, <2>6
<1>11. Len(p \o o) = Len(Tail(v))
  BY <1>3, <1>4, <1>6, <1>8, <1>9
<1>12. p \o o = Tail(v)
  BY <1>6, <1>8, <1>9, <1>10, <1>11, SeqEqual
<1>13. v[1] = tc[1]
  <2>1. 1 \in 1..((n + 1) + k) /\ 1 <= n + 1
    BY <1>9
  <2>. QED
    BY <1>3, <1>4, <1>9, <2>1
<1>. QED
  BY <1>1, <1>4, <1>5, <1>7, <1>12, <1>13

-----------------------------------------------------------------------------
(* One connection                                                            *)

\* What the message m tells a member of the lobby lobbyId that knows the others of others.
Tells(id, lobbyId, others, others2, m) ==
    \/ m.kind = "member joined" /\ m.what \notin others \cup {id} /\ others2 = others \cup {m.what}
    \/ m.kind = "member left" /\ others2 = others \ {m.what}
    \/ m.kind = "message" /\ m.what \in others \cup {id} /\ others2 = others
    \/ m.kind = "server message" /\ m.what = lobbyId /\ others2 = others

LEMMA LearnTells ==
    ASSUME NEW known \in Seq(Identities), NEW m \in Messages, NEW id, NEW lobbyId, NEW others, NEW others2,
           Tells(id, lobbyId, others, others2, m),
           IsInjective(known), Range(known) = others
    PROVE  /\ IsInjective(Learn(known, m)) /\ Range(Learn(known, m)) = others2
           /\ Fits(id, known, m) /\ m.kind \in News /\ m.kind # "joined"
           /\ \A ls : lobbyId \in ls => Concerns(m, ls)
<1>1. CASE m.kind = "member joined" /\ m.what \notin others \cup {id} /\ others2 = others \cup {m.what}
  <2>1. m.what \in Identities
    BY <1>1, MessageFields
  <2>2. PICK e : e = m.what
    OBVIOUS
  <2>3. /\ DOMAIN Append(known, e) = 1..(Len(known) + 1) /\ DOMAIN known = 1..Len(known) /\ Len(known) \in Nat
        /\ \A i \in 1..Len(known) : Append(known, e)[i] = known[i]
        /\ Append(known, e)[Len(known) + 1] = e
        /\ Range(Append(known, e)) = Range(known) \cup {e}
    BY <2>1, <2>2, RangeAppended
  <2>4. \A i \in 1..Len(known) : known[i] # e
    BY <1>1, <2>2, <2>3 DEF Range
  <2>5. IsInjective(Append(known, e))
    <3>1. SUFFICES ASSUME NEW i \in 1..(Len(known) + 1), NEW j \in 1..(Len(known) + 1),
                          Append(known, e)[i] = Append(known, e)[j]
                   PROVE  i = j
      BY <2>3 DEF IsInjective
    <3>2. i \in 1..Len(known) \/ i = Len(known) + 1
      BY <2>3
    <3>3. j \in 1..Len(known) \/ j = Len(known) + 1
      BY <2>3
    <3>. QED
      BY <2>3, <2>4, <3>1, <3>2, <3>3 DEF IsInjective
  <2>6. Learn(known, m) = Append(known, e)
    BY <1>1, <2>2 DEF Learn
  <2>7. Fits(id, known, m)
    BY <1>1 DEF Fits
  <2>8. \A ls : Concerns(m, ls)
    BY <1>1 DEF Concerns
  <2>. QED
    BY <1>1, <2>2, <2>3, <2>5, <2>6, <2>7, <2>8 DEF News
<1>2. CASE m.kind = "member left" /\ others2 = others \ {m.what}
  <2>1. PICK e : e = m.what
    OBVIOUS
  <2>2. Learn(known, m) = Without(known, e)
    <3>1. Learn(known, m) = Without(known, m.what)
      BY <1>2 DEF Learn, Without
    <3>. QED
      BY <2>1, <3>1
  <2>3. Range(Without(known, e)) = Range(known) \ {e}
    BY RangeWithout
  <2>4. IsInjective(Without(known, e))
    <3>1. PICK f : f = [d \in Identities |-> d]
      OBVIOUS
    <3>2. \A i, j \in DOMAIN known : f[known[i]] = f[known[j]] => i = j
      BY <3>1 DEF IsInjective
    <3>3. \A i, j \in DOMAIN Without(known, e) :
              f[Without(known, e)[i]] = f[Without(known, e)[j]] => i = j
      BY <3>2, DistinctWithout
    <3>. QED
      BY <3>3 DEF IsInjective
  <2>5. Fits(id, known, m)
    BY <1>2 DEF Fits
  <2>6. \A ls : Concerns(m, ls)
    BY <1>2 DEF Concerns
  <2>. QED
    BY <1>2, <2>1, <2>2, <2>3, <2>4, <2>5, <2>6 DEF News
<1>3. CASE m.kind = "message" /\ m.what \in others \cup {id} /\ others2 = others
  <2>1. Learn(known, m) = known
    BY <1>3 DEF Learn
  <2>2. Fits(id, known, m)
    BY <1>3 DEF Fits
  <2>3. \A ls : Concerns(m, ls)
    BY <1>3 DEF Concerns
  <2>. QED
    BY <1>3, <2>1, <2>2, <2>3 DEF News
<1>4. CASE m.kind = "server message" /\ m.what = lobbyId /\ others2 = others
  <2>1. Learn(known, m) = known
    BY <1>4 DEF Learn
  <2>2. Fits(id, known, m)
    BY <1>4 DEF Fits
  <2>3. \A ls : lobbyId \in ls => Concerns(m, ls)
    BY <1>4 DEF Concerns
  <2>. QED
    BY <1>4, <2>1, <2>2, <2>3 DEF News
<1>. QED
  BY <1>1, <1>2, <1>3, <1>4 DEF Tells

\* A member's connection that carries news, and may be given up because it does not read them.
LEMMA FlowNews ==
    ASSUME NEW id, NEW lk, NEW st, NEW known \in Seq(Identities), NEW l, NEW q,
           NEW x \in ConnectionTypes, NEW y \in ConnectionTypes, NEW w \in Seq(Messages),
           NEW lobbyId, NEW others, NEW last, NEW others2, NEW m \in Messages,
           Flow(id, lk, st, known, l, q, x, w, lobbyId, others, last),
           ~Silent(x), x.lobby # 0, Runs(st) => lk = "open", y.stage = x.stage, y.lobby = x.lobby,
           Tells(id, lobbyId, others, others2, m)
    PROVE  Flow(id, lk, st, known, l, q, y, Append(w, m), lobbyId, others2, last)
<1>1. PICK v, n : v = Append(w, m) /\ n = Len(w)
  OBVIOUS
<1>2. /\ v \in Seq(Messages) /\ n \in Nat /\ Len(v) = n + 1
      /\ \A i \in 1..n : v[i] = w[i]
      /\ v[n + 1] = m
  BY <1>1, RangeAppended
<1>3. \A i \in 1..(n + 1) : i \in 1..n \/ i = n + 1
  BY <1>2
<1>4. Speaks(lk, st, known, l, q, x, w, lobbyId, others)
  BY DEF Flow
<1>5. m.kind \in News /\ m.kind \notin {"goodbye", "joined"}
  BY DEF Tells, News
<1>6. CASE lk = "open"
  <2>1. /\ Converses(st, x, q, w) /\ \A i \in 1..n : w[i].kind # "goodbye"
        /\ Informed(known, l, w, lobbyId, others)
    BY <1>1, <1>4, <1>6 DEF Speaks
  <2>2. PICK R : R = Rosters(known, w)[n]
    OBVIOUS
  <2>3. R \in Seq(Identities) /\ IsInjective(R) /\ Range(R) = others
    <3>1. n \in 0..Len(w)
      BY <1>1, <1>2
    <3>. QED
      BY <1>1, <2>1, <2>2, <3>1, RostersTyped DEF Informed
  <2>4. /\ IsInjective(Learn(R, m)) /\ Range(Learn(R, m)) = others2
        /\ Fits(id, R, m) /\ Concerns(m, Entered(l, w))
    BY <2>1, <2>3, LearnTells DEF Informed
  <2>5. Rosters(known, v)[n + 1] = Learn(R, m)
    BY <1>1, <2>2, RostersAppended
  <2>6. lobbyId \in Entered(l, v)
    <3>1. Len(w) <= Len(v) /\ \A i \in 1..Len(w) : w[i] = v[i]
      BY <1>1, <1>2
    <3>. QED
      BY <1>2, <2>1, <3>1, EnteredOfPrefix DEF Informed
  <2>7. Informed(known, l, v, lobbyId, others2)
    BY <1>2, <2>4, <2>5, <2>6 DEF Informed
  <2>8. n > 0 => 1 \in 1..n
    BY <1>2
  <2>9. Runs(st) => Follows(id, st, known, l, w, m)
    <3>1. SUFFICES ASSUME Runs(st) PROVE Follows(id, st, known, l, w, m)
      OBVIOUS
    <3>2. st = "joined" \/ (n > 0 /\ w[1].kind = "joined")
      BY <1>1, <2>1 DEF Converses
    <3>3. n = 0 => m.kind \in Answers(st)
      BY <1>2, <1>5, <3>2 DEF Answers
    <3>4. n > 0 => w[1].kind \in News \cup {"joined"}
      <4>1. SUFFICES ASSUME n > 0, st = "joined" PROVE w[1].kind \in News
        BY <3>2
      <4>2. w[1].kind \in Answers(st) \cup {"goodbye"}
        BY <1>1, <3>1, <4>1 DEF Flow, Orderly
      <4>. QED
        BY <2>1, <2>8, <4>1, <4>2 DEF Answers
    <3>. QED
      BY <1>1, <1>5, <2>1, <2>2, <2>4, <3>3, <3>4, Zenon DEF Follows
  <2>10. Runs(st) => Orderly(id, st, known, l, v)
    <3>1. Runs(st) => Orderly(id, st, known, l, w)
      BY DEF Flow
    <3>. QED
      BY <1>1, <2>9, <3>1, OrderlyAppended
  <2>11. \A i \in 1..(n + 1) : v[i].kind # "goodbye"
    BY <1>2, <1>3, <1>5, <2>1
  <2>12. Converses(st, y, q, v)
    <3>1. v[1] = IF n = 0 THEN m ELSE w[1]
      BY <1>2, <2>8
    <3>2. st = "joined" \/ (n > 0 /\ w[1].kind = "joined")
      BY <1>1, <2>1 DEF Converses
    <3>3. n > 0 => v[1] = w[1] /\ n + 1 > 0
      BY <1>2, <2>8
    <3>4. /\ \A i \in DOMAIN q : q[i].kind = Asked(st)
          /\ x.stage \in StagesOf(st, Len(q) > 0)
          /\ x.lobby # 0 /\ st # "joined" => Len(q) = 0
      BY <2>1 DEF Converses
    <3>5. st = "joined" \/ (Len(v) > 0 /\ v[1].kind = "joined")
      BY <1>2, <3>2, <3>3
    <3>. QED
      BY <3>4, <3>5 DEF Converses
  <2>13. Speaks(lk, st, known, l, q, y, v, lobbyId, others2)
    BY <1>2, <2>7, <2>11, <2>12 DEF Speaks
  <2>14. l <= last /\ \A i \in 1..(n + 1) : v[i].kind = "joined" => v[i].lobby <= last
    <3>1. l <= last /\ \A i \in 1..n : w[i].kind = "joined" => w[i].lobby <= last
      BY <1>1 DEF Flow
    <3>. QED
      BY <1>2, <1>3, <1>5, <3>1
  <2>. QED
    BY <1>1, <1>2, <2>10, <2>13, <2>14 DEF Flow
<1>7. CASE lk # "open"
  <2>1. Speaks(lk, st, known, l, q, y, v, lobbyId, others2)
    BY <1>7 DEF Speaks
  <2>2. l <= last /\ \A i \in 1..(n + 1) : v[i].kind = "joined" => v[i].lobby <= last
    <3>1. l <= last /\ \A i \in 1..n : w[i].kind = "joined" => w[i].lobby <= last
      BY <1>1 DEF Flow
    <3>. QED
      BY <1>2, <1>3, <1>5, <3>1
  <2>. QED
    BY <1>1, <1>2, <1>7, <2>1, <2>2 DEF Flow
<1>. QED
  BY <1>6, <1>7

\* A connection whose lobby changes does not notice unless it is a member that listens.
LEMMA FlowKept ==
    ASSUME NEW id, NEW lk, NEW st, NEW known, NEW l, NEW q,
           NEW x \in ConnectionTypes, NEW y \in ConnectionTypes, NEW w,
           NEW lobbyId, NEW others, NEW last \in Nat, NEW lobbyId2, NEW others2, NEW last2 \in Nat,
           l \in Nat, \A i \in 1..Len(w) : w[i].kind = "joined" => w[i].lobby \in Nat,
           Flow(id, lk, st, known, l, q, x, w, lobbyId, others, last),
           y.stage = x.stage, y.lobby = x.lobby, Silent(x) => Silent(y),
           Silent(y) \/ y.lobby = 0 \/ (lobbyId2 = lobbyId /\ others2 = others), last <= last2
    PROVE  Flow(id, lk, st, known, l, q, y, w, lobbyId2, others2, last2)
<1>1. Runs(st) => Orderly(id, st, known, l, w)
  BY DEF Flow
<1>2. l <= last2
  <2>1. l <= last
    BY DEF Flow
  <2>. QED
    BY <2>1
<1>3. \A i \in 1..Len(w) : w[i].kind = "joined" => w[i].lobby <= last2
  <2>1. SUFFICES ASSUME NEW i \in 1..Len(w), w[i].kind = "joined" PROVE w[i].lobby <= last2
    OBVIOUS
  <2>2. PICK k \in Nat : k = w[i].lobby
    BY <2>1
  <2>3. k <= last
    BY <2>1, <2>2 DEF Flow
  <2>. QED
    BY <2>2, <2>3
<1>4. ~Silent(y) => Speaks(lk, st, known, l, q, y, w, lobbyId2, others2)
  <2>1. SUFFICES ASSUME ~Silent(y) PROVE Speaks(lk, st, known, l, q, y, w, lobbyId2, others2)
    OBVIOUS
  <2>2. Speaks(lk, st, known, l, q, x, w, lobbyId, others)
    BY <2>1 DEF Flow
  <2>3. Converses(st, x, q, w) => Converses(st, y, q, w)
    BY DEF Converses
  <2>. QED
    BY <2>1, <2>2, <2>3 DEF Speaks
<1>. QED
  BY <1>1, <1>2, <1>3, <1>4 DEF Flow

\* A connection that is ending need only keep the order of what it was sent.
LEMMA FlowEnded ==
    ASSUME NEW id, NEW lk, NEW st, NEW known, NEW l \in Nat, NEW q, NEW q2,
           NEW x \in ConnectionTypes, NEW y \in ConnectionTypes, NEW w \in Seq(Messages),
           NEW lobbyId, NEW others, NEW last \in Nat, NEW lobbyId2, NEW others2,
           Flow(id, lk, st, known, l, q, x, w, lobbyId, others, last), Silent(y)
    PROVE  Flow(id, lk, st, known, l, q2, y, w, lobbyId2, others2, last)
BY DEF Flow

\* It may be told goodbye, or why it is refused.
LEMMA FlowEnding ==
    ASSUME NEW id, NEW lk, NEW st, NEW known, NEW l \in Nat, NEW q, NEW q2,
           NEW x \in ConnectionTypes, NEW y \in ConnectionTypes, NEW w \in Seq(Messages),
           NEW lobbyId, NEW others, NEW last \in Nat, NEW lobbyId2, NEW others2, NEW m \in Messages,
           Flow(id, lk, st, known, l, q, x, w, lobbyId, others, last), Silent(y),
           m.kind # "joined", Runs(st) => Follows(id, st, known, l, w, m)
    PROVE  Flow(id, lk, st, known, l, q2, y, Append(w, m), lobbyId2, others2, last)
<1>1. PICK v, n : v = Append(w, m) /\ n = Len(w)
  OBVIOUS
<1>2. /\ v \in Seq(Messages) /\ n \in Nat /\ Len(v) = n + 1
      /\ \A i \in 1..n : v[i] = w[i]
      /\ v[n + 1] = m
  BY <1>1, RangeAppended
<1>3. \A i \in 1..(n + 1) : i \in 1..n \/ i = n + 1
  BY <1>2
<1>4. Runs(st) => Orderly(id, st, known, l, v)
  <2>1. Runs(st) => Orderly(id, st, known, l, w)
    BY DEF Flow
  <2>. QED
    BY <1>1, <2>1, OrderlyAppended
<1>5. l <= last /\ \A i \in 1..n : w[i].kind = "joined" => w[i].lobby <= last
  BY <1>1 DEF Flow
<1>6. \A i \in 1..(n + 1) : v[i].kind = "joined" => v[i].lobby <= last
  BY <1>2, <1>3, <1>5
<1>. QED
  BY <1>1, <1>2, <1>4, <1>5, <1>6 DEF Flow

LEMMA FollowsGoodbye ==
    ASSUME NEW id, NEW st, NEW known, NEW l, NEW w \in Seq(Messages), NEW m \in Messages,
           \A i \in 1..Len(w) : w[i].kind # "goodbye", m.kind = "goodbye"
    PROVE  Follows(id, st, known, l, w, m)
<1>1. Fits(id, Rosters(known, w)[Len(w)], m)
  BY DEF Fits
<1>2. Concerns(m, Entered(l, w))
  BY DEF Concerns
<1>. QED
  BY <1>1, <1>2 DEF Follows

\* If the message says that the client is in a lobby, it is the lobby lobbyId with the members others.
Admits(lobbyId, others, last, m) ==
    m.kind = "joined" => /\ m.lobby = lobbyId /\ m.lobby <= last /\ IsInjective(m.members)
                         /\ Range(m.members) = others

\* The end lk of a connection that is in the table, and of a client that is still there.
Accepted(lk, st) == lk \in {"open", "client closed"} /\ (Runs(st) => lk = "open")

\* The client awaits the message m as an answer.
Awaited(id, lk, st, known, y, m) ==
    lk = "open" => /\ m.kind \in Answers(st) \ News /\ Fits(id, known, m)
                   /\ y.stage \in StagesOf(st, FALSE)

\* The server answers a client that is not in the lobby; the answer may be that it is now.
LEMMA FlowAnswered ==
    ASSUME NEW id, NEW lk, NEW st \in States, NEW known, NEW l \in Nat, NEW q \in Seq(Messages),
           NEW x \in ConnectionTypes, NEW y \in ConnectionTypes, NEW w \in Seq(Messages),
           NEW lobbyId, NEW others, NEW last \in Nat, NEW lobbyId2, NEW others2, NEW last2 \in Nat,
           NEW m \in Messages,
           Flow(id, lk, st, known, l, q, x, w, lobbyId, others, last),
           ~Silent(x), x.lobby = 0, Len(q) > 0, Accepted(lk, st),
           Awaited(id, lk, st, known, y, m),
           m.kind \notin {"goodbye"} \cup News,
           y.lobby # 0 <=> m.kind = "joined",
           Admits(lobbyId2, others2, last2, m),
           last <= last2
    PROVE  /\ Flow(id, lk, st, known, l, Tail(q), y, Append(w, m), lobbyId2, others2, last2)
           /\ Len(w) = 0
<1>1. PICK v : v = Append(w, m)
  OBVIOUS
<1>2. /\ v \in Seq(Messages) /\ Len(w) \in Nat /\ Len(v) = Len(w) + 1
      /\ v[Len(w) + 1] = m
  BY <1>1, RangeAppended
<1>3. Speaks(lk, st, known, l, q, x, w, lobbyId, others)
  BY DEF Flow
<1>4. Len(q) \in Nat
  OBVIOUS
<1>5. Len(w) + Len(q) <= 1
  <2>1. lk # "server closed"
    BY DEF Accepted
  <2>. QED
    BY <1>3, <2>1 DEF Speaks
<1>6. Len(w) = 0 /\ Len(q) = 1
  <2>1. PICK n \in Nat, k \in Nat : n = Len(w) /\ k = Len(q)
    BY <1>2, <1>4
  <2>2. k > 0 /\ n + k <= 1
    BY <1>5, <2>1
  <2>3. n = 0 /\ k = 1
    BY <2>2
  <2>. QED
    BY <2>1, <2>3
<1>7. Len(v) = 1 /\ v[1] = m /\ \A i \in 1..1 : i = 1
  BY <1>2, <1>6
<1>8. Len(Tail(q)) = 0 /\ DOMAIN Tail(q) = 1..0
  <2>1. q # <<>>
    <3>1. Len(<<>>) = 0
      OBVIOUS
    <3>2. 0 # 1
      OBVIOUS
    <3>. QED
      BY <1>6, <3>1, <3>2, Zenon
  <2>2. Len(Tail(q)) = Len(q) - 1 /\ DOMAIN Tail(q) = 1..(Len(q) - 1)
    BY <2>1, RangeOfTail
  <2>3. 1 - 1 = 0
    OBVIOUS
  <2>. QED
    BY <1>6, <2>2, <2>3
<1>9. Rosters(known, w)[0] = known
  BY <1>2, RostersIs
<1>10. Runs(st) => Orderly(id, st, known, l, v)
  <2>1. SUFFICES ASSUME Runs(st) PROVE Orderly(id, st, known, l, v)
    OBVIOUS
  <2>2. Concerns(m, Entered(l, w))
    BY DEF Concerns, News
  <2>3. m.kind \in Answers(st) /\ Fits(id, known, m)
    BY <2>1 DEF Awaited, Accepted
  <2>4. ~(0 > 0) /\ \A i \in 1..0 : FALSE
    OBVIOUS
  <2>5. Follows(id, st, known, l, w, m)
    BY <1>6, <1>9, <2>2, <2>3, <2>4 DEF Follows
  <2>. QED
    BY <1>1, <2>1, <2>5, OrderlyAppended DEF Flow
<1>11. Speaks(lk, st, known, l, Tail(q), y, v, lobbyId2, others2)
  <2>1. Len(v) + Len(Tail(q)) <= 1
    BY <1>7, <1>8
  <2>2. SUFFICES ASSUME lk = "open"
                 PROVE  /\ Converses(st, y, Tail(q), v)
                        /\ \A i \in 1..Len(v) : v[i].kind # "goodbye"
                        /\ y.lobby # 0 => Informed(known, l, v, lobbyId2, others2)
    BY <2>1 DEF Speaks
  <2>3. st # "joined"
    BY <1>3, <2>2 DEF Speaks, Converses
  <2>4. Converses(st, y, Tail(q), v)
    <3>1. \A i \in DOMAIN Tail(q) : Tail(q)[i].kind = Asked(st)
      BY <1>8
    <3>2. ~(Len(Tail(q)) > 0)
      <4>1. ~(0 > 0)
        OBVIOUS
      <4>. QED
        BY <1>8, <4>1, Zenon
    <3>5. StagesOf(st, Len(Tail(q)) > 0) = StagesOf(st, FALSE)
      BY <3>2 DEF StagesOf
    <3>3. y.stage \in StagesOf(st, Len(Tail(q)) > 0)
      BY <2>2, <3>5 DEF Awaited
    <3>4. y.lobby # 0 <=> (Len(v) > 0 /\ v[1].kind = "joined")
      BY <1>7
    <3>. QED
      BY <1>8, <2>3, <3>1, <3>3, <3>4 DEF Converses
  <2>5. \A i \in 1..Len(v) : v[i].kind # "goodbye"
    BY <1>7
  <2>6. ASSUME y.lobby # 0 PROVE Informed(known, l, v, lobbyId2, others2)
    <3>1. Learn(known, m) = m.members
      BY <2>6 DEF Learn
    <3>2. Rosters(known, v)[1] = m.members
      <4>1. Rosters(known, Append(w, m))[Len(w) + 1] = Learn(Rosters(known, w)[Len(w)], m)
        BY RostersAppended
      <4>2. 0 + 1 = 1
        OBVIOUS
      <4>. QED
        BY <1>1, <1>6, <1>9, <3>1, <4>1, <4>2
    <3>3. lobbyId2 \in Entered(l, v)
      <4>1. 1 \in DOMAIN v
        BY <1>2, <1>7
      <4>2. v[1].kind = "joined" /\ v[1].lobby = lobbyId2
        BY <1>7, <2>6 DEF Admits
      <4>. QED
        BY <4>1, <4>2 DEF Entered
    <3>. QED
      BY <1>7, <2>6, <3>2, <3>3 DEF Informed, Admits
  <2>. QED
    BY <2>4, <2>5, <2>6
<1>12. l <= last2
  <2>1. l <= last
    BY DEF Flow
  <2>. QED
    BY <2>1
<1>13. \A i \in 1..Len(v) : v[i].kind = "joined" => v[i].lobby <= last2
  BY <1>7 DEF Admits
<1>. QED
  BY <1>1, <1>6, <1>10, <1>11, <1>12, <1>13 DEF Flow

\* A request that has been handled: of a member, or of a connection that is ending.
LEMMA FlowPopped ==
    ASSUME NEW id, NEW lk, NEW st, NEW known, NEW l, NEW q \in Seq(Messages),
           NEW x \in ConnectionTypes, NEW w,
           NEW lobbyId, NEW others, NEW last, Len(q) > 0,
           Flow(id, lk, st, known, l, q, x, w, lobbyId, others, last),
           Silent(x) \/ (x.lobby # 0 /\ x.stage = "ready")
    PROVE  Flow(id, lk, st, known, l, Tail(q), x, w, lobbyId, others, last)
<1>1. SUFFICES ASSUME ~Silent(x) PROVE Speaks(lk, st, known, l, Tail(q), x, w, lobbyId, others)
  BY DEF Flow
<1>2. Speaks(lk, st, known, l, q, x, w, lobbyId, others)
  BY <1>1 DEF Flow
<1>3. ASSUME Converses(st, x, q, w) PROVE Converses(st, x, Tail(q), w)
  <2>1. st # "keys" /\ st # "welcome"
    BY <1>1, <1>3 DEF Converses, StagesOf
  <2>2. x.stage \in StagesOf(st, Len(Tail(q)) > 0)
    BY <1>1, <2>1 DEF StagesOf
  <2>3. PICK n \in Nat : n = Len(q)
    OBVIOUS
  <2>4. /\ Len(Tail(q)) = n - 1 /\ DOMAIN Tail(q) = 1..(n - 1) /\ DOMAIN q = 1..n
        /\ \A i \in 1..(n - 1) : i + 1 \in 1..n /\ Tail(q)[i] = q[i + 1]
    BY <2>3
  <2>5. \A i \in DOMAIN Tail(q) : Tail(q)[i].kind = Asked(st)
    BY <1>3, <2>4 DEF Converses
  <2>6. st = "joined"
    BY <1>1, <1>3 DEF Converses
  <2>. QED
    BY <1>3, <2>2, <2>5, <2>6 DEF Converses
<1>. QED
  BY <1>1, <1>2, <1>3 DEF Speaks

\* What Send does to a connection.
LEMMA SentIs ==
    ASSUME NEW x \in ConnectionTypes, NEW m \in Messages
    PROVE  /\ Sent(x, m) \in ConnectionTypes
           /\ Sent(x, m).stage = x.stage /\ Sent(x, m).lobby = x.lobby
           /\ Sent(x, m).closing = x.closing /\ (x.dead => Sent(x, m).dead)
           /\ Silent(x) => Sent(x, m) = x
           /\ Silent(x) \/ Len(x.output) > MaxPendingOutput =>
                 Silent(Sent(x, m)) /\ Sent(x, m).output = x.output
           /\ ~Silent(x) /\ ~(Len(x.output) > MaxPendingOutput) =>
                 ~Silent(Sent(x, m)) /\ Sent(x, m).output = Append(x.output, m)
<1>1. x.output \in Seq(Messages)
  BY DEF ConnectionTypes
<1>2. Append(x.output, m) \in Seq(Messages)
  BY <1>1
<1>3. CASE Silent(x)
  BY <1>3 DEF Sent
<1>4. CASE ~Silent(x) /\ Len(x.output) > MaxPendingOutput
  <2>1. Sent(x, m) = [x EXCEPT !.dead = TRUE]
    BY <1>4 DEF Sent
  <2>2. PICK y : y = [x EXCEPT !.dead = TRUE]
    OBVIOUS
  <2>3. y \in ConnectionTypes /\ y.stage = x.stage /\ y.lobby = x.lobby /\ y.closing = x.closing
        /\ y.dead = TRUE /\ y.output = x.output
    BY <2>2 DEF ConnectionTypes
  <2>4. Silent(y)
    BY <2>3 DEF Silent
  <2>. QED
    BY <1>4, <2>1, <2>2, <2>3, <2>4
<1>5. CASE ~Silent(x) /\ ~(Len(x.output) > MaxPendingOutput)
  <2>1. Sent(x, m) = [x EXCEPT !.output = Append(x.output, m)]
    BY <1>5 DEF Sent
  <2>2. PICK y : y = [x EXCEPT !.output = Append(x.output, m)]
    OBVIOUS
  <2>3. y \in ConnectionTypes /\ y.stage = x.stage /\ y.lobby = x.lobby /\ y.closing = x.closing
        /\ y.dead = x.dead /\ y.output = Append(x.output, m)
    BY <1>2, <2>2 DEF ConnectionTypes
  <2>4. ~Silent(y)
    BY <1>5, <2>3 DEF Silent
  <2>. QED
    BY <1>5, <2>1, <2>2, <2>3, <2>4
<1>. QED
  BY <1>3, <1>4, <1>5

\* What the parts of Sound say of a connection in the table.
LEMMA SoundParts ==
    ASSUME NEW id, NEW lk \in Links, NEW st \in States, NEW known \in Seq(Identities), NEW l \in Nat,
           NEW tc \in Seq(Messages), NEW q \in Seq(Messages), NEW x \in ConnectionTypes,
           NEW lobbyId, NEW others, NEW last \in Nat,
           Sound(id, lk, st, known, l, tc, q, x, lobbyId, others, last)
    PROVE  /\ x.output \in Seq(Messages) /\ tc \o x.output \in Seq(Messages)
           /\ Flow(id, lk, st, known, l, q, x, tc \o x.output, lobbyId, others, last)
           /\ x.stage # "none" => Accepted(lk, st)
           /\ \A i \in 1..Len(tc \o x.output) :
                 (tc \o x.output)[i].kind = "joined" => (tc \o x.output)[i].lobby \in Nat
<1>1. x.output \in Seq(Messages)
  BY DEF ConnectionTypes
<1>2. PICK w : w = tc \o x.output
  OBVIOUS
<1>3. w \in Seq(Messages)
  BY <1>1, <1>2, ConcatProperties
<1>4. Flow(id, lk, st, known, l, q, x, w, lobbyId, others, last)
  BY <1>2 DEF Sound
<1>5. ASSUME x.stage # "none" PROVE Accepted(lk, st)
  <2>1. lk \in {"open", "client closed"}
    BY <1>5 DEF Sound, Tabled
  <2>2. lk \in {"none", "client closed"} => ~Runs(st)
    BY DEF Sound, Ends
  <2>. QED
    BY <2>1, <2>2 DEF Accepted
<1>6. ASSUME NEW i \in 1..Len(w), w[i].kind = "joined" PROVE w[i].lobby \in Nat
  <2>1. w[i] \in Messages
    BY <1>3
  <2>2. w[i].lobby \in 1..Cardinality(Connections)
    BY <1>6, <2>1, MessageFields
  <2>3. \A e \in 1..Cardinality(Connections) : e \in Nat
    OBVIOUS
  <2>. QED
    BY <2>2, <2>3, Zenon
<1>. QED
  BY <1>1, <1>2, <1>3, <1>4, <1>5, <1>6

\* A connection that is not spoken to.
LEMMA SoundKept ==
    ASSUME NEW id, NEW lk \in Links, NEW st \in States, NEW known \in Seq(Identities), NEW l \in Nat,
           NEW tc \in Seq(Messages), NEW q \in Seq(Messages), NEW x \in ConnectionTypes,
           NEW lobbyId, NEW others, NEW last \in Nat,
           Sound(id, lk, st, known, l, tc, q, x, lobbyId, others, last),
           NEW y \in ConnectionTypes, NEW lobbyId2, NEW others2, NEW last2 \in Nat,
           y.stage = x.stage, y.output = x.output, y.lobby = x.lobby, Silent(x) => Silent(y),
           y.stage = "none" => y = x,
           Silent(y) \/ y.lobby = 0 \/ (lobbyId2 = lobbyId /\ others2 = others), last <= last2
    PROVE  Sound(id, lk, st, known, l, tc, q, y, lobbyId2, others2, last2)
<1>1. PICK w : w = tc \o x.output
  OBVIOUS
<1>2. /\ w \in Seq(Messages) /\ Flow(id, lk, st, known, l, q, x, w, lobbyId, others, last)
      /\ \A i \in 1..Len(w) : w[i].kind = "joined" => w[i].lobby \in Nat
  BY <1>1, SoundParts
<1>3. Flow(id, lk, st, known, l, q, y, w, lobbyId2, others2, last2)
  BY <1>2, FlowKept
<1>4. Ends(lk, st, l, tc, q) /\ Tabled(lk, x)
  BY DEF Sound
<1>5. Tabled(lk, y)
  BY <1>4 DEF Tabled
<1>. QED
  BY <1>1, <1>3, <1>4, <1>5 DEF Sound

\* A connection that ends, is told goodbye or why it is refused.
LEMMA SoundEnding ==
    ASSUME NEW id, NEW lk \in Links, NEW st \in States, NEW known \in Seq(Identities), NEW l \in Nat,
           NEW tc \in Seq(Messages), NEW q \in Seq(Messages), NEW x \in ConnectionTypes,
           NEW lobbyId, NEW others, NEW last \in Nat,
           Sound(id, lk, st, known, l, tc, q, x, lobbyId, others, last),
           NEW y \in ConnectionTypes, NEW lobbyId2, NEW others2, NEW m \in Messages,
           x.stage # "none", y.stage # "none", Silent(y),
           y.output = x.output \/ (~Silent(x) /\ y.output = Append(x.output, m)),
           m.kind = "goodbye"
    PROVE  Sound(id, lk, st, known, l, tc, q, y, lobbyId2, others2, last)
<1>1. PICK w : w = tc \o x.output
  OBVIOUS
<1>2. /\ w \in Seq(Messages) /\ Flow(id, lk, st, known, l, q, x, w, lobbyId, others, last)
      /\ Accepted(lk, st) /\ x.output \in Seq(Messages)
  BY <1>1, SoundParts
<1>3. Ends(lk, st, l, tc, q) /\ Tabled(lk, x)
  BY DEF Sound
<1>4. Tabled(lk, y)
  BY <1>3 DEF Tabled
<1>5. CASE y.output = x.output
  <2>1. Flow(id, lk, st, known, l, q, y, w, lobbyId2, others2, last)
    BY <1>2, FlowEnded
  <2>. QED
    BY <1>1, <1>3, <1>4, <1>5, <2>1 DEF Sound
<1>6. CASE ~Silent(x) /\ y.output = Append(x.output, m)
  <2>1. tc \o y.output = Append(w, m)
    <3>1. tc \o Append(x.output, m) = Append(tc \o x.output, m)
      BY <1>2, LineAppended
    <3>. QED
      BY <1>1, <1>6, <3>1
  <2>2. Runs(st) => Follows(id, st, known, l, w, m)
    <3>1. SUFFICES ASSUME Runs(st) PROVE Follows(id, st, known, l, w, m)
      OBVIOUS
    <3>2. lk = "open"
      BY <1>2, <3>1 DEF Accepted
    <3>3. \A i \in 1..Len(w) : w[i].kind # "goodbye"
      BY <1>2, <1>6, <3>2 DEF Flow, Speaks
    <3>. QED
      BY <1>2, <3>3, FollowsGoodbye
  <2>3. Flow(id, lk, st, known, l, q, y, Append(w, m), lobbyId2, others2, last)
    BY <1>2, <2>2, FlowEnding
  <2>. QED
    BY <1>3, <1>4, <2>1, <2>3 DEF Sound
<1>. QED
  BY <1>5, <1>6

\* A member is sent news.
LEMMA SoundNews ==
    ASSUME NEW id, NEW lk \in Links, NEW st \in States, NEW known \in Seq(Identities), NEW l \in Nat,
           NEW tc \in Seq(Messages), NEW q \in Seq(Messages), NEW x \in ConnectionTypes,
           NEW lobbyId, NEW others, NEW last \in Nat,
           Sound(id, lk, st, known, l, tc, q, x, lobbyId, others, last),
           NEW others2, NEW m \in Messages,
           x.stage # "none", x.lobby # 0, ~Silent(x) => Tells(id, lobbyId, others, others2, m)
    PROVE  Sound(id, lk, st, known, l, tc, q, Sent(x, m), lobbyId, others2, last)
<1>1. PICK w, y : w = tc \o x.output /\ y = Sent(x, m)
  OBVIOUS
<1>2. /\ w \in Seq(Messages) /\ Flow(id, lk, st, known, l, q, x, w, lobbyId, others, last)
      /\ Accepted(lk, st) /\ x.output \in Seq(Messages)
  BY <1>1, SoundParts
<1>3. Ends(lk, st, l, tc, q) /\ Tabled(lk, x)
  BY DEF Sound
<1>4. /\ y \in ConnectionTypes /\ y.stage = x.stage /\ y.lobby = x.lobby
      /\ Silent(x) \/ Len(x.output) > MaxPendingOutput => Silent(y) /\ y.output = x.output
      /\ ~Silent(x) /\ ~(Len(x.output) > MaxPendingOutput) => y.output = Append(x.output, m)
  BY <1>1, SentIs
<1>5. Tabled(lk, y)
  BY <1>3, <1>4 DEF Tabled
<1>6. CASE Silent(y) /\ y.output = x.output
  <2>1. Flow(id, lk, st, known, l, q, y, w, lobbyId, others2, last)
    BY <1>2, <1>4, <1>6, FlowEnded
  <2>. QED
    BY <1>1, <1>3, <1>5, <1>6, <2>1 DEF Sound
<1>7. CASE ~Silent(x) /\ y.output = Append(x.output, m)
  <2>1. tc \o y.output = Append(w, m)
    <3>1. PICK o : o = x.output
      OBVIOUS
    <3>2. tc \o Append(o, m) = Append(tc \o o, m)
      BY <1>2, <3>1, LineAppended
    <3>. QED
      BY <1>1, <1>7, <3>1, <3>2, Zenon
  <2>2. Runs(st) => lk = "open"
    BY <1>2 DEF Accepted
  <2>3. Flow(id, lk, st, known, l, q, y, Append(w, m), lobbyId, others2, last)
    BY <1>2, <1>4, <1>7, <2>2, FlowNews
  <2>. QED
    BY <1>1, <1>3, <1>5, <2>1, <2>3 DEF Sound
<1>. QED
  BY <1>4, <1>6, <1>7

\* A client that is not in the lobby is answered: its connection has room for the answer.
LEMMA SoundAnswered ==
    ASSUME NEW id, NEW lk \in Links, NEW st \in States, NEW known \in Seq(Identities), NEW l \in Nat,
           NEW tc \in Seq(Messages), NEW q \in Seq(Messages), NEW x \in ConnectionTypes,
           NEW lobbyId, NEW others, NEW last \in Nat,
           Sound(id, lk, st, known, l, tc, q, x, lobbyId, others, last),
           NEW y \in ConnectionTypes, NEW lobbyId2, NEW others2, NEW last2 \in Nat, NEW m \in Messages,
           ~Silent(x), x.stage # "none", x.lobby = 0, Len(q) > 0, y.stage # "none",
           y.output = Append(x.output, m),
           Awaited(id, lk, st, known, y, m),
           m.kind \notin {"goodbye"} \cup News,
           y.lobby # 0 <=> m.kind = "joined",
           Admits(lobbyId2, others2, last2, m),
           last <= last2
    PROVE  Sound(id, lk, st, known, l, tc, Tail(q), y, lobbyId2, others2, last2)
<1>1. PICK w : w = tc \o x.output
  OBVIOUS
<1>2. /\ w \in Seq(Messages) /\ Flow(id, lk, st, known, l, q, x, w, lobbyId, others, last)
      /\ Accepted(lk, st) /\ x.output \in Seq(Messages)
  BY <1>1, SoundParts
<1>3. Ends(lk, st, l, tc, q) /\ Tabled(lk, x)
  BY DEF Sound
<1>4. tc \o y.output = Append(w, m)
  <2>1. PICK o : o = x.output
    OBVIOUS
  <2>2. tc \o Append(o, m) = Append(tc \o o, m)
    BY <1>2, <2>1, LineAppended
  <2>. QED
    BY <1>1, <2>1, <2>2, Zenon
<1>5. Flow(id, lk, st, known, l, Tail(q), y, Append(w, m), lobbyId2, others2, last2)
  BY <1>2, FlowAnswered
<1>6. lk \in {"open", "client closed"}
  BY <1>2 DEF Accepted
<1>7. Tabled(lk, y) /\ Ends(lk, st, l, tc, Tail(q))
  BY <1>3, <1>6 DEF Tabled, Ends
<1>. QED
  BY <1>4, <1>5, <1>7 DEF Sound

LEMMA RoomForAnswer ==
    ASSUME NEW id, NEW lk \in Links, NEW st \in States, NEW known \in Seq(Identities), NEW l \in Nat,
           NEW tc \in Seq(Messages), NEW q \in Seq(Messages), NEW x \in ConnectionTypes,
           NEW lobbyId, NEW others, NEW last \in Nat,
           Sound(id, lk, st, known, l, tc, q, x, lobbyId, others, last),
           ~Silent(x), x.stage # "none", x.lobby = 0, Len(q) > 0
    PROVE  Len(x.output) = 0 /\ ~(Len(x.output) > MaxPendingOutput)
<1>1. PICK w : w = tc \o x.output
  OBVIOUS
<1>2. /\ w \in Seq(Messages) /\ Flow(id, lk, st, known, l, q, x, w, lobbyId, others, last)
      /\ Accepted(lk, st) /\ x.output \in Seq(Messages)
  BY <1>1, SoundParts
<1>3. lk # "server closed"
  BY <1>2 DEF Accepted
<1>4. Len(w) + Len(q) <= 1
  BY <1>2, <1>3 DEF Flow, Speaks
<1>5. Len(w) = Len(tc) + Len(x.output)
  BY <1>1, <1>2, ConcatProperties
<1>6. PICK a \in Nat, b \in Nat, k \in Nat : a = Len(tc) /\ b = Len(x.output) /\ k = Len(q)
  BY <1>2
<1>7. b = 0
  BY <1>4, <1>5, <1>6
<1>. QED
  BY <1>6, <1>7, ServerAssumption

\* A request that has been handled.
LEMMA SoundPopped ==
    ASSUME NEW id, NEW lk \in Links, NEW st \in States, NEW known \in Seq(Identities), NEW l \in Nat,
           NEW tc \in Seq(Messages), NEW q \in Seq(Messages), NEW x \in ConnectionTypes,
           NEW lobbyId, NEW others, NEW last \in Nat,
           Sound(id, lk, st, known, l, tc, q, x, lobbyId, others, last),
           Len(q) > 0, Silent(x) \/ (x.lobby # 0 /\ x.stage = "ready")
    PROVE  Sound(id, lk, st, known, l, tc, Tail(q), x, lobbyId, others, last)
<1>1. Flow(id, lk, st, known, l, q, x, tc \o x.output, lobbyId, others, last)
  BY DEF Sound
<1>2. Flow(id, lk, st, known, l, Tail(q), x, tc \o x.output, lobbyId, others, last)
  BY <1>1, FlowPopped
<1>3. lk # "none"
  <2>1. ~(0 > 0)
    OBVIOUS
  <2>. QED
    BY <2>1, Zenon DEF Sound, Ends
<1>4. Ends(lk, st, l, tc, q) /\ Tabled(lk, x)
  BY DEF Sound
<1>5. Ends(lk, st, l, tc, Tail(q))
  BY <1>3, <1>4 DEF Ends
<1>. QED
  BY <1>2, <1>4, <1>5 DEF Sound

-----------------------------------------------------------------------------
(* The server's records                                                      *)

LEMMA ServerFields ==
    ASSUME NEW s \in ServerTypes
    PROVE  /\ s.connections \in [Connections -> ConnectionTypes]
           /\ s.lobby.id \in Nat /\ s.lobby.members \in Seq(Connections) /\ s.lastLobby \in Nat
           /\ s.lobby.password \in Passwords \cup {0}
           /\ s.lobby \in [id : Nat, password : Passwords \cup {0}, members : Seq(Connections)]
           /\ s.heard \in [open : SUBSET Nat, members : SUBSET (Nat \X Identities), consistent : BOOLEAN]
BY DEF ServerTypes

LEMMA ConnectionFields ==
    ASSUME NEW x \in ConnectionTypes
    PROVE  /\ x.stage \in {"none", "hello", "identity", "ready"} /\ x.lobby \in Nat
           /\ x.closing \in BOOLEAN /\ x.dead \in BOOLEAN /\ x.output \in Seq(Messages)
BY DEF ConnectionTypes

\* A server with other connections.
LEMMA Reconnected ==
    ASSUME NEW s \in ServerTypes, NEW C \in [Connections -> ConnectionTypes]
    PROVE  LET t == [s EXCEPT !.connections = C] IN
           /\ t \in ServerTypes /\ t.connections = C /\ t.lobby = s.lobby
           /\ t.lastLobby = s.lastLobby /\ t.heard = s.heard
<1>. DEFINE t == [s EXCEPT !.connections = C]
<1>1. /\ t.connections = C /\ t.lobby = s.lobby
      /\ t.lastLobby = s.lastLobby /\ t.heard = s.heard
  BY DEF ServerTypes
<1>2. t \in ServerTypes
  BY DEF ServerTypes
<1>. QED
  BY <1>1, <1>2

\* A server in which one connection has changed.
LEMMA Changed ==
    ASSUME NEW s \in ServerTypes, NEW c \in Connections, NEW y \in ConnectionTypes
    PROVE  LET t == [s EXCEPT !.connections = [s.connections EXCEPT ![c] = y]] IN
           /\ t \in ServerTypes /\ t.connections[c] = y
           /\ \A d \in Connections : d # c => t.connections[d] = s.connections[d]
           /\ t.lobby = s.lobby /\ t.lastLobby = s.lastLobby /\ t.heard = s.heard
<1>1. PICK C : C = [s.connections EXCEPT ![c] = y]
  OBVIOUS
<1>2. /\ C \in [Connections -> ConnectionTypes] /\ C[c] = y
      /\ \A d \in Connections : d # c => C[d] = s.connections[d]
  BY <1>1, ServerFields
<1>3. PICK t : t = [s EXCEPT !.connections = C]
  OBVIOUS
<1>4. /\ t \in ServerTypes /\ t.connections = C /\ t.lobby = s.lobby
      /\ t.lastLobby = s.lastLobby /\ t.heard = s.heard
  BY <1>2, <1>3, Reconnected
<1>. QED
  BY <1>1, <1>2, <1>3, <1>4

LEMMA SendAllIs ==
    ASSUME NEW s \in ServerTypes, NEW cs, NEW m \in Messages
    PROVE  /\ SendAll(s, cs, m) \in ServerTypes
           /\ SendAll(s, cs, m).lobby = s.lobby /\ SendAll(s, cs, m).lastLobby = s.lastLobby
           /\ SendAll(s, cs, m).heard = s.heard
           /\ \A d \in Connections : SendAll(s, cs, m).connections[d] =
                 IF d \in cs THEN Sent(s.connections[d], m) ELSE s.connections[d]
<1>1. PICK C : C = [d \in Connections |->
                       IF d \in cs THEN Sent(s.connections[d], m) ELSE s.connections[d]]
  OBVIOUS
<1>2. \A d \in Connections : s.connections[d] \in ConnectionTypes
  BY ServerFields
<1>3. \A d \in Connections : Sent(s.connections[d], m) \in ConnectionTypes
  BY <1>2, SentIs
<1>4. C \in [Connections -> ConnectionTypes]
  BY <1>1, <1>2, <1>3
<1>5. PICK t : t = [s EXCEPT !.connections = C]
  OBVIOUS
<1>6. /\ t \in ServerTypes /\ t.connections = C /\ t.lobby = s.lobby
      /\ t.lastLobby = s.lastLobby /\ t.heard = s.heard
  BY <1>4, <1>5, Reconnected
<1>7. SendAll(s, cs, m) = t
  BY <1>1, <1>5 DEF SendAll
<1>. QED
  BY <1>1, <1>6, <1>7

LEMMA UsersGrow ==
    ASSUME NEW C, NEW D, NEW links, NEW links2,
           Users(C, links) \subseteq Users(D, links2)
    PROVE  /\ Cardinality(Users(C, links)) <= Cardinality(Users(D, links2))
           /\ Cardinality(Users(C, links)) \in Nat /\ Cardinality(Users(D, links2)) \in Nat
           /\ Cardinality(Users(C, links)) <= Cardinality(Connections) /\ Cardinality(Connections) \in Nat
<1>1. Users(D, links2) \subseteq Connections /\ Users(C, links) \subseteq Connections
  BY DEF Users
<1>2. IsFiniteSet(Connections)
  BY WireAssumption
<1>3. IsFiniteSet(Users(D, links2)) /\ IsFiniteSet(Users(C, links))
  BY <1>1, <1>2, FS_Subset
<1>4. /\ Cardinality(Users(C, links)) <= Cardinality(Users(D, links2))
      /\ Cardinality(Users(C, links)) <= Cardinality(Connections)
  BY <1>1, <1>2, <1>3, FS_Subset
<1>. QED
  BY <1>2, <1>3, <1>4, FS_CardinalityType

\* A user more.
LEMMA UsersGrowMore ==
    ASSUME NEW C, NEW D, NEW links, NEW c \in Connections,
           Users(C, links) \subseteq Users(D, links), c \in Users(D, links), c \notin Users(C, links)
    PROVE  /\ Cardinality(Users(C, links)) + 1 <= Cardinality(Users(D, links))
           /\ Cardinality(Users(C, links)) \in Nat /\ Cardinality(Users(D, links)) \in Nat
           /\ Cardinality(Users(C, links)) + 1 <= Cardinality(Connections)
           /\ Cardinality(Connections) \in Nat
<1>1. Users(D, links) \subseteq Connections /\ Users(C, links) \subseteq Connections
  BY DEF Users
<1>2. IsFiniteSet(Connections)
  BY WireAssumption
<1>3. IsFiniteSet(Users(D, links)) /\ IsFiniteSet(Users(C, links))
  BY <1>1, <1>2, FS_Subset
<1>4. /\ IsFiniteSet(Users(C, links) \cup {c})
      /\ Cardinality(Users(C, links) \cup {c}) = Cardinality(Users(C, links)) + 1
  BY <1>3, FS_AddElement
<1>5. Users(C, links) \cup {c} \subseteq Users(D, links)
  OBVIOUS
<1>6. /\ Cardinality(Users(C, links) \cup {c}) <= Cardinality(Users(D, links))
      /\ Cardinality(Users(D, links)) <= Cardinality(Connections)
  BY <1>1, <1>2, <1>3, <1>5, FS_Subset
<1>7. PICK a \in Nat, b \in Nat, e \in Nat : /\ a = Cardinality(Users(C, links))
                                          /\ b = Cardinality(Users(D, links))
                                          /\ e = Cardinality(Connections)
  BY <1>2, <1>3, FS_CardinalityType
<1>. QED
  BY <1>4, <1>6, <1>7

\* The number of lobbies made is bounded while their users remain.
LEMMA CountedKept ==
    ASSUME NEW s \in ServerTypes, NEW t \in ServerTypes, NEW links, NEW links2,
           Counted(s, links), t.lastLobby = s.lastLobby, t.lobby.id \in {0, s.lobby.id},
           Users(s.connections, links) \subseteq Users(t.connections, links2)
    PROVE  Counted(t, links2)
<1>1. PICK a \in Nat, b \in Nat, e \in Nat :
        /\ a = Cardinality(Users(s.connections, links)) /\ b = Cardinality(Users(t.connections, links2))
        /\ e = t.lastLobby
  BY UsersGrow, ServerFields
<1>2. a <= b
  BY <1>1, UsersGrow
<1>3. e <= a
  BY <1>1 DEF Counted
<1>4. e <= b
  BY <1>2, <1>3
<1>5. PICK k \in Nat : k = s.lobby.id
  BY ServerFields
<1>6. k <= e
  BY <1>1, <1>5 DEF Counted
<1>7. t.lobby.id <= e
  BY <1>1, <1>5, <1>6
<1>. QED
  BY <1>1, <1>4, <1>7 DEF Counted

LEMMA LastLobbyBounded ==
    ASSUME NEW s \in ServerTypes, NEW links, Counted(s, links)
    PROVE  /\ s.lastLobby <= Cardinality(Connections) /\ s.lobby.id <= s.lastLobby
           /\ Cardinality(Connections) \in Nat
           /\ s.lobby.id # 0 => s.lobby.id \in 1..Cardinality(Connections)
<1>1. PICK a \in Nat, b \in Nat, e \in Nat, k \in Nat :
        /\ a = Cardinality(Users(s.connections, links)) /\ b = Cardinality(Connections)
        /\ e = s.lastLobby /\ k = s.lobby.id
  BY UsersGrow, ServerFields
<1>2. a <= b
  BY <1>1, UsersGrow
<1>3. e <= a /\ k <= e
  BY <1>1 DEF Counted
<1>. QED
  BY <1>1, <1>2, <1>3

\* Connections only end, and leave their lobbies.
Passing(s, t) ==
    \A d \in Connections :
        /\ t.connections[d].stage = s.connections[d].stage
        /\ t.connections[d].lobby \in {0, s.connections[d].lobby}
        /\ s.connections[d].closing => t.connections[d].closing
        /\ s.connections[d].dead => t.connections[d].dead

LEMMA PassingAlone ==
    ASSUME NEW s, NEW t, Passing(s, t), NEW active, Alone(s.connections, active)
    PROVE  Alone(t.connections, active)
<1>1. \A d \in Connections : Silent(s.connections[d]) => Silent(t.connections[d])
  BY DEF Passing, Silent
<1>2. SUFFICES ASSUME NEW c \in Connections, NEW d \in Connections, c # d,
                      IdentityOf[c] = IdentityOf[d], t.connections[c].stage = "ready",
                      ~Silent(t.connections[c])
               PROVE  /\ t.connections[d].stage = "ready" => Silent(t.connections[d])
                      /\ t.connections[d].lobby # 0 => t.connections[d].dead /\ c \notin active
  BY DEF Alone
<1>3. /\ s.connections[d].stage = "ready" => Silent(s.connections[d])
      /\ s.connections[d].lobby # 0 => s.connections[d].dead /\ c \notin active
  BY <1>1, <1>2 DEF Alone, Passing
<1>. QED
  BY <1>1, <1>3 DEF Passing

\* Whatever is sent, what the server knows of its lobby remains true.
Quieter(s, t) ==
    /\ t.lobby = s.lobby /\ t.lastLobby = s.lastLobby /\ t.heard = s.heard
    /\ \A d \in Connections :
          /\ t.connections[d].stage = s.connections[d].stage
          /\ t.connections[d].lobby = s.connections[d].lobby
          /\ s.connections[d].closing => t.connections[d].closing
          /\ s.connections[d].dead => t.connections[d].dead

LEMMA HeardKept ==
    ASSUME NEW s, NEW t, Heard(s), t.lobby = s.lobby, t.heard = s.heard
    PROVE  Heard(t)
BY DEF Heard

LEMMA QuieterKeeps ==
    ASSUME NEW s, NEW t, NEW r, NEW asks, NEW r2 \in ReaderTypes,
           NEW asks2 \in [Connections -> Seq(Messages)], NEW active, NEW table \in SUBSET Connections,
           Consistent(s, r, asks, active, table), Quieter(s, t), t \in ServerTypes,
           AllSound(t, r2, asks2)
    PROVE  /\ Consistent(t, r2, asks2, active, table)
           /\ Erased(s) => Erased(t)
           /\ \A links : Counted(s, links) => Counted(t, links)
<1>7. Tied(s) /\ Heard(s)
  BY DEF Consistent
<1>1. Tied(t)
  BY <1>7, Zenon DEF Tied, Quieter
<1>2. Erased(s) => Erased(t)
  BY DEF Erased, Quieter
<1>3. Heard(t)
  BY <1>7, HeardKept DEF Quieter
<1>4. ASSUME NEW links, Counted(s, links) PROVE Counted(t, links)
  <2>1. Users(s.connections, links) \subseteq Users(t.connections, links)
    BY DEF Users, Quieter
  <2>2. s \in ServerTypes
    BY DEF Consistent
  <2>. QED
    BY <1>4, <2>1, <2>2, CountedKept DEF Quieter
<1>5. Alone(t.connections, active)
  <2>1. Passing(s, t)
    BY DEF Quieter, Passing
  <2>. QED
    BY <2>1, PassingAlone DEF Consistent
<1>6. \A c \in table : t.connections[c].stage # "none"
  BY DEF Consistent, Quieter
<1>. QED
  BY <1>1, <1>2, <1>3, <1>4, <1>5, <1>6 DEF Consistent

-----------------------------------------------------------------------------
(* The steps of the server's handlers                                        *)

\* What the invariant says of one connection.
LEMMA SoundOf ==
    ASSUME NEW s, NEW r, NEW asks, NEW active, NEW table, Consistent(s, r, asks, active, table),
           NEW d \in Connections
    PROVE  /\ r.link[d] \in Links /\ r.state[d] \in States /\ r.peers[d] \in Seq(Identities)
           /\ r.joined[d] \in Nat /\ r.inbox[d] \in Seq(Messages) /\ asks[d] \in Seq(Messages)
           /\ s.connections[d] \in ConnectionTypes /\ s.lastLobby \in Nat
           /\ Sound(IdentityOf[d], r.link[d], r.state[d], r.peers[d], r.joined[d], r.inbox[d],
                    asks[d], s.connections[d], s.lobby.id, Others(s.lobby.members, d), s.lastLobby)
<1>1. s \in ServerTypes /\ r \in ReaderTypes /\ asks \in [Connections -> Seq(Messages)]
      /\ AllSound(s, r, asks)
  BY DEF Consistent
<1>2. s.connections[d] \in ConnectionTypes /\ s.lastLobby \in Nat
  BY <1>1, ServerFields
<1>3. /\ r.link[d] \in Links /\ r.state[d] \in States /\ r.peers[d] \in Seq(Identities)
      /\ r.joined[d] \in Nat /\ r.inbox[d] \in Seq(Messages)
  BY <1>1 DEF ReaderTypes
<1>4. asks[d] \in Seq(Messages)
  BY <1>1
<1>5. Sound(IdentityOf[d], r.link[d], r.state[d], r.peers[d], r.joined[d], r.inbox[d],
            asks[d], s.connections[d], s.lobby.id, Others(s.lobby.members, d), s.lastLobby)
  BY <1>1, Zenon DEF AllSound
<1>. QED
  BY <1>2, <1>3, <1>4, <1>5

\* News for members of the lobby that does not change what they know.
LEMMA NewsKeeps ==
    ASSUME NEW s, NEW r, NEW asks, NEW active, NEW table \in SUBSET Connections,
           Consistent(s, r, asks, active, table), NEW cs \in SUBSET Range(s.lobby.members),
           NEW m \in Messages,
           \A d \in cs : Tells(IdentityOf[d], s.lobby.id, Others(s.lobby.members, d),
                               Others(s.lobby.members, d), m)
    PROVE  /\ Consistent(SendAll(s, cs, m), r, asks, active, table)
           /\ Erased(s) => Erased(SendAll(s, cs, m))
           /\ \A links : Counted(s, links) => Counted(SendAll(s, cs, m), links)
           /\ Quieter(s, SendAll(s, cs, m))
<1>1. /\ s \in ServerTypes /\ r \in ReaderTypes /\ asks \in [Connections -> Seq(Messages)]
      /\ Tied(s)
  BY DEF Consistent
<1>2. PICK t : t = SendAll(s, cs, m)
  OBVIOUS
<1>3. /\ t \in ServerTypes /\ t.lobby = s.lobby /\ t.lastLobby = s.lastLobby /\ t.heard = s.heard
      /\ \A d \in Connections : t.connections[d] =
            IF d \in cs THEN Sent(s.connections[d], m) ELSE s.connections[d]
  BY <1>1, <1>2, SendAllIs
<1>4. \A d \in Connections : s.connections[d] \in ConnectionTypes
  BY <1>1, ServerFields
<1>5. Quieter(s, t)
  <2>1. SUFFICES ASSUME NEW d \in Connections
                 PROVE  /\ t.connections[d].stage = s.connections[d].stage
                        /\ t.connections[d].lobby = s.connections[d].lobby
                        /\ s.connections[d].closing => t.connections[d].closing
                        /\ s.connections[d].dead => t.connections[d].dead
    BY <1>3 DEF Quieter
  <2>2. CASE d \in cs
    BY <1>3, <1>4, <2>2, SentIs
  <2>3. CASE d \notin cs
    BY <1>3, <2>3
  <2>. QED
    BY <2>2, <2>3
<1>6. AllSound(t, r, asks)
  <2>1. SUFFICES ASSUME NEW d \in Connections
                 PROVE  Sound(IdentityOf[d], r.link[d], r.state[d], r.peers[d], r.joined[d],
                              r.inbox[d], asks[d], t.connections[d], s.lobby.id,
                              Others(s.lobby.members, d), s.lastLobby)
    BY <1>3 DEF AllSound
  <2>2. PICK id, lk, st, known, l, tc, q, x, others, last :
          /\ id = IdentityOf[d] /\ lk = r.link[d] /\ st = r.state[d] /\ known = r.peers[d]
          /\ l = r.joined[d] /\ tc = r.inbox[d] /\ q = asks[d] /\ x = s.connections[d]
          /\ others = Others(s.lobby.members, d) /\ last = s.lastLobby
    OBVIOUS
  <2>3. /\ lk \in Links /\ st \in States /\ known \in Seq(Identities) /\ l \in Nat
        /\ tc \in Seq(Messages) /\ q \in Seq(Messages) /\ x \in ConnectionTypes /\ last \in Nat
        /\ Sound(id, lk, st, known, l, tc, q, x, s.lobby.id, others, last)
    BY <2>2, SoundOf
  <2>4. CASE d \in cs
    <3>1. x.lobby # 0 /\ x.stage # "none"
      <4>1. d \in Range(s.lobby.members)
        BY <2>4
      <4>. QED
        BY <1>1, <2>2, <4>1 DEF Tied
    <3>2. Tells(id, s.lobby.id, others, others, m)
      BY <2>2, <2>4
    <3>3. Sound(id, lk, st, known, l, tc, q, Sent(x, m), s.lobby.id, others, last)
      BY <2>3, <3>1, <3>2, SoundNews
    <3>. QED
      BY <1>3, <2>2, <2>4, <3>3
  <2>5. CASE d \notin cs
    BY <1>3, <2>2, <2>3, <2>5
  <2>. QED
    BY <2>4, <2>5
<1>. QED
  BY <1>1, <1>2, <1>3, <1>5, <1>6, QuieterKeeps

\* A request that has been handled, of a connection that is ending or of a member.
LEMMA PopKeeps ==
    ASSUME NEW s, NEW r, NEW asks, NEW active, NEW table \in SUBSET Connections,
           Consistent(s, r, asks, active, table), NEW c \in Connections, Len(asks[c]) > 0,
           NEW active2 \in SUBSET active,
           Silent(s.connections[c]) \/ (s.connections[c].lobby # 0 /\ s.connections[c].stage = "ready")
    PROVE  Consistent(s, r, [asks EXCEPT ![c] = Tail(@)], active2, table)
<1>1. /\ s \in ServerTypes /\ r \in ReaderTypes /\ asks \in [Connections -> Seq(Messages)]
      /\ Tied(s) /\ Heard(s) /\ Alone(s.connections, active)
      /\ \A d \in table : s.connections[d].stage # "none"
  BY DEF Consistent
<1>2. PICK left : left = [asks EXCEPT ![c] = Tail(asks[c])]
  OBVIOUS
<1>3. /\ left[c] = Tail(asks[c]) /\ \A d \in Connections : d # c => left[d] = asks[d]
      /\ left \in [Connections -> Seq(Messages)]
  <2>1. Tail(asks[c]) \in Seq(Messages)
    <3>1. PICK q \in Seq(Messages) : q = asks[c]
      BY <1>1
    <3>2. Len(q) > 0
      BY <3>1
    <3>3. Tail(q) \in Seq(Messages)
      BY <3>2
    <3>. QED
      BY <3>1, <3>3
  <2>. QED
    BY <1>1, <1>2, <2>1
<1>4. Alone(s.connections, active2)
  BY <1>1 DEF Alone
<1>5. AllSound(s, r, left)
  <2>1. SUFFICES ASSUME NEW d \in Connections
                 PROVE  Sound(IdentityOf[d], r.link[d], r.state[d], r.peers[d], r.joined[d],
                              r.inbox[d], left[d], s.connections[d], s.lobby.id,
                              Others(s.lobby.members, d), s.lastLobby)
    BY DEF AllSound
  <2>2. CASE d # c
    BY <1>3, <2>2, SoundOf
  <2>3. CASE d = c
    <3>1. PICK id, lk, st, known, l, tc, q, x, others, last :
            /\ id = IdentityOf[d] /\ lk = r.link[d] /\ st = r.state[d] /\ known = r.peers[d]
            /\ l = r.joined[d] /\ tc = r.inbox[d] /\ q = asks[d] /\ x = s.connections[d]
            /\ others = Others(s.lobby.members, d) /\ last = s.lastLobby
      OBVIOUS
    <3>2. /\ lk \in Links /\ st \in States /\ known \in Seq(Identities) /\ l \in Nat
          /\ tc \in Seq(Messages) /\ q \in Seq(Messages) /\ x \in ConnectionTypes /\ last \in Nat
          /\ Sound(id, lk, st, known, l, tc, q, x, s.lobby.id, others, last)
      BY <3>1, SoundOf
    <3>3. Len(q) > 0 /\ (Silent(x) \/ (x.lobby # 0 /\ x.stage = "ready"))
      BY <2>3, <3>1
    <3>4. Sound(id, lk, st, known, l, tc, Tail(q), x, s.lobby.id, others, last)
      BY <3>2, <3>3, SoundPopped
    <3>. QED
      BY <1>3, <2>3, <3>1, <3>4
  <2>. QED
    BY <2>2, <2>3
<1>. QED
  BY <1>1, <1>2, <1>3, <1>4, <1>5 DEF Consistent

\* A connection that begins to end.
LEMMA CloseIs ==
    ASSUME NEW s \in ServerTypes, NEW c \in Connections
    PROVE  /\ Close(s, c) \in ServerTypes
           /\ Close(s, c).lobby = s.lobby /\ Close(s, c).lastLobby = s.lastLobby
           /\ Close(s, c).heard = s.heard
           /\ \A d \in Connections : d # c => Close(s, c).connections[d] = s.connections[d]
           /\ Close(s, c).connections[c].stage = s.connections[c].stage
           /\ Close(s, c).connections[c].lobby = s.connections[c].lobby
           /\ Close(s, c).connections[c].dead = s.connections[c].dead
           /\ Close(s, c).connections[c].output = s.connections[c].output
           /\ Close(s, c).connections[c].closing /\ Silent(Close(s, c).connections[c])
<1>1. PICK x : x = s.connections[c]
  OBVIOUS
<1>2. x \in ConnectionTypes
  BY <1>1, ServerFields
<1>3. PICK y : y = [x EXCEPT !.closing = TRUE]
  OBVIOUS
<1>4. /\ y \in ConnectionTypes /\ y.stage = x.stage /\ y.lobby = x.lobby /\ y.dead = x.dead
      /\ y.output = x.output /\ y.closing = TRUE
  BY <1>2, <1>3 DEF ConnectionTypes
<1>5. Close(s, c) = [s EXCEPT !.connections = [s.connections EXCEPT ![c] = y]]
  BY <1>1, <1>3 DEF Close
<1>6. PICK t : t = [s EXCEPT !.connections = [s.connections EXCEPT ![c] = y]]
  OBVIOUS
<1>7. /\ t \in ServerTypes /\ t.connections[c] = y
      /\ \A d \in Connections : d # c => t.connections[d] = s.connections[d]
      /\ t.lobby = s.lobby /\ t.lastLobby = s.lastLobby /\ t.heard = s.heard
  BY <1>4, <1>6, Changed
<1>8. Silent(y)
  BY <1>4 DEF Silent
<1>. QED
  BY <1>1, <1>4, <1>5, <1>6, <1>7, <1>8

\* A connection is told the last that it will hear, unless it is ending, and begins to end.
LEMMA EndingIs ==
    ASSUME NEW s \in ServerTypes, NEW c \in Connections, NEW m \in Messages
    PROVE  LET t == Close(Send(s, c, m), c)  x == s.connections[c]  y == t.connections[c] IN
           /\ t \in ServerTypes /\ y \in ConnectionTypes
           /\ t.lobby = s.lobby /\ t.lastLobby = s.lastLobby /\ t.heard = s.heard
           /\ \A d \in Connections : d # c => t.connections[d] = s.connections[d]
           /\ y.stage = x.stage /\ y.lobby = x.lobby /\ (x.dead => y.dead)
           /\ Silent(x) \/ Len(x.output) > MaxPendingOutput => y.output = x.output
           /\ ~Silent(x) /\ ~(Len(x.output) > MaxPendingOutput) => y.output = Append(x.output, m)
           /\ y.closing /\ Silent(y) /\ Quieter(s, t)
<1>1. PICK u : u = SendAll(s, {c}, m)
  OBVIOUS
<1>2. PICK t : t = Close(u, c)
  OBVIOUS
<1>3. PICK x, y : x = s.connections[c] /\ y = t.connections[c]
  OBVIOUS
<1>4. /\ u \in ServerTypes /\ u.lobby = s.lobby /\ u.lastLobby = s.lastLobby /\ u.heard = s.heard
      /\ u.connections[c] = Sent(x, m)
      /\ \A d \in Connections : d # c => u.connections[d] = s.connections[d]
  BY <1>1, <1>3, SendAllIs
<1>5. /\ t \in ServerTypes /\ t.lobby = s.lobby /\ t.lastLobby = s.lastLobby /\ t.heard = s.heard
      /\ \A d \in Connections : d # c => t.connections[d] = s.connections[d]
      /\ y.stage = Sent(x, m).stage /\ y.lobby = Sent(x, m).lobby /\ y.dead = Sent(x, m).dead
      /\ y.output = Sent(x, m).output /\ y.closing /\ Silent(y)
  BY <1>2, <1>3, <1>4, CloseIs
<1>6. x \in ConnectionTypes /\ y \in ConnectionTypes
  BY <1>3, <1>5, ServerFields
<1>7. /\ y.stage = x.stage /\ y.lobby = x.lobby /\ (x.dead => y.dead)
      /\ Silent(x) \/ Len(x.output) > MaxPendingOutput => y.output = x.output
      /\ ~Silent(x) /\ ~(Len(x.output) > MaxPendingOutput) => y.output = Append(x.output, m)
  BY <1>5, <1>6, SentIs
<1>8. Quieter(s, t)
  <2>1. SUFFICES ASSUME NEW d \in Connections
                 PROVE  /\ t.connections[d].stage = s.connections[d].stage
                        /\ t.connections[d].lobby = s.connections[d].lobby
                        /\ s.connections[d].closing => t.connections[d].closing
                        /\ s.connections[d].dead => t.connections[d].dead
    BY <1>5 DEF Quieter
  <2>2. CASE d = c
    BY <1>3, <1>5, <1>7, <2>2
  <2>3. CASE d # c
    BY <1>5, <2>3
  <2>. QED
    BY <2>2, <2>3
<1>9. Close(Send(s, c, m), c) = t
  BY <1>1, <1>2 DEF Send
<1>. QED
  BY <1>3, <1>5, <1>6, <1>7, <1>8, <1>9

\* Goodbye.
LEMMA GoodbyeKeeps ==
    ASSUME NEW s, NEW r, NEW asks, NEW active, NEW table \in SUBSET Connections,
           Consistent(s, r, asks, active, table), NEW c \in Connections,
           s.connections[c].stage # "none"
    PROVE  /\ Consistent(Goodbye(s, c), r, asks, active, table)
           /\ Erased(s) => Erased(Goodbye(s, c))
           /\ \A links : Counted(s, links) => Counted(Goodbye(s, c), links)
           /\ Quieter(s, Goodbye(s, c))
           /\ Goodbye(s, c).connections[c].closing /\ Silent(Goodbye(s, c).connections[c])
           /\ \A d \in Connections : d # c => Goodbye(s, c).connections[d] = s.connections[d]
<1>1. PICK m : m = Plain("goodbye")
  OBVIOUS
<1>2. m \in Messages /\ m.kind = "goodbye"
  BY <1>1, MessagesMade
<1>3. /\ s \in ServerTypes /\ r \in ReaderTypes /\ asks \in [Connections -> Seq(Messages)]
  BY DEF Consistent
<1>4. PICK t, x, y : t = Close(Send(s, c, m), c) /\ x = s.connections[c] /\ y = t.connections[c]
  OBVIOUS
<1>5. /\ t \in ServerTypes /\ y \in ConnectionTypes
      /\ t.lobby = s.lobby /\ t.lastLobby = s.lastLobby /\ t.heard = s.heard
      /\ \A d \in Connections : d # c => t.connections[d] = s.connections[d]
      /\ y.stage = x.stage /\ y.lobby = x.lobby /\ (x.dead => y.dead)
      /\ Silent(x) \/ Len(x.output) > MaxPendingOutput => y.output = x.output
      /\ ~Silent(x) /\ ~(Len(x.output) > MaxPendingOutput) => y.output = Append(x.output, m)
      /\ y.closing /\ Silent(y) /\ Quieter(s, t)
  BY <1>2, <1>3, <1>4, EndingIs, SMTT(30)
<1>6. AllSound(t, r, asks)
  <2>1. SUFFICES ASSUME NEW d \in Connections
                 PROVE  Sound(IdentityOf[d], r.link[d], r.state[d], r.peers[d], r.joined[d],
                              r.inbox[d], asks[d], t.connections[d], s.lobby.id,
                              Others(s.lobby.members, d), s.lastLobby)
    BY <1>5 DEF AllSound
  <2>2. CASE d # c
    BY <1>5, <2>2, SoundOf
  <2>3. CASE d = c
    <3>1. PICK id, lk, st, known, l, tc, q, others, last :
            /\ id = IdentityOf[d] /\ lk = r.link[d] /\ st = r.state[d] /\ known = r.peers[d]
            /\ l = r.joined[d] /\ tc = r.inbox[d] /\ q = asks[d]
            /\ others = Others(s.lobby.members, d) /\ last = s.lastLobby
      OBVIOUS
    <3>2. /\ lk \in Links /\ st \in States /\ known \in Seq(Identities) /\ l \in Nat
          /\ tc \in Seq(Messages) /\ q \in Seq(Messages) /\ x \in ConnectionTypes /\ last \in Nat
          /\ Sound(id, lk, st, known, l, tc, q, x, s.lobby.id, others, last)
      BY <1>4, <2>3, <3>1, SoundOf
    <3>3. y.output = x.output \/ (~Silent(x) /\ y.output = Append(x.output, m))
      BY <1>5
    <3>4. x.stage # "none" /\ y.stage # "none"
      BY <1>4, <1>5
    <3>5. Sound(id, lk, st, known, l, tc, q, y, s.lobby.id, others, last)
      BY <1>2, <1>5, <3>2, <3>3, <3>4, SoundEnding
    <3>. QED
      BY <1>4, <2>3, <3>1, <3>5
  <2>. QED
    BY <2>2, <2>3
<1>7. Goodbye(s, c) = t
  BY <1>1, <1>4 DEF Goodbye
<1>8. /\ Consistent(t, r, asks, active, table)
      /\ Erased(s) => Erased(t)
      /\ \A links : Counted(s, links) => Counted(t, links)
  <2>1. t \in ServerTypes /\ Quieter(s, t)
    BY <1>5
  <2>. QED
    BY <1>3, <1>6, <2>1, QuieterKeeps
<1>9. /\ Quieter(s, t) /\ t.connections[c].closing /\ Silent(t.connections[c])
      /\ \A d \in Connections : d # c => t.connections[d] = s.connections[d]
  BY <1>4, <1>5
<1>. QED
  BY <1>7, <1>8, <1>9, Zenon

\* An event for the host.
HeardTypes == [open : SUBSET Nat, members : SUBSET (Nat \X Identities), consistent : BOOLEAN]
LEMMA Reheard ==
    ASSUME NEW s \in ServerTypes, NEW h \in HeardTypes
    PROVE  /\ [s EXCEPT !.heard = h] \in ServerTypes
           /\ [s EXCEPT !.heard = h].connections = s.connections
           /\ [s EXCEPT !.heard = h].lobby = s.lobby
           /\ [s EXCEPT !.heard = h].lastLobby = s.lastLobby
           /\ [s EXCEPT !.heard = h].heard = h
BY DEF ServerTypes, HeardTypes

\* Members of one identity are one.
LEMMA OneMember ==
    ASSUME NEW s, Tied(s), NEW c \in Range(s.lobby.members), NEW d \in Range(s.lobby.members),
           IdentityOf[c] = IdentityOf[d]
    PROVE  c = d
<1>1. PICK i \in DOMAIN s.lobby.members : c = s.lobby.members[i]
  BY DEF Range
<1>2. PICK j \in DOMAIN s.lobby.members : d = s.lobby.members[j]
  BY DEF Range
<1>3. i = j
  BY <1>1, <1>2 DEF Tied
<1>. QED
  BY <1>1, <1>2, <1>3

\* The server t that is s without the member c: rest are the members that are told m.
Leaves(s, c, t, l, rest, gone, m) ==
    /\ t \in ServerTypes /\ t.lastLobby = s.lastLobby
    /\ t.connections[c] = [s.connections[c] EXCEPT !.lobby = 0]
    /\ \A d \in Connections : d # c =>
          t.connections[d] = IF d \in Range(rest) THEN Sent(s.connections[d], m)
                             ELSE s.connections[d]
    /\ rest # <<>> => t.lobby.id = l /\ t.lobby.members = rest /\ t.heard.open = s.heard.open
    /\ rest = <<>> => t.lobby = NoLobby /\ t.heard.open = s.heard.open \ {l}
    /\ t.heard.members = s.heard.members \ {gone}
    /\ t.heard.consistent =
          (/\ s.heard.consistent /\ gone \in s.heard.members
           /\ rest = <<>> => l \in s.heard.open /\ \A e \in s.heard.members \ {gone} : e[1] # l)

LEMMA LeftIs ==
    ASSUME NEW s \in ServerTypes, NEW c \in Connections, s.connections[c].lobby # 0
    PROVE  Leaves(s, c, LeaveLobby(s, c), s.lobby.id, Without(s.lobby.members, c),
                  <<s.lobby.id, IdentityOf[c]>>, About("member left", IdentityOf[c]))
<1>1. PICK l, rest, id, x : /\ l = s.lobby.id /\ rest = Without(s.lobby.members, c)
                            /\ id = IdentityOf[c] /\ x = s.connections[c]
  OBVIOUS
<1>2. PICK gone, m : gone = <<l, id>> /\ m = About("member left", id)
  OBVIOUS
<1>3. /\ l \in Nat /\ id \in Identities /\ x \in ConnectionTypes
      /\ rest \in Seq(Connections) /\ Range(rest) = Range(s.lobby.members) \ {c}
      /\ s.heard \in [open : SUBSET Nat, members : SUBSET (Nat \X Identities), consistent : BOOLEAN]
  BY <1>1, ServerFields, RangeWithout DEF Identities
<1>4. m \in Messages
  BY <1>2, <1>3, MessagesMade
<1>5. PICK y, b : y = [x EXCEPT !.lobby = 0] /\ b = [s.lobby EXCEPT !.members = rest]
  OBVIOUS
<1>6. y \in ConnectionTypes
  BY <1>3, <1>5 DEF ConnectionTypes
<1>7. /\ b \in [id : Nat, password : Passwords \cup {0}, members : Seq(Connections)]
      /\ b.id = l /\ b.members = rest
  <2>1. s.lobby \in [id : Nat, password : Passwords \cup {0}, members : Seq(Connections)]
    BY ServerFields
  <2>. QED
    BY <1>1, <1>3, <1>5, <2>1
<1>8. PICK C : C = [s.connections EXCEPT ![c] = y]
  OBVIOUS
<1>9. /\ C \in [Connections -> ConnectionTypes] /\ C[c] = y
      /\ \A d \in Connections : d # c => C[d] = s.connections[d]
  BY <1>6, <1>8, ServerFields
<1>10. PICK u : u = [s EXCEPT !.connections = C, !.lobby = b]
  OBVIOUS
<1>11. /\ u \in ServerTypes /\ u.connections = C /\ u.lobby = b /\ u.lastLobby = s.lastLobby
       /\ u.heard = s.heard
  BY <1>7, <1>9, <1>10 DEF ServerTypes
<1>12. PICK out : out = MemberLeft(u, l, id)
  OBVIOUS
<1>13. /\ out \in ServerTypes /\ out.connections = C /\ out.lobby = b /\ out.lastLobby = s.lastLobby
       /\ out.heard.open = s.heard.open /\ out.heard.members = s.heard.members \ {gone}
       /\ out.heard.consistent = (s.heard.consistent /\ gone \in s.heard.members)
  <2>1. PICK h : h = [open |-> s.heard.open, members |-> s.heard.members \ {gone},
                      consistent |-> s.heard.consistent /\ gone \in s.heard.members]
    OBVIOUS
  <2>2. /\ h \in HeardTypes /\ h.open = s.heard.open /\ h.members = s.heard.members \ {gone}
        /\ h.consistent = (s.heard.consistent /\ gone \in s.heard.members)
    BY <1>3, <2>1 DEF HeardTypes
  <2>3. out = [u EXCEPT !.heard = h]
    BY <1>2, <1>11, <1>12, <2>1, Zenon DEF MemberLeft, Hears
  <2>4. /\ out \in ServerTypes /\ out.connections = u.connections /\ out.lobby = u.lobby
        /\ out.lastLobby = u.lastLobby /\ out.heard = h
    BY <1>11, <2>2, <2>3, Reheard
  <2>. QED
    BY <1>11, <2>2, <2>4
<1>14. PICK t : t = IF rest # <<>> THEN SendAll(out, Range(rest), m) ELSE Emptied(out, l)
  OBVIOUS
<1>15. LeaveLobby(s, c) = t
  <2>1. LeaveLobby(s, c) =
            LET ll == s.lobby.id
                rr == Without(s.lobby.members, c)
                oo == MemberLeft([s EXCEPT !.connections[c].lobby = 0, !.lobby.members = rr],
                                 ll, IdentityOf[c])
            IN  IF rr # <<>> THEN SendAll(oo, Range(rr), About("member left", IdentityOf[c]))
                ELSE Emptied(oo, ll)
    BY Zenon DEF LeaveLobby, Without
  <2>2. [s EXCEPT !.connections[c].lobby = 0, !.lobby.members = rest] = u
    BY <1>1, <1>5, <1>8, <1>10, <1>11 DEF ServerTypes
  <2>. QED
    BY <1>1, <1>2, <1>12, <1>14, <2>1, <2>2, Zenon
<1>16. ASSUME rest # <<>> PROVE Leaves(s, c, t, l, rest, gone, m)
  <2>1. t = SendAll(out, Range(rest), m)
    BY <1>14, <1>16
  <2>2. /\ t \in ServerTypes /\ t.lobby = out.lobby /\ t.lastLobby = out.lastLobby
        /\ t.heard = out.heard
        /\ \A d \in Connections : t.connections[d] =
              IF d \in Range(rest) THEN Sent(out.connections[d], m) ELSE out.connections[d]
    BY <1>4, <1>13, <2>1, SendAllIs
  <2>3. t.connections[c] = y
    BY <1>3, <1>9, <1>13, <2>2
  <2>4. \A d \in Connections : d # c =>
           t.connections[d] = IF d \in Range(rest) THEN Sent(s.connections[d], m)
                              ELSE s.connections[d]
    BY <1>9, <1>13, <2>2
  <2>. QED
    BY <1>1, <1>5, <1>7, <1>13, <1>16, <2>2, <2>3, <2>4 DEF Leaves
<1>17. ASSUME rest = <<>> PROVE Leaves(s, c, t, l, rest, gone, m)
  <2>1. PICK k : k = Closed(out, l)
    OBVIOUS
  <2>2. PICK h : h = [open |-> s.heard.open \ {l}, members |-> s.heard.members \ {gone},
                      consistent |-> out.heard.consistent /\ l \in s.heard.open
                                        /\ \A e \in s.heard.members \ {gone} : e[1] # l]
    OBVIOUS
  <2>3. /\ h \in HeardTypes /\ h.open = s.heard.open \ {l}
        /\ h.members = s.heard.members \ {gone}
        /\ h.consistent = (out.heard.consistent /\ l \in s.heard.open
                              /\ \A e \in s.heard.members \ {gone} : e[1] # l)
    BY <1>3, <2>2 DEF HeardTypes
  <2>4. k = [out EXCEPT !.heard = h]
    BY <1>13, <2>1, <2>2, Zenon DEF Closed, Hears
  <2>5. /\ k \in ServerTypes /\ k.connections = out.connections /\ k.lobby = out.lobby
        /\ k.lastLobby = out.lastLobby /\ k.heard = h
    BY <1>13, <2>3, <2>4, Reheard
  <2>6. t = [k EXCEPT !.lobby = NoLobby]
    BY <1>14, <1>17, <2>1, Zenon DEF Emptied
  <2>7. NoLobby \in [id : Nat, password : Passwords \cup {0}, members : Seq(Connections)]
    BY DEF NoLobby
  <2>8. /\ t \in ServerTypes /\ t.connections = k.connections /\ t.lobby = NoLobby
        /\ t.lastLobby = k.lastLobby /\ t.heard = k.heard
    BY <2>5, <2>6, <2>7 DEF ServerTypes
  <2>9. \A d : d \notin Range(rest)
    BY <1>17 DEF Range
  <2>10. t.connections[c] = y /\ \A d \in Connections : d # c => t.connections[d] = s.connections[d]
    BY <1>9, <1>13, <2>5, <2>8
  <2>11. t.heard.consistent =
             (/\ s.heard.consistent /\ gone \in s.heard.members
              /\ l \in s.heard.open /\ \A e \in s.heard.members \ {gone} : e[1] # l)
    BY <1>13, <2>3, <2>5, <2>8
  <2>. QED
    BY <1>1, <1>5, <1>13, <1>17, <2>3, <2>5, <2>8, <2>9, <2>10, <2>11 DEF Leaves
<1>18. Leaves(s, c, t, l, rest, gone, m)
  BY <1>16, <1>17
<1>. QED
  BY <1>1, <1>2, <1>15, <1>18, Zenon

\* The others of a lobby that a member has left.
LEMMA OthersLeft ==
    ASSUME NEW s \in ServerTypes, Tied(s), NEW c \in Range(s.lobby.members), NEW d \in Range(s.lobby.members),
           c # d, NEW rest, Range(rest) = Range(s.lobby.members) \ {c}
    PROVE  Others(rest, d) = Others(s.lobby.members, d) \ {IdentityOf[c]}
<1>1. \A e \in Range(s.lobby.members) : e # c => IdentityOf[e] # IdentityOf[c]
  BY OneMember
<1>2. Others(rest, d) \subseteq Others(s.lobby.members, d) \ {IdentityOf[c]}
  BY <1>1 DEF Others
<1>3. Others(s.lobby.members, d) \ {IdentityOf[c]} \subseteq Others(rest, d)
  BY DEF Others
<1>. QED
  BY <1>2, <1>3

\* A member that is ending leaves its lobby.
LEMMA LeaveKeeps ==
    ASSUME NEW s, NEW r, NEW asks, NEW active, NEW table \in SUBSET Connections,
           Consistent(s, r, asks, active, table), Erased(s), NEW c \in Connections,
           Silent(s.connections[c])
    PROVE  LET t == LeaveLobby(s, c) IN
           /\ Consistent(t, r, asks, active, table) /\ Erased(t) /\ t \in ServerTypes
           /\ t.lastLobby = s.lastLobby /\ t.lobby.id \in {0, s.lobby.id}
           /\ Passing(s, t)
           /\ t.connections[c].lobby = 0 /\ t.connections[c].closing = s.connections[c].closing
           /\ \A d \in Connections : d # c => t.connections[d].lobby = s.connections[d].lobby
           /\ \A d \in Connections : d # c /\ s.connections[d].lobby = 0 =>
                 t.connections[d] = s.connections[d]
<1>1. /\ s \in ServerTypes /\ r \in ReaderTypes /\ asks \in [Connections -> Seq(Messages)]
      /\ Tied(s) /\ Heard(s) /\ Alone(s.connections, active) /\ AllSound(s, r, asks)
      /\ \A d \in table : s.connections[d].stage # "none"
  BY DEF Consistent
<1>2. PICK t : t = LeaveLobby(s, c)
  OBVIOUS
<1>3. \A d \in Connections : s.connections[d] \in ConnectionTypes
  BY <1>1, ServerFields
<1>4. CASE s.connections[c].lobby = 0
  <2>1. t = s
    BY <1>2, <1>4 DEF LeaveLobby
  <2>2. Passing(s, t)
    BY <2>1 DEF Passing
  <2>3. /\ t \in ServerTypes /\ t.lastLobby = s.lastLobby /\ t.lobby.id \in {0, s.lobby.id}
        /\ t.connections[c].lobby = 0 /\ t.connections[c].closing = s.connections[c].closing
        /\ \A d \in Connections : d # c => t.connections[d].lobby = s.connections[d].lobby
        /\ \A d \in Connections : d # c /\ s.connections[d].lobby = 0 =>
              t.connections[d] = s.connections[d]
    BY <1>1, <1>4, <2>1
  <2>. QED
    BY <1>2, <2>1, <2>2, <2>3
<1>5. CASE s.connections[c].lobby # 0
  <2>1. PICK l, members, rest, id, x, y :
          /\ l = s.lobby.id /\ members = s.lobby.members /\ rest = Without(s.lobby.members, c)
          /\ id = IdentityOf[c] /\ x = s.connections[c] /\ y = [s.connections[c] EXCEPT !.lobby = 0]
    OBVIOUS
  <2>2. PICK gone, m : gone = <<l, id>> /\ m = About("member left", id)
    OBVIOUS
  <2>3. /\ t \in ServerTypes /\ t.lastLobby = s.lastLobby /\ t.connections[c] = y
        /\ \A d \in Connections : d # c =>
              t.connections[d] = IF d \in Range(rest) THEN Sent(s.connections[d], m)
                                 ELSE s.connections[d]
        /\ rest # <<>> => t.lobby.id = l /\ t.lobby.members = rest /\ t.heard.open = s.heard.open
        /\ rest = <<>> => t.lobby = NoLobby /\ t.heard.open = s.heard.open \ {l}
        /\ t.heard.members = s.heard.members \ {gone}
        /\ t.heard.consistent =
              (/\ s.heard.consistent /\ gone \in s.heard.members
               /\ rest = <<>> => l \in s.heard.open /\ \A e \in s.heard.members \ {gone} : e[1] # l)
    <3>1. s \in ServerTypes /\ s.connections[c].lobby # 0
      BY <1>1, <1>5
    <3>2. Leaves(s, c, t, l, rest, gone, m)
      BY <1>2, <2>1, <2>2, <3>1, LeftIs, Zenon
    <3>. QED
      BY <2>1, <3>2 DEF Leaves
  <2>4. /\ members \in Seq(Connections) /\ rest \in Seq(Connections)
        /\ Range(rest) = Range(members) \ {c}
    BY <1>1, <2>1, ServerFields, RangeWithout
  <2>5. /\ c \in Range(members) /\ x.lobby = l /\ x.stage = "ready" /\ l # 0 /\ Silent(x)
    BY <1>1, <1>5, <2>1 DEF Tied
  <2>6. /\ x \in ConnectionTypes /\ y \in ConnectionTypes /\ y.stage = x.stage /\ y.lobby = 0
        /\ y.closing = x.closing /\ y.dead = x.dead /\ y.output = x.output
    BY <1>3, <2>1 DEF ConnectionTypes
  <2>7. Silent(y)
    BY <2>5, <2>6 DEF Silent
  <2>8. m \in Messages /\ m.kind = "member left" /\ m.what = id
    <3>1. id \in Identities
      BY <2>1 DEF Identities
    <3>. QED
      BY <2>2, <3>1, MessagesMade
  <2>9. rest = <<>> => Range(rest) = {}
    BY DEF Range
  <2>10. \A d \in Connections : d # c =>
            /\ t.connections[d].stage = s.connections[d].stage
            /\ t.connections[d].lobby = s.connections[d].lobby
            /\ t.connections[d].closing = s.connections[d].closing
            /\ s.connections[d].dead => t.connections[d].dead
            /\ d \notin Range(members) => t.connections[d] = s.connections[d]
    <3>1. SUFFICES ASSUME NEW d \in Connections, d # c
                   PROVE  /\ t.connections[d].stage = s.connections[d].stage
                          /\ t.connections[d].lobby = s.connections[d].lobby
                          /\ t.connections[d].closing = s.connections[d].closing
                          /\ s.connections[d].dead => t.connections[d].dead
                          /\ d \notin Range(members) => t.connections[d] = s.connections[d]
      OBVIOUS
    <3>2. PICK v : v = s.connections[d]
      OBVIOUS
    <3>3. /\ v \in ConnectionTypes
          /\ t.connections[d] = IF d \in Range(rest) THEN Sent(v, m) ELSE v
      BY <1>3, <2>3, <3>1, <3>2
    <3>4. /\ Sent(v, m).stage = v.stage /\ Sent(v, m).lobby = v.lobby
          /\ Sent(v, m).closing = v.closing /\ (v.dead => Sent(v, m).dead)
      BY <2>8, <3>3, SentIs
    <3>5. d \notin Range(members) => d \notin Range(rest)
      BY <2>4
    <3>. QED
      BY <3>2, <3>3, <3>4, <3>5
  <2>11. Passing(s, t)
    BY <2>1, <2>3, <2>6, <2>10 DEF Passing
  <2>12. \A d \in Connections : s.connections[d].lobby # 0 <=> d \in Range(members)
    BY <1>1, <2>1 DEF Tied
  <2>13. Tied(t)
    <3>1. rest # <<>> => t.lobby.members = rest
      BY <2>3
    <3>2. rest = <<>> => t.lobby.members = rest
      BY <2>3 DEF NoLobby
    <3>3. t.lobby.members = rest
      BY <3>1, <3>2
    <3>4. \A i, j \in DOMAIN rest : IdentityOf[rest[i]] = IdentityOf[rest[j]] => i = j
      <4>1. \A i, j \in DOMAIN members : IdentityOf[members[i]] = IdentityOf[members[j]] => i = j
        BY <1>1, <2>1 DEF Tied
      <4>. QED
        BY <2>1, <2>4, <4>1, DistinctWithout
    <3>5. \A d \in Connections : t.connections[d].lobby # 0 <=> d \in Range(rest)
      BY <2>3, <2>4, <2>6, <2>10, <2>12
    <3>6. ASSUME NEW d \in Connections, t.connections[d].lobby # 0
          PROVE  t.connections[d].lobby = t.lobby.id /\ t.connections[d].stage = "ready"
      <4>1. d \in Range(rest) /\ d # c /\ s.connections[d].lobby # 0
        BY <2>4, <2>12, <3>5, <3>6
      <4>2. t.lobby.id = l
        BY <2>3, <2>9, <4>1
      <4>3. s.connections[d].lobby = l /\ s.connections[d].stage = "ready"
        BY <1>1, <2>1, <4>1 DEF Tied
      <4>. QED
        BY <2>10, <4>1, <4>2, <4>3
    <3>. QED
      BY <3>3, <3>4, <3>5, <3>6 DEF Tied
  <2>14. t.lobby.members = rest
    BY <2>3 DEF NoLobby
  <2>15. Erased(t)
    BY <2>3, <2>14 DEF Erased
  <2>16. /\ s.heard.consistent /\ s.heard.open = {l}
         /\ s.heard.members = {<<l, IdentityOf[d]>> : d \in Range(members)}
    BY <1>1, <2>1, <2>5 DEF Heard
  <2>17. \A d \in Range(members) : IdentityOf[d] = id => d = c
    BY <1>1, <2>1, <2>5, OneMember
  <2>18. t.heard.members = {<<l, IdentityOf[d]>> : d \in Range(rest)}
    <3>1. {<<l, IdentityOf[d]>> : d \in Range(members)} \ {gone}
             = {<<l, IdentityOf[d]>> : d \in Range(members) \ {c}}
      <4>1. ASSUME NEW d \in Range(members), <<l, IdentityOf[d]>> # gone
            PROVE  d \in Range(members) \ {c}
        BY <2>1, <2>2, <4>1
      <4>2. ASSUME NEW d \in Range(members) \ {c} PROVE <<l, IdentityOf[d]>> # gone
        <5>1. IdentityOf[d] # id
          BY <2>17
        <5>. QED
          BY <2>2, <5>1
      <4>. QED
        BY <4>1, <4>2
    <3>. QED
      BY <2>3, <2>4, <2>16, <3>1
  <2>19. Heard(t)
    <3>1. gone \in s.heard.members
      BY <2>1, <2>2, <2>5, <2>16
    <3>2. CASE rest # <<>>
      <4>1. t.heard.consistent
        BY <2>3, <2>16, <3>1, <3>2
      <4>2. t.heard.open = {l} /\ t.lobby.id = l
        BY <2>3, <2>16, <3>2
      <4>3. t.heard.members = {<<t.lobby.id, IdentityOf[d]>> : d \in Range(t.lobby.members)}
        BY <2>14, <2>18, <4>2
      <4>. QED
        BY <2>5, <4>1, <4>2, <4>3 DEF Heard
    <3>3. CASE rest = <<>>
      <4>1. t.heard.members = {}
        BY <2>9, <2>18, <3>3
      <4>2. t.heard.consistent
        BY <2>3, <2>16, <3>1, <3>3, <4>1
      <4>3. t.heard.open = {} /\ t.lobby = NoLobby
        BY <2>3, <2>16, <3>3
      <4>4. t.lobby.id = 0 /\ t.lobby.members = <<>>
        BY <4>3 DEF NoLobby
      <4>5. {<<0, IdentityOf[d]>> : d \in Range(<<>>)} = {}
        BY DEF Range
      <4>. QED
        BY <4>1, <4>2, <4>3, <4>4, <4>5 DEF Heard
    <3>. QED
      BY <3>2, <3>3
  <2>20. Alone(t.connections, active)
    BY <1>1, <2>11, PassingAlone
  <2>21. AllSound(t, r, asks)
    <3>1. SUFFICES ASSUME NEW d \in Connections
                   PROVE  Sound(IdentityOf[d], r.link[d], r.state[d], r.peers[d], r.joined[d],
                                r.inbox[d], asks[d], t.connections[d], t.lobby.id,
                                Others(t.lobby.members, d), s.lastLobby)
      BY <2>3 DEF AllSound
    <3>2. PICK i, lk, st, known, j, tc, q, v, others, last :
            /\ i = IdentityOf[d] /\ lk = r.link[d] /\ st = r.state[d] /\ known = r.peers[d]
            /\ j = r.joined[d] /\ tc = r.inbox[d] /\ q = asks[d] /\ v = s.connections[d]
            /\ others = Others(members, d) /\ last = s.lastLobby
      OBVIOUS
    <3>3. /\ lk \in Links /\ st \in States /\ known \in Seq(Identities) /\ j \in Nat
          /\ tc \in Seq(Messages) /\ q \in Seq(Messages) /\ v \in ConnectionTypes /\ last \in Nat
          /\ Sound(i, lk, st, known, j, tc, q, v, l, others, last)
      BY <2>1, <3>2, SoundOf
    <3>4. PICK others2, k : others2 = Others(t.lobby.members, d) /\ k = t.lobby.id
      OBVIOUS
    <3>5. CASE d = c
      <4>1. PICK g : g = Plain("goodbye")
        OBVIOUS
      <4>2. g \in Messages /\ g.kind = "goodbye"
        BY <4>1, MessagesMade
      <4>3. v = x /\ v.stage # "none" /\ y.stage # "none" /\ y.output = v.output
        BY <2>1, <2>5, <2>6, <3>2, <3>5
      <4>4. Sound(i, lk, st, known, j, tc, q, y, k, others2, last)
        BY <2>6, <2>7, <3>3, <4>2, <4>3, SoundEnding
      <4>. QED
        BY <2>3, <3>2, <3>4, <3>5, <4>4
    <3>6. CASE d \in Range(rest)
      <4>1. d \in Range(members) /\ d # c
        BY <2>4, <3>6
      <4>2. v.lobby # 0 /\ v.stage # "none"
        BY <1>1, <2>1, <3>2, <4>1 DEF Tied
      <4>3. others2 = others \ {id}
        BY <1>1, <2>1, <2>4, <2>5, <2>14, <3>2, <3>4, <4>1, OthersLeft, ZenonT(60)
      <4>4. Tells(i, l, others, others2, m)
        BY <2>8, <4>3 DEF Tells
      <4>5. Sound(i, lk, st, known, j, tc, q, Sent(v, m), l, others2, last)
        BY <2>8, <3>3, <4>2, <4>4, SoundNews
      <4>6. k = l
        BY <2>3, <2>9, <3>4, <3>6
      <4>. QED
        BY <2>3, <3>2, <3>4, <3>6, <4>1, <4>5, <4>6
    <3>7. CASE d # c /\ d \notin Range(rest)
      <4>1. v.lobby = 0
        BY <2>4, <2>12, <3>2, <3>7
      <4>2. last <= last
        BY <3>3
      <4>3. Sound(i, lk, st, known, j, tc, q, v, k, others2, last)
        BY <3>3, <4>1, <4>2, SoundKept
      <4>. QED
        BY <2>3, <3>2, <3>4, <3>7, <4>3
    <3>. QED
      BY <3>5, <3>6, <3>7
  <2>22. \A d \in table : t.connections[d].stage # "none"
    BY <1>1, <2>11 DEF Passing
  <2>23. Consistent(t, r, asks, active, table)
    BY <1>1, <2>3, <2>13, <2>19, <2>20, <2>21, <2>22, Zenon DEF Consistent
  <2>24. t.lobby.id \in {0, s.lobby.id}
    BY <2>1, <2>3 DEF NoLobby
  <2>25. /\ t.connections[c].lobby = 0 /\ t.connections[c].closing = s.connections[c].closing
         /\ \A d \in Connections : d # c => t.connections[d].lobby = s.connections[d].lobby
         /\ \A d \in Connections : d # c /\ s.connections[d].lobby = 0 =>
               t.connections[d] = s.connections[d]
    BY <2>1, <2>3, <2>6, <2>10, <2>12
  <2>. QED
    BY <1>2, <2>3, <2>11, <2>15, <2>23, <2>24, <2>25
<1>. QED
  BY <1>4, <1>5

\* The server after each eviction.
LEMMA EvictionsIs ==
    ASSUME NEW s, NEW ds, Len(ds) \in Nat
    PROVE  /\ Evictions(s, ds)[0] = s
           /\ \A i \in 1..Len(ds) : Evictions(s, ds)[i] = Evict(Evictions(s, ds)[i - 1], ds[i])
<1>. DEFINE n == Len(ds)
            Made(f, m) == f = [i \in 0..m |-> IF i = 0 THEN s ELSE Evict(f[i - 1], ds[i])]
            H == {m \in 0..n : \E f : Made(f, m)}
<1>1. 0 \in H
  <2>1. Made([i \in 0..0 |-> s], 0)
    OBVIOUS
  <2>2. 0 \in 0..n
    OBVIOUS
  <2>. QED
    BY <2>1, <2>2
<1>2. ASSUME NEW m \in 1..n, m - 1 \in H PROVE m \in H
  <2>1. PICK f : Made(f, m - 1)
    BY <1>2
  <2>2. PICK g : g = [i \in 0..m |-> IF i = m THEN Evict(f[m - 1], ds[m]) ELSE f[i]]
    OBVIOUS
  <2>3. \A i \in 0..(m - 1) : f[i] = IF i = 0 THEN s ELSE Evict(f[i - 1], ds[i])
    BY <2>1
  <2>4. \A i \in 0..m : i = m \/ i \in 0..(m - 1)
    OBVIOUS
  <2>5. \A i \in 0..(m - 1) : g[i] = f[i]
    BY <2>2
  <2>6. \A i \in 1..m : i - 1 \in 0..(m - 1)
    OBVIOUS
  <2>7. g[m] = Evict(g[m - 1], ds[m])
    BY <2>2, <2>5, <2>6
  <2>8. ASSUME NEW i \in 0..m PROVE g[i] = IF i = 0 THEN s ELSE Evict(g[i - 1], ds[i])
    <3>1. CASE i = m
      BY <2>7, <3>1
    <3>2. CASE i \in 0..(m - 1)
      <4>1. i # 0 => i - 1 \in 0..(m - 1)
        BY <3>2
      <4>. QED
        BY <2>3, <2>5, <3>2, <4>1
    <3>. QED
      BY <2>4, <3>1, <3>2
  <2>9. Made(g, m)
    BY <2>2, <2>8
  <2>. QED
    BY <2>9
<1>3. n \in Nat /\ n \in 0..n
  OBVIOUS
<1>. HIDE DEF n, H
<1>4. n \in H
  BY <1>1, <1>2, <1>3, StepByStep
<1>5. PICK f : Made(f, n)
  BY <1>4 DEF H
<1>6. Evictions(s, ds) = CHOOSE g : Made(g, n)
  BY DEF Evictions, n
<1>7. Made(Evictions(s, ds), n)
  BY <1>5, <1>6
<1>8. \A i \in 1..n : i \in 0..n /\ i # 0
  BY <1>3
<1>9. 0 \in 0..n
  BY <1>3
<1>. QED
  BY <1>7, <1>8, <1>9 DEF n

\* The server after each message of a connection.
LEMMA HandlingsIs ==
    ASSUME NEW s, NEW c, NEW q, Len(q) \in Nat
    PROVE  /\ Handlings(s, c, q)[0] = s
           /\ \A i \in 1..Len(q) : Handlings(s, c, q)[i] = HandleMessage(Handlings(s, c, q)[i - 1], c, q[i])
<1>. DEFINE n == Len(q)
            Made(f, m) == f = [i \in 0..m |-> IF i = 0 THEN s ELSE HandleMessage(f[i - 1], c, q[i])]
            H == {m \in 0..n : \E f : Made(f, m)}
<1>1. 0 \in H
  <2>1. Made([i \in 0..0 |-> s], 0)
    OBVIOUS
  <2>2. 0 \in 0..n
    OBVIOUS
  <2>. QED
    BY <2>1, <2>2
<1>2. ASSUME NEW m \in 1..n, m - 1 \in H PROVE m \in H
  <2>1. PICK f : Made(f, m - 1)
    BY <1>2
  <2>2. PICK g : g = [i \in 0..m |-> IF i = m THEN HandleMessage(f[m - 1], c, q[m]) ELSE f[i]]
    OBVIOUS
  <2>3. \A i \in 0..(m - 1) : f[i] = IF i = 0 THEN s ELSE HandleMessage(f[i - 1], c, q[i])
    BY <2>1
  <2>4. \A i \in 0..m : i = m \/ i \in 0..(m - 1)
    OBVIOUS
  <2>5. \A i \in 0..(m - 1) : g[i] = f[i]
    BY <2>2
  <2>6. \A i \in 1..m : i - 1 \in 0..(m - 1)
    OBVIOUS
  <2>7. g[m] = HandleMessage(g[m - 1], c, q[m])
    BY <2>2, <2>5, <2>6
  <2>8. ASSUME NEW i \in 0..m PROVE g[i] = IF i = 0 THEN s ELSE HandleMessage(g[i - 1], c, q[i])
    <3>1. CASE i = m
      BY <2>7, <3>1
    <3>2. CASE i \in 0..(m - 1)
      <4>1. i # 0 => i - 1 \in 0..(m - 1)
        BY <3>2
      <4>. QED
        BY <2>3, <2>5, <3>2, <4>1
    <3>. QED
      BY <2>4, <3>1, <3>2
  <2>9. Made(g, m)
    BY <2>2, <2>8
  <2>. QED
    BY <2>9
<1>3. n \in Nat /\ n \in 0..n
  OBVIOUS
<1>. HIDE DEF n, H
<1>4. n \in H
  BY <1>1, <1>2, <1>3, StepByStep
<1>5. PICK f : Made(f, n)
  BY <1>4 DEF H
<1>6. Handlings(s, c, q) = CHOOSE g : Made(g, n)
  BY DEF Handlings, n
<1>7. Made(Handlings(s, c, q), n)
  BY <1>5, <1>6
<1>8. \A i \in 1..n : i \in 0..n /\ i # 0
  BY <1>3
<1>9. 0 \in 0..n
  BY <1>3
<1>. QED
  BY <1>7, <1>8, <1>9 DEF n

\* The server after each message of the host.
LEMMA RelaysIs ==
    ASSUME NEW s, NEW ls, Len(ls) \in Nat
    PROVE  /\ Relays(s, ls)[0] = s
           /\ \A i \in 1..Len(ls) : Relays(s, ls)[i] = Relay(Relays(s, ls)[i - 1], ls[i])
<1>. DEFINE n == Len(ls)
            Made(f, m) == f = [i \in 0..m |-> IF i = 0 THEN s ELSE Relay(f[i - 1], ls[i])]
            H == {m \in 0..n : \E f : Made(f, m)}
<1>1. 0 \in H
  <2>1. Made([i \in 0..0 |-> s], 0)
    OBVIOUS
  <2>2. 0 \in 0..n
    OBVIOUS
  <2>. QED
    BY <2>1, <2>2
<1>2. ASSUME NEW m \in 1..n, m - 1 \in H PROVE m \in H
  <2>1. PICK f : Made(f, m - 1)
    BY <1>2
  <2>2. PICK g : g = [i \in 0..m |-> IF i = m THEN Relay(f[m - 1], ls[m]) ELSE f[i]]
    OBVIOUS
  <2>3. \A i \in 0..(m - 1) : f[i] = IF i = 0 THEN s ELSE Relay(f[i - 1], ls[i])
    BY <2>1
  <2>4. \A i \in 0..m : i = m \/ i \in 0..(m - 1)
    OBVIOUS
  <2>5. \A i \in 0..(m - 1) : g[i] = f[i]
    BY <2>2
  <2>6. \A i \in 1..m : i - 1 \in 0..(m - 1)
    OBVIOUS
  <2>7. g[m] = Relay(g[m - 1], ls[m])
    BY <2>2, <2>5, <2>6
  <2>8. ASSUME NEW i \in 0..m PROVE g[i] = IF i = 0 THEN s ELSE Relay(g[i - 1], ls[i])
    <3>1. CASE i = m
      BY <2>7, <3>1
    <3>2. CASE i \in 0..(m - 1)
      <4>1. i # 0 => i - 1 \in 0..(m - 1)
        BY <3>2
      <4>. QED
        BY <2>3, <2>5, <3>2, <4>1
    <3>. QED
      BY <2>4, <3>1, <3>2
  <2>9. Made(g, m)
    BY <2>2, <2>8
  <2>. QED
    BY <2>9
<1>3. n \in Nat /\ n \in 0..n
  OBVIOUS
<1>. HIDE DEF n, H
<1>4. n \in H
  BY <1>1, <1>2, <1>3, StepByStep
<1>5. PICK f : Made(f, n)
  BY <1>4 DEF H
<1>6. Relays(s, ls) = CHOOSE g : Made(g, n)
  BY DEF Relays, n
<1>7. Made(Relays(s, ls), n)
  BY <1>5, <1>6
<1>8. \A i \in 1..n : i \in 0..n /\ i # 0
  BY <1>3
<1>9. 0 \in 0..n
  BY <1>3
<1>. QED
  BY <1>7, <1>8, <1>9 DEF n

\* A connection of an identity that connects again is ended.
LEMMA EvictKeeps ==
    ASSUME NEW s, NEW r, NEW asks, NEW active, NEW table \in SUBSET Connections,
           ServerInv(s, r, asks, active, table), NEW d \in Connections,
           s.connections[d].stage # "none"
    PROVE  /\ ServerInv(Evict(s, d), r, asks, active, table)
           /\ Evict(s, d).lastLobby = s.lastLobby
           /\ Passing(s, Evict(s, d))
           /\ Evict(s, d).connections[d].lobby = 0 /\ Evict(s, d).connections[d].closing
           /\ \A e \in Connections : e # d /\ s.connections[e].lobby = 0 =>
                 Evict(s, d).connections[e] = s.connections[e]
<1>1. Consistent(s, r, asks, active, table) /\ Erased(s) /\ Counted(s, r.link)
  BY DEF ServerInv
<1>2. PICK u, t : u = Goodbye(s, d) /\ t = LeaveLobby(u, d)
  OBVIOUS
<1>3. /\ Consistent(u, r, asks, active, table) /\ Erased(u) /\ Counted(u, r.link)
      /\ Quieter(s, u) /\ u.connections[d].closing /\ Silent(u.connections[d])
      /\ \A e \in Connections : e # d => u.connections[e] = s.connections[e]
  BY <1>1, <1>2, GoodbyeKeeps
<1>4. /\ Consistent(t, r, asks, active, table) /\ Erased(t) /\ t \in ServerTypes
      /\ t.lastLobby = u.lastLobby /\ t.lobby.id \in {0, u.lobby.id}
      /\ Passing(u, t)
      /\ t.connections[d].lobby = 0 /\ t.connections[d].closing = u.connections[d].closing
      /\ \A e \in Connections : e # d => t.connections[e].lobby = u.connections[e].lobby
      /\ \A e \in Connections : e # d /\ u.connections[e].lobby = 0 =>
            t.connections[e] = u.connections[e]
  <2>1. Consistent(u, r, asks, active, table) /\ Erased(u) /\ Silent(u.connections[d])
    BY <1>3
  <2>. QED
    BY <1>2, <2>1, LeaveKeeps
<1>5. Counted(t, r.link)
  <2>1. Users(u.connections, r.link) \subseteq Users(t.connections, r.link)
    BY <1>3, <1>4 DEF Users, Passing
  <2>2. u \in ServerTypes
    BY <1>3 DEF Consistent
  <2>. QED
    BY <1>3, <1>4, <2>1, <2>2, CountedKept
<1>6. ServerInv(t, r, asks, active, table)
  BY <1>4, <1>5 DEF ServerInv
<1>7. Passing(s, t)
  BY <1>3, <1>4 DEF Passing, Quieter
<1>8. /\ t.connections[d].lobby = 0 /\ t.connections[d].closing
      /\ \A e \in Connections : e # d /\ s.connections[e].lobby = 0 =>
            t.connections[e] = s.connections[e]
  BY <1>3, <1>4
<1>9. t.lastLobby = s.lastLobby
  BY <1>3, <1>4 DEF Quieter
<1>10. Evict(s, d) = t
  BY <1>2 DEF Evict
<1>. QED
  BY <1>6, <1>7, <1>8, <1>9, <1>10

\* The connections of ds are ended, one after the other, for the connection c.
LEMMA EvictionsKeep ==
    ASSUME NEW s, NEW r, NEW asks, NEW active, NEW table \in SUBSET Connections,
           ServerInv(s, r, asks, active, table), NEW ds \in Seq(Connections), NEW c \in Connections,
           s.connections[c].lobby = 0,
           \A i \in 1..Len(ds) : s.connections[ds[i]].stage # "none" /\ ds[i] # c
    PROVE  /\ ServerInv(Evictions(s, ds)[Len(ds)], r, asks, active, table)
           /\ Evictions(s, ds)[Len(ds)].lastLobby = s.lastLobby
           /\ Passing(s, Evictions(s, ds)[Len(ds)])
           /\ Evictions(s, ds)[Len(ds)].connections[c] = s.connections[c]
           /\ \A i \in 1..Len(ds) : /\ Evictions(s, ds)[Len(ds)].connections[ds[i]].lobby = 0
                                    /\ Evictions(s, ds)[Len(ds)].connections[ds[i]].closing
<1>. DEFINE E == Evictions(s, ds)
            Held(t, i) == /\ ServerInv(t, r, asks, active, table)
                          /\ t.lastLobby = s.lastLobby
                          /\ Passing(s, t)
                          /\ t.connections[c] = s.connections[c]
                          /\ \A j \in 1..i : /\ t.connections[ds[j]].lobby = 0
                                             /\ t.connections[ds[j]].closing
            H == {i \in 0..Len(ds) : Held(E[i], i)}
<1>1. Len(ds) \in Nat /\ \A i \in 1..Len(ds) : ds[i] \in Connections
  OBVIOUS
<1>2. E[0] = s /\ \A i \in 1..Len(ds) : E[i] = Evict(E[i - 1], ds[i])
  BY <1>1, EvictionsIs
<1>3. 0 \in H
  <2>1. Passing(s, s)
    BY DEF Passing
  <2>2. 0 \in 0..Len(ds) /\ \A j \in 1..0 : FALSE
    BY <1>1
  <2>3. Held(s, 0)
    BY <2>1, <2>2
  <2>. QED
    BY <1>2, <2>2, <2>3
<1>4. ASSUME NEW i \in 1..Len(ds), i - 1 \in H PROVE i \in H
  <2>1. PICK u, d : u = E[i - 1] /\ d = ds[i]
    OBVIOUS
  <2>2. Held(u, i - 1)
    BY <1>4, <2>1
  <2>3. d \in Connections /\ s.connections[d].stage # "none" /\ d # c
    BY <1>1, <1>4, <2>1
  <2>4. u.connections[d].stage # "none"
    BY <2>2, <2>3 DEF Passing
  <2>5. PICK t : t = Evict(u, d)
    OBVIOUS
  <2>6. ServerInv(u, r, asks, active, table)
    BY <2>2
  <2>7. /\ ServerInv(t, r, asks, active, table)
        /\ t.lastLobby = u.lastLobby
        /\ Passing(u, t)
        /\ t.connections[d].lobby = 0 /\ t.connections[d].closing
        /\ \A e \in Connections : e # d /\ u.connections[e].lobby = 0 =>
              t.connections[e] = u.connections[e]
    BY <2>3, <2>4, <2>5, <2>6, EvictKeeps
  <2>8. Passing(s, t)
    BY <2>2, <2>7 DEF Passing
  <2>9. t.connections[c] = s.connections[c]
    BY <2>2, <2>3, <2>7
  <2>10. ASSUME NEW j \in 1..i
         PROVE  t.connections[ds[j]].lobby = 0 /\ t.connections[ds[j]].closing
    <3>1. j = i \/ j \in 1..(i - 1)
      BY <1>1, <1>4
    <3>2. CASE j = i
      BY <2>1, <2>7, <3>2
    <3>3. CASE j \in 1..(i - 1)
      <4>1. u.connections[ds[j]].lobby = 0 /\ u.connections[ds[j]].closing
        BY <2>2, <3>3
      <4>2. ds[j] \in Connections
        BY <1>1, <1>4, <3>3
      <4>. QED
        BY <2>7, <4>1, <4>2 DEF Passing
    <3>. QED
      BY <3>1, <3>2, <3>3
  <2>11. Held(t, i)
    BY <2>2, <2>7, <2>8, <2>9, <2>10
  <2>12. E[i] = t
    BY <1>2, <1>4, <2>1, <2>5
  <2>13. i \in 0..Len(ds)
    BY <1>1, <1>4
  <2>. QED
    BY <2>11, <2>12, <2>13
<1>5. Len(ds) \in 0..Len(ds)
  BY <1>1
<1>. HIDE DEF H
<1>6. Len(ds) \in H
  BY <1>1, <1>3, <1>4, <1>5, StepByStep
<1>. QED
  BY <1>6 DEF H

\* A client that asks, and is not in the lobby, has asked once.
LEMMA AskedOnce ==
    ASSUME NEW id, NEW lk \in Links, NEW st \in States, NEW known \in Seq(Identities), NEW l \in Nat,
           NEW tc \in Seq(Messages), NEW q \in Seq(Messages), NEW x \in ConnectionTypes,
           NEW lobbyId, NEW others, NEW last \in Nat,
           Sound(id, lk, st, known, l, tc, q, x, lobbyId, others, last),
           ~Silent(x), x.stage # "none", x.lobby = 0, Len(q) > 0
    PROVE  /\ Len(q) = 1 /\ Accepted(lk, st)
<1>1. PICK w : w = tc \o x.output
  OBVIOUS
<1>2. /\ w \in Seq(Messages) /\ Flow(id, lk, st, known, l, q, x, w, lobbyId, others, last)
      /\ Accepted(lk, st)
  BY <1>1, SoundParts
<1>3. lk # "server closed"
  BY <1>2 DEF Accepted
<1>4. Speaks(lk, st, known, l, q, x, w, lobbyId, others)
  BY <1>2 DEF Flow
<1>5. Len(w) + Len(q) <= 1
  BY <1>3, <1>4 DEF Speaks
<1>6. PICK a \in Nat, k \in Nat : a = Len(w) /\ k = Len(q)
  BY <1>2
<1>7. k = 1
  BY <1>5, <1>6
<1>. QED
  BY <1>2, <1>6, <1>7

LEMMA AskedFor ==
    ASSUME NEW id, NEW lk \in Links, NEW st \in States, NEW known \in Seq(Identities), NEW l \in Nat,
           NEW tc \in Seq(Messages), NEW q \in Seq(Messages), NEW x \in ConnectionTypes,
           NEW lobbyId, NEW others, NEW last \in Nat,
           Sound(id, lk, st, known, l, tc, q, x, lobbyId, others, last),
           ~Silent(x), x.stage # "none", x.lobby = 0, Len(q) > 0, lk = "open"
    PROVE  q[1].kind = Asked(st) /\ x.stage \in StagesOf(st, TRUE)
<1>1. PICK w : w = tc \o x.output
  OBVIOUS
<1>2. Flow(id, lk, st, known, l, q, x, w, lobbyId, others, last)
  BY <1>1 DEF Sound
<1>3. Converses(st, x, q, w)
  BY <1>2 DEF Flow, Speaks
<1>4. Len(q) = 1
  BY AskedOnce, Zenon
<1>5. 1 \in DOMAIN q
  <2>1. DOMAIN q = 1..Len(q)
    OBVIOUS
  <2>2. 1 \in 1..1
    OBVIOUS
  <2>. QED
    BY <1>4, <2>1, <2>2, Zenon
<1>6. q[1].kind = Asked(st) /\ x.stage \in StagesOf(st, Len(q) > 0)
  BY <1>3, <1>5 DEF Converses
<1>7. StagesOf(st, Len(q) > 0) = StagesOf(st, TRUE)
  <2>1. Len(q) > 0
    OBVIOUS
  <2>. QED
    BY <2>1 DEF StagesOf
<1>. QED
  BY <1>6, <1>7

\* How a connection of the stage answers a message of the kind.
Replies(stage, kind, answer, stage2) ==
    \/ stage = "hello" /\ answer = "keys" /\ stage2 = "identity"
    \/ stage = "identity" /\ answer = "welcome" /\ stage2 = "ready"
    \/ stage = "ready" /\ kind = "query" /\ answer = "info" /\ stage2 = "ready"
    \/ stage = "ready" /\ kind \in {"create", "join"} /\ answer \in {"refused", "joined"} /\ stage2 = "ready"

LEMMA AnswersIt ==
    ASSUME NEW st \in States, NEW stage, NEW kind, NEW answer, NEW stage2,
           stage \in StagesOf(st, TRUE), kind = Asked(st), Replies(stage, kind, answer, stage2)
    PROVE  answer \in Answers(st) /\ answer \notin News /\ stage2 \in StagesOf(st, FALSE)
<1>1. CASE stage = "hello" /\ answer = "keys" /\ stage2 = "identity"
  <2>1. st = "keys"
    BY <1>1 DEF StagesOf
  <2>. QED
    BY <1>1, <2>1 DEF StagesOf, Answers, News
<1>2. CASE stage = "identity" /\ answer = "welcome" /\ stage2 = "ready"
  <2>1. st = "welcome"
    BY <1>2 DEF StagesOf
  <2>. QED
    BY <1>2, <2>1 DEF StagesOf, Answers, News
<1>3. CASE stage = "ready" /\ kind = "query" /\ answer = "info" /\ stage2 = "ready"
  <2>1. st = "info"
    BY <1>3 DEF Asked, States, Waits
  <2>. QED
    BY <1>3, <2>1 DEF StagesOf, Answers, News
<1>4. CASE /\ stage = "ready" /\ kind \in {"create", "join"} /\ answer \in {"refused", "joined"}
           /\ stage2 = "ready"
  <2>1. st \in {"created", "listed"}
    BY <1>4 DEF Asked, States, Waits
  <2>. QED
    BY <1>4, <2>1 DEF StagesOf, Answers, News
<1>. QED
  BY <1>1, <1>2, <1>3, <1>4 DEF Replies

\* The connection x becomes y when it answers m.
LEMMA SoundReplied ==
    ASSUME NEW id, NEW lk \in Links, NEW st \in States, NEW known \in Seq(Identities), NEW l \in Nat,
           NEW tc \in Seq(Messages), NEW q \in Seq(Messages), NEW x \in ConnectionTypes,
           NEW lobbyId, NEW others, NEW last \in Nat,
           Sound(id, lk, st, known, l, tc, q, x, lobbyId, others, last),
           NEW y \in ConnectionTypes, NEW lobbyId2, NEW others2, NEW last2 \in Nat, NEW m \in Messages,
           ~Silent(x), x.stage # "none", x.lobby = 0, Len(q) > 0,
           y.output = Append(x.output, m),
           Replies(x.stage, q[1].kind, m.kind, y.stage), Fits(id, known, m),
           y.lobby # 0 <=> m.kind = "joined",
           Admits(lobbyId2, others2, last2, m),
           last <= last2
    PROVE  Sound(id, lk, st, known, l, tc, Tail(q), y, lobbyId2, others2, last2)
<1>1. lk = "open" => q[1].kind = Asked(st) /\ x.stage \in StagesOf(st, TRUE)
  BY AskedFor
<1>2. Awaited(id, lk, st, known, y, m)
  <2>1. SUFFICES ASSUME lk = "open"
                 PROVE  /\ m.kind \in Answers(st) \ News /\ Fits(id, known, m)
                        /\ y.stage \in StagesOf(st, FALSE)
    BY DEF Awaited
  <2>. QED
    BY <1>1, <2>1, AnswersIt
<1>3. m.kind \notin {"goodbye"} \cup News /\ y.stage # "none"
  BY DEF Replies, News
<1>. QED
  BY <1>2, <1>3, SoundAnswered

\* The rest of what is under way to the server when c has been heard.
LEMMA LeftToHear ==
    ASSUME NEW asks \in [Connections -> Seq(Messages)], NEW c \in Connections, Len(asks[c]) > 0
    PROVE  /\ [asks EXCEPT ![c] = Tail(@)] \in [Connections -> Seq(Messages)]
           /\ [asks EXCEPT ![c] = Tail(@)][c] = Tail(asks[c])
           /\ \A d \in Connections : d # c => [asks EXCEPT ![c] = Tail(@)][d] = asks[d]
<1>1. PICK q \in Seq(Messages) : q = asks[c]
  OBVIOUS
<1>2. Tail(q) \in Seq(Messages)
  BY <1>1
<1>. QED
  BY <1>1, <1>2

\* A client that is not in the lobby is answered, and remains outside.
LEMMA AnswerKeeps ==
    ASSUME NEW s, NEW r, NEW asks, NEW active, NEW table \in SUBSET Connections,
           ServerInv(s, r, asks, active, table), NEW c \in Connections, Len(asks[c]) > 0,
           ~Silent(s.connections[c]), s.connections[c].stage # "none", s.connections[c].lobby = 0,
           NEW t \in ServerTypes, t.lobby = s.lobby, t.lastLobby = s.lastLobby, t.heard = s.heard,
           \A d \in Connections : d # c => t.connections[d] = s.connections[d],
           NEW m \in Messages, m.kind # "joined",
           t.connections[c].output = Append(s.connections[c].output, m),
           t.connections[c].lobby = 0,
           Replies(s.connections[c].stage, asks[c][1].kind, m.kind, t.connections[c].stage),
           NEW active2, Alone(t.connections, active2)
    PROVE  ServerInv(t, r, [asks EXCEPT ![c] = Tail(@)], active2, table)
<1>1. /\ s \in ServerTypes /\ r \in ReaderTypes /\ asks \in [Connections -> Seq(Messages)]
      /\ Tied(s) /\ Heard(s) /\ Erased(s) /\ Counted(s, r.link)
      /\ \A d \in table : s.connections[d].stage # "none"
      /\ Consistent(s, r, asks, active, table)
  BY DEF ServerInv, Consistent
<1>2. PICK left : left = [asks EXCEPT ![c] = Tail(@)]
  OBVIOUS
<1>3. /\ left \in [Connections -> Seq(Messages)] /\ left[c] = Tail(asks[c])
      /\ \A d \in Connections : d # c => left[d] = asks[d]
  BY <1>1, <1>2, LeftToHear
<1>4. PICK x, y : x = s.connections[c] /\ y = t.connections[c]
  OBVIOUS
<1>5. x \in ConnectionTypes /\ y \in ConnectionTypes
  BY <1>1, <1>4, ServerFields
<1>6. y.stage # "none" /\ (x.stage = "ready" => y.stage = "ready")
  BY <1>4 DEF Replies
<1>7. Tied(t)
  <2>1. \A d \in Connections : t.connections[d].lobby = s.connections[d].lobby
    OBVIOUS
  <2>2. \A d \in Connections : s.connections[d].stage = "ready" => t.connections[d].stage = "ready"
    BY <1>4, <1>6
  <2>. QED
    BY <1>1, <2>1, <2>2, ZenonT(60) DEF Tied
<1>8. Heard(t)
  BY <1>1, HeardKept
<1>9. Erased(t)
  BY <1>1 DEF Erased
<1>10. Counted(t, r.link)
  <2>1. ~x.closing
    BY <1>4 DEF Silent
  <2>2. Users(s.connections, r.link) \subseteq Users(t.connections, r.link)
    BY <1>4, <2>1 DEF Users
  <2>. QED
    BY <1>1, <2>2, CountedKept
<1>11. \A d \in table : t.connections[d].stage # "none"
  BY <1>1, <1>4, <1>6
<1>12. AllSound(t, r, left)
  <2>1. SUFFICES ASSUME NEW d \in Connections
                 PROVE  Sound(IdentityOf[d], r.link[d], r.state[d], r.peers[d], r.joined[d],
                              r.inbox[d], left[d], t.connections[d], s.lobby.id,
                              Others(s.lobby.members, d), s.lastLobby)
    BY DEF AllSound
  <2>2. CASE d # c
    BY <1>1, <1>3, <2>2, SoundOf
  <2>3. CASE d = c
    <3>1. PICK id, lk, st, known, l, tc, q, others, last :
            /\ id = IdentityOf[d] /\ lk = r.link[d] /\ st = r.state[d] /\ known = r.peers[d]
            /\ l = r.joined[d] /\ tc = r.inbox[d] /\ q = asks[d]
            /\ others = Others(s.lobby.members, d) /\ last = s.lastLobby
      OBVIOUS
    <3>2. /\ lk \in Links /\ st \in States /\ known \in Seq(Identities) /\ l \in Nat
          /\ tc \in Seq(Messages) /\ q \in Seq(Messages) /\ last \in Nat
          /\ Sound(id, lk, st, known, l, tc, q, x, s.lobby.id, others, last)
      BY <1>1, <1>4, <2>3, <3>1, SoundOf
    <3>3. /\ ~Silent(x) /\ x.stage # "none" /\ x.lobby = 0 /\ Len(q) > 0
          /\ y.output = Append(x.output, m) /\ Replies(x.stage, q[1].kind, m.kind, y.stage)
          /\ (y.lobby # 0 <=> m.kind = "joined")
      BY <1>4, <2>3, <3>1
    <3>4. Admits(s.lobby.id, others, last, m)
      BY DEF Admits
    <3>5. Fits(id, known, m)
      BY <3>3 DEF Fits, Replies
    <3>6. last <= last
      BY <3>2
    <3>7. Sound(id, lk, st, known, l, tc, Tail(q), y, s.lobby.id, others, last)
      BY <1>5, <3>2, <3>3, <3>4, <3>5, <3>6, SoundReplied
    <3>. QED
      BY <1>3, <1>4, <2>3, <3>1, <3>7
  <2>. QED
    BY <2>2, <2>3
<1>13. Consistent(t, r, left, active2, table)
  BY <1>1, <1>3, <1>7, <1>8, <1>11, <1>12, Zenon DEF Consistent
<1>. QED
  BY <1>2, <1>9, <1>10, <1>13 DEF ServerInv

\* The server t that is s with one member more, c: it is told jm, the members old are told m.
Enters(s, c, t, l, old, jm, m) ==
    /\ t \in ServerTypes /\ t.lastLobby = s.lastLobby
    /\ t.lobby.id = l /\ t.lobby.members = Append(old, c)
    /\ t.connections[c] = [Sent(s.connections[c], jm) EXCEPT !.lobby = l]
    /\ \A d \in Connections : d # c =>
          t.connections[d] = IF d \in Range(old) THEN Sent(s.connections[d], m)
                             ELSE s.connections[d]
    /\ t.heard.open = s.heard.open
    /\ t.heard.members = s.heard.members \cup {<<l, IdentityOf[c]>>}
    /\ t.heard.consistent =
          (s.heard.consistent /\ l \in s.heard.open /\ <<l, IdentityOf[c]>> \notin s.heard.members)

LEMMA EnteredIs ==
    ASSUME NEW s \in ServerTypes, NEW c \in Connections, c \notin Range(s.lobby.members),
           NEW jm \in Messages,
           jm = [kind |-> "joined", members |-> Roster(s.lobby.members), lobby |-> s.lobby.id]
    PROVE  Enters(s, c, EnterLobby(s, c), s.lobby.id, s.lobby.members, jm,
                  About("member joined", IdentityOf[c]))
<1>1. PICK l, old, id, x : /\ l = s.lobby.id /\ old = s.lobby.members
                           /\ id = IdentityOf[c] /\ x = s.connections[c]
  OBVIOUS
<1>2. PICK gone, m : gone = <<l, id>> /\ m = About("member joined", id)
  OBVIOUS
<1>3. /\ l \in Nat /\ id \in Identities /\ x \in ConnectionTypes /\ old \in Seq(Connections)
      /\ s.heard \in [open : SUBSET Nat, members : SUBSET (Nat \X Identities), consistent : BOOLEAN]
      /\ Append(old, c) \in Seq(Connections)
  <2>1. old \in Seq(Connections)
    BY <1>1, ServerFields
  <2>2. Append(old, c) \in Seq(Connections)
    BY <2>1
  <2>. QED
    BY <1>1, <2>1, <2>2, ServerFields DEF Identities
<1>4. m \in Messages
  <2>1. id \in Identities
    BY <1>3
  <2>. QED
    BY <1>2, <2>1, MessagesMade
<1>5. PICK listed : listed = SendAll(s, {c}, jm)
  OBVIOUS
<1>6. /\ listed \in ServerTypes /\ listed.lobby = s.lobby /\ listed.lastLobby = s.lastLobby
      /\ listed.heard = s.heard /\ listed.connections[c] = Sent(x, jm)
      /\ \A d \in Connections : d # c => listed.connections[d] = s.connections[d]
  BY <1>1, <1>5, SendAllIs
<1>7. PICK told : told = SendAll(listed, Range(old), m)
  OBVIOUS
<1>8. /\ told \in ServerTypes /\ told.lobby = s.lobby /\ told.lastLobby = s.lastLobby
      /\ told.heard = s.heard /\ told.connections[c] = Sent(x, jm)
      /\ \A d \in Connections : d # c =>
            told.connections[d] = IF d \in Range(old) THEN Sent(s.connections[d], m)
                                  ELSE s.connections[d]
  <2>1. /\ told \in ServerTypes /\ told.lobby = listed.lobby /\ told.lastLobby = listed.lastLobby
        /\ told.heard = listed.heard
        /\ \A d \in Connections : told.connections[d] =
              IF d \in Range(old) THEN Sent(listed.connections[d], m) ELSE listed.connections[d]
    BY <1>4, <1>6, <1>7, SendAllIs
  <2>2. c \notin Range(old)
    BY <1>1
  <2>. QED
    BY <1>6, <2>1, <2>2
<1>9. PICK y, b : y = [Sent(x, jm) EXCEPT !.lobby = l] /\ b = [s.lobby EXCEPT !.members = Append(old, c)]
  OBVIOUS
<1>10. y \in ConnectionTypes
  <2>1. PICK v : v = Sent(x, jm)
    OBVIOUS
  <2>2. v \in ConnectionTypes
    BY <1>3, <2>1, SentIs
  <2>3. [v EXCEPT !.lobby = l] \in ConnectionTypes
    BY <1>3, <2>2 DEF ConnectionTypes
  <2>. QED
    BY <1>9, <2>1, <2>3
<1>11. /\ b \in [id : Nat, password : Passwords \cup {0}, members : Seq(Connections)]
       /\ b.id = l /\ b.members = Append(old, c)
  <2>1. s.lobby \in [id : Nat, password : Passwords \cup {0}, members : Seq(Connections)]
    BY ServerFields
  <2>2. PICK o \in Seq(Connections) : o = Append(old, c)
    BY <1>3
  <2>3. b = [s.lobby EXCEPT !.members = o]
    BY <1>9, <2>2
  <2>. QED
    BY <1>1, <2>1, <2>2, <2>3
<1>12. PICK C : C = [told.connections EXCEPT ![c] = y]
  OBVIOUS
<1>13. /\ C \in [Connections -> ConnectionTypes] /\ C[c] = y
       /\ \A d \in Connections : d # c => C[d] = told.connections[d]
  BY <1>8, <1>10, <1>12, ServerFields
<1>14. PICK u : u = [told EXCEPT !.connections = C, !.lobby = b]
  OBVIOUS
<1>15. /\ u \in ServerTypes /\ u.connections = C /\ u.lobby = b /\ u.lastLobby = s.lastLobby
       /\ u.heard = s.heard
  BY <1>8, <1>11, <1>13, <1>14 DEF ServerTypes
<1>16. PICK h : h = [open |-> s.heard.open, members |-> s.heard.members \cup {gone},
                     consistent |-> s.heard.consistent
                                       /\ (l \in s.heard.open /\ gone \notin s.heard.members)]
  OBVIOUS
<1>17. /\ h \in HeardTypes /\ h.open = s.heard.open /\ h.members = s.heard.members \cup {gone}
       /\ h.consistent = (s.heard.consistent /\ l \in s.heard.open /\ gone \notin s.heard.members)
  <2>1. gone \in Nat \X Identities
    BY <1>2, <1>3
  <2>. QED
    BY <1>3, <1>16, <2>1 DEF HeardTypes
<1>18. PICK t : t = [u EXCEPT !.heard = h]
  OBVIOUS
<1>19. /\ t \in ServerTypes /\ t.connections = C /\ t.lobby = b
       /\ t.lastLobby = s.lastLobby /\ t.heard = h
  BY <1>15, <1>17, <1>18, Reheard
<1>20. EnterLobby(s, c) = t
  <2>1. u = [told EXCEPT !.lobby.members = Append(old, c), !.connections[c].lobby = l]
    <3>1. told.lobby = s.lobby /\ told.connections[c] = Sent(x, jm) /\ told \in ServerTypes
      BY <1>8
    <3>. QED
      BY <1>9, <1>12, <1>14, <3>1 DEF ServerTypes
  <2>2. t = MemberJoined(u, l, id)
    BY <1>2, <1>15, <1>16, <1>18, Zenon DEF MemberJoined, Hears
  <2>3. told = TellJoined(listed, old, c)
    BY <1>1, <1>2, <1>7, Zenon DEF TellJoined
  <2>4. listed = Send(s, c, jm)
    BY <1>5 DEF Send
  <2>. QED
    BY <1>1, <2>1, <2>2, <2>3, <2>4, Zenon DEF EnterLobby
<1>21. Enters(s, c, t, l, old, jm, m)
  <2>1. /\ t.connections[c] = [Sent(s.connections[c], jm) EXCEPT !.lobby = l]
        /\ \A d \in Connections : d # c =>
              t.connections[d] = IF d \in Range(old) THEN Sent(s.connections[d], m)
                                 ELSE s.connections[d]
    BY <1>1, <1>8, <1>9, <1>13, <1>19
  <2>2. /\ t.heard.open = s.heard.open
        /\ t.heard.members = s.heard.members \cup {<<l, IdentityOf[c]>>}
        /\ t.heard.consistent =
              (s.heard.consistent /\ l \in s.heard.open /\ <<l, IdentityOf[c]>> \notin s.heard.members)
    BY <1>1, <1>2, <1>17, <1>19, Zenon
  <2>. QED
    BY <1>11, <1>19, <2>1, <2>2, Zenon DEF Enters
<1>. QED
  BY <1>1, <1>2, <1>20, <1>21, Zenon

\* A connection that is not ending, and is still to be heard, shares its identity with no member.
LEMMA Newcomer ==
    ASSUME NEW s \in ServerTypes, NEW active, Tied(s), Alone(s.connections, active),
           NEW c \in Connections, c \in active, ~Silent(s.connections[c]),
           s.connections[c].stage = "ready", s.connections[c].lobby = 0
    PROVE  /\ c \notin Range(s.lobby.members)
           /\ \A d \in Range(s.lobby.members) : d \in Connections /\ IdentityOf[d] # IdentityOf[c]
<1>1. c \notin Range(s.lobby.members)
  BY DEF Tied
<1>2. s.lobby.members \in Seq(Connections)
  BY ServerFields
<1>3. Range(s.lobby.members) \subseteq Connections
  <2>1. \A o \in Seq(Connections) : \A i \in DOMAIN o : o[i] \in Connections
    OBVIOUS
  <2>. QED
    BY <1>2, <2>1 DEF Range
<1>4. ASSUME NEW d \in Range(s.lobby.members), IdentityOf[d] = IdentityOf[c] PROVE FALSE
  <2>1. d \in Connections /\ d # c /\ s.connections[d].lobby # 0
    BY <1>1, <1>3 DEF Tied
  <2>2. c \notin active
    BY <1>4, <2>1 DEF Alone
  <2>. QED
    BY <2>2
<1>. QED
  BY <1>1, <1>3, <1>4

\* What a newcomer is told, and what the others of its lobby will then know.
LEMMA RosterIs ==
    ASSUME NEW old \in Seq(Connections), NEW c \in Connections, c \notin Range(old),
           \A i, j \in DOMAIN old : IdentityOf[old[i]] = IdentityOf[old[j]] => i = j,
           \A d \in Range(old) : d \in Connections /\ IdentityOf[d] # IdentityOf[c]
    PROVE  /\ Roster(old) \in Seq(Identities)
           /\ IsInjective(Roster(old))
           /\ Range(Roster(old)) = {IdentityOf[d] : d \in Range(old)}
           /\ IdentityOf[c] \notin Range(Roster(old))
           /\ Range(Append(old, c)) = Range(old) \cup {c}
           /\ Others(Append(old, c), c) = Range(Roster(old))
           /\ \A d \in Range(old) :
                 /\ Others(Append(old, c), d) = Others(old, d) \cup {IdentityOf[c]}
                 /\ IdentityOf[c] \notin Others(old, d) \cup {IdentityOf[d]}
<1>3. DOMAIN old = 1..Len(old) /\ Len(old) \in Nat /\ \A i \in 1..Len(old) : old[i] \in Connections
  OBVIOUS
<1>4. PICK ids : ids = Roster(old)
  OBVIOUS
<1>5. ids = [i \in 1..Len(old) |-> IdentityOf[old[i]]]
  BY <1>3, <1>4 DEF Roster
<1>6. ids \in Seq(Identities)
  <2>1. \A i \in 1..Len(old) : IdentityOf[old[i]] \in Identities
    BY <1>3 DEF Identities
  <2>. QED
    BY <1>3, <1>5, <2>1
<1>7. DOMAIN ids = 1..Len(old) /\ \A i \in 1..Len(old) : ids[i] = IdentityOf[old[i]]
  BY <1>5
<1>8. IsInjective(ids)
  BY <1>3, <1>7 DEF IsInjective
<1>9. Range(ids) = {IdentityOf[d] : d \in Range(old)}
  BY <1>3, <1>7 DEF Range
<1>10. IdentityOf[c] \notin Range(ids)
  BY <1>9
<1>11. PICK new : new = Append(old, c)
  OBVIOUS
<1>12. Range(new) = Range(old) \cup {c}
  BY <1>11, RangeAppended
<1>13. Others(new, c) = Range(ids)
  <2>1. Range(new) \ {c} = Range(old)
    BY <1>12
  <2>. QED
    BY <1>9, <2>1 DEF Others
<1>14. ASSUME NEW d \in Range(old)
       PROVE  /\ Others(new, d) = Others(old, d) \cup {IdentityOf[c]}
              /\ IdentityOf[c] \notin Others(old, d) \cup {IdentityOf[d]}
  <2>1. Range(new) \ {d} = (Range(old) \ {d}) \cup {c}
    BY <1>12
  <2>2. Others(new, d) = Others(old, d) \cup {IdentityOf[c]}
    BY <2>1 DEF Others
  <2>3. IdentityOf[c] \notin Others(old, d) \cup {IdentityOf[d]}
    BY DEF Others
  <2>. QED
    BY <2>2, <2>3
<1>. QED
  BY <1>4, <1>6, <1>8, <1>9, <1>10, <1>11, <1>12, <1>13, <1>14

\* A connection enters the lobby.
LEMMA EnterKeeps ==
    ASSUME NEW s, NEW r, NEW asks, NEW active, NEW table \in SUBSET Connections,
           Consistent(s, r, asks, active, table), NEW c \in Connections, Len(asks[c]) > 0,
           c \in active, ~Silent(s.connections[c]), s.connections[c].stage = "ready",
           s.connections[c].lobby = 0, asks[c][1].kind \in {"create", "join"},
           s.lobby.id \in 1..Cardinality(Connections), s.lobby.id <= s.lastLobby,
           NEW active2 \in SUBSET active
    PROVE  /\ Consistent(EnterLobby(s, c), r, [asks EXCEPT ![c] = Tail(@)], active2, table)
           /\ Erased(EnterLobby(s, c))
           /\ EnterLobby(s, c).lastLobby = s.lastLobby /\ EnterLobby(s, c).lobby.id = s.lobby.id
           /\ EnterLobby(s, c).connections[c].lobby # 0
           /\ \A links : Users(s.connections, links) \subseteq Users(EnterLobby(s, c).connections, links)
<1>1. /\ s \in ServerTypes /\ r \in ReaderTypes /\ asks \in [Connections -> Seq(Messages)]
      /\ Tied(s) /\ Heard(s) /\ Alone(s.connections, active)
      /\ \A d \in table : s.connections[d].stage # "none"
  BY DEF Consistent
<1>2. PICK left : left = [asks EXCEPT ![c] = Tail(@)]
  OBVIOUS
<1>3. /\ left \in [Connections -> Seq(Messages)] /\ left[c] = Tail(asks[c])
      /\ \A d \in Connections : d # c => left[d] = asks[d]
  BY <1>1, <1>2, LeftToHear
<1>4. PICK l, old, id, x : /\ l = s.lobby.id /\ old = s.lobby.members
                           /\ id = IdentityOf[c] /\ x = s.connections[c]
  OBVIOUS
<1>5. /\ c \notin Range(old)
      /\ \A d \in Range(old) : d \in Connections /\ IdentityOf[d] # id
  BY <1>1, <1>4, Newcomer
<1>6. PICK new, ids : new = Append(old, c) /\ ids = Roster(old)
  OBVIOUS
<1>7. /\ ids \in Seq(Identities) /\ IsInjective(ids)
      /\ Range(ids) = {IdentityOf[d] : d \in Range(old)}
      /\ id \notin Range(ids) /\ Range(new) = Range(old) \cup {c}
      /\ Others(new, c) = Range(ids)
      /\ \A d \in Range(old) : /\ Others(new, d) = Others(old, d) \cup {id}
                               /\ id \notin Others(old, d) \cup {IdentityOf[d]}
  <2>1. old \in Seq(Connections)
    BY <1>1, <1>4, ServerFields
  <2>2. \A i, j \in DOMAIN old : IdentityOf[old[i]] = IdentityOf[old[j]] => i = j
    BY <1>1, <1>4 DEF Tied
  <2>3. /\ c \notin Range(old)
        /\ \A d \in Range(old) : d \in Connections /\ IdentityOf[d] # IdentityOf[c]
    BY <1>4, <1>5
  <2>4. /\ Roster(old) \in Seq(Identities) /\ IsInjective(Roster(old))
        /\ Range(Roster(old)) = {IdentityOf[d] : d \in Range(old)}
        /\ IdentityOf[c] \notin Range(Roster(old))
        /\ Range(Append(old, c)) = Range(old) \cup {c}
        /\ Others(Append(old, c), c) = Range(Roster(old))
        /\ \A d \in Range(old) :
              /\ Others(Append(old, c), d) = Others(old, d) \cup {IdentityOf[c]}
              /\ IdentityOf[c] \notin Others(old, d) \cup {IdentityOf[d]}
    BY <2>1, <2>2, <2>3, RosterIs
  <2>. QED
    BY <1>4, <1>6, <2>4
<1>8. PICK jm, m : /\ jm = [kind |-> "joined", members |-> ids, lobby |-> l]
                   /\ m = About("member joined", id)
  OBVIOUS
<1>9. /\ jm \in Messages /\ jm.kind = "joined" /\ jm.members = ids /\ jm.lobby = l
  <2>1. jm \in [kind : {"joined"}, members : Seq(Identities), lobby : 1..Cardinality(Connections)]
    BY <1>4, <1>7, <1>8
  <2>2. jm \in Messages
    BY <2>1, MessageKinds
  <2>. QED
    BY <1>8, <2>2
<1>10. m \in Messages /\ m.kind = "member joined" /\ m.what = id
  <2>1. id \in Identities
    BY <1>4 DEF Identities
  <2>. QED
    BY <1>8, <2>1, MessagesMade, ZenonT(60)
<1>11. PICK t : t = EnterLobby(s, c)
  OBVIOUS
<1>12. Enters(s, c, t, l, old, jm, m)
  BY <1>1, <1>4, <1>5, <1>6, <1>8, <1>9, <1>11, EnteredIs
<1>13. PICK y : y = t.connections[c]
  OBVIOUS
<1>14. x \in ConnectionTypes /\ s.lastLobby \in Nat
  BY <1>1, <1>4, ServerFields
<1>15. /\ ~(Len(x.output) > MaxPendingOutput)
  <2>1. PICK lk, st, known, j, tc, q, others, last :
          /\ lk = r.link[c] /\ st = r.state[c] /\ known = r.peers[c]
          /\ j = r.joined[c] /\ tc = r.inbox[c] /\ q = asks[c]
          /\ others = Others(s.lobby.members, c) /\ last = s.lastLobby
    OBVIOUS
  <2>2. /\ lk \in Links /\ st \in States /\ known \in Seq(Identities) /\ j \in Nat
        /\ tc \in Seq(Messages) /\ q \in Seq(Messages) /\ last \in Nat
        /\ Sound(id, lk, st, known, j, tc, q, x, l, others, last)
    BY <1>4, <2>1, SoundOf
  <2>3. ~Silent(x) /\ x.stage # "none" /\ x.lobby = 0 /\ Len(q) > 0
    BY <1>4, <2>1
  <2>. QED
    BY <1>14, <2>2, <2>3, RoomForAnswer
<1>16. /\ y \in ConnectionTypes /\ y.stage = "ready" /\ y.lobby = l /\ ~y.closing
       /\ y.output = Append(x.output, jm)
  <2>1. PICK v : v = Sent(x, jm)
    OBVIOUS
  <2>2. /\ v \in ConnectionTypes /\ v.stage = x.stage /\ v.closing = x.closing
        /\ v.output = Append(x.output, jm)
    BY <1>4, <1>9, <1>14, <1>15, <2>1, SentIs
  <2>3. y = [v EXCEPT !.lobby = l]
    BY <1>4, <1>12, <1>13, <2>1 DEF Enters
  <2>4. /\ y \in ConnectionTypes /\ y.stage = v.stage /\ y.lobby = l /\ y.closing = v.closing
        /\ y.output = v.output
    <3>1. l \in Nat
      BY <1>1, <1>4, ServerFields
    <3>. QED
      BY <2>2, <2>3, <3>1 DEF ConnectionTypes
  <2>5. x.stage = "ready" /\ ~x.closing
    BY <1>4 DEF Silent
  <2>. QED
    BY <2>2, <2>4, <2>5
<1>17. \A d \in Connections : d # c =>
          /\ t.connections[d].stage = s.connections[d].stage
          /\ t.connections[d].lobby = s.connections[d].lobby
          /\ t.connections[d].closing = s.connections[d].closing
          /\ s.connections[d].dead => t.connections[d].dead
  <2>1. SUFFICES ASSUME NEW d \in Connections, d # c
                 PROVE  /\ t.connections[d].stage = s.connections[d].stage
                        /\ t.connections[d].lobby = s.connections[d].lobby
                        /\ t.connections[d].closing = s.connections[d].closing
                        /\ s.connections[d].dead => t.connections[d].dead
    OBVIOUS
  <2>2. PICK v : v = s.connections[d]
    OBVIOUS
  <2>3. v \in ConnectionTypes
    BY <1>1, <2>2, ServerFields
  <2>4. t.connections[d] = IF d \in Range(old) THEN Sent(v, m) ELSE v
    BY <1>12, <2>1, <2>2 DEF Enters
  <2>5. /\ Sent(v, m).stage = v.stage /\ Sent(v, m).lobby = v.lobby
        /\ Sent(v, m).closing = v.closing /\ (v.dead => Sent(v, m).dead)
    BY <1>10, <2>3, SentIs
  <2>. QED
    BY <2>2, <2>4, <2>5
<1>18. /\ t \in ServerTypes /\ t.lastLobby = s.lastLobby /\ t.lobby.id = l /\ t.lobby.members = new
  BY <1>6, <1>12 DEF Enters
<1>19. l # 0 /\ l \in Nat
  <2>1. \A e \in 1..Cardinality(Connections) : e # 0 /\ e \in Nat
    OBVIOUS
  <2>. QED
    BY <1>4, <2>1
<1>20. \A d \in Connections : s.connections[d].lobby # 0 <=> d \in Range(old)
  BY <1>1, <1>4 DEF Tied
<1>21. Tied(t)
  <2>1. ASSUME NEW i \in DOMAIN new, NEW j \in DOMAIN new, IdentityOf[new[i]] = IdentityOf[new[j]]
        PROVE  i = j
    <3>1. old \in Seq(Connections)
      BY <1>1, <1>4, ServerFields
    <3>2. /\ DOMAIN new = 1..(Len(old) + 1) /\ new[Len(old) + 1] = c
          /\ \A k \in 1..Len(old) : new[k] = old[k]
      BY <1>6, <3>1, RangeAppended
    <3>3. PICK n \in Nat : n = Len(old)
      BY <3>1
    <3>4. DOMAIN old = 1..n
      BY <3>1, <3>3
    <3>5. \A k \in 1..n : IdentityOf[new[k]] # id
      <4>1. \A k \in 1..n : old[k] \in Range(old)
        BY <3>4 DEF Range
      <4>. QED
        BY <1>5, <3>2, <3>3, <4>1
    <3>6. \A k \in 1..(n + 1) : k \in 1..n \/ k = n + 1
      OBVIOUS
    <3>7. i \in 1..(n + 1) /\ j \in 1..(n + 1) /\ new[n + 1] = c
      BY <2>1, <3>2, <3>3
    <3>8. \A a, b \in DOMAIN old : IdentityOf[old[a]] = IdentityOf[old[b]] => a = b
      BY <1>1, <1>4 DEF Tied
    <3>9. CASE i \in 1..n /\ j \in 1..n
      BY <2>1, <3>2, <3>3, <3>4, <3>8, <3>9
    <3>10. CASE i = n + 1 /\ j = n + 1
      BY <3>10
    <3>11. CASE (i \in 1..n /\ j = n + 1) \/ (i = n + 1 /\ j \in 1..n)
      BY <1>4, <2>1, <3>5, <3>7, <3>11
    <3>. QED
      BY <3>6, <3>7, <3>9, <3>10, <3>11
  <2>2. ASSUME NEW d \in Connections PROVE t.connections[d].lobby # 0 <=> d \in Range(new)
    BY <1>7, <1>13, <1>16, <1>17, <1>19, <1>20
  <2>3. ASSUME NEW d \in Connections, t.connections[d].lobby # 0
        PROVE  t.connections[d].lobby = l /\ t.connections[d].stage = "ready"
    <3>1. CASE d = c
      BY <1>13, <1>16, <3>1
    <3>2. CASE d # c
      BY <1>1, <1>4, <1>17, <2>3, <3>2 DEF Tied
    <3>. QED
      BY <3>1, <3>2
  <2>. QED
    BY <1>18, <2>1, <2>2, <2>3, Zenon DEF Tied
<1>22. Heard(t)
  <2>1. /\ s.heard.consistent /\ s.heard.open = {l}
        /\ s.heard.members = {<<l, IdentityOf[d]>> : d \in Range(old)}
    BY <1>1, <1>4, <1>19 DEF Heard
  <2>2. <<l, id>> \notin s.heard.members
    <3>1. \A d \in Range(old) : <<l, IdentityOf[d]>> # <<l, id>>
      BY <1>5
    <3>. QED
      BY <2>1, <3>1
  <2>3. l \in s.heard.open
    BY <2>1
  <2>4. t.heard.consistent
    BY <1>4, <1>12, <2>1, <2>2, <2>3, Zenon DEF Enters
  <2>5. t.heard.open = {l} /\ t.heard.members = s.heard.members \cup {<<l, id>>}
    BY <1>4, <1>12, <2>1 DEF Enters
  <2>6. t.heard.members = {<<l, IdentityOf[d]>> : d \in Range(new)}
    BY <1>4, <1>7, <2>1, <2>5
  <2>. QED
    BY <1>18, <1>19, <2>4, <2>5, <2>6 DEF Heard
<1>23. Alone(t.connections, active2)
  <2>1. SUFFICES ASSUME NEW e \in Connections, NEW d \in Connections, e # d,
                        IdentityOf[e] = IdentityOf[d], t.connections[e].stage = "ready",
                        ~Silent(t.connections[e])
                 PROVE  /\ t.connections[d].stage = "ready" => Silent(t.connections[d])
                        /\ t.connections[d].lobby # 0 => t.connections[d].dead /\ e \notin active2
    BY DEF Alone
  <2>2. \A f \in Connections : Silent(s.connections[f]) => Silent(t.connections[f])
    <3>1. ASSUME NEW f \in Connections, f # c, Silent(s.connections[f])
          PROVE  Silent(t.connections[f])
      BY <1>17, <3>1 DEF Silent
    <3>. QED
      BY <3>1
  <2>3. s.connections[e].stage = "ready" /\ ~Silent(s.connections[e])
    <3>1. CASE e = c
      BY <3>1
    <3>2. CASE e # c
      BY <1>17, <2>1, <2>2, <3>2
    <3>. QED
      BY <3>1, <3>2
  <2>4. /\ s.connections[d].stage = "ready" => Silent(s.connections[d])
        /\ s.connections[d].lobby # 0 => s.connections[d].dead /\ e \notin active
    BY <1>1, <2>1, <2>3 DEF Alone
  <2>5. d # c
    BY <2>4
  <2>. QED
    BY <1>17, <2>2, <2>4, <2>5
<1>24. \A d \in table : t.connections[d].stage # "none"
  BY <1>1, <1>13, <1>16, <1>17
<1>25. AllSound(t, r, left)
  <2>1. SUFFICES ASSUME NEW d \in Connections
                 PROVE  Sound(IdentityOf[d], r.link[d], r.state[d], r.peers[d], r.joined[d],
                              r.inbox[d], left[d], t.connections[d], l,
                              Others(new, d), s.lastLobby)
    BY <1>18 DEF AllSound
  <2>2. PICK i, lk, st, known, j, tc, q, v, others, last :
          /\ i = IdentityOf[d] /\ lk = r.link[d] /\ st = r.state[d] /\ known = r.peers[d]
          /\ j = r.joined[d] /\ tc = r.inbox[d] /\ q = asks[d] /\ v = s.connections[d]
          /\ others = Others(old, d) /\ last = s.lastLobby
    OBVIOUS
  <2>3. /\ lk \in Links /\ st \in States /\ known \in Seq(Identities) /\ j \in Nat
        /\ tc \in Seq(Messages) /\ q \in Seq(Messages) /\ v \in ConnectionTypes /\ last \in Nat
        /\ Sound(i, lk, st, known, j, tc, q, v, l, others, last)
    BY <1>4, <2>2, SoundOf
  <2>4. PICK others2 : others2 = Others(new, d)
    OBVIOUS
  <2>5. last <= last
    BY <2>3
  <2>6. CASE d = c
    <3>1. /\ ~Silent(v) /\ v.stage = "ready" /\ v.lobby = 0 /\ Len(q) > 0
          /\ q[1].kind \in {"create", "join"} /\ v = x /\ i = id
      BY <1>4, <2>2, <2>6
    <3>2. Replies(v.stage, q[1].kind, jm.kind, y.stage)
      BY <1>9, <1>16, <3>1 DEF Replies
    <3>3. Fits(i, known, jm)
      BY <1>7, <1>9, <3>1 DEF Fits
    <3>4. Admits(l, others2, last, jm)
      BY <1>4, <1>7, <1>9, <2>2, <2>4, <2>6 DEF Admits
    <3>5. y.lobby # 0 <=> jm.kind = "joined"
      BY <1>9, <1>16, <1>19
    <3>6. v.stage # "none" /\ y.output = Append(v.output, jm)
      BY <1>16, <3>1
    <3>7. Sound(i, lk, st, known, j, tc, Tail(q), y, l, others2, last)
      BY <1>9, <1>16, <2>3, <2>5, <3>1, <3>2, <3>3, <3>4, <3>5, <3>6, SoundReplied
    <3>. QED
      BY <1>3, <1>13, <2>2, <2>4, <2>6, <3>7
  <2>7. CASE d \in Range(old)
    <3>1. d # c /\ left[d] = asks[d] /\ t.connections[d] = Sent(v, m)
      BY <1>3, <1>5, <1>12, <2>2, <2>7 DEF Enters
    <3>2. v.lobby # 0 /\ v.stage # "none"
      BY <1>1, <1>20, <2>2, <2>7 DEF Tied
    <3>3. Tells(i, l, others, others2, m)
      BY <1>7, <1>10, <2>2, <2>4, <2>7 DEF Tells
    <3>4. Sound(i, lk, st, known, j, tc, q, Sent(v, m), l, others2, last)
      BY <1>10, <2>3, <3>2, <3>3, SoundNews
    <3>. QED
      BY <2>2, <2>4, <3>1, <3>4
  <2>8. CASE d # c /\ d \notin Range(old)
    <3>1. left[d] = asks[d] /\ t.connections[d] = v /\ v.lobby = 0
      BY <1>3, <1>12, <1>20, <2>2, <2>8 DEF Enters
    <3>2. Sound(i, lk, st, known, j, tc, q, v, l, others2, last)
      BY <2>3, <2>5, <3>1, SoundKept
    <3>. QED
      BY <2>2, <2>4, <3>1, <3>2
  <2>. QED
    BY <2>6, <2>7, <2>8
<1>26. Consistent(t, r, left, active2, table)
  BY <1>1, <1>3, <1>18, <1>21, <1>22, <1>23, <1>24, <1>25, Zenon DEF Consistent
<1>27. Erased(t)
  <2>1. \A o : Range(o) # {} => o # <<>>
    BY DEF Range
  <2>. QED
    BY <1>7, <1>18, <2>1 DEF Erased
<1>28. \A links : Users(s.connections, links) \subseteq Users(t.connections, links)
  <2>1. ASSUME NEW links, NEW d \in Users(s.connections, links)
        PROVE  d \in Users(t.connections, links)
    <3>1. CASE d = c
      BY <1>13, <1>16, <1>19, <3>1 DEF Users
    <3>2. CASE d # c
      BY <1>17, <2>1, <3>2 DEF Users
    <3>. QED
      BY <3>1, <3>2
  <2>. QED
    BY <2>1
<1>29. t.connections[c].lobby # 0
  BY <1>13, <1>16, <1>19
<1>. QED
  BY <1>2, <1>4, <1>11, <1>18, <1>26, <1>27, <1>28, <1>29, Zenon

\* A server that sends.
LEMMA SendingQuieter ==
    ASSUME NEW s \in ServerTypes, NEW cs, NEW m \in Messages
    PROVE  Quieter(s, SendAll(s, cs, m))
<1>1. PICK t : t = SendAll(s, cs, m)
  OBVIOUS
<1>2. /\ t \in ServerTypes /\ t.lobby = s.lobby /\ t.lastLobby = s.lastLobby /\ t.heard = s.heard
      /\ \A d \in Connections : t.connections[d] =
            IF d \in cs THEN Sent(s.connections[d], m) ELSE s.connections[d]
  BY <1>1, SendAllIs
<1>3. \A d \in Connections : s.connections[d] \in ConnectionTypes
  BY ServerFields
<1>4. SUFFICES ASSUME NEW d \in Connections
               PROVE  /\ t.connections[d].stage = s.connections[d].stage
                      /\ t.connections[d].lobby = s.connections[d].lobby
                      /\ s.connections[d].closing => t.connections[d].closing
                      /\ s.connections[d].dead => t.connections[d].dead
  BY <1>1, <1>2 DEF Quieter
<1>5. CASE d \in cs
  BY <1>2, <1>3, <1>5, SentIs
<1>6. CASE d \notin cs
  BY <1>2, <1>6
<1>. QED
  BY <1>5, <1>6

LEMMA QuieterAlone ==
    ASSUME NEW s, NEW t, Quieter(s, t), NEW active, Alone(s.connections, active), NEW active2 \in SUBSET active
    PROVE  Alone(t.connections, active2)
<1>1. Passing(s, t)
  BY DEF Quieter, Passing
<1>2. Alone(t.connections, active)
  BY <1>1, PassingAlone
<1>. QED
  BY <1>2 DEF Alone

\* A connection that has room for an answer is sent it.
LEMMA AnswerSent ==
    ASSUME NEW s, NEW r, NEW asks, NEW active, NEW table, Consistent(s, r, asks, active, table),
           NEW c \in Connections, Len(asks[c]) > 0,
           ~Silent(s.connections[c]), s.connections[c].stage # "none", s.connections[c].lobby = 0
    PROVE  /\ s.connections[c] \in ConnectionTypes /\ ~(Len(s.connections[c].output) > MaxPendingOutput)
           /\ Len(asks[c]) = 1 /\ r.link[c] # "server closed"
<1>1. PICK id, lk, st, known, l, tc, q, x, others, last :
        /\ id = IdentityOf[c] /\ lk = r.link[c] /\ st = r.state[c] /\ known = r.peers[c]
        /\ l = r.joined[c] /\ tc = r.inbox[c] /\ q = asks[c] /\ x = s.connections[c]
        /\ others = Others(s.lobby.members, c) /\ last = s.lastLobby
  OBVIOUS
<1>2. /\ lk \in Links /\ st \in States /\ known \in Seq(Identities) /\ l \in Nat
      /\ tc \in Seq(Messages) /\ q \in Seq(Messages) /\ x \in ConnectionTypes /\ last \in Nat
      /\ Sound(id, lk, st, known, l, tc, q, x, s.lobby.id, others, last)
  BY <1>1, SoundOf
<1>3. ~Silent(x) /\ x.stage # "none" /\ x.lobby = 0 /\ Len(q) > 0
  BY <1>1
<1>4. ~(Len(x.output) > MaxPendingOutput)
  BY <1>2, <1>3, RoomForAnswer
<1>5. Len(q) = 1 /\ Accepted(lk, st)
  BY <1>2, <1>3, AskedOnce
<1>. QED
  BY <1>1, <1>2, <1>4, <1>5 DEF Accepted

\* The server t that has handled the first message of c.
Serves(s, t, r, asks, c, active, table) ==
    /\ ServerInv(t, r, [asks EXCEPT ![c] = Tail(@)], active, table)
    /\ t.lastLobby \in {s.lastLobby, s.lastLobby + 1}

\* A connection in the table that is answered, and goes on.
LEMMA SayKeeps ==
    ASSUME NEW s, NEW r, NEW asks, NEW active, NEW table \in SUBSET Connections,
           ServerInv(s, r, asks, active, table), NEW c \in Connections, Len(asks[c]) > 0,
           ~Silent(s.connections[c]), s.connections[c].stage # "none", s.connections[c].lobby = 0,
           NEW m \in Messages, m.kind # "joined",
           Replies(s.connections[c].stage, asks[c][1].kind, m.kind, s.connections[c].stage),
           NEW active2 \in SUBSET active
    PROVE  Serves(s, Send(s, c, m), r, asks, c, active2, table)
<1>1. s \in ServerTypes /\ Alone(s.connections, active) /\ Consistent(s, r, asks, active, table)
  BY DEF ServerInv, Consistent
<1>2. PICK t, x : t = SendAll(s, {c}, m) /\ x = s.connections[c]
  OBVIOUS
<1>3. /\ t \in ServerTypes /\ t.lobby = s.lobby /\ t.lastLobby = s.lastLobby /\ t.heard = s.heard
      /\ \A d \in Connections : d # c => t.connections[d] = s.connections[d]
      /\ t.connections[c] = Sent(x, m)
  BY <1>1, <1>2, SendAllIs
<1>4. x \in ConnectionTypes /\ ~(Len(x.output) > MaxPendingOutput)
  BY <1>1, <1>2, AnswerSent
<1>5. /\ Sent(x, m).stage = x.stage /\ Sent(x, m).lobby = x.lobby /\ Sent(x, m).output = Append(x.output, m)
  BY <1>2, <1>4, SentIs
<1>6. Quieter(s, t)
  BY <1>1, <1>2, SendingQuieter
<1>7. Alone(t.connections, active2)
  BY <1>1, <1>6, QuieterAlone
<1>8. /\ t.connections[c].output = Append(s.connections[c].output, m)
      /\ t.connections[c].lobby = 0 /\ t.connections[c].stage = s.connections[c].stage
  BY <1>2, <1>3, <1>5
<1>9. Replies(s.connections[c].stage, asks[c][1].kind, m.kind, t.connections[c].stage)
  BY <1>8
<1>10. ServerInv(t, r, [asks EXCEPT ![c] = Tail(@)], active2, table)
  BY <1>3, <1>7, <1>8, <1>9, AnswerKeeps
<1>. QED
  BY <1>2, <1>3, <1>10 DEF Send, Serves

\* A connection of another stage.
Staged(s, c, g) == [s EXCEPT !.connections[c].stage = g]

Restaged(s, c, g, t) ==
    /\ t \in ServerTypes /\ t.lobby = s.lobby /\ t.lastLobby = s.lastLobby /\ t.heard = s.heard
    /\ \A d \in Connections : d # c => t.connections[d] = s.connections[d]
    /\ t.connections[c].stage = g /\ t.connections[c].lobby = s.connections[c].lobby
    /\ t.connections[c].closing = s.connections[c].closing
    /\ t.connections[c].dead = s.connections[c].dead
    /\ t.connections[c].output = s.connections[c].output

LEMMA StagedIs ==
    ASSUME NEW s \in ServerTypes, NEW c \in Connections, NEW g \in {"none", "hello", "identity", "ready"}
    PROVE  Restaged(s, c, g, Staged(s, c, g))
<1>1. PICK x, y : x = s.connections[c] /\ y = [s.connections[c] EXCEPT !.stage = g]
  OBVIOUS
<1>2. x \in ConnectionTypes
  BY <1>1, ServerFields
<1>3. /\ y \in ConnectionTypes /\ y.stage = g /\ y.lobby = x.lobby /\ y.dead = x.dead
      /\ y.output = x.output /\ y.closing = x.closing
  BY <1>1, <1>2 DEF ConnectionTypes
<1>4. Staged(s, c, g) = [s EXCEPT !.connections = [s.connections EXCEPT ![c] = y]]
  BY <1>1 DEF Staged
<1>5. PICK t : t = [s EXCEPT !.connections = [s.connections EXCEPT ![c] = y]]
  OBVIOUS
<1>6. /\ t \in ServerTypes /\ t.connections[c] = y
      /\ \A d \in Connections : d # c => t.connections[d] = s.connections[d]
      /\ t.lobby = s.lobby /\ t.lastLobby = s.lastLobby /\ t.heard = s.heard
  BY <1>3, <1>5, Changed
<1>. QED
  BY <1>1, <1>3, <1>4, <1>5, <1>6 DEF Restaged

\* Handle_Hello.
LEMMA HelloKeeps ==
    ASSUME NEW s, NEW r, NEW asks, NEW active, NEW table \in SUBSET Connections,
           ServerInv(s, r, asks, active, table), NEW c \in Connections, Len(asks[c]) > 0,
           ~Silent(s.connections[c]), s.connections[c].stage = "hello",
           NEW active2 \in SUBSET active
    PROVE  Serves(s, HandleHello(s, c), r, asks, c, active2, table)
<1>1. /\ s \in ServerTypes /\ Alone(s.connections, active) /\ Tied(s)
      /\ Consistent(s, r, asks, active, table)
  BY DEF ServerInv, Consistent
<1>2. PICK m, u, t, x : /\ m = Plain("keys") /\ u = Staged(s, c, "identity")
                        /\ t = SendAll(u, {c}, m) /\ x = s.connections[c]
  OBVIOUS
<1>3. m \in Messages /\ m.kind = "keys"
  BY <1>2, MessagesMade
<1>4. /\ u \in ServerTypes /\ u.lobby = s.lobby /\ u.lastLobby = s.lastLobby /\ u.heard = s.heard
      /\ \A d \in Connections : d # c => u.connections[d] = s.connections[d]
      /\ u.connections[c].stage = "identity" /\ u.connections[c].lobby = x.lobby
      /\ u.connections[c].closing = x.closing /\ u.connections[c].dead = x.dead
      /\ u.connections[c].output = x.output
  <2>1. Restaged(s, c, "identity", u)
    BY <1>1, <1>2, StagedIs
  <2>. QED
    BY <1>2, <2>1 DEF Restaged
<1>5. x.lobby = 0
  BY <1>1, <1>2 DEF Tied
<1>6. x \in ConnectionTypes /\ ~(Len(x.output) > MaxPendingOutput)
  BY <1>1, <1>2, <1>5, AnswerSent
<1>7. PICK z : z = u.connections[c]
  OBVIOUS
<1>8. z \in ConnectionTypes /\ ~Silent(z)
  <2>1. z \in ConnectionTypes
    BY <1>4, <1>7, ServerFields
  <2>. QED
    BY <1>2, <1>4, <1>7, <2>1 DEF Silent
<1>9. /\ t \in ServerTypes /\ t.lobby = u.lobby /\ t.lastLobby = u.lastLobby /\ t.heard = u.heard
      /\ \A d \in Connections : d # c => t.connections[d] = u.connections[d]
      /\ t.connections[c] = Sent(z, m)
  BY <1>2, <1>3, <1>4, <1>7, SendAllIs
<1>10. /\ Sent(z, m).stage = "identity" /\ Sent(z, m).lobby = 0
       /\ Sent(z, m).output = Append(x.output, m)
  BY <1>3, <1>4, <1>5, <1>6, <1>7, <1>8, SentIs
<1>11. Alone(t.connections, active2)
  <2>1. \A d \in Connections : d # c => t.connections[d] = s.connections[d]
    BY <1>4, <1>9
  <2>2. t.connections[c].stage # "ready" /\ t.connections[c].lobby = 0
    BY <1>9, <1>10
  <2>. QED
    BY <1>1, <2>1, <2>2, Zenon DEF Alone
<1>12. /\ t.lobby = s.lobby /\ t.lastLobby = s.lastLobby /\ t.heard = s.heard
       /\ \A d \in Connections : d # c => t.connections[d] = s.connections[d]
       /\ t.connections[c].output = Append(s.connections[c].output, m)
       /\ t.connections[c].lobby = 0 /\ s.connections[c].lobby = 0
       /\ s.connections[c].stage # "none"
  BY <1>2, <1>4, <1>5, <1>9, <1>10
<1>13. Replies(s.connections[c].stage, asks[c][1].kind, m.kind, t.connections[c].stage)
  BY <1>3, <1>9, <1>10 DEF Replies
<1>14. m.kind # "joined"
  BY <1>3
<1>15. ServerInv(t, r, [asks EXCEPT ![c] = Tail(@)], active2, table)
  BY <1>3, <1>9, <1>11, <1>12, <1>13, <1>14, AnswerKeeps, ZenonT(60)
<1>. QED
  <2>1. HandleHello(s, c) = SendAll(Staged(s, c, "identity"), {c}, Plain("keys"))
    BY DEF HandleHello, Send, Staged
  <2>. QED
    BY <1>2, <1>12, <1>15, <2>1 DEF Serves

\* A list of all elements of a finite set.
LEMMA ListOfSet ==
    ASSUME NEW S, IsFiniteSet(S)
    PROVE  SetToSeq(S) \in Seq(S) /\ Range(SetToSeq(S)) = S
<1>. DEFINE n == Cardinality(S)
<1>1. n \in Nat /\ ExistsBijection(1..n, S)
  BY FS_NatBijection, FS_CardinalityType
<1>2. PICK b \in Bijection(1..n, S) : TRUE
  BY <1>1 DEF ExistsBijection
<1>3. b \in [1..n -> S] /\ IsInjective(b)
  BY <1>2 DEF Bijection, Injection
<1>4. PICK f : f = SetToSeq(S)
  OBVIOUS
<1>5. f \in [1..n -> S] /\ IsInjective(f)
  BY <1>3, <1>4 DEF SetToSeq
<1>6. f \in Injection(1..n, S)
  BY <1>5 DEF Injection
<1>7. Cardinality(1..n) = n /\ IsFiniteSet(1..n)
  BY <1>1, FS_Interval
<1>8. f \in Surjection(1..n, S)
  BY <1>6, <1>7, FS_Injection
<1>9. \A x \in S : \E i \in 1..n : f[i] = x
  BY <1>8 DEF Surjection
<1>10. f \in Seq(S) /\ DOMAIN f = 1..n
  BY <1>1, <1>5
<1>11. Range(f) = S
  BY <1>5, <1>9, <1>10 DEF Range
<1>. QED
  BY <1>4, <1>10, <1>11

\* Handle_Identity: the other connections of the identity end first.
LEMMA IdentityKeeps ==
    ASSUME NEW s, NEW r, NEW asks, NEW active, NEW table \in SUBSET Connections,
           ServerInv(s, r, asks, active, table), NEW c \in Connections, Len(asks[c]) > 0,
           ~Silent(s.connections[c]), s.connections[c].stage = "identity",
           NEW active2 \in SUBSET active, Len(asks[c]) = 1 => c \notin active2
    PROVE  Serves(s, HandleIdentity(s, c), r, asks, c, active2, table)
<1>1. /\ s \in ServerTypes /\ Tied(s) /\ Consistent(s, r, asks, active, table)
  BY DEF ServerInv, Consistent
<1>2. PICK D, ds : D = {d \in Connections : SameIdentity(s, c, d)} /\ ds = SetToSeq(D)
  OBVIOUS
<1>3. ds \in Seq(Connections) /\ Range(ds) = D
  <2>1. D \subseteq Connections /\ IsFiniteSet(D)
    <3>1. D \subseteq Connections
      BY <1>2
    <3>. QED
      BY <3>1, WireAssumption, FS_Subset
  <2>2. SetToSeq(D) \in Seq(D) /\ Range(SetToSeq(D)) = D
    BY <2>1, ListOfSet
  <2>3. Seq(D) \subseteq Seq(Connections)
    BY <2>1
  <2>. QED
    BY <1>2, <2>2, <2>3
<1>4. \A i \in 1..Len(ds) : ds[i] \in Connections /\ ds[i] \in D
  <2>1. \A i \in 1..Len(ds) : ds[i] \in Connections /\ i \in DOMAIN ds
    BY <1>3
  <2>. QED
    BY <1>3, <2>1 DEF Range
<1>5. s.connections[c].lobby = 0
  BY <1>1 DEF Tied
<1>6. \A i \in 1..Len(ds) : s.connections[ds[i]].stage # "none" /\ ds[i] # c
  BY <1>2, <1>4 DEF SameIdentity
<1>7. PICK e : e = Evictions(s, ds)[Len(ds)]
  OBVIOUS
<1>8. /\ ServerInv(e, r, asks, active, table) /\ e.lastLobby = s.lastLobby /\ Passing(s, e)
      /\ e.connections[c] = s.connections[c]
      /\ \A i \in 1..Len(ds) : e.connections[ds[i]].lobby = 0 /\ e.connections[ds[i]].closing
  BY <1>3, <1>5, <1>6, <1>7, EvictionsKeep
<1>9. \A d \in D : e.connections[d].lobby = 0 /\ e.connections[d].closing
  <2>1. ASSUME NEW d \in D PROVE e.connections[d].lobby = 0 /\ e.connections[d].closing
    <3>1. PICK i \in DOMAIN ds : d = ds[i]
      BY <1>3 DEF Range
    <3>2. DOMAIN ds = 1..Len(ds)
      BY <1>3
    <3>. QED
      BY <1>8, <3>1, <3>2
  <2>. QED
    BY <2>1
<1>10. e \in ServerTypes /\ Alone(e.connections, active) /\ Consistent(e, r, asks, active, table)
  BY <1>8 DEF ServerInv, Consistent
<1>11. PICK m, u, t, x : /\ m = Plain("welcome") /\ u = Staged(e, c, "ready")
                         /\ t = SendAll(u, {c}, m) /\ x = e.connections[c]
  OBVIOUS
<1>12. m \in Messages /\ m.kind = "welcome" /\ m.kind # "joined"
  BY <1>11, MessagesMade
<1>13. /\ u \in ServerTypes /\ u.lobby = e.lobby /\ u.lastLobby = e.lastLobby /\ u.heard = e.heard
       /\ \A d \in Connections : d # c => u.connections[d] = e.connections[d]
       /\ u.connections[c].stage = "ready" /\ u.connections[c].lobby = x.lobby
       /\ u.connections[c].closing = x.closing /\ u.connections[c].dead = x.dead
       /\ u.connections[c].output = x.output
  <2>1. Restaged(e, c, "ready", u)
    BY <1>10, <1>11, StagedIs
  <2>. QED
    BY <1>11, <2>1 DEF Restaged
<1>14. ~Silent(x) /\ x.stage = "identity" /\ x.lobby = 0
  BY <1>5, <1>8, <1>11
<1>15. x \in ConnectionTypes /\ ~(Len(x.output) > MaxPendingOutput) /\ Len(asks[c]) = 1
  <2>1. ~Silent(e.connections[c]) /\ e.connections[c].stage # "none" /\ e.connections[c].lobby = 0
    BY <1>11, <1>14
  <2>. QED
    BY <1>10, <1>11, <2>1, AnswerSent
<1>16. PICK z : z = u.connections[c]
  OBVIOUS
<1>17. z \in ConnectionTypes /\ ~Silent(z)
  <2>1. z \in ConnectionTypes
    BY <1>13, <1>16, ServerFields
  <2>. QED
    BY <1>13, <1>14, <1>16, <2>1 DEF Silent
<1>18. /\ t \in ServerTypes /\ t.lobby = u.lobby /\ t.lastLobby = u.lastLobby /\ t.heard = u.heard
       /\ \A d \in Connections : d # c => t.connections[d] = u.connections[d]
       /\ t.connections[c] = Sent(z, m)
  BY <1>11, <1>12, <1>13, <1>16, SendAllIs
<1>19. /\ Sent(z, m).stage = "ready" /\ Sent(z, m).lobby = 0
       /\ Sent(z, m).output = Append(x.output, m)
  BY <1>12, <1>13, <1>14, <1>15, <1>16, <1>17, SentIs
<1>20. /\ \A d \in Connections : d # c => t.connections[d] = e.connections[d]
       /\ t.connections[c].stage = "ready" /\ t.connections[c].lobby = 0
  BY <1>13, <1>18, <1>19
<1>21. c \notin active2
  BY <1>15
<1>22. \A d \in Connections :
          d # c /\ IdentityOf[d] = IdentityOf[c] /\ e.connections[d].stage = "ready" =>
             \/ e.connections[d].dead
             \/ e.connections[d].closing /\ e.connections[d].lobby = 0
  <2>1. ASSUME NEW d \in Connections, d # c, IdentityOf[d] = IdentityOf[c],
               e.connections[d].stage = "ready", ~e.connections[d].dead
        PROVE  d \in D
    <3>1. s.connections[d].stage = "ready" /\ ~s.connections[d].dead
      BY <1>8, <2>1 DEF Passing
    <3>. QED
      BY <1>2, <2>1, <3>1 DEF SameIdentity
  <2>. QED
    BY <1>9, <2>1
<1>23. Alone(t.connections, active2)
  <2>1. SUFFICES ASSUME NEW f \in Connections, NEW d \in Connections, f # d,
                        IdentityOf[f] = IdentityOf[d], t.connections[f].stage = "ready",
                        ~Silent(t.connections[f])
                 PROVE  /\ t.connections[d].stage = "ready" => Silent(t.connections[d])
                        /\ t.connections[d].lobby # 0 => t.connections[d].dead /\ f \notin active2
    BY DEF Alone
  <2>2. CASE f = c
    <3>1. t.connections[d] = e.connections[d] /\ d # c
      BY <1>20, <2>1, <2>2
    <3>2. e.connections[d].lobby # 0 => e.connections[d].stage = "ready"
      <4>1. Tied(e)
        BY <1>10 DEF Consistent
      <4>. QED
        BY <4>1 DEF Tied
    <3>3. e.connections[d].stage = "ready" =>
             \/ e.connections[d].dead
             \/ e.connections[d].closing /\ e.connections[d].lobby = 0
      BY <1>22, <2>1, <2>2, <3>1
    <3>. QED
      BY <1>21, <2>2, <3>1, <3>2, <3>3 DEF Silent
  <2>3. CASE f # c /\ d = c
    <3>1. t.connections[f] = e.connections[f]
      BY <1>20, <2>3
    <3>. QED
      BY <1>22, <2>1, <2>3, <3>1 DEF Silent
  <2>4. CASE f # c /\ d # c
    <3>1. t.connections[f] = e.connections[f] /\ t.connections[d] = e.connections[d]
      BY <1>20, <2>4
    <3>2. /\ e.connections[d].stage = "ready" => Silent(e.connections[d])
          /\ e.connections[d].lobby # 0 => e.connections[d].dead /\ f \notin active
      BY <1>10, <2>1, <3>1 DEF Alone
    <3>. QED
      BY <3>1, <3>2
  <2>. QED
    BY <2>2, <2>3, <2>4
<1>24. /\ t.lobby = e.lobby /\ t.lastLobby = e.lastLobby /\ t.heard = e.heard
       /\ t.connections[c].output = Append(e.connections[c].output, m)
       /\ ~Silent(e.connections[c]) /\ e.connections[c].lobby = 0
       /\ e.connections[c].stage # "none"
  BY <1>11, <1>13, <1>14, <1>18, <1>19
<1>25. Replies(e.connections[c].stage, asks[c][1].kind, m.kind, t.connections[c].stage)
  BY <1>11, <1>12, <1>14, <1>20 DEF Replies
<1>26. ServerInv(t, r, [asks EXCEPT ![c] = Tail(@)], active2, table)
  BY <1>8, <1>12, <1>18, <1>20, <1>23, <1>24, <1>25, AnswerKeeps, ZenonT(60)
<1>27. HandleIdentity(s, c) = t
  <2>1. HandleIdentity(s, c) =
           LET others == SetToSeq({d \in Connections : SameIdentity(s, c, d)})
               alone == Evictions(s, others)[Len(others)]
           IN  SendAll(Staged(alone, c, "ready"), {c}, Plain("welcome"))
    BY Zenon DEF HandleIdentity, Send, Staged
  <2>. QED
    BY <1>2, <1>7, <1>11, <2>1, Zenon
<1>. QED
  BY <1>8, <1>24, <1>26, <1>27 DEF Serves

\* The answer to a query, and the refusals of the other requests.
LEMMA QueryKeeps ==
    ASSUME NEW s, NEW r, NEW asks, NEW active, NEW table \in SUBSET Connections,
           ServerInv(s, r, asks, active, table), NEW c \in Connections, Len(asks[c]) > 0,
           ~Silent(s.connections[c]), s.connections[c].stage = "ready", s.connections[c].lobby = 0,
           asks[c][1].kind = "query", NEW active2 \in SUBSET active
    PROVE  Serves(s, HandleQuery(s, c), r, asks, c, active2, table)
<1>1. PICK m : m = About("info", Exists(s))
  OBVIOUS
<1>2. m \in Messages /\ m.kind = "info"
  <2>1. Exists(s) \in BOOLEAN
    BY DEF Exists
  <2>. QED
    BY <1>1, <2>1, MessagesMade
<1>3. Replies(s.connections[c].stage, asks[c][1].kind, m.kind, s.connections[c].stage)
  BY <1>2 DEF Replies
<1>4. s.connections[c].stage # "none" /\ m.kind # "joined"
  BY <1>2
<1>5. Serves(s, Send(s, c, m), r, asks, c, active2, table)
  BY <1>2, <1>3, <1>4, SayKeeps
<1>. QED
  BY <1>1, <1>5, Zenon DEF HandleQuery

LEMMA RefusedKeeps ==
    ASSUME NEW s, NEW r, NEW asks, NEW active, NEW table \in SUBSET Connections,
           ServerInv(s, r, asks, active, table), NEW c \in Connections, Len(asks[c]) > 0,
           ~Silent(s.connections[c]), s.connections[c].stage = "ready", s.connections[c].lobby = 0,
           asks[c][1].kind \in {"create", "join"}, NEW active2 \in SUBSET active,
           NEW why \in {"exists", "missing", "password"}
    PROVE  LET m == About("refused", why) IN
           /\ Serves(s, Send(s, c, m), r, asks, c, active2, table)
           /\ Serves(s, Close(Send(s, c, m), c), r, asks, c, active2, table)
<1>1. PICK m : m = About("refused", why)
  OBVIOUS
<1>2. m \in Messages /\ m.kind = "refused" /\ m.kind # "joined"
  BY <1>1, MessagesMade
<1>3. /\ Replies(s.connections[c].stage, asks[c][1].kind, m.kind, s.connections[c].stage)
      /\ s.connections[c].stage # "none"
  BY <1>2 DEF Replies
<1>4. Serves(s, Send(s, c, m), r, asks, c, active2, table)
  BY <1>2, <1>3, SayKeeps
<1>5. s \in ServerTypes /\ Alone(s.connections, active) /\ Consistent(s, r, asks, active, table)
  BY DEF ServerInv, Consistent
<1>6. PICK t, x, y : t = Close(Send(s, c, m), c) /\ x = s.connections[c] /\ y = t.connections[c]
  OBVIOUS
<1>7. /\ t \in ServerTypes /\ t.lobby = s.lobby /\ t.lastLobby = s.lastLobby /\ t.heard = s.heard
      /\ \A d \in Connections : d # c => t.connections[d] = s.connections[d]
      /\ y.stage = x.stage /\ y.lobby = x.lobby
      /\ ~Silent(x) /\ ~(Len(x.output) > MaxPendingOutput) => y.output = Append(x.output, m)
      /\ Quieter(s, t)
  BY <1>2, <1>5, <1>6, EndingIs
<1>8. ~(Len(x.output) > MaxPendingOutput)
  BY <1>3, <1>5, <1>6, AnswerSent
<1>9. Alone(t.connections, active2)
  BY <1>5, <1>7, QuieterAlone
<1>10. /\ t.connections[c].output = Append(s.connections[c].output, m)
       /\ t.connections[c].lobby = 0 /\ t.connections[c].stage = s.connections[c].stage
  BY <1>6, <1>7, <1>8
<1>11. Replies(s.connections[c].stage, asks[c][1].kind, m.kind, t.connections[c].stage)
  BY <1>3, <1>10
<1>12. ServerInv(t, r, [asks EXCEPT ![c] = Tail(@)], active2, table)
  BY <1>2, <1>3, <1>7, <1>9, <1>10, <1>11, AnswerKeeps
<1>. QED
  BY <1>1, <1>4, <1>6, <1>7, <1>12 DEF Serves

\* A connection is a member from now on.
LEMMA EnteringKeeps ==
    ASSUME NEW s, NEW r, NEW asks, NEW active, NEW table \in SUBSET Connections,
           Consistent(s, r, asks, active, table), NEW c \in Connections, Len(asks[c]) > 0,
           c \in active, ~Silent(s.connections[c]), s.connections[c].stage = "ready",
           s.connections[c].lobby = 0, asks[c][1].kind \in {"create", "join"},
           s.lobby.id \in 1..Cardinality(Connections), s.lobby.id <= s.lastLobby,
           NEW active2 \in SUBSET active,
           NEW n \in Nat, n <= Cardinality(Users(s.connections, r.link)), s.lastLobby <= n + 1
    PROVE  /\ Serves(s, EnterLobby(s, c), r, asks, c, active2, table)
           /\ EnterLobby(s, c).lastLobby = s.lastLobby
<1>1. PICK t : t = EnterLobby(s, c)
  OBVIOUS
<1>2. PICK left : left = [asks EXCEPT ![c] = Tail(@)]
  OBVIOUS
<1>3. /\ Consistent(t, r, left, active2, table) /\ Erased(t)
      /\ t.lastLobby = s.lastLobby /\ t.lobby.id = s.lobby.id /\ t.connections[c].lobby # 0
      /\ Users(s.connections, r.link) \subseteq Users(t.connections, r.link)
  BY <1>1, <1>2, EnterKeeps
<1>4. c \notin Users(s.connections, r.link) /\ c \in Users(t.connections, r.link)
  <2>1. r.link[c] # "server closed"
    <3>1. s.connections[c].stage # "none"
      OBVIOUS
    <3>. QED
      BY <3>1, AnswerSent
  <2>. QED
    BY <1>3, <2>1 DEF Users, Silent
<1>5. PICK a, b : /\ a = Cardinality(Users(s.connections, r.link))
                  /\ b = Cardinality(Users(t.connections, r.link))
  OBVIOUS
<1>6. a + 1 <= b /\ a \in Nat /\ b \in Nat
  BY <1>3, <1>4, <1>5, UsersGrowMore
<1>7. PICK e \in Nat : e = s.lastLobby
  BY ServerFields DEF Consistent
<1>8. e <= b
  BY <1>5, <1>6, <1>7
<1>9. Counted(t, r.link)
  BY <1>3, <1>5, <1>7, <1>8 DEF Counted
<1>. QED
  BY <1>1, <1>2, <1>3, <1>9 DEF ServerInv, Serves

\* Handle_Create: the lobby is made, with nobody in it.
MadeLobby(s, password) ==
    Opened([s EXCEPT !.lastLobby = s.lastLobby + 1,
                     !.lobby = [id |-> s.lastLobby + 1, password |-> password, members |-> <<>>]],
           s.lastLobby + 1)

LEMMA MadeLobbyIs ==
    ASSUME NEW s \in ServerTypes, NEW p \in Passwords
    PROVE  LET u == MadeLobby(s, p) IN
           /\ u \in ServerTypes /\ u.connections = s.connections /\ u.lastLobby = s.lastLobby + 1
           /\ u.lobby.id = s.lastLobby + 1 /\ u.lobby.members = <<>>
           /\ u.heard.open = s.heard.open \cup {s.lastLobby + 1}
           /\ u.heard.members = s.heard.members
           /\ s.heard.consistent /\ s.lastLobby + 1 \notin s.heard.open => u.heard.consistent
<1>1. PICK l : l = s.lastLobby + 1
  OBVIOUS
<1>2. l \in Nat
  BY <1>1, ServerFields
<1>3. PICK b : b = [id |-> l, password |-> p, members |-> <<>>]
  OBVIOUS
<1>4. b \in [id : Nat, password : Passwords \cup {0}, members : Seq(Connections)]
  <2>1. <<>> \in Seq(Connections)
    OBVIOUS
  <2>. QED
    BY <1>2, <1>3, <2>1
<1>5. b.id = l /\ b.members = <<>>
  BY <1>3
<1>6. PICK v : v = [s EXCEPT !.lastLobby = l, !.lobby = b]
  OBVIOUS
<1>7. /\ v \in ServerTypes /\ v.connections = s.connections /\ v.lastLobby = l /\ v.lobby = b
      /\ v.heard = s.heard
  BY <1>2, <1>4, <1>6 DEF ServerTypes
<1>8. PICK h : h = [open |-> v.heard.open \cup {l}, members |-> v.heard.members,
                    consistent |-> v.heard.consistent /\ l \notin v.heard.open]
  OBVIOUS
<1>9. h \in HeardTypes
  <2>1. v.heard \in [open : SUBSET Nat, members : SUBSET (Nat \X Identities), consistent : BOOLEAN]
    BY <1>7, ServerFields
  <2>2. v.heard.open \cup {l} \in SUBSET Nat /\ v.heard.members \in SUBSET (Nat \X Identities)
    BY <1>2, <2>1
  <2>3. (v.heard.consistent /\ l \notin v.heard.open) \in BOOLEAN
    OBVIOUS
  <2>. QED
    BY <1>8, <2>2, <2>3 DEF HeardTypes
<1>10. /\ h.open = v.heard.open \cup {l} /\ h.members = v.heard.members
       /\ v.heard.consistent /\ l \notin v.heard.open => h.consistent
  BY <1>8
<1>11. PICK u : u = [v EXCEPT !.heard = h]
  OBVIOUS
<1>12. /\ u \in ServerTypes /\ u.connections = v.connections /\ u.lobby = v.lobby
       /\ u.lastLobby = v.lastLobby /\ u.heard = h
  BY <1>7, <1>9, <1>11, Reheard
<1>13. MadeLobby(s, p) = u
  <2>1. MadeLobby(s, p) = Opened(v, l)
    BY <1>1, <1>3, <1>6, Zenon DEF MadeLobby
  <2>2. Opened(v, l) = u
    BY <1>8, <1>11 DEF Opened, Hears
  <2>. QED
    BY <2>1, <2>2
<1>. QED
  BY <1>1, <1>5, <1>7, <1>10, <1>12, <1>13

\* Nobody is in a lobby when there is none.
LEMMA NobodyIn ==
    ASSUME NEW s, Tied(s), s.lobby.members = <<>>
    PROVE  \A d \in Connections : s.connections[d].lobby = 0
<1>1. Range(s.lobby.members) = {}
  BY DEF Range
<1>. QED
  BY <1>1 DEF Tied

\* A connection that has made no lobby yet may make one: there are as many as connections at most.
LEMMA RoomForOne ==
    ASSUME NEW s \in ServerTypes, NEW links, Counted(s, links), NEW c \in Connections,
           c \notin Users(s.connections, links)
    PROVE  /\ Cardinality(Users(s.connections, links)) \in Nat
           /\ s.lastLobby <= Cardinality(Users(s.connections, links))
           /\ s.lastLobby + 1 \in 1..Cardinality(Connections)
<1>1. PICK D : D = [d \in Connections |-> [lobby |-> 1]]
  BY Zenon
<1>2. \A d \in Connections : D[d].lobby # 0
  <2>1. \A d \in Connections : D[d].lobby = 1
    BY <1>1
  <2>2. 1 # 0
    OBVIOUS
  <2>. QED
    BY <2>1, <2>2
<1>3. Users(s.connections, links) \subseteq Users(D, links) /\ c \in Users(D, links)
  BY <1>2 DEF Users
<1>4. PICK a \in Nat, e \in Nat, n \in Nat :
        a = Cardinality(Users(s.connections, links)) /\ e = Cardinality(Connections) /\ n = s.lastLobby
  BY <1>3, UsersGrowMore, ServerFields
<1>5. a + 1 <= e
  BY <1>3, <1>4, UsersGrowMore
<1>6. n <= a
  BY <1>4 DEF Counted
<1>7. n + 1 \in 1..e
  BY <1>4, <1>5, <1>6
<1>. QED
  BY <1>4, <1>6, <1>7

LEMMA CreateKeeps ==
    ASSUME NEW s, NEW r, NEW asks, NEW active, NEW table \in SUBSET Connections,
           ServerInv(s, r, asks, active, table), NEW c \in Connections, Len(asks[c]) > 0,
           c \in active, ~Silent(s.connections[c]), s.connections[c].stage = "ready",
           s.connections[c].lobby = 0, asks[c][1].kind = "create", NEW active2 \in SUBSET active,
           NEW p \in Passwords
    PROVE  Serves(s, HandleCreate(s, c, p), r, asks, c, active2, table)
<1>1. /\ s \in ServerTypes /\ r \in ReaderTypes /\ asks \in [Connections -> Seq(Messages)]
      /\ Tied(s) /\ Heard(s) /\ Erased(s) /\ Counted(s, r.link) /\ Alone(s.connections, active)
      /\ \A d \in table : s.connections[d].stage # "none"
      /\ Consistent(s, r, asks, active, table)
  BY DEF ServerInv, Consistent
<1>2. CASE Exists(s)
  <2>1. Serves(s, Send(s, c, About("refused", "exists")), r, asks, c, active2, table)
    BY RefusedKeeps
  <2>. QED
    BY <1>2, <2>1 DEF HandleCreate
<1>3. CASE ~Exists(s)
  <2>1. s.lobby.members = <<>> /\ s.lobby = NoLobby
    BY <1>1, <1>3 DEF Exists, Erased
  <2>2. s.lobby.id = 0
    BY <2>1 DEF NoLobby
  <2>3. \A d \in Connections : s.connections[d].lobby = 0
    BY <1>1, <2>1, NobodyIn
  <2>4. PICK u, l : u = MadeLobby(s, p) /\ l = s.lastLobby + 1
    OBVIOUS
  <2>5. /\ u \in ServerTypes /\ u.connections = s.connections /\ u.lastLobby = l
        /\ u.lobby.id = l /\ u.lobby.members = <<>>
        /\ u.heard.open = s.heard.open \cup {l} /\ u.heard.members = s.heard.members
        /\ s.heard.consistent /\ l \notin s.heard.open => u.heard.consistent
    BY <1>1, <2>4, MadeLobbyIs
  <2>6. Range(u.lobby.members) = {} /\ Range(s.lobby.members) = {}
    BY <2>1, <2>5 DEF Range
  <2>7. c \notin Users(s.connections, r.link)
    <3>1. s.connections[c].stage # "none"
      OBVIOUS
    <3>2. r.link[c] # "server closed"
      BY <1>1, <3>1, AnswerSent
    <3>. QED
      BY <3>2 DEF Users, Silent
  <2>8. PICK n : n = Cardinality(Users(s.connections, r.link))
    OBVIOUS
  <2>9. n \in Nat /\ s.lastLobby <= n /\ l \in 1..Cardinality(Connections)
    <3>1. /\ Cardinality(Users(s.connections, r.link)) \in Nat
          /\ s.lastLobby <= Cardinality(Users(s.connections, r.link))
          /\ s.lastLobby + 1 \in 1..Cardinality(Connections)
      <4>1. s \in ServerTypes /\ Counted(s, r.link)
        BY <1>1
      <4>2. PICK links : links = r.link
        OBVIOUS
      <4>3. Counted(s, links) /\ c \notin Users(s.connections, links)
        BY <2>7, <4>1, <4>2
      <4>4. /\ Cardinality(Users(s.connections, links)) \in Nat
            /\ s.lastLobby <= Cardinality(Users(s.connections, links))
            /\ s.lastLobby + 1 \in 1..Cardinality(Connections)
        BY <4>1, <4>3, RoomForOne
      <4>. QED
        BY <4>2, <4>4
    <3>. QED
      BY <2>4, <2>8, <3>1, Zenon
  <2>10. s.lastLobby \in Nat /\ l \in Nat /\ l # 0 /\ l <= n + 1
    <3>1. s.lastLobby \in Nat
      BY <1>1, ServerFields
    <3>. QED
      BY <2>4, <2>9, <3>1
  <2>11. Tied(u)
    <3>1. \A i, j \in DOMAIN u.lobby.members : FALSE
      BY <2>5
    <3>2. \A d \in Connections : u.connections[d].lobby = 0
      BY <2>3, <2>5
    <3>. QED
      BY <2>6, <3>1, <3>2 DEF Tied
  <2>12. Heard(u)
    <3>1. s.heard.consistent /\ s.heard.open = {} /\ s.heard.members = {}
      BY <1>1, <2>2, <2>6 DEF Heard
    <3>2. u.heard.consistent /\ u.heard.open = {l} /\ u.heard.members = {}
      BY <2>5, <3>1
    <3>. QED
      BY <2>5, <2>6, <2>10, <3>2 DEF Heard
  <2>13. AllSound(u, r, asks)
    <3>1. SUFFICES ASSUME NEW d \in Connections
                   PROVE  Sound(IdentityOf[d], r.link[d], r.state[d], r.peers[d], r.joined[d],
                                r.inbox[d], asks[d], u.connections[d], u.lobby.id,
                                Others(u.lobby.members, d), u.lastLobby)
      BY DEF AllSound
    <3>2. PICK id, lk, st, known, m, tc, q, x, others, last :
            /\ id = IdentityOf[d] /\ lk = r.link[d] /\ st = r.state[d] /\ known = r.peers[d]
            /\ m = r.joined[d] /\ tc = r.inbox[d] /\ q = asks[d] /\ x = s.connections[d]
            /\ others = Others(s.lobby.members, d) /\ last = s.lastLobby
      OBVIOUS
    <3>3. /\ lk \in Links /\ st \in States /\ known \in Seq(Identities) /\ m \in Nat
          /\ tc \in Seq(Messages) /\ q \in Seq(Messages) /\ x \in ConnectionTypes /\ last \in Nat
          /\ Sound(id, lk, st, known, m, tc, q, x, s.lobby.id, others, last)
      BY <1>1, <3>2, SoundOf
    <3>4. x.lobby = 0 /\ last <= l /\ l \in Nat
      BY <2>3, <2>4, <2>10, <3>2
    <3>5. PICK others2 : others2 = Others(u.lobby.members, d)
      OBVIOUS
    <3>6. Sound(id, lk, st, known, m, tc, q, x, l, others2, l)
      BY <3>3, <3>4, SoundKept
    <3>. QED
      BY <2>5, <3>2, <3>5, <3>6
  <2>14. Consistent(u, r, asks, active, table)
    <3>1. Alone(u.connections, active) /\ \A d \in table : u.connections[d].stage # "none"
      BY <1>1, <2>5
    <3>. QED
      BY <1>1, <2>5, <2>11, <2>12, <2>13, <3>1, Zenon DEF Consistent
  <2>15. /\ ~Silent(u.connections[c]) /\ u.connections[c].stage = "ready" /\ u.connections[c].lobby = 0
         /\ asks[c][1].kind \in {"create", "join"}
         /\ u.lobby.id \in 1..Cardinality(Connections) /\ u.lobby.id <= u.lastLobby
         /\ n <= Cardinality(Users(u.connections, r.link)) /\ u.lastLobby <= n + 1 /\ n \in Nat
    BY <2>5, <2>8, <2>9, <2>10
  <2>16. PICK t : t = EnterLobby(u, c)
    OBVIOUS
  <2>17. Serves(u, t, r, asks, c, active2, table) /\ t.lastLobby = u.lastLobby
    BY <2>14, <2>15, <2>16, EnteringKeeps
  <2>18. Serves(s, t, r, asks, c, active2, table)
    BY <2>4, <2>5, <2>17 DEF Serves
  <2>19. HandleCreate(s, c, p) = EnterLobby(MadeLobby(s, p), c)
    BY <1>3 DEF HandleCreate, MadeLobby
  <2>. QED
    BY <2>4, <2>16, <2>18, <2>19
<1>. QED
  BY <1>2, <1>3

\* Handle_Join.
LEMMA JoinKeeps ==
    ASSUME NEW s, NEW r, NEW asks, NEW active, NEW table \in SUBSET Connections,
           ServerInv(s, r, asks, active, table), NEW c \in Connections, Len(asks[c]) > 0,
           c \in active, ~Silent(s.connections[c]), s.connections[c].stage = "ready",
           s.connections[c].lobby = 0, asks[c][1].kind = "join", NEW active2 \in SUBSET active,
           NEW p
    PROVE  Serves(s, HandleJoin(s, c, p), r, asks, c, active2, table)
<1>1. /\ s \in ServerTypes /\ Tied(s) /\ Counted(s, r.link) /\ Consistent(s, r, asks, active, table)
  BY DEF ServerInv, Consistent
<1>2. /\ Serves(s, Send(s, c, About("refused", "missing")), r, asks, c, active2, table)
      /\ Serves(s, Close(Send(s, c, About("refused", "password")), c), r, asks, c, active2, table)
  BY RefusedKeeps
<1>3. CASE ~Exists(s)
  BY <1>2, <1>3 DEF HandleJoin
<1>4. CASE Exists(s) /\ p # s.lobby.password
  BY <1>2, <1>4 DEF HandleJoin
<1>5. CASE Exists(s) /\ p = s.lobby.password
  <2>1. s.lobby.id # 0
    <3>1. PICK o \in Seq(Connections) : o = s.lobby.members
      BY <1>1, ServerFields
    <3>2. 1 \in DOMAIN o
      BY <1>5, <3>1 DEF Exists
    <3>3. o[1] \in Range(o) /\ o[1] \in Connections
      BY <3>1, <3>2 DEF Range
    <3>. QED
      BY <1>1, <3>1, <3>3 DEF Tied
  <2>2. s.lobby.id \in 1..Cardinality(Connections) /\ s.lobby.id <= s.lastLobby
    BY <1>1, <2>1, LastLobbyBounded
  <2>3. PICK n, e : n = Cardinality(Users(s.connections, r.link)) /\ e = s.lastLobby
    OBVIOUS
  <2>4. n \in Nat /\ e \in Nat /\ e <= n
    BY <1>1, <2>3, UsersGrow, ServerFields DEF Counted
  <2>5. n \in Nat /\ n <= Cardinality(Users(s.connections, r.link)) /\ s.lastLobby <= n + 1
    BY <2>3, <2>4
  <2>6. asks[c][1].kind \in {"create", "join"}
    OBVIOUS
  <2>7. Serves(s, EnterLobby(s, c), r, asks, c, active2, table)
    BY <1>1, <2>2, <2>5, <2>6, EnteringKeeps
  <2>. QED
    BY <1>5, <2>7 DEF HandleJoin
<1>. QED
  BY <1>3, <1>4, <1>5

\* Handle_Ready relays what a member says.
LEMMA SendKeeps ==
    ASSUME NEW s, NEW r, NEW asks, NEW active, NEW table \in SUBSET Connections,
           ServerInv(s, r, asks, active, table), NEW c \in Connections, Len(asks[c]) > 0,
           s.connections[c].stage = "ready", s.connections[c].lobby # 0, NEW active2 \in SUBSET active
    PROVE  Serves(s, HandleSend(s, c), r, asks, c, active2, table)
<1>1. /\ s \in ServerTypes /\ Tied(s) /\ Erased(s) /\ Counted(s, r.link)
      /\ Consistent(s, r, asks, active, table)
  BY DEF ServerInv, Consistent
<1>2. PICK cs, m, id : cs = Range(s.lobby.members) \ {c} /\ id = IdentityOf[c] /\ m = About("message", id)
  OBVIOUS
<1>3. id \in Identities
  BY <1>2 DEF Identities
<1>4. m \in Messages /\ m.kind = "message" /\ m.what = id
  BY <1>2, <1>3, MessagesMade
<1>5. c \in Range(s.lobby.members)
  BY <1>1 DEF Tied
<1>6. \A d \in cs : Tells(IdentityOf[d], s.lobby.id, Others(s.lobby.members, d),
                          Others(s.lobby.members, d), m)
  <2>1. SUFFICES ASSUME NEW d \in cs PROVE id \in Others(s.lobby.members, d)
    BY <1>4 DEF Tells
  <2>2. c \in Range(s.lobby.members) \ {d}
    BY <1>2, <1>5
  <2>. QED
    BY <1>2, <2>2 DEF Others
<1>7. PICK t : t = SendAll(s, cs, m)
  OBVIOUS
<1>8. cs \in SUBSET Range(s.lobby.members)
  BY <1>2
<1>9. /\ Consistent(t, r, asks, active, table) /\ Erased(t) /\ Counted(t, r.link) /\ Quieter(s, t)
  BY <1>1, <1>4, <1>6, <1>7, <1>8, NewsKeeps
<1>10. t.connections[c].lobby # 0 /\ t.connections[c].stage = "ready" /\ t.lastLobby = s.lastLobby
  BY <1>9 DEF Quieter
<1>11. Consistent(t, r, [asks EXCEPT ![c] = Tail(@)], active2, table)
  BY <1>9, <1>10, PopKeeps
<1>12. HandleSend(s, c) = t
  BY <1>2, <1>7 DEF HandleSend
<1>. QED
  BY <1>9, <1>10, <1>11, <1>12 DEF Serves, ServerInv

\* A message out of place, and one to a connection that is ending.
LEMMA ByeKeeps ==
    ASSUME NEW s, NEW r, NEW asks, NEW active, NEW table \in SUBSET Connections,
           ServerInv(s, r, asks, active, table), NEW c \in Connections, Len(asks[c]) > 0,
           s.connections[c].stage # "none", NEW active2 \in SUBSET active
    PROVE  Serves(s, Goodbye(s, c), r, asks, c, active2, table)
<1>1. /\ Erased(s) /\ Counted(s, r.link) /\ Consistent(s, r, asks, active, table)
  BY DEF ServerInv
<1>2. PICK t : t = Goodbye(s, c)
  OBVIOUS
<1>3. /\ Consistent(t, r, asks, active, table) /\ Erased(t) /\ Counted(t, r.link) /\ Quieter(s, t)
      /\ Silent(t.connections[c])
  BY <1>1, <1>2, GoodbyeKeeps
<1>4. Consistent(t, r, [asks EXCEPT ![c] = Tail(@)], active2, table)
  BY <1>3, PopKeeps
<1>5. t.lastLobby = s.lastLobby
  BY <1>3 DEF Quieter
<1>. QED
  BY <1>2, <1>3, <1>4, <1>5 DEF Serves, ServerInv

LEMMA EndingIgnores ==
    ASSUME NEW s, NEW r, NEW asks, NEW active, NEW table \in SUBSET Connections,
           ServerInv(s, r, asks, active, table), NEW c \in Connections, Len(asks[c]) > 0,
           Silent(s.connections[c]), NEW active2 \in SUBSET active
    PROVE  Serves(s, s, r, asks, c, active2, table)
<1>1. /\ Erased(s) /\ Counted(s, r.link) /\ Consistent(s, r, asks, active, table)
  BY DEF ServerInv
<1>2. Consistent(s, r, [asks EXCEPT ![c] = Tail(@)], active2, table)
  BY <1>1, PopKeeps
<1>. QED
  BY <1>1, <1>2 DEF Serves, ServerInv

\* Whatever the first message of c is.
LEMMA HandleKeeps ==
    ASSUME NEW s, NEW r, NEW asks, NEW active, NEW table \in SUBSET Connections,
           ServerInv(s, r, asks, active, table), NEW c \in Connections, Len(asks[c]) > 0,
           c \in active, s.connections[c].stage # "none", NEW active2 \in SUBSET active,
           Len(asks[c]) = 1 => c \notin active2
    PROVE  Serves(s, HandleMessage(s, c, asks[c][1]), r, asks, c, active2, table)
<1>1. PICK m, x, stage, kind : /\ m = asks[c][1] /\ x = s.connections[c]
                               /\ stage = s.connections[c].stage /\ kind = asks[c][1].kind
  OBVIOUS
<1>2. m \in Messages /\ x \in ConnectionTypes
  <2>1. asks[c] \in Seq(Messages) /\ s \in ServerTypes
    BY DEF ServerInv, Consistent
  <2>2. PICK q \in Seq(Messages) : q = asks[c]
    BY <2>1
  <2>3. q[1] \in Messages
    BY <2>2
  <2>. QED
    BY <1>1, <2>1, <2>2, <2>3, ServerFields
<1>3. CASE Silent(x)
  <2>1. Serves(s, s, r, asks, c, active2, table)
    BY <1>1, <1>3, EndingIgnores
  <2>. QED
    BY <1>1, <1>3, <2>1 DEF HandleMessage
<1>4. CASE ~Silent(x) /\ stage = "hello"
  <2>1. Serves(s, HandleHello(s, c), r, asks, c, active2, table)
    BY <1>1, <1>4, HelloKeeps
  <2>2. HandleMessage(s, c, m) = HandleHello(s, c)
    BY <1>1, <1>4, Zenon DEF HandleMessage
  <2>. QED
    BY <1>1, <2>1, <2>2
<1>5. CASE ~Silent(x) /\ stage = "identity"
  <2>1. Serves(s, HandleIdentity(s, c), r, asks, c, active2, table)
    BY <1>1, <1>5, IdentityKeeps
  <2>2. HandleMessage(s, c, m) = HandleIdentity(s, c)
    BY <1>1, <1>5, Zenon DEF HandleMessage
  <2>. QED
    BY <1>1, <2>1, <2>2
<1>6. CASE ~Silent(x) /\ stage = "ready" /\ x.lobby = 0 /\ kind = "query"
  <2>1. Serves(s, HandleQuery(s, c), r, asks, c, active2, table)
    BY <1>1, <1>6, QueryKeeps
  <2>2. HandleMessage(s, c, m) = HandleQuery(s, c)
    BY <1>1, <1>6, Zenon DEF HandleMessage
  <2>. QED
    BY <1>1, <2>1, <2>2
<1>7. CASE ~Silent(x) /\ stage = "ready" /\ x.lobby = 0 /\ kind = "create"
  <2>3. m.what \in Passwords
    BY <1>1, <1>2, <1>7, MessageFields
  <2>1. Serves(s, HandleCreate(s, c, m.what), r, asks, c, active2, table)
    BY <1>1, <1>7, <2>3, CreateKeeps
  <2>2. HandleMessage(s, c, m) = HandleCreate(s, c, m.what)
    BY <1>1, <1>7, Zenon DEF HandleMessage
  <2>. QED
    BY <1>1, <2>1, <2>2
<1>8. CASE ~Silent(x) /\ stage = "ready" /\ x.lobby = 0 /\ kind = "join"
  <2>1. Serves(s, HandleJoin(s, c, m.what), r, asks, c, active2, table)
    BY <1>1, <1>8, JoinKeeps
  <2>2. HandleMessage(s, c, m) = HandleJoin(s, c, m.what)
    BY <1>1, <1>8, Zenon DEF HandleMessage
  <2>. QED
    BY <1>1, <2>1, <2>2
<1>9. CASE ~Silent(x) /\ stage = "ready" /\ x.lobby # 0 /\ kind = "send"
  <2>1. Serves(s, HandleSend(s, c), r, asks, c, active2, table)
    BY <1>1, <1>9, SendKeeps
  <2>2. HandleMessage(s, c, m) = HandleSend(s, c)
    BY <1>1, <1>9, Zenon DEF HandleMessage
  <2>. QED
    BY <1>1, <2>1, <2>2
<1>10. CASE /\ ~Silent(x) /\ stage = "ready"
            /\ kind \notin (IF x.lobby = 0 THEN {"query", "create", "join"} ELSE {"send"})
  <2>1. Serves(s, Goodbye(s, c), r, asks, c, active2, table)
    BY ByeKeeps
  <2>2. HandleMessage(s, c, m) = Goodbye(s, c)
    BY <1>1, <1>10, Zenon DEF HandleMessage
  <2>. QED
    BY <1>1, <2>1, <2>2
<1>11. stage \in {"hello", "identity", "ready"}
  BY <1>1, <1>2 DEF ConnectionTypes
<1>12. \/ Silent(x)
       \/ stage \in {"hello", "identity"}
       \/ kind \in {"query", "create", "join"} /\ x.lobby = 0
       \/ kind = "send" /\ x.lobby # 0
       \/ kind \notin (IF x.lobby = 0 THEN {"query", "create", "join"} ELSE {"send"})
  OBVIOUS
<1>. QED
  BY <1>3, <1>4, <1>5, <1>6, <1>7, <1>8, <1>9, <1>10, <1>11, <1>12

-----------------------------------------------------------------------------
(* A turn of the server's loop                                               *)

\* What is left of a list when i elements have been taken from its front.
Left(q, i) == SubSeq(q, i + 1, Len(q))

LEMMA LeftIsRest ==
    ASSUME NEW S, NEW q \in Seq(S)
    PROVE  /\ Left(q, 0) = q /\ Left(q, Len(q)) = <<>>
           /\ \A i \in 0..Len(q) : Left(q, i) \in Seq(S) /\ Len(Left(q, i)) = Len(q) - i
           /\ \A i \in 1..Len(q) : Left(q, i - 1)[1] = q[i] /\ Left(q, i) = Tail(Left(q, i - 1))
<1>1. PICK n \in Nat : n = Len(q)
  OBVIOUS
<1>2. Left(q, 0) = q
  <2>1. 0 + 1 = 1
    OBVIOUS
  <2>. QED
    BY <2>1, SubSeqFull DEF Left
<1>3. Left(q, n) = <<>>
  <2>1. n + 1 \in Int /\ n \in Int /\ n < n + 1
    OBVIOUS
  <2>. QED
    BY <1>1, <2>1, SubSeqEmpty DEF Left
<1>4. ASSUME NEW i \in 0..n
      PROVE  /\ Left(q, i) \in Seq(S) /\ Len(Left(q, i)) = n - i
             /\ \A j \in 1..(n - i) : Left(q, i)[j] = q[i + j]
  <2>1. i + 1 \in Int /\ n \in Int /\ \A j \in (i + 1)..n : q[j] \in S
    BY <1>1
  <2>2. /\ SubSeq(q, i + 1, n) \in Seq(S)
        /\ Len(SubSeq(q, i + 1, n)) = IF i + 1 <= n THEN n - (i + 1) + 1 ELSE 0
        /\ \A j \in 1..(n - (i + 1) + 1) : SubSeq(q, i + 1, n)[j] = q[i + 1 + j - 1]
    BY <2>1, SubSeqProperties
  <2>3. (IF i + 1 <= n THEN n - (i + 1) + 1 ELSE 0) = n - i /\ n - (i + 1) + 1 = n - i
    OBVIOUS
  <2>4. \A j \in 1..(n - i) : i + 1 + j - 1 = i + j
    OBVIOUS
  <2>. QED
    BY <1>1, <2>2, <2>3, <2>4 DEF Left
<1>5. ASSUME NEW i \in 1..n
      PROVE  Left(q, i - 1)[1] = q[i] /\ Left(q, i) = Tail(Left(q, i - 1))
  <2>1. i - 1 \in 0..n /\ i \in 0..n /\ 1 \in 1..(n - (i - 1)) /\ i - 1 + 1 = i
    OBVIOUS
  <2>2. PICK a, b : a = Left(q, i - 1) /\ b = Left(q, i)
    OBVIOUS
  <2>3. /\ a \in Seq(S) /\ Len(a) = n - (i - 1) /\ \A j \in 1..(n - (i - 1)) : a[j] = q[i - 1 + j]
        /\ b \in Seq(S) /\ Len(b) = n - i /\ \A j \in 1..(n - i) : b[j] = q[i + j]
    BY <1>4, <2>1, <2>2
  <2>4. a[1] = q[i]
    BY <2>1, <2>3
  <2>5. /\ Tail(a) \in Seq(S) /\ Len(Tail(a)) = Len(b)
        /\ \A j \in 1..(n - i) : Tail(a)[j] = a[j + 1]
    BY <2>3
  <2>6. \A j \in 1..(n - i) : j + 1 \in 1..(n - (i - 1)) /\ i - 1 + (j + 1) = i + j
    OBVIOUS
  <2>7. \A j \in 1..(n - i) : Tail(a)[j] = b[j]
    BY <2>3, <2>5, <2>6
  <2>8. b = Tail(a)
    BY <2>3, <2>5, <2>7, SeqEqual
  <2>. QED
    BY <2>2, <2>4, <2>8
<1>. QED
  BY <1>1, <1>2, <1>3, <1>4, <1>5

\* All messages of c are handled, one after the other.
LEMMA InputKeeps ==
    ASSUME NEW s, NEW r, NEW asks, NEW active, NEW table \in SUBSET Connections,
           ServerInv(s, r, asks, active, table), NEW c \in Connections, Len(asks[c]) > 0,
           c \in active, c \in table
    PROVE  LET t == Handlings(s, c, asks[c])[Len(asks[c])] IN
           /\ ServerInv(t, r, [asks EXCEPT ![c] = <<>>], active \ {c}, table)
           /\ s.lastLobby <= t.lastLobby
<1>1. asks \in [Connections -> Seq(Messages)] /\ s \in ServerTypes
  BY DEF ServerInv, Consistent
<1>2. PICK q \in Seq(Messages) : q = asks[c]
  BY <1>1
<1>3. PICK n \in Nat : n = Len(q) /\ n > 0
  BY <1>2
<1>. DEFINE E == Handlings(s, c, q)
            Act(i) == IF i = n THEN active \ {c} ELSE active
            Asks(i) == [asks EXCEPT ![c] = Left(q, i)]
            Held(t, i) == ServerInv(t, r, Asks(i), Act(i), table) /\ s.lastLobby <= t.lastLobby
            H == {i \in 0..n : Held(E[i], i)}
<1>4. E[0] = s /\ \A i \in 1..n : E[i] = HandleMessage(E[i - 1], c, q[i])
  <2>1. Len(q) \in Nat
    BY <1>3
  <2>. QED
    BY <1>3, <2>1, HandlingsIs
<1>5. /\ Left(q, 0) = q /\ Left(q, n) = <<>>
      /\ \A i \in 0..n : Left(q, i) \in Seq(Messages) /\ Len(Left(q, i)) = n - i
      /\ \A i \in 1..n : Left(q, i - 1)[1] = q[i] /\ Left(q, i) = Tail(Left(q, i - 1))
  BY <1>3, LeftIsRest
<1>6. 0 \in H
  <2>1. Asks(0) = asks
    BY <1>1, <1>2, <1>5
  <2>2. Act(0) = active
    BY <1>3
  <2>3. s.lastLobby <= s.lastLobby
    BY <1>1, ServerFields
  <2>4. Held(s, 0)
    BY <2>1, <2>2, <2>3
  <2>5. 0 \in 0..n
    BY <1>3
  <2>. QED
    BY <1>4, <2>4, <2>5
<1>7. ASSUME NEW i \in 1..n, i - 1 \in H PROVE i \in H
  <2>1. PICK u, a, b : u = E[i - 1] /\ a = Asks(i - 1) /\ b = Asks(i)
    OBVIOUS
  <2>2. Act(i - 1) = active
    BY <1>3, <1>7
  <2>3. ServerInv(u, r, a, active, table) /\ s.lastLobby <= u.lastLobby
    <3>1. Held(u, i - 1)
      BY <1>7, <2>1
    <3>. QED
      BY <2>1, <2>2, <3>1
  <2>4. i - 1 \in 0..n /\ n - (i - 1) > 0 /\ (n - (i - 1) = 1 => i = n)
    BY <1>3, <1>7
  <2>5. a[c] = Left(q, i - 1) /\ \A d \in Connections : d # c => a[d] = asks[d]
    BY <1>1, <2>1
  <2>6. Len(a[c]) > 0 /\ (Len(a[c]) = 1 => i = n) /\ a[c][1] = q[i]
    <3>1. Len(a[c]) = n - (i - 1)
      BY <1>5, <2>4, <2>5
    <3>2. a[c][1] = q[i]
      BY <1>5, <1>7, <2>5
    <3>. QED
      BY <2>4, <3>1, <3>2
  <2>7. b = [a EXCEPT ![c] = Tail(@)]
    <3>1. b = [asks EXCEPT ![c] = Tail(a[c])]
      BY <1>5, <1>7, <2>1, <2>5
    <3>2. a = [asks EXCEPT ![c] = Left(q, i - 1)]
      BY <2>1
    <3>3. [[asks EXCEPT ![c] = Left(q, i - 1)] EXCEPT ![c] = Tail(a[c])] = [asks EXCEPT ![c] = Tail(a[c])]
      BY <1>1
    <3>. QED
      BY <3>1, <3>2, <3>3
  <2>8. PICK act2 : act2 = Act(i)
    OBVIOUS
  <2>9. act2 \in SUBSET active /\ (Len(a[c]) = 1 => c \notin act2)
    BY <2>6, <2>8
  <2>10. u.connections[c].stage # "none" /\ u \in ServerTypes
    BY <2>3 DEF ServerInv, Consistent
  <2>11. PICK t : t = HandleMessage(u, c, q[i])
    OBVIOUS
  <2>12. Serves(u, t, r, a, c, act2, table)
    <3>1. Serves(u, HandleMessage(u, c, a[c][1]), r, a, c, act2, table)
      BY <2>3, <2>6, <2>9, <2>10, HandleKeeps
    <3>. QED
      BY <2>6, <2>11, <3>1
  <2>13. ServerInv(t, r, b, act2, table) /\ t.lastLobby \in {u.lastLobby, u.lastLobby + 1}
    BY <2>7, <2>12 DEF Serves
  <2>14. s.lastLobby <= t.lastLobby
    <3>1. PICK e \in Nat, f \in Nat : e = s.lastLobby /\ f = u.lastLobby
      BY <1>1, <2>10, ServerFields
    <3>2. e <= f
      BY <2>3, <3>1
    <3>. QED
      BY <2>13, <3>1, <3>2
  <2>15. Held(t, i)
    BY <2>1, <2>8, <2>13, <2>14
  <2>16. E[i] = t /\ i \in 0..n
    BY <1>3, <1>4, <1>7, <2>1, <2>11
  <2>. QED
    BY <2>15, <2>16
<1>. HIDE DEF H
<1>8. n \in H
  <2>1. n \in 0..n
    BY <1>3
  <2>. QED
    BY <1>3, <1>6, <1>7, <2>1, StepByStep
<1>9. Held(E[n], n)
  BY <1>8 DEF H
<1>10. Asks(n) = [asks EXCEPT ![c] = <<>>] /\ Act(n) = active \ {c}
  BY <1>5
<1>. QED
  BY <1>2, <1>3, <1>9, <1>10

\* The connections that the server may still hear, and those that it visits.
LEMMA Retabled ==
    ASSUME NEW s, NEW r, NEW asks, NEW active, NEW table, ServerInv(s, r, asks, active, table),
           NEW active2 \in SUBSET active, NEW table2, \A c \in table2 : s.connections[c].stage # "none"
    PROVE  ServerInv(s, r, asks, active2, table2)
<1>1. Alone(s.connections, active2)
  BY DEF ServerInv, Consistent, Alone
<1>. QED
  BY <1>1 DEF ServerInv, Consistent

\* When no connection that can be heard replaces a member, all may be heard.
LEMMA AllHeard ==
    ASSUME NEW s, NEW r, NEW asks, NEW active, NEW table, ServerInv(s, r, asks, active, table),
           NEW active2,
           \A c, d \in Connections : Replaced(s.connections, c, d) => c \notin active2
    PROVE  ServerInv(s, r, asks, active2, table)
<1>1. Alone(s.connections, active)
  BY DEF ServerInv, Consistent
<1>2. Alone(s.connections, active2)
  BY <1>1 DEF Alone, Replaced
<1>. QED
  BY <1>2 DEF ServerInv, Consistent

\* A member that is replaced is dead, and remains so while connections only end.
LEMMA ReplacedIsDead ==
    ASSUME NEW conns, NEW active, Alone(conns, active), NEW c \in Connections, NEW d \in Connections,
           Replaced(conns, c, d)
    PROVE  conns[d].dead /\ c \notin active
BY DEF Alone, Replaced

LEMMA ReplacedBefore ==
    ASSUME NEW s, NEW t, NEW c \in Connections, NEW d \in Connections, Replaced(t.connections, c, d),
           t.connections[c].stage = s.connections[c].stage,
           s.connections[c].closing => t.connections[c].closing,
           s.connections[c].dead => t.connections[c].dead,
           t.connections[d].lobby \in {0, s.connections[d].lobby}
    PROVE  Replaced(s.connections, c, d)
BY DEF Replaced, Silent

LEMMA QuieterTwice ==
    ASSUME NEW s, NEW t, NEW u, Quieter(s, t), Quieter(t, u)
    PROVE  Quieter(s, u)
BY DEF Quieter

\* Send_Outgoing.
LEMMA RelayKeeps ==
    ASSUME NEW s, NEW r, NEW asks, NEW active, NEW table \in SUBSET Connections,
           ServerInv(s, r, asks, active, table), NEW l \in 1..s.lastLobby
    PROVE  ServerInv(Relay(s, l), r, asks, active, table) /\ Quieter(s, Relay(s, l))
<1>1. /\ s \in ServerTypes /\ Erased(s) /\ Counted(s, r.link) /\ Consistent(s, r, asks, active, table)
  BY DEF ServerInv, Consistent
<1>2. l \in 1..Cardinality(Connections)
  <2>1. PICK e \in Nat, n \in Nat : e = s.lastLobby /\ n = Cardinality(Connections)
    BY <1>1, ServerFields, LastLobbyBounded
  <2>2. e <= n
    BY <1>1, <2>1, LastLobbyBounded
  <2>3. l \in 1..e
    BY <2>1
  <2>. QED
    BY <2>1, <2>2, <2>3
<1>3. PICK cs, m : cs = Range(Addressed(l, s)) /\ m = About("server message", l)
  OBVIOUS
<1>4. m \in Messages /\ m.kind = "server message" /\ m.what = l
  BY <1>2, <1>3, MessagesMade
<1>5. cs \in SUBSET Range(s.lobby.members) /\ (l = s.lobby.id \/ cs = {})
  <2>1. CASE l = s.lobby.id
    BY <1>3, <2>1 DEF Addressed
  <2>2. CASE l # s.lobby.id
    <3>1. Range(<<>>) = {}
      BY DEF Range
    <3>. QED
      BY <1>3, <2>2, <3>1 DEF Addressed
  <2>. QED
    BY <2>1, <2>2
<1>6. \A d \in cs : Tells(IdentityOf[d], s.lobby.id, Others(s.lobby.members, d),
                          Others(s.lobby.members, d), m)
  BY <1>4, <1>5 DEF Tells
<1>7. PICK t : t = SendAll(s, cs, m)
  OBVIOUS
<1>8. Consistent(t, r, asks, active, table) /\ Erased(t) /\ Counted(t, r.link) /\ Quieter(s, t)
  BY <1>1, <1>4, <1>5, <1>6, <1>7, NewsKeeps
<1>. QED
  BY <1>3, <1>7, <1>8 DEF Relay, ServerInv

LEMMA RelaysKeep ==
    ASSUME NEW s, NEW r, NEW asks, NEW active, NEW table \in SUBSET Connections,
           ServerInv(s, r, asks, active, table), NEW ls \in Seq(1..s.lastLobby)
    PROVE  /\ ServerInv(Relays(s, ls)[Len(ls)], r, asks, active, table)
           /\ Quieter(s, Relays(s, ls)[Len(ls)])
<1>6. PICK L : L = 1..s.lastLobby
  OBVIOUS
<1>7. PICK n \in Nat : n = Len(ls)
  OBVIOUS
<1>1. n \in Nat /\ n = Len(ls) /\ \A i \in 1..n : ls[i] \in 1..s.lastLobby
  <2>1. ls \in Seq(L)
    BY <1>6
  <2>2. \A i \in 1..n : ls[i] \in L
    BY <1>7, <2>1
  <2>. QED
    BY <1>6, <1>7, <2>2, Zenon
<1>. DEFINE E == Relays(s, ls)
            H == {i \in 0..n : ServerInv(E[i], r, asks, active, table) /\ Quieter(s, E[i])}
<1>2. E[0] = s /\ \A i \in 1..n : E[i] = Relay(E[i - 1], ls[i])
  BY <1>1, RelaysIs
<1>3. 0 \in H
  <2>1. Quieter(s, s) /\ 0 \in 0..n
    BY <1>1 DEF Quieter
  <2>. QED
    BY <1>2, <2>1
<1>4. ASSUME NEW i \in 1..n, i - 1 \in H PROVE i \in H
  <2>1. PICK u, t, l : u = E[i - 1] /\ l = ls[i] /\ t = Relay(u, l)
    OBVIOUS
  <2>2. ServerInv(u, r, asks, active, table) /\ Quieter(s, u)
    BY <1>4, <2>1
  <2>3. l \in 1..u.lastLobby
    BY <1>1, <1>4, <2>1, <2>2 DEF Quieter
  <2>4. ServerInv(t, r, asks, active, table) /\ Quieter(u, t)
    BY <2>1, <2>2, <2>3, RelayKeeps
  <2>5. Quieter(s, t)
    BY <2>2, <2>4, QuieterTwice
  <2>6. E[i] = t /\ i \in 0..n
    BY <1>1, <1>2, <1>4, <2>1
  <2>. QED
    BY <2>4, <2>5, <2>6
<1>. HIDE DEF H
<1>5. n \in H
  <2>1. n \in 0..n
    BY <1>1
  <2>. QED
    BY <1>1, <1>3, <1>4, <2>1, StepByStep
<1>. QED
  BY <1>1, <1>5 DEF H

\* A connection whose socket fails, or that has been too slow to say hello.
Dead(s, c) == [s EXCEPT !.connections[c].dead = TRUE]

LEMMA DeadIs ==
    ASSUME NEW s \in ServerTypes, NEW c \in Connections
    PROVE  /\ Dead(s, c) \in ServerTypes /\ Quieter(s, Dead(s, c))
           /\ Silent(Dead(s, c).connections[c])
           /\ Dead(s, c).connections[c].output = s.connections[c].output
           /\ \A d \in Connections : d # c => Dead(s, c).connections[d] = s.connections[d]
           /\ Dead(s, c).connections = [s.connections EXCEPT ![c].dead = TRUE]
<1>1. PICK x, y : x = s.connections[c] /\ y = [s.connections[c] EXCEPT !.dead = TRUE]
  OBVIOUS
<1>2. x \in ConnectionTypes
  BY <1>1, ServerFields
<1>3. /\ y \in ConnectionTypes /\ y.stage = x.stage /\ y.lobby = x.lobby /\ y.dead = TRUE
      /\ y.output = x.output /\ y.closing = x.closing
  BY <1>1, <1>2 DEF ConnectionTypes
<1>4. Dead(s, c) = [s EXCEPT !.connections = [s.connections EXCEPT ![c] = y]]
  BY <1>1 DEF Dead
<1>5. PICK t : t = [s EXCEPT !.connections = [s.connections EXCEPT ![c] = y]]
  OBVIOUS
<1>6. /\ t \in ServerTypes /\ t.connections[c] = y
      /\ \A d \in Connections : d # c => t.connections[d] = s.connections[d]
      /\ t.lobby = s.lobby /\ t.lastLobby = s.lastLobby /\ t.heard = s.heard
  BY <1>3, <1>5, Changed
<1>7. Quieter(s, t)
  <2>1. SUFFICES ASSUME NEW d \in Connections
                 PROVE  /\ t.connections[d].stage = s.connections[d].stage
                        /\ t.connections[d].lobby = s.connections[d].lobby
                        /\ s.connections[d].closing => t.connections[d].closing
                        /\ s.connections[d].dead => t.connections[d].dead
    BY <1>6 DEF Quieter
  <2>2. CASE d = c
    BY <1>1, <1>3, <1>6, <2>2
  <2>3. CASE d # c
    BY <1>6, <2>3
  <2>. QED
    BY <2>2, <2>3
<1>8. Silent(y)
  BY <1>3 DEF Silent
<1>9. t.connections = [s.connections EXCEPT ![c] = y]
  BY <1>5 DEF ServerTypes
<1>10. [s.connections EXCEPT ![c].dead = TRUE] = [s.connections EXCEPT ![c] = y]
  BY <1>1
<1>. QED
  <2>1. Silent(t.connections[c]) /\ t.connections[c].output = s.connections[c].output
    BY <1>1, <1>3, <1>6, <1>8
  <2>2. Dead(s, c) = t
    BY <1>4, <1>5
  <2>3. t.connections = [s.connections EXCEPT ![c].dead = TRUE]
    BY <1>9, <1>10, Zenon
  <2>. QED
    BY <1>6, <1>7, <2>1, <2>2, <2>3, Zenon

LEMMA DeadKeeps ==
    ASSUME NEW s, NEW r, NEW asks, NEW active, NEW table \in SUBSET Connections,
           ServerInv(s, r, asks, active, table), NEW c \in Connections, s.connections[c].stage # "none"
    PROVE  ServerInv(Dead(s, c), r, asks, active, table)
<1>1. /\ s \in ServerTypes /\ r \in ReaderTypes /\ asks \in [Connections -> Seq(Messages)]
      /\ Erased(s) /\ Counted(s, r.link) /\ Consistent(s, r, asks, active, table)
  BY DEF ServerInv, Consistent
<1>2. PICK t : t = Dead(s, c)
  OBVIOUS
<1>3. /\ t \in ServerTypes /\ Quieter(s, t) /\ Silent(t.connections[c])
      /\ t.connections[c].output = s.connections[c].output
      /\ \A d \in Connections : d # c => t.connections[d] = s.connections[d]
  <2>1. /\ Dead(s, c) \in ServerTypes /\ Quieter(s, Dead(s, c)) /\ Silent(Dead(s, c).connections[c])
        /\ Dead(s, c).connections[c].output = s.connections[c].output
        /\ \A d \in Connections : d # c => Dead(s, c).connections[d] = s.connections[d]
    BY <1>1, DeadIs, ZenonT(60)
  <2>. QED
    BY <1>2, <2>1, ZenonT(60)
<1>4. AllSound(t, r, asks)
  <2>1. SUFFICES ASSUME NEW d \in Connections
                 PROVE  Sound(IdentityOf[d], r.link[d], r.state[d], r.peers[d], r.joined[d],
                              r.inbox[d], asks[d], t.connections[d], s.lobby.id,
                              Others(s.lobby.members, d), s.lastLobby)
    BY <1>3 DEF AllSound, Quieter
  <2>2. CASE d # c
    BY <1>1, <1>3, <2>2, SoundOf
  <2>3. CASE d = c
    <3>1. PICK id, lk, st, known, l, tc, q, x, y, others, last :
            /\ id = IdentityOf[d] /\ lk = r.link[d] /\ st = r.state[d] /\ known = r.peers[d]
            /\ l = r.joined[d] /\ tc = r.inbox[d] /\ q = asks[d] /\ x = s.connections[d]
            /\ y = t.connections[d] /\ others = Others(s.lobby.members, d) /\ last = s.lastLobby
      OBVIOUS
    <3>2. /\ lk \in Links /\ st \in States /\ known \in Seq(Identities) /\ l \in Nat
          /\ tc \in Seq(Messages) /\ q \in Seq(Messages) /\ x \in ConnectionTypes /\ last \in Nat
          /\ Sound(id, lk, st, known, l, tc, q, x, s.lobby.id, others, last)
      BY <1>1, <3>1, SoundOf
    <3>3. y \in ConnectionTypes
      BY <1>3, <3>1, ServerFields
    <3>4. y.stage = x.stage /\ y.lobby = x.lobby /\ y.output = x.output /\ Silent(y) /\ x.stage # "none"
      BY <1>3, <2>3, <3>1 DEF Quieter
    <3>5. last <= last
      BY <3>2
    <3>6. Sound(id, lk, st, known, l, tc, q, y, s.lobby.id, others, last)
      BY <3>2, <3>3, <3>4, <3>5, SoundKept
    <3>. QED
      BY <3>1, <3>6
  <2>. QED
    BY <2>2, <2>3
<1>5. /\ Consistent(t, r, asks, active, table)
      /\ Erased(s) => Erased(t)
      /\ \A links : Counted(s, links) => Counted(t, links)
  BY <1>1, <1>3, <1>4, QuieterKeeps
<1>. QED
  BY <1>1, <1>2, <1>5 DEF ServerInv

\* What a socket has taken is under way to the client, unless that is gone.
Flushed(lk, tc, o, tc2, o2) ==
    \/ tc2 \o o2 = tc \o o /\ (lk # "open" => tc2 = tc)
    \/ lk = "client closed" /\ tc2 = tc /\ o2 = <<>>

LEMMA SoundFlushed ==
    ASSUME NEW id, NEW lk \in Links, NEW st \in States, NEW known \in Seq(Identities), NEW l \in Nat,
           NEW tc \in Seq(Messages), NEW q \in Seq(Messages), NEW x \in ConnectionTypes,
           NEW lobbyId, NEW others, NEW last \in Nat,
           Sound(id, lk, st, known, l, tc, q, x, lobbyId, others, last),
           NEW y \in ConnectionTypes, NEW tc2 \in Seq(Messages),
           y.stage = x.stage, y.lobby = x.lobby, Silent(x) => Silent(y), y.stage = "none" => y = x,
           Flushed(lk, tc, x.output, tc2, y.output)
    PROVE  Sound(id, lk, st, known, l, tc2, q, y, lobbyId, others, last)
<1>1. PICK w : w = tc \o x.output
  OBVIOUS
<1>2. /\ w \in Seq(Messages) /\ Flow(id, lk, st, known, l, q, x, w, lobbyId, others, last)
      /\ \A i \in 1..Len(w) : w[i].kind = "joined" => w[i].lobby \in Nat
  BY <1>1, SoundParts
<1>3. Ends(lk, st, l, tc, q) /\ Tabled(lk, x)
  BY DEF Sound
<1>4. Tabled(lk, y)
  BY <1>3 DEF Tabled
<1>5. Ends(lk, st, l, tc2, q)
  BY <1>3 DEF Ends, Flushed
<1>6. CASE tc2 \o y.output = tc \o x.output
  <2>1. last <= last
    OBVIOUS
  <2>2. Flow(id, lk, st, known, l, q, y, w, lobbyId, others, last)
    BY <1>2, <2>1, FlowKept
  <2>. QED
    BY <1>1, <1>4, <1>5, <1>6, <2>2 DEF Sound
<1>7. CASE lk = "client closed" /\ tc2 = tc /\ y.output = <<>>
  <2>1. tc2 \o y.output = tc
    <3>1. tc \o <<>> = tc
      OBVIOUS
    <3>. QED
      BY <1>7, <3>1, Zenon
  <2>2. ~Runs(st) /\ Len(tc) = 0 /\ \A i \in 1..0 : FALSE
    <3>1. \A i \in 1..0 : FALSE
      OBVIOUS
    <3>2. ~Runs(st) /\ Len(tc) = 0
      BY <1>3, <1>7, Zenon DEF Ends
    <3>. QED
      BY <3>1, <3>2
  <2>3. lk # "open" /\ lk # "server closed"
    BY <1>7
  <2>4. ~Silent(y) => Speaks(lk, st, known, l, q, y, tc, lobbyId, others)
    <3>1. SUFFICES ASSUME ~Silent(y), y.lobby = 0 PROVE Len(tc) + Len(q) <= 1
      BY <2>3 DEF Speaks
    <3>2. Len(w) + Len(q) <= 1
      BY <1>2, <2>3, <3>1 DEF Flow, Speaks
    <3>3. PICK a \in Nat, b \in Nat : a = Len(w) /\ b = Len(q)
      BY <1>2
    <3>4. 0 + b <= 1
      BY <3>2, <3>3
    <3>. QED
      BY <2>2, <3>3, <3>4
  <2>5. l <= last
    BY <1>2 DEF Flow
  <2>6. \A i \in 1..Len(tc) : tc[i].kind = "joined" => tc[i].lobby <= last
    BY <2>2
  <2>7. Flow(id, lk, st, known, l, q, y, tc, lobbyId, others, last)
    BY <2>2, <2>4, <2>5, <2>6 DEF Flow
  <2>. QED
    BY <1>4, <1>5, <2>1, <2>7 DEF Sound
<1>. QED
  BY <1>6, <1>7 DEF Flushed

\* The reader r2 is r, but for what has arrived.
Arrived(r, r2) ==
    r2 \in ReaderTypes /\ r2.link = r.link /\ r2.state = r.state /\ r2.peers = r.peers
    /\ r2.joined = r.joined

LEMMA FlushKeeps ==
    ASSUME NEW s, NEW r, NEW asks, NEW active, NEW table \in SUBSET Connections,
           ServerInv(s, r, asks, active, table), NEW t \in ServerTypes, NEW r2,
           Quieter(s, t), Arrived(r, r2),
           \A d \in Connections :
              /\ t.connections[d].stage = "none" => t.connections[d] = s.connections[d]
              /\ Flushed(r.link[d], r.inbox[d], s.connections[d].output, r2.inbox[d],
                         t.connections[d].output)
    PROVE  ServerInv(t, r2, asks, active, table)
<1>1. /\ s \in ServerTypes /\ r \in ReaderTypes /\ asks \in [Connections -> Seq(Messages)]
      /\ Erased(s) /\ Counted(s, r.link) /\ Consistent(s, r, asks, active, table)
      /\ r2 \in ReaderTypes
  BY DEF ServerInv, Consistent, Arrived
<1>2. AllSound(t, r2, asks)
  <2>1. SUFFICES ASSUME NEW d \in Connections
                 PROVE  Sound(IdentityOf[d], r.link[d], r.state[d], r.peers[d], r.joined[d],
                              r2.inbox[d], asks[d], t.connections[d], s.lobby.id,
                              Others(s.lobby.members, d), s.lastLobby)
    BY Zenon DEF AllSound, Quieter, Arrived
  <2>2. PICK id, lk, st, known, l, tc, tc2, q, x, y, others, last :
          /\ id = IdentityOf[d] /\ lk = r.link[d] /\ st = r.state[d] /\ known = r.peers[d]
          /\ l = r.joined[d] /\ tc = r.inbox[d] /\ tc2 = r2.inbox[d] /\ q = asks[d]
          /\ x = s.connections[d] /\ y = t.connections[d]
          /\ others = Others(s.lobby.members, d) /\ last = s.lastLobby
    OBVIOUS
  <2>3. /\ lk \in Links /\ st \in States /\ known \in Seq(Identities) /\ l \in Nat
        /\ tc \in Seq(Messages) /\ q \in Seq(Messages) /\ x \in ConnectionTypes /\ last \in Nat
        /\ Sound(id, lk, st, known, l, tc, q, x, s.lobby.id, others, last)
    BY <1>1, <2>2, SoundOf
  <2>4. y \in ConnectionTypes /\ tc2 \in Seq(Messages)
    <3>1. y \in ConnectionTypes
      BY <2>2, ServerFields
    <3>. QED
      BY <1>1, <2>2, <3>1 DEF ReaderTypes
  <2>5. y.stage = x.stage /\ y.lobby = x.lobby /\ (Silent(x) => Silent(y))
    BY <2>2 DEF Quieter, Silent
  <2>6. /\ y.stage = "none" => y = x
        /\ Flushed(lk, tc, x.output, tc2, y.output)
    BY <2>2
  <2>7. Sound(id, lk, st, known, l, tc2, q, y, s.lobby.id, others, last)
    BY <2>3, <2>4, <2>5, <2>6, SoundFlushed
  <2>. QED
    BY <2>2, <2>7
<1>3. /\ Consistent(t, r2, asks, active, table)
      /\ Erased(s) => Erased(t)
      /\ \A links : Counted(s, links) => Counted(t, links)
  BY <1>1, <1>2, QuieterKeeps
<1>4. Counted(t, r2.link)
  BY <1>1, <1>3 DEF Arrived
<1>. QED
  BY <1>1, <1>3, <1>4 DEF ServerInv

\* A connection that the server has taken out of the table.
LEMMA SoundRemoved ==
    ASSUME NEW id, NEW lk \in Links, NEW st \in States, NEW known \in Seq(Identities), NEW l \in Nat,
           NEW tc \in Seq(Messages), NEW q \in Seq(Messages), NEW x \in ConnectionTypes,
           NEW lobbyId, NEW others, NEW last \in Nat,
           Sound(id, lk, st, known, l, tc, q, x, lobbyId, others, last),
           x.stage # "none", NEW lobbyId2, NEW others2
    PROVE  Sound(id, "server closed", st, known, l, tc, <<>>, NoConnection, lobbyId2, others2, last)
<1>1. PICK w, o : w = tc \o x.output /\ o = x.output
  OBVIOUS
<1>2. /\ w \in Seq(Messages) /\ Flow(id, lk, st, known, l, q, x, w, lobbyId, others, last)
      /\ Accepted(lk, st) /\ o \in Seq(Messages)
  BY <1>1, SoundParts
<1>3. Ends(lk, st, l, tc, q)
  BY DEF Sound
<1>4. NoConnection.output = <<>> /\ NoConnection.lobby = 0 /\ NoConnection.stage = "none"
  BY DEF NoConnection
<1>5. tc \o NoConnection.output = tc
  BY <1>4
<1>6. Tabled("server closed", NoConnection)
  BY <1>4 DEF Tabled
<1>7. Ends("server closed", st, l, tc, <<>>)
  BY <1>2, <1>3 DEF Ends, Accepted
<1>8. Len(tc) <= Len(w) /\ \A i \in 1..Len(tc) : i \in 1..Len(w) /\ tc[i] = w[i]
  <2>1. PICK a \in Nat, b \in Nat : a = Len(tc) /\ b = Len(o)
    BY <1>2
  <2>2. /\ Len(tc \o o) = Len(tc) + Len(o)
        /\ \A i \in 1 .. Len(tc) + Len(o) : (tc \o o)[i] = IF i <= Len(tc) THEN tc[i] ELSE o[i - Len(tc)]
    BY <1>2, ConcatProperties
  <2>3. a <= a + b /\ \A i \in 1..a : i \in 1..(a + b) /\ i <= a
    BY <2>1
  <2>. QED
    BY <1>1, <2>1, <2>2, <2>3
<1>9. Runs(st) => Orderly(id, st, known, l, tc)
  <2>1. SUFFICES ASSUME Runs(st) PROVE Orderly(id, st, known, l, tc)
    OBVIOUS
  <2>2. Orderly(id, st, known, l, w)
    BY <1>2, <2>1 DEF Flow
  <2>. QED
    BY <1>2, <1>8, <2>2, OrderlyPrefix
<1>10. l <= last /\ \A i \in 1..Len(tc) : tc[i].kind = "joined" => tc[i].lobby <= last
  BY <1>2, <1>8 DEF Flow
<1>11. Speaks("server closed", st, known, l, <<>>, NoConnection, tc, lobbyId2, others2)
  BY DEF Speaks
<1>12. Flow(id, "server closed", st, known, l, <<>>, NoConnection, tc, lobbyId2, others2, last)
  BY <1>9, <1>10, <1>11 DEF Flow
<1>. QED
  BY <1>5, <1>6, <1>7, <1>12 DEF Sound

\* The reader r2 is r, but for the connection c, that the server has closed.
ClosedFor(r, r2, c) ==
    /\ r2.link = [r.link EXCEPT ![c] = "server closed"] /\ r2.state = r.state
    /\ r2.peers = r.peers /\ r2.joined = r.joined /\ r2.inbox = r.inbox /\ r2 \in ReaderTypes

LEMMA CloseKeeps ==
    ASSUME NEW s, NEW r, NEW asks, NEW active, NEW table \in SUBSET Connections,
           ServerInv(s, r, asks, active, table), NEW c \in Connections, s.connections[c].dead, NEW r2,
           ClosedFor(r, r2, c)
    PROVE  /\ ServerInv(Removed(s, c), r2, [asks EXCEPT ![c] = <<>>], active, {})
           /\ Removed(s, c).lastLobby = s.lastLobby
           /\ Removed(s, c).connections[c] = NoConnection
           /\ \A d \in Connections : d # c =>
                 /\ Removed(s, c).connections[d].stage = s.connections[d].stage
                 /\ Removed(s, c).connections[d].lobby \in {0, s.connections[d].lobby}
                 /\ s.connections[d].closing => Removed(s, c).connections[d].closing
                 /\ s.connections[d].dead => Removed(s, c).connections[d].dead
<1>1. /\ s \in ServerTypes /\ r \in ReaderTypes /\ asks \in [Connections -> Seq(Messages)]
      /\ Erased(s) /\ Counted(s, r.link) /\ Consistent(s, r, asks, active, table)
      /\ AllSound(s, r, asks)
  BY DEF ServerInv, Consistent
<1>2. Silent(s.connections[c])
  BY DEF Silent
<1>3. PICK u : u = LeaveLobby(s, c)
  OBVIOUS
<1>4. /\ Consistent(u, r, asks, active, table) /\ Erased(u) /\ u \in ServerTypes
      /\ u.lastLobby = s.lastLobby /\ u.lobby.id \in {0, s.lobby.id}
      /\ Passing(s, u)
      /\ u.connections[c].lobby = 0
      /\ \A d \in Connections : d # c => u.connections[d].lobby = s.connections[d].lobby
  BY <1>1, <1>2, <1>3, LeaveKeeps
<1>5. Tied(u) /\ Heard(u) /\ Alone(u.connections, active)
  BY <1>4 DEF Consistent
<1>6. s.connections[c].stage # "none" /\ u.connections[c].stage # "none"
  <2>1. PICK x, lk : x = s.connections[c] /\ lk = r.link[c]
    OBVIOUS
  <2>2. Tabled(lk, x)
    BY <1>1, <2>1 DEF AllSound, Sound
  <2>4. x.dead /\ ~NoConnection.dead
    BY <2>1 DEF NoConnection
  <2>3. x.stage # "none"
    BY <2>2, <2>4 DEF Tabled
  <2>. QED
    BY <1>4, <2>1, <2>3 DEF Passing
<1>7. NoConnection \in ConnectionTypes /\ NoConnection.lobby = 0 /\ NoConnection.stage = "none"
  <2>1. <<>> \in Seq(Messages)
    OBVIOUS
  <2>. QED
    BY <2>1 DEF NoConnection, ConnectionTypes
<1>8. PICK t : t = [u EXCEPT !.connections = [u.connections EXCEPT ![c] = NoConnection]]
  OBVIOUS
<1>9. /\ t \in ServerTypes /\ t.connections[c] = NoConnection
      /\ \A d \in Connections : d # c => t.connections[d] = u.connections[d]
      /\ t.lobby = u.lobby /\ t.lastLobby = u.lastLobby /\ t.heard = u.heard
  BY <1>4, <1>7, <1>8, Changed
<1>10. Removed(s, c) = t
  BY <1>3, <1>8 DEF Removed
<1>11. /\ r2.link[c] = "server closed" /\ \A d \in Connections : d # c => r2.link[d] = r.link[d]
       /\ r2 \in ReaderTypes
  BY <1>1, ZenonT(60) DEF ClosedFor, ReaderTypes
<1>12. PICK left : left = [asks EXCEPT ![c] = <<>>]
  OBVIOUS
<1>13. /\ left \in [Connections -> Seq(Messages)] /\ left[c] = <<>>
       /\ \A d \in Connections : d # c => left[d] = asks[d]
  <2>1. <<>> \in Seq(Messages)
    OBVIOUS
  <2>. QED
    BY <1>1, <1>12, <2>1
<1>14. Tied(t)
  <2>1. \A d \in Connections : t.connections[d].lobby = u.connections[d].lobby
    BY <1>4, <1>7, <1>9
  <2>2. \A d \in Connections : u.connections[d].lobby # 0 => t.connections[d] = u.connections[d]
    BY <1>4, <1>9
  <2>. QED
    BY <1>5, <1>9, <2>1, <2>2 DEF Tied
<1>15. Heard(t)
  BY <1>5, <1>9, HeardKept
<1>16. Alone(t.connections, active)
  <2>1. t.connections[c].stage # "ready" /\ t.connections[c].lobby = 0
    BY <1>7, <1>9
  <2>. QED
    BY <1>5, <1>9, <2>1, ZenonT(60) DEF Alone
<1>17. AllSound(t, r2, left)
  <2>1. SUFFICES ASSUME NEW d \in Connections
                 PROVE  Sound(IdentityOf[d], r2.link[d], r.state[d], r.peers[d], r.joined[d],
                              r.inbox[d], left[d], t.connections[d], u.lobby.id,
                              Others(u.lobby.members, d), u.lastLobby)
    BY <1>9, Zenon DEF AllSound, ClosedFor
  <2>2. CASE d # c
    BY <1>4, <1>9, <1>11, <1>13, <2>2, SoundOf
  <2>3. CASE d = c
    <3>1. PICK id, lk, st, known, l, tc, q, x, others, last :
            /\ id = IdentityOf[d] /\ lk = r.link[d] /\ st = r.state[d] /\ known = r.peers[d]
            /\ l = r.joined[d] /\ tc = r.inbox[d] /\ q = asks[d] /\ x = u.connections[d]
            /\ others = Others(u.lobby.members, d) /\ last = u.lastLobby
      OBVIOUS
    <3>2. /\ lk \in Links /\ st \in States /\ known \in Seq(Identities) /\ l \in Nat
          /\ tc \in Seq(Messages) /\ q \in Seq(Messages) /\ x \in ConnectionTypes /\ last \in Nat
          /\ Sound(id, lk, st, known, l, tc, q, x, u.lobby.id, others, last)
      BY <1>4, <3>1, SoundOf
    <3>3. x.stage # "none"
      BY <1>6, <2>3, <3>1
    <3>4. Sound(id, "server closed", st, known, l, tc, <<>>, NoConnection, u.lobby.id, others, last)
      BY <3>2, <3>3, SoundRemoved
    <3>. QED
      BY <1>9, <1>11, <1>13, <2>3, <3>1, <3>4
  <2>. QED
    BY <2>2, <2>3
<1>18. Erased(t)
  BY <1>4, <1>9 DEF Erased
<1>19. Counted(t, r2.link)
  <2>1. Users(s.connections, r.link) \subseteq Users(t.connections, r2.link)
    BY <1>4, <1>9, <1>11 DEF Users, Passing
  <2>2. t.lastLobby = s.lastLobby /\ t.lobby.id \in {0, s.lobby.id}
    BY <1>4, <1>9
  <2>. QED
    BY <1>1, <1>9, <2>1, <2>2, CountedKept
<1>20. Consistent(t, r2, left, active, {})
  BY <1>9, <1>11, <1>13, <1>14, <1>15, <1>16, <1>17 DEF Consistent
<1>21. \A d \in Connections : d # c =>
          /\ t.connections[d].stage = s.connections[d].stage
          /\ t.connections[d].lobby \in {0, s.connections[d].lobby}
          /\ s.connections[d].closing => t.connections[d].closing
          /\ s.connections[d].dead => t.connections[d].dead
  BY <1>4, <1>9 DEF Passing
<1>22. ServerInv(t, r2, left, active, {})
  BY <1>18, <1>19, <1>20 DEF ServerInv
<1>. QED
  BY <1>4, <1>9, <1>10, <1>12, <1>21, <1>22

\* A connection that is accepted.
LEMMA SoundAccepted ==
    ASSUME NEW id, NEW lk \in Links, NEW st \in States, NEW known \in Seq(Identities), NEW l \in Nat,
           NEW tc \in Seq(Messages), NEW q \in Seq(Messages), NEW x \in ConnectionTypes,
           NEW lobbyId, NEW others, NEW last \in Nat,
           Sound(id, lk, st, known, l, tc, q, x, lobbyId, others, last),
           x.stage = "none", lk \in {"open", "client closed"}, NEW y \in ConnectionTypes,
           y.stage = "hello", y.lobby = 0, ~Silent(y), y.output = <<>>
    PROVE  Sound(id, lk, st, known, l, tc, q, y, lobbyId, others, last)
<1>1. PICK w : w = tc \o x.output
  OBVIOUS
<1>2. /\ w \in Seq(Messages) /\ Flow(id, lk, st, known, l, q, x, w, lobbyId, others, last)
  BY <1>1, SoundParts
<1>3. Ends(lk, st, l, tc, q) /\ Tabled(lk, x)
  BY DEF Sound
<1>4. x = NoConnection
  BY <1>3 DEF Tabled
<1>5. x.output = <<>> /\ x.lobby = 0 /\ ~Silent(x)
  BY <1>4 DEF NoConnection, Silent
<1>6. tc \o y.output = w
  BY <1>1, <1>5
<1>7. Tabled(lk, y)
  BY DEF Tabled
<1>8. Speaks(lk, st, known, l, q, y, w, lobbyId, others)
  <2>1. Speaks(lk, st, known, l, q, x, w, lobbyId, others)
    BY <1>2, <1>5 DEF Flow
  <2>2. ASSUME Converses(st, x, q, w) PROVE Converses(st, y, q, w)
    <3>1. x.stage \in StagesOf(st, Len(q) > 0)
      BY <2>2 DEF Converses
    <3>2. y.stage \in StagesOf(st, Len(q) > 0)
      BY <3>1 DEF StagesOf
    <3>. QED
      BY <1>5, <2>2, <3>2 DEF Converses
  <2>. QED
    BY <1>5, <2>1, <2>2 DEF Speaks
<1>9. Flow(id, lk, st, known, l, q, y, w, lobbyId, others, last)
  BY <1>2, <1>8 DEF Flow
<1>. QED
  BY <1>3, <1>6, <1>7, <1>9 DEF Sound

\* Accept_Connections: waiting are those that are not in the table yet.
AcceptedAll(s, t, waiting) ==
    /\ t.lobby = s.lobby /\ t.lastLobby = s.lastLobby /\ t.heard = s.heard
    /\ \A d \in Connections :
          t.connections[d] = IF d \in waiting THEN [NoConnection EXCEPT !.stage = "hello"]
                             ELSE s.connections[d]

LEMMA AcceptKeeps ==
    ASSUME NEW s, NEW r, NEW asks, NEW active,
           ServerInv(s, r, asks, active, {}), NEW waiting \in SUBSET Connections,
           \A d \in waiting : r.link[d] \in {"open", "client closed"} /\ s.connections[d].stage = "none",
           NEW t \in ServerTypes, AcceptedAll(s, t, waiting)
    PROVE  ServerInv(t, r, asks, active, {})
<1>1. /\ s \in ServerTypes /\ r \in ReaderTypes /\ asks \in [Connections -> Seq(Messages)]
      /\ Erased(s) /\ Counted(s, r.link) /\ Consistent(s, r, asks, active, {})
      /\ Tied(s) /\ Heard(s) /\ Alone(s.connections, active)
  BY DEF ServerInv, Consistent
<1>2. /\ t.lobby = s.lobby /\ t.lastLobby = s.lastLobby /\ t.heard = s.heard
  BY DEF AcceptedAll
<1>3. \A d \in waiting : /\ t.connections[d].stage = "hello" /\ t.connections[d].lobby = 0
                         /\ ~Silent(t.connections[d]) /\ t.connections[d].output = <<>>
  BY DEF AcceptedAll, NoConnection, Silent
<1>4. \A d \in Connections : d \notin waiting => t.connections[d] = s.connections[d]
  BY DEF AcceptedAll
<1>5. \A d \in waiting : s.connections[d] = NoConnection
  <2>1. SUFFICES ASSUME NEW d \in waiting PROVE s.connections[d] = NoConnection
    OBVIOUS
  <2>2. Tabled(r.link[d], s.connections[d])
    BY <1>1, SoundOf DEF Sound
  <2>. QED
    BY <2>2 DEF Tabled
<1>6. \A d \in waiting : s.connections[d].lobby = 0 /\ ~s.connections[d].closing
  <2>1. NoConnection.lobby = 0 /\ ~NoConnection.closing
    BY DEF NoConnection
  <2>. QED
    BY <1>5, <2>1, Zenon
<1>7. Tied(t)
  <2>1. \A d \in Connections : t.connections[d].lobby = s.connections[d].lobby
    BY <1>3, <1>4, <1>6
  <2>2. \A d \in Connections : s.connections[d].lobby # 0 => t.connections[d] = s.connections[d]
    BY <1>4, <1>6
  <2>. QED
    BY <1>1, <1>2, <2>1, <2>2 DEF Tied
<1>8. Heard(t)
  BY <1>1, <1>2, HeardKept
<1>9. Alone(t.connections, active)
  <2>1. \A d \in Connections : d \in waiting =>
           t.connections[d].stage # "ready" /\ t.connections[d].lobby = 0
    BY <1>3
  <2>2. \A d \in Connections : t.connections[d].stage = "ready" \/ t.connections[d].lobby # 0 =>
           d \notin waiting
    BY <2>1
  <2>3. \A d \in Connections : t.connections[d].stage = "ready" \/ t.connections[d].lobby # 0 =>
           t.connections[d] = s.connections[d]
    BY <1>4, <2>2
  <2>4. SUFFICES ASSUME NEW e \in Connections, NEW d \in Connections, e # d,
                        IdentityOf[e] = IdentityOf[d], t.connections[e].stage = "ready",
                        ~Silent(t.connections[e])
                 PROVE  /\ t.connections[d].stage = "ready" => Silent(t.connections[d])
                        /\ t.connections[d].lobby # 0 => t.connections[d].dead /\ e \notin active
    BY DEF Alone
  <2>5. t.connections[e] = s.connections[e]
    BY <2>3, <2>4
  <2>6. /\ s.connections[d].stage = "ready" => Silent(s.connections[d])
        /\ s.connections[d].lobby # 0 => s.connections[d].dead /\ e \notin active
    BY <1>1, <2>4, <2>5, Zenon DEF Alone
  <2>. QED
    BY <2>3, <2>4, <2>6, Zenon
<1>10. AllSound(t, r, asks)
  <2>1. SUFFICES ASSUME NEW d \in Connections
                 PROVE  Sound(IdentityOf[d], r.link[d], r.state[d], r.peers[d], r.joined[d],
                              r.inbox[d], asks[d], t.connections[d], s.lobby.id,
                              Others(s.lobby.members, d), s.lastLobby)
    BY <1>2 DEF AllSound
  <2>2. CASE d \notin waiting
    BY <1>1, <1>4, <2>2, SoundOf
  <2>3. CASE d \in waiting
    <3>1. PICK id, lk, st, known, l, tc, q, x, y, others, last :
            /\ id = IdentityOf[d] /\ lk = r.link[d] /\ st = r.state[d] /\ known = r.peers[d]
            /\ l = r.joined[d] /\ tc = r.inbox[d] /\ q = asks[d] /\ x = s.connections[d]
            /\ y = t.connections[d] /\ others = Others(s.lobby.members, d) /\ last = s.lastLobby
      OBVIOUS
    <3>2. /\ lk \in Links /\ st \in States /\ known \in Seq(Identities) /\ l \in Nat
          /\ tc \in Seq(Messages) /\ q \in Seq(Messages) /\ x \in ConnectionTypes /\ last \in Nat
          /\ Sound(id, lk, st, known, l, tc, q, x, s.lobby.id, others, last)
      BY <1>1, <3>1, SoundOf
    <3>3. y \in ConnectionTypes
      BY <3>1, ServerFields
    <3>4. /\ x.stage = "none" /\ lk \in {"open", "client closed"}
          /\ y.stage = "hello" /\ y.lobby = 0 /\ ~Silent(y) /\ y.output = <<>>
      BY <1>3, <2>3, <3>1
    <3>5. Sound(id, lk, st, known, l, tc, q, y, s.lobby.id, others, last)
      BY <3>2, <3>3, <3>4, SoundAccepted
    <3>. QED
      BY <3>1, <3>5
  <2>. QED
    BY <2>2, <2>3
<1>11. Erased(t)
  BY <1>1, <1>2 DEF Erased
<1>12. Counted(t, r.link)
  <2>1. Users(s.connections, r.link) \subseteq Users(t.connections, r.link)
    BY <1>4, <1>6 DEF Users
  <2>. QED
    BY <1>1, <1>2, <2>1, CountedKept
<1>. QED
  BY <1>1, <1>7, <1>8, <1>9, <1>10, <1>11, <1>12 DEF ServerInv, Consistent

-----------------------------------------------------------------------------
(* The steps of a client                                                     *)

\* Only the client c has done something.
Steps(c, r, r2, asks, asks2) ==
    /\ r2 \in ReaderTypes /\ asks2 \in [Connections -> Seq(Messages)]
    /\ \A d \in Connections : d # c =>
          /\ r2.link[d] = r.link[d] /\ r2.state[d] = r.state[d] /\ r2.peers[d] = r.peers[d]
          /\ r2.joined[d] = r.joined[d] /\ r2.inbox[d] = r.inbox[d] /\ asks2[d] = asks[d]
    /\ r.link[c] = "server closed" => r2.link[c] = "server closed"

LEMMA ClientKeeps ==
    ASSUME NEW s, NEW r, NEW asks, NEW active, NEW table, ServerInv(s, r, asks, active, table),
           NEW c \in Connections, NEW r2, NEW asks2, Steps(c, r, r2, asks, asks2),
           Sound(IdentityOf[c], r2.link[c], r2.state[c], r2.peers[c], r2.joined[c], r2.inbox[c],
                 asks2[c], s.connections[c], s.lobby.id, Others(s.lobby.members, c), s.lastLobby)
    PROVE  ServerInv(s, r2, asks2, active, table)
<1>1. /\ s \in ServerTypes /\ r \in ReaderTypes /\ asks \in [Connections -> Seq(Messages)]
      /\ Erased(s) /\ Counted(s, r.link) /\ Consistent(s, r, asks, active, table)
      /\ Tied(s) /\ Heard(s) /\ Alone(s.connections, active)
      /\ \A d \in table : s.connections[d].stage # "none"
  BY DEF ServerInv, Consistent
<1>2. AllSound(s, r2, asks2)
  <2>1. SUFFICES ASSUME NEW d \in Connections
                 PROVE  Sound(IdentityOf[d], r2.link[d], r2.state[d], r2.peers[d], r2.joined[d],
                              r2.inbox[d], asks2[d], s.connections[d], s.lobby.id,
                              Others(s.lobby.members, d), s.lastLobby)
    BY DEF AllSound
  <2>2. CASE d # c
    <3>1. Sound(IdentityOf[d], r.link[d], r.state[d], r.peers[d], r.joined[d],
                r.inbox[d], asks[d], s.connections[d], s.lobby.id,
                Others(s.lobby.members, d), s.lastLobby)
      BY <1>1, SoundOf
    <3>. QED
      BY <2>2, <3>1, Zenon DEF Steps
  <2>. QED
    BY <2>2
<1>3. Counted(s, r2.link)
  <2>1. Users(s.connections, r.link) \subseteq Users(s.connections, r2.link)
    BY DEF Users, Steps
  <2>. QED
    BY <1>1, <2>1, CountedKept
<1>4. r2 \in ReaderTypes /\ asks2 \in [Connections -> Seq(Messages)]
  BY DEF Steps
<1>. QED
  BY <1>1, <1>2, <1>3, <1>4, Zenon DEF ServerInv, Consistent

\* What a client finds at the front of what it is sent.
LEMMA FirstMessage ==
    ASSUME NEW id, NEW lk \in Links, NEW st \in States, NEW known \in Seq(Identities), NEW l \in Nat,
           NEW tc \in Seq(Messages), NEW q \in Seq(Messages), NEW x \in ConnectionTypes,
           NEW lobbyId, NEW others, NEW last \in Nat,
           Sound(id, lk, st, known, l, tc, q, x, lobbyId, others, last), Runs(st), Len(tc) > 0
    PROVE  /\ tc[1] \in Messages /\ tc[1].kind \in Answers(st) \cup {"goodbye"}
           /\ Fits(id, known, tc[1]) /\ lk \in {"open", "server closed"}
<1>1. PICK w : w = tc \o x.output
  OBVIOUS
<1>2. /\ w \in Seq(Messages) /\ Flow(id, lk, st, known, l, q, x, w, lobbyId, others, last)
      /\ x.output \in Seq(Messages)
  BY <1>1, SoundParts
<1>3. w # <<>> /\ w[1] = tc[1]
  <2>1. tc # <<>>
    OBVIOUS
  <2>. QED
    BY <1>1, <1>2, <2>1, LineRead
<1>4. Orderly(id, st, known, l, w)
  BY <1>2 DEF Flow
<1>5. PICK n \in Nat : n = Len(w)
  BY <1>2
<1>6. n > 0 /\ 1 \in 1..n /\ 1 - 1 = 0
  BY <1>2, <1>3, <1>5
<1>7. Rosters(known, w)[0] = known
  BY <1>2, RostersIs
<1>8. w[1].kind \in Answers(st) \cup {"goodbye"}
  BY <1>4, <1>5, <1>6 DEF Orderly
<1>9. Fits(id, known, w[1])
  <2>1. \A i \in 1..n : Fits(id, Rosters(known, w)[i - 1], w[i])
    BY <1>4, <1>5 DEF Orderly
  <2>2. Fits(id, Rosters(known, w)[1 - 1], w[1])
    BY <1>6, <2>1
  <2>. QED
    BY <1>6, <1>7, <2>2
<1>10. lk \in {"open", "server closed"}
  <2>1. Ends(lk, st, l, tc, q)
    BY DEF Sound
  <2>. QED
    BY <2>1 DEF Ends, Links
<1>11. tc[1] \in Messages
  OBVIOUS
<1>. QED
  BY <1>3, <1>8, <1>9, <1>10, <1>11

\* A client connects and says hello.
LEMMA SoundConnects ==
    ASSUME NEW id, NEW lk \in Links, NEW st \in States, NEW known \in Seq(Identities), NEW l \in Nat,
           NEW tc \in Seq(Messages), NEW q \in Seq(Messages), NEW x \in ConnectionTypes,
           NEW lobbyId, NEW others, NEW last \in Nat,
           Sound(id, lk, st, known, l, tc, q, x, lobbyId, others, last),
           st = "off", NEW m \in Messages, m.kind = "hello"
    PROVE  Sound(id, "open", "keys", known, l, tc, <<m>>, x, lobbyId, others, last)
<1>1. lk = "none" /\ Len(tc) = 0 /\ l = 0
  BY DEF Sound, Ends
<1>2. x = NoConnection
  BY <1>1 DEF Sound, Tabled
<1>3. x.stage = "none" /\ x.lobby = 0 /\ x.output = <<>>
  BY <1>2 DEF NoConnection
<1>4. tc = <<>>
  BY <1>1
<1>5. tc \o x.output = <<>>
  BY <1>3, <1>4
<1>6. PICK q2 : q2 = <<m>>
  OBVIOUS
<1>7. q2 \in Seq(Messages) /\ Len(q2) = 1 /\ DOMAIN q2 = 1..1 /\ q2[1] = m
  BY <1>6
<1>8. Converses("keys", x, q2, <<>>)
  <2>1. \A i \in DOMAIN q2 : q2[i].kind = Asked("keys")
    <3>1. Asked("keys") = "hello"
      BY DEF Asked
    <3>. QED
      BY <1>7, <3>1
  <2>2. x.stage \in StagesOf("keys", Len(q2) > 0)
    <3>1. Len(q2) > 0
      BY <1>7
    <3>. QED
      BY <1>3, <3>1 DEF StagesOf
  <2>3. ~(Len(<<>>) > 0)
    OBVIOUS
  <2>. QED
    BY <1>3, <2>1, <2>2, <2>3 DEF Converses
<1>9. Speaks("open", "keys", known, l, q2, x, <<>>, lobbyId, others)
  <2>1. Len(<<>>) = 0 /\ 0 + 1 <= 1 /\ \A i \in 1..0 : FALSE
    OBVIOUS
  <2>. QED
    BY <1>3, <1>7, <1>8, <2>1 DEF Speaks
<1>10. Flow(id, "open", "keys", known, l, q2, x, <<>>, lobbyId, others, last)
  <2>1. Len(<<>>) = 0 /\ \A i \in 1..0 : FALSE
    OBVIOUS
  <2>2. l <= last
    BY <1>1
  <2>. QED
    BY <1>9, <2>1, <2>2, OrderlyNothing DEF Flow
<1>11. Ends("open", "keys", l, tc, q2)
  BY <1>1 DEF Ends
<1>12. Tabled("open", x)
  BY <1>2, <1>3 DEF Tabled
<1>. QED
  BY <1>5, <1>6, <1>10, <1>11, <1>12 DEF Sound

\* What a client that has read the answer of kind k asks next.
Goes(st, kind, st2, k) ==
    \/ st = "keys" /\ kind = "keys" /\ st2 = "welcome" /\ k = "identity"
    \/ st = "welcome" /\ kind = "welcome" /\ st2 = "info" /\ k = "query"
    \/ st = "info" /\ kind = "info" /\ st2 = "listed" /\ k = "join"
    \/ st = "info" /\ kind = "info" /\ st2 = "created" /\ k = "create"
    \/ st \in {"created", "listed"} /\ kind = "refused" /\ st2 = "info" /\ k = "query"

LEMMA Going ==
    ASSUME NEW st, NEW kind, NEW st2, NEW k, Goes(st, kind, st2, k)
    PROVE  /\ st \in Waits /\ st2 \in Waits /\ Runs(st) /\ Runs(st2)
           /\ st # "joined" /\ st2 \notin {"joined", "off", "ended"}
           /\ kind \notin News \cup {"joined"} /\ k = Asked(st2)
           /\ StagesOf(st, FALSE) \subseteq StagesOf(st2, TRUE)
<1>1. CASE st = "keys" /\ kind = "keys" /\ st2 = "welcome" /\ k = "identity"
  BY <1>1 DEF Waits, Runs, News, Asked, StagesOf
<1>2. CASE st = "welcome" /\ kind = "welcome" /\ st2 = "info" /\ k = "query"
  BY <1>2 DEF Waits, Runs, News, Asked, StagesOf
<1>3. CASE st = "info" /\ kind = "info" /\ st2 = "listed" /\ k = "join"
  BY <1>3 DEF Waits, Runs, News, Asked, StagesOf
<1>4. CASE st = "info" /\ kind = "info" /\ st2 = "created" /\ k = "create"
  BY <1>4 DEF Waits, Runs, News, Asked, StagesOf
<1>5. CASE st \in {"created", "listed"} /\ kind = "refused" /\ st2 = "info" /\ k = "query"
  BY <1>5 DEF Waits, Runs, News, Asked, StagesOf
<1>. QED
  BY <1>1, <1>2, <1>3, <1>4, <1>5 DEF Goes

\* A client that awaits nothing on its line asks.
LEMMA SpeaksAsks ==
    ASSUME NEW st, NEW st2, NEW kind, NEW k, Goes(st, kind, st2, k),
           NEW known, NEW known2, NEW l, NEW l2, NEW q \in Seq(Messages), NEW x \in ConnectionTypes,
           NEW w \in Seq(Messages), w # <<>>, w[1].kind = kind, NEW lobbyId, NEW others,
           Speaks("open", st, known, l, q, x, w, lobbyId, others), NEW m \in Messages, m.kind = k
    PROVE  Speaks("open", st2, known2, l2, Append(q, m), x, Tail(w), lobbyId, others)
<1>1. /\ st # "joined" /\ st2 # "joined" /\ kind # "joined" /\ k = Asked(st2)
      /\ StagesOf(st, FALSE) \subseteq StagesOf(st2, TRUE)
  BY Going
<1>2. Converses(st, x, q, w) /\ (x.lobby = 0 => Len(w) + Len(q) <= 1)
  BY DEF Speaks
<1>3. x.lobby = 0
  BY <1>1, <1>2 DEF Converses
<1>4. PICK a \in Nat, b \in Nat : a = Len(w) /\ b = Len(q)
  OBVIOUS
<1>5. a > 0 /\ a + b <= 1
  BY <1>2, <1>3, <1>4
<1>6. a = 1 /\ b = 0 /\ ~(b > 0)
  BY <1>5
<1>7. PICK v, p : v = Tail(w) /\ p = Append(q, m)
  OBVIOUS
<1>8. Len(v) = 0 /\ Len(p) = 1 /\ DOMAIN p = 1..1 /\ p[1] = m
  <2>1. Len(v) = 0
    <3>1. Len(Tail(w)) = Len(w) - 1
      BY RangeOfTail
    <3>2. Len(v) = a - 1
      BY <1>4, <1>7, <3>1
    <3>. QED
      BY <1>6, <3>2
  <2>2. Len(p) = b + 1 /\ p[b + 1] = m /\ DOMAIN p = 1..(b + 1)
    BY <1>4, <1>7
  <2>3. b + 1 = 1
    BY <1>6
  <2>. QED
    BY <2>1, <2>2, <2>3
<1>9. Converses(st2, x, p, v)
  <2>1. x.stage \in StagesOf(st, FALSE)
    <3>1. x.stage \in StagesOf(st, Len(q) > 0)
      BY <1>2 DEF Converses
    <3>2. Len(q) > 0 <=> FALSE
      BY <1>4, <1>6
    <3>. QED
      BY <3>1, <3>2 DEF StagesOf
  <2>2. x.stage \in StagesOf(st2, TRUE)
    BY <1>1, <2>1
  <2>3. x.stage \in StagesOf(st2, Len(p) > 0)
    <3>1. Len(p) > 0 <=> TRUE
      BY <1>8
    <3>. QED
      BY <2>2, <3>1
  <2>4. \A i \in DOMAIN p : p[i].kind = Asked(st2)
    BY <1>1, <1>8
  <2>5. ~(Len(v) > 0)
    BY <1>8
  <2>. QED
    BY <1>1, <1>3, <2>3, <2>4, <2>5 DEF Converses
<1>10. Len(v) + Len(p) <= 1 /\ \A i \in 1..Len(v) : v[i].kind # "goodbye"
  BY <1>8
<1>. QED
  BY <1>3, <1>7, <1>9, <1>10 DEF Speaks

LEMMA SoundAsks ==
    ASSUME NEW id, NEW lk \in Links, NEW st \in States, NEW known \in Seq(Identities), NEW l \in Nat,
           NEW tc \in Seq(Messages), NEW q \in Seq(Messages), NEW x \in ConnectionTypes,
           NEW lobbyId, NEW others, NEW last \in Nat,
           Sound(id, lk, st, known, l, tc, q, x, lobbyId, others, last),
           Len(tc) > 0, NEW kind, NEW k, NEW st2, tc[1].kind = kind, Goes(st, kind, st2, k),
           NEW m \in Messages, m.kind = k, NEW q2, q2 = IF lk = "open" THEN Append(q, m) ELSE q
    PROVE  Sound(id, lk, st2, known, l, Tail(tc), q2, x, lobbyId, others, last)
<1>1. PICK w : w = tc \o x.output
  OBVIOUS
<1>2. /\ w \in Seq(Messages) /\ Flow(id, lk, st, known, l, q, x, w, lobbyId, others, last)
      /\ x.output \in Seq(Messages)
  BY <1>1, SoundParts
<1>3. tc # <<>>
  OBVIOUS
<1>4. w # <<>> /\ w[1] = tc[1] /\ Tail(tc) \o x.output = Tail(w)
  BY <1>1, <1>2, <1>3, LineRead
<1>5. /\ Runs(st) /\ Runs(st2) /\ st # "joined" /\ st2 \notin {"joined", "off", "ended"}
      /\ kind \notin News \cup {"joined"}
  BY Going
<1>6. lk \in {"open", "server closed"}
  BY <1>5, FirstMessage
<1>7. Ends(lk, st, l, tc, q) /\ Tabled(lk, x)
  BY DEF Sound
<1>8. Ends(lk, st2, l, Tail(tc), q2)
  <2>1. l = 0
    BY <1>5, <1>7 DEF Ends
  <2>. QED
    BY <1>5, <1>6, <2>1 DEF Ends
<1>9. Orderly(id, st2, known, l, Tail(w))
  <2>1. Orderly(id, st, known, l, w)
    BY <1>2, <1>5 DEF Flow
  <2>2. w[1].kind \notin News \cup {"joined"}
    BY <1>4, <1>5
  <2>. QED
    BY <1>2, <1>4, <2>1, <2>2, OrderlyDone
<1>10. ASSUME ~Silent(x) PROVE Speaks(lk, st2, known, l, q2, x, Tail(w), lobbyId, others)
  <2>1. Speaks(lk, st, known, l, q, x, w, lobbyId, others)
    BY <1>2, <1>10 DEF Flow
  <2>2. CASE lk = "open"
    <3>1. q2 = Append(q, m)
      BY <2>2
    <3>2. Speaks("open", st, known, l, q, x, w, lobbyId, others)
      BY <2>1, <2>2
    <3>3. w[1].kind = kind
      BY <1>4
    <3>4. Speaks("open", st2, known, l, Append(q, m), x, Tail(w), lobbyId, others)
      BY <1>2, <1>4, <3>2, <3>3, SpeaksAsks
    <3>. QED
      BY <2>2, <3>1, <3>4
  <2>3. CASE lk = "server closed"
    BY <2>3 DEF Speaks
  <2>. QED
    BY <1>6, <2>2, <2>3
<1>11. l <= last /\ \A i \in 1..Len(w) : w[i].kind = "joined" => w[i].lobby <= last
  BY <1>2 DEF Flow
<1>12. \A i \in 1..Len(Tail(w)) : Tail(w)[i].kind = "joined" => Tail(w)[i].lobby <= last
  <2>1. /\ Len(Tail(w)) = Len(w) - 1 /\ Len(w) \in Nat
        /\ \A i \in 1..(Len(w) - 1) : i + 1 \in 1..Len(w) /\ Tail(w)[i] = w[i + 1]
    BY <1>2, <1>4, RangeOfTail
  <2>. QED
    BY <1>11, <2>1
<1>13. Flow(id, lk, st2, known, l, q2, x, Tail(w), lobbyId, others, last)
  BY <1>9, <1>10, <1>11, <1>12 DEF Flow
<1>. QED
  BY <1>4, <1>7, <1>8, <1>13 DEF Sound

\* What a client knows and where it is when it has read m.
Reads(st, known, l, m, known2, l2) ==
    /\ IF m.kind = "joined" THEN st \in {"created", "listed"} /\ l2 = m.lobby
       ELSE st = "joined" /\ m.kind \in News /\ l2 = l
    /\ known2 = Learn(known, m)

LEMMA SpeaksReads ==
    ASSUME NEW st \in States, NEW known \in Seq(Identities), NEW l \in Nat,
           NEW q \in Seq(Messages), NEW x \in ConnectionTypes,
           NEW w \in Seq(Messages), w # <<>>, NEW lobbyId, NEW others,
           Speaks("open", st, known, l, q, x, w, lobbyId, others), st # "joined" => l = 0,
           NEW known2, NEW l2, Reads(st, known, l, w[1], known2, l2),
           x.lobby # 0 => lobbyId # 0
    PROVE  Speaks("open", "joined", known2, l2, q, x, Tail(w), lobbyId, others)
<1>1. /\ Converses(st, x, q, w) /\ (x.lobby # 0 => Informed(known, l, w, lobbyId, others))
      /\ \A i \in 1..Len(w) : w[i].kind # "goodbye"
  BY DEF Speaks
<1>2. PICK v, n, j : v = Tail(w) /\ n = Len(w) - 1 /\ j = w[1].kind
  OBVIOUS
<1>3. /\ v \in Seq(Messages) /\ n \in Nat /\ Len(v) = n /\ Len(w) = n + 1
      /\ \A i \in 1..n : i + 1 \in 1..(n + 1) /\ v[i] = w[i + 1]
      /\ DOMAIN w = 1..(n + 1) /\ DOMAIN v = 1..n
  BY <1>2, RangeOfTail
<1>4. st = "joined" \/ (j = "joined" /\ st \in {"created", "listed"})
  BY <1>2 DEF Reads
<1>5. x.lobby # 0
  <2>1. Len(w) > 0
    BY <1>3
  <2>. QED
    BY <1>1, <1>2, <1>4, <2>1 DEF Converses
<1>6. x.stage = "ready"
  <2>1. x.stage \in StagesOf(st, Len(q) > 0)
    BY <1>1 DEF Converses
  <2>. QED
    BY <1>4, <2>1 DEF StagesOf
<1>7. \A i \in DOMAIN q : q[i].kind = Asked("joined")
  <2>1. CASE st = "joined"
    BY <1>1, <2>1 DEF Converses
  <2>2. CASE st # "joined"
    <3>1. Len(q) = 0
      BY <1>1, <1>5, <2>2 DEF Converses
    <3>2. DOMAIN q = 1..0
      BY <3>1
    <3>. QED
      BY <3>2
  <2>. QED
    BY <2>1, <2>2
<1>8. Converses("joined", x, q, v)
  <2>1. x.stage \in StagesOf("joined", Len(q) > 0)
    BY <1>6 DEF StagesOf
  <2>. QED
    BY <1>5, <1>7, <2>1 DEF Converses
<1>9. \A i \in 1..Len(v) : v[i].kind # "goodbye"
  BY <1>1, <1>3
<1>10. Informed(known, l, w, lobbyId, others) /\ lobbyId # 0
  BY <1>1, <1>5
<1>11. Rosters(known2, v)[Len(v)] = Rosters(known, w)[Len(w)]
  <2>1. known2 = Learn(known, w[1])
    BY DEF Reads
  <2>2. \A i \in 0..(Len(w) - 1) : Rosters(Learn(known, w[1]), Tail(w))[i] = Rosters(known, w)[i + 1]
    BY RostersOfRest
  <2>3. Len(w) - 1 = n /\ n \in 0..n
    BY <1>3
  <2>4. Rosters(known2, v)[n] = Rosters(known, w)[n + 1]
    BY <1>2, <2>1, <2>2, <2>3
  <2>. QED
    BY <1>3, <2>4
<1>12. lobbyId \in Entered(l2, v)
  <2>1. lobbyId = l \/ \E i \in 1..(n + 1) : w[i].kind = "joined" /\ w[i].lobby = lobbyId
    BY <1>3, <1>10 DEF Informed, Entered
  <2>2. CASE lobbyId = l
    <3>1. st = "joined"
      BY <1>10, <2>2
    <3>2. l2 = l
      BY <3>1 DEF Reads
    <3>. QED
      BY <2>2, <3>2 DEF Entered
  <2>3. ASSUME NEW i \in 1..(n + 1), w[i].kind = "joined", w[i].lobby = lobbyId
        PROVE  lobbyId \in Entered(l2, v)
    <3>1. CASE i = 1
      <4>1. l2 = lobbyId
        BY <2>3, <3>1 DEF Reads
      <4>. QED
        BY <4>1 DEF Entered
    <3>2. CASE i # 1
      <4>1. i - 1 \in 1..n /\ v[i - 1] = w[(i - 1) + 1] /\ (i - 1) + 1 = i
        BY <1>3, <3>2
      <4>2. i - 1 \in DOMAIN v /\ v[i - 1].kind = "joined" /\ v[i - 1].lobby = lobbyId
        BY <1>3, <2>3, <4>1
      <4>. QED
        BY <4>2 DEF Entered
    <3>. QED
      BY <3>1, <3>2
  <2>. QED
    BY <2>1, <2>2, <2>3
<1>13. Informed(known2, l2, v, lobbyId, others)
  BY <1>10, <1>11, <1>12 DEF Informed
<1>. QED
  BY <1>2, <1>5, <1>8, <1>9, <1>13 DEF Speaks

LEMMA SoundReads ==
    ASSUME NEW id, NEW lk \in Links, NEW st \in States, NEW known \in Seq(Identities), NEW l \in Nat,
           NEW tc \in Seq(Messages), NEW q \in Seq(Messages), NEW x \in ConnectionTypes,
           NEW lobbyId, NEW others, NEW last \in Nat,
           Sound(id, lk, st, known, l, tc, q, x, lobbyId, others, last),
           Len(tc) > 0, NEW known2, NEW l2, Reads(st, known, l, tc[1], known2, l2),
           x.lobby # 0 => lobbyId # 0
    PROVE  Sound(id, lk, "joined", known2, l2, Tail(tc), q, x, lobbyId, others, last)
<1>1. PICK w : w = tc \o x.output
  OBVIOUS
<1>2. /\ w \in Seq(Messages) /\ Flow(id, lk, st, known, l, q, x, w, lobbyId, others, last)
      /\ x.output \in Seq(Messages)
  BY <1>1, SoundParts
<1>3. tc # <<>>
  OBVIOUS
<1>4. w # <<>> /\ w[1] = tc[1] /\ Tail(tc) \o x.output = Tail(w)
  BY <1>1, <1>2, <1>3, LineRead
<1>5. Runs(st) /\ Reads(st, known, l, w[1], known2, l2)
  BY <1>4 DEF Reads, Runs, Waits
<1>6. lk \in {"open", "server closed"}
  BY <1>5, FirstMessage
<1>7. Ends(lk, st, l, tc, q) /\ Tabled(lk, x)
  BY DEF Sound
<1>8. st # "joined" => l = 0
  BY <1>7 DEF Ends
<1>9. Ends(lk, "joined", l2, Tail(tc), q)
  BY <1>6 DEF Ends
<1>10. Orderly(id, "joined", known2, l2, Tail(w))
  <2>1. Orderly(id, st, known, l, w)
    BY <1>2, <1>5 DEF Flow
  <2>2. w[1].kind \in News \cup {"joined"} /\ known2 = Learn(known, w[1])
    BY <1>5 DEF Reads
  <2>3. w[1].kind = "joined" => l2 = w[1].lobby /\ l = 0
    BY <1>5, <1>8 DEF Reads
  <2>4. w[1].kind # "joined" => l2 = l
    BY <1>5 DEF Reads
  <2>5. IF w[1].kind = "joined" THEN l2 = w[1].lobby /\ l = 0 ELSE l2 = l
    BY <2>3, <2>4
  <2>. QED
    BY <1>2, <1>4, <2>1, <2>2, <2>5, OrderlyRest
<1>11. ASSUME ~Silent(x) PROVE Speaks(lk, "joined", known2, l2, q, x, Tail(w), lobbyId, others)
  <2>1. Speaks(lk, st, known, l, q, x, w, lobbyId, others)
    BY <1>2, <1>11 DEF Flow
  <2>2. CASE lk = "open"
    <3>1. Speaks("open", st, known, l, q, x, w, lobbyId, others)
      BY <2>1, <2>2
    <3>2. Speaks("open", "joined", known2, l2, q, x, Tail(w), lobbyId, others)
      BY <1>2, <1>4, <1>5, <1>8, <3>1, SpeaksReads
    <3>. QED
      BY <2>2, <3>2
  <2>3. CASE lk = "server closed"
    BY <2>3 DEF Speaks
  <2>. QED
    BY <1>6, <2>2, <2>3
<1>12. l <= last /\ \A i \in 1..Len(w) : w[i].kind = "joined" => w[i].lobby <= last
  BY <1>2 DEF Flow
<1>13. /\ Len(Tail(w)) = Len(w) - 1 /\ Len(w) \in Nat /\ 1 \in 1..Len(w)
       /\ \A i \in 1..(Len(w) - 1) : i + 1 \in 1..Len(w) /\ Tail(w)[i] = w[i + 1]
  BY <1>2, <1>4, RangeOfTail
<1>14. \A i \in 1..Len(Tail(w)) : Tail(w)[i].kind = "joined" => Tail(w)[i].lobby <= last
  BY <1>12, <1>13
<1>15. l2 <= last
  <2>1. CASE w[1].kind = "joined"
    <3>1. l2 = w[1].lobby
      BY <1>5, <2>1 DEF Reads
    <3>. QED
      BY <1>12, <1>13, <2>1, <3>1
  <2>2. CASE w[1].kind # "joined"
    <3>1. l2 = l
      BY <1>5, <2>2 DEF Reads
    <3>. QED
      BY <1>12, <3>1
  <2>. QED
    BY <2>1, <2>2
<1>16. Flow(id, lk, "joined", known2, l2, q, x, Tail(w), lobbyId, others, last)
  BY <1>10, <1>11, <1>14, <1>15 DEF Flow
<1>. QED
  BY <1>4, <1>7, <1>9, <1>16 DEF Sound

\* The end of its connection that a client leaves when it ends.
LeftBy(lk) == IF lk = "open" THEN "client closed" ELSE lk

\* A client ends and forgets everything.
LEMMA SoundEnds ==
    ASSUME NEW id, NEW lk \in Links, NEW st \in States, NEW known \in Seq(Identities), NEW l \in Nat,
           NEW tc \in Seq(Messages), NEW q \in Seq(Messages), NEW x \in ConnectionTypes,
           NEW lobbyId, NEW others, NEW last \in Nat,
           Sound(id, lk, st, known, l, tc, q, x, lobbyId, others, last), Runs(st)
    PROVE  Sound(id, LeftBy(lk), "ended", <<>>, 0, <<>>, q, x, lobbyId, others, last)
<1>1. PICK w : w = tc \o x.output
  OBVIOUS
<1>2. /\ w \in Seq(Messages) /\ Flow(id, lk, st, known, l, q, x, w, lobbyId, others, last)
      /\ x.output \in Seq(Messages)
  BY <1>1, SoundParts
<1>3. Ends(lk, st, l, tc, q) /\ Tabled(lk, x)
  BY DEF Sound
<1>4. st # "off"
  BY DEF Runs, Waits
<1>5. lk \in {"open", "server closed"}
  BY <1>3, <1>4 DEF Ends, Links
<1>16. PICK lk2 : lk2 = LeftBy(lk)
  OBVIOUS
<1>6. lk2 \in {"client closed", "server closed"} /\ (lk2 = "client closed" => lk = "open")
  BY <1>5, <1>16 DEF LeftBy
<1>7. ~Runs("ended")
  BY DEF Runs, Waits
<1>8. Ends(lk2, "ended", 0, <<>>, q)
  <2>1. Len(<<>>) = 0
    OBVIOUS
  <2>. QED
    BY <1>6, <1>7, <2>1 DEF Ends
<1>9. Tabled(lk2, x)
  BY <1>3, <1>5, <1>16 DEF Tabled, LeftBy
<1>10. PICK o \in Seq(Messages), a \in Nat, b \in Nat : o = x.output /\ a = Len(tc) /\ b = Len(o)
  BY <1>2
<1>11. /\ o \in Seq(Messages) /\ Len(o) = b /\ Len(w) = a + b
       /\ \A i \in 1..b : a + i \in 1..(a + b) /\ w[a + i] = o[i]
  <2>1. /\ Len(tc \o o) = Len(tc) + Len(o)
        /\ \A i \in 1 .. Len(tc) + Len(o) : (tc \o o)[i] = IF i <= Len(tc) THEN tc[i] ELSE o[i - Len(tc)]
    BY <1>2, <1>10, ConcatProperties
  <2>2. \A i \in 1 .. a + b : w[i] = IF i <= a THEN tc[i] ELSE o[i - a]
    BY <1>1, <1>10, <2>1
  <2>3. \A i \in 1..b : a + i \in 1..(a + b) /\ ~(a + i <= a) /\ (a + i) - a = i
    BY <1>10
  <2>4. \A i \in 1..b : w[a + i] = o[i]
    BY <2>2, <2>3
  <2>. QED
    BY <1>1, <1>2, <1>10, <2>1, <2>3, <2>4
<1>12. <<>> \o x.output = o
  BY <1>2, <1>10
<1>13. ASSUME ~Silent(x) PROVE Speaks(lk2, "ended", <<>>, 0, q, x, o, lobbyId, others)
  <2>1. Speaks(lk, st, known, l, q, x, w, lobbyId, others)
    BY <1>2, <1>13 DEF Flow
  <2>2. ASSUME lk2 = "client closed", x.lobby = 0 PROVE Len(o) + Len(q) <= 1
    <3>1. Len(w) + Len(q) <= 1
      BY <1>6, <2>1, <2>2 DEF Speaks
    <3>2. PICK k \in Nat : k = Len(q)
      OBVIOUS
    <3>3. (a + b) + k <= 1
      BY <1>11, <3>1, <3>2
    <3>4. b + k <= 1
      BY <3>3
    <3>. QED
      BY <1>11, <3>2, <3>4
  <2>. QED
    BY <1>6, <2>2 DEF Speaks
<1>14. \A i \in 1..Len(o) : o[i].kind = "joined" => o[i].lobby <= last
  <2>1. \A i \in 1..(a + b) : w[i].kind = "joined" => w[i].lobby <= last
    BY <1>2, <1>11 DEF Flow
  <2>. QED
    BY <1>11, <2>1
<1>15. Flow(id, lk2, "ended", <<>>, 0, q, x, o, lobbyId, others, last)
  <2>1. 0 <= last
    OBVIOUS
  <2>. QED
    BY <1>7, <1>13, <1>14, <2>1 DEF Flow
<1>. QED
  BY <1>8, <1>9, <1>12, <1>15, <1>16 DEF Sound

\* A member speaks.
LEMMA SoundSays ==
    ASSUME NEW id, NEW lk \in Links, NEW st \in States, NEW known \in Seq(Identities), NEW l \in Nat,
           NEW tc \in Seq(Messages), NEW q \in Seq(Messages), NEW x \in ConnectionTypes,
           NEW lobbyId, NEW others, NEW last \in Nat,
           Sound(id, lk, st, known, l, tc, q, x, lobbyId, others, last), st = "joined",
           NEW m \in Messages, m.kind = "send", NEW q2, q2 = IF lk = "open" THEN Append(q, m) ELSE q
    PROVE  Sound(id, lk, st, known, l, tc, q2, x, lobbyId, others, last)
<1>1. CASE lk # "open"
  BY <1>1
<1>2. CASE lk = "open"
  <2>1. q2 = Append(q, m)
    BY <1>2
  <2>2. PICK w : w = tc \o x.output
    OBVIOUS
  <2>3. Flow(id, lk, st, known, l, q, x, w, lobbyId, others, last)
    BY <2>2 DEF Sound
  <2>4. ASSUME ~Silent(x) PROVE Speaks(lk, st, known, l, q2, x, w, lobbyId, others)
    <3>1. Speaks(lk, st, known, l, q, x, w, lobbyId, others)
      BY <2>3, <2>4 DEF Flow
    <3>2. Converses(st, x, q, w)
      BY <1>2, <3>1 DEF Speaks
    <3>3. x.lobby # 0 /\ Asked(st) = "send"
      BY <3>2 DEF Converses, Asked
    <3>4. /\ DOMAIN q = 1..Len(q) /\ Len(q) \in Nat /\ DOMAIN q2 = 1..(Len(q) + 1)
          /\ \A i \in 1..Len(q) : q2[i] = q[i]
          /\ q2[Len(q) + 1] = m
      BY <2>1
    <3>5. \A i \in DOMAIN q : q[i].kind = Asked(st)
      BY <3>2 DEF Converses
    <3>6. \A i \in DOMAIN q2 : q2[i].kind = Asked(st)
      BY <3>3, <3>4, <3>5
    <3>7. x.stage \in StagesOf(st, Len(q2) > 0)
      <4>1. x.stage \in StagesOf(st, Len(q) > 0)
        BY <3>2 DEF Converses
      <4>. QED
        BY <4>1 DEF StagesOf
    <3>8. Converses(st, x, q2, w)
      BY <3>2, <3>3, <3>6, <3>7 DEF Converses
    <3>. QED
      BY <1>2, <3>1, <3>3, <3>8 DEF Speaks
  <2>5. Flow(id, lk, st, known, l, q2, x, w, lobbyId, others, last)
    BY <2>3, <2>4 DEF Flow
  <2>6. Ends(lk, st, l, tc, q2) /\ Tabled(lk, x)
    BY <1>2 DEF Sound, Ends
  <2>. QED
    BY <2>2, <2>5, <2>6 DEF Sound
<1>. QED
  BY <1>1, <1>2

-----------------------------------------------------------------------------
(* Each client step keeps the invariant                                      *)

SoundNow(c) ==
    Sound(IdentityOf[c], link[c], state[c], peers[c], joinedLobby[c], toClient[c], toServer[c],
          connections[c], lobby.id, Others(lobby.members, c), lastLobby)

ClientsTyped ==
    /\ link \in [Connections -> Links] /\ state \in [Connections -> States]
    /\ peers \in [Connections -> Seq(Identities)] /\ joinedLobby \in [Connections -> Nat]
    /\ toClient \in [Connections -> Seq(Messages)] /\ toServer \in [Connections -> Seq(Messages)]

LEMMA ServerIs ==
    /\ Server.connections = connections /\ Server.lobby = lobby
    /\ Server.lastLobby = lastLobby /\ Server.heard = heard
    /\ Reader.link = link /\ Reader.state = state /\ Reader.peers = peers
    /\ Reader.joined = joinedLobby /\ Reader.inbox = toClient
BY DEF Server, Reader

LEMMA ReaderTyped == Reader \in ReaderTypes /\ toServer \in [Connections -> Seq(Messages)] <=> ClientsTyped
<1>1. ASSUME NEW r \in ReaderTypes
      PROVE  /\ r.link \in [Connections -> Links] /\ r.state \in [Connections -> States]
             /\ r.peers \in [Connections -> Seq(Identities)] /\ r.joined \in [Connections -> Nat]
             /\ r.inbox \in [Connections -> Seq(Messages)]
  BY DEF ReaderTypes
<1>2. ASSUME Reader \in ReaderTypes, toServer \in [Connections -> Seq(Messages)] PROVE ClientsTyped
  <2>1. PICK r \in ReaderTypes : r = Reader
    BY <1>2
  <2>. QED
    BY <1>1, <1>2, <2>1, ServerIs DEF ClientsTyped
<1>3. ASSUME ClientsTyped PROVE Reader \in ReaderTypes /\ toServer \in [Connections -> Seq(Messages)]
  BY <1>3 DEF ClientsTyped, Reader, ReaderTypes
<1>. QED
  BY <1>2, <1>3

\* What the invariant says of one client.
LEMMA ClientFacts ==
    ASSUME LobbyInv, NEW c \in Connections
    PROVE  /\ ClientsTyped /\ SoundNow(c)
           /\ link[c] \in Links /\ state[c] \in States /\ peers[c] \in Seq(Identities)
           /\ joinedLobby[c] \in Nat /\ toClient[c] \in Seq(Messages) /\ toServer[c] \in Seq(Messages)
           /\ connections[c] \in ConnectionTypes /\ lastLobby \in Nat
           /\ (connections[c].lobby # 0 => lobby.id # 0)
           /\ attempt \in [Connections -> 0..Attempts]
           /\ \A d \in Connections : state[d] \in {"off", "keys", "welcome"} => attempt[d] = 0
           /\ ~broken /\ ~dropped
<1>1. PICK s, r : s = Server /\ r = Reader
  OBVIOUS
<1>2. /\ s.connections = connections /\ s.lobby = lobby /\ s.lastLobby = lastLobby
      /\ r.link = link /\ r.state = state /\ r.peers = peers
      /\ r.joined = joinedLobby /\ r.inbox = toClient
  BY <1>1, ServerIs
<1>3. Consistent(s, r, toServer, todo, todo)
  BY <1>1 DEF LobbyInv, ServerInv
<1>4. ClientsTyped
  BY <1>1, <1>3, ReaderTyped DEF Consistent
<1>5. /\ connections[c] \in ConnectionTypes /\ lastLobby \in Nat /\ SoundNow(c)
  <2>1. /\ s.connections[c] \in ConnectionTypes /\ s.lastLobby \in Nat
        /\ Sound(IdentityOf[c], r.link[c], r.state[c], r.peers[c], r.joined[c], r.inbox[c],
                 toServer[c], s.connections[c], s.lobby.id, Others(s.lobby.members, c), s.lastLobby)
    BY <1>3, SoundOf
  <2>. QED
    BY <1>2, <2>1 DEF SoundNow
<1>6. connections[c].lobby # 0 => lobby.id # 0
  <2>1. s.connections[c].lobby # 0 => s.connections[c].lobby = s.lobby.id
    BY <1>3 DEF Consistent, Tied
  <2>. QED
    BY <1>2, <2>1
<1>7. Tries /\ ~broken /\ ~dropped
  BY DEF LobbyInv
<1>. QED
  BY <1>4, <1>5, <1>6, <1>7 DEF ClientsTyped, Tries

\* Only the client c does something.
Moves(c) ==
    /\ \A d \in Connections : d # c =>
          /\ link'[d] = link[d] /\ state'[d] = state[d] /\ peers'[d] = peers[d]
          /\ joinedLobby'[d] = joinedLobby[d] /\ toClient'[d] = toClient[d]
          /\ toServer'[d] = toServer[d]
    /\ link[c] = "server closed" => link'[c] = "server closed"

LEMMA ClientStepKeeps ==
    ASSUME LobbyInv, NEW c \in Connections, UNCHANGED serverVars, Moves(c), ClientsTyped',
           Sound(IdentityOf[c], link'[c], state'[c], peers'[c], joinedLobby'[c], toClient'[c],
                 toServer'[c], connections[c], lobby.id, Others(lobby.members, c), lastLobby),
           attempt' \in [Connections -> 0..Attempts],
           \A d \in Connections : state'[d] \in {"off", "keys", "welcome"} => attempt'[d] = 0,
           ~broken', ~dropped'
    PROVE  LobbyInv'
<1>1. PICK s, r, r2, asks, asks2, t :
         /\ s = Server /\ r = Reader /\ r2 = Reader' /\ asks = toServer /\ asks2 = toServer' /\ t = todo
  OBVIOUS
<1>2. /\ s.connections = connections /\ s.lobby = lobby /\ s.lastLobby = lastLobby
      /\ r.link = link /\ r.state = state /\ r.peers = peers
      /\ r.joined = joinedLobby /\ r.inbox = toClient
  BY <1>1, ServerIs
<1>3. /\ r2.link = link' /\ r2.state = state' /\ r2.peers = peers'
      /\ r2.joined = joinedLobby' /\ r2.inbox = toClient'
  BY <1>1 DEF Reader
<1>4. s = Server' /\ t = todo'
  BY <1>1 DEF Server, serverVars
<1>5. ServerInv(s, r, asks, t, t)
  BY <1>1 DEF LobbyInv
<1>6. r2 \in ReaderTypes /\ asks2 \in [Connections -> Seq(Messages)]
  BY <1>1 DEF ClientsTyped, Reader, ReaderTypes
<1>7. Steps(c, r, r2, asks, asks2)
  <2>1. \A d \in Connections : d # c =>
          /\ r2.link[d] = r.link[d] /\ r2.state[d] = r.state[d] /\ r2.peers[d] = r.peers[d]
          /\ r2.joined[d] = r.joined[d] /\ r2.inbox[d] = r.inbox[d] /\ asks2[d] = asks[d]
    BY <1>1, <1>2, <1>3 DEF Moves
  <2>2. r.link[c] = "server closed" => r2.link[c] = "server closed"
    BY <1>2, <1>3 DEF Moves
  <2>. QED
    BY <1>6, <2>1, <2>2 DEF Steps
<1>8. Sound(IdentityOf[c], r2.link[c], r2.state[c], r2.peers[c], r2.joined[c], r2.inbox[c],
            asks2[c], s.connections[c], s.lobby.id, Others(s.lobby.members, c), s.lastLobby)
  BY <1>1, <1>2, <1>3
<1>9. ServerInv(s, r2, asks2, t, t)
  BY <1>5, <1>7, <1>8, ClientKeeps
<1>10. ServerInv(Server', Reader', toServer', todo', todo')
  BY <1>1, <1>4, <1>9
<1>11. Turns'
  <2>1. Turns
    BY DEF LobbyInv
  <2>. QED
    BY <2>1 DEF Turns, serverVars
<1>12. Tries'
  BY DEF Tries
<1>. QED
  BY <1>10, <1>11, <1>12 DEF LobbyInv

\* The client ends without having seen broken protocol.
LEMMA EndKeeps ==
    ASSUME LobbyInv, NEW c \in Connections, UNCHANGED serverVars, Running(c), End(c), ~broken'
    PROVE  LobbyInv'
<1>1. /\ ClientsTyped /\ SoundNow(c)
      /\ link[c] \in Links /\ state[c] \in States /\ peers[c] \in Seq(Identities)
      /\ joinedLobby[c] \in Nat /\ toClient[c] \in Seq(Messages) /\ toServer[c] \in Seq(Messages)
      /\ connections[c] \in ConnectionTypes /\ lastLobby \in Nat
  BY ClientFacts
<1>2. /\ attempt \in [Connections -> 0..Attempts] /\ ~dropped
      /\ \A d \in Connections : state[d] \in {"off", "keys", "welcome"} => attempt[d] = 0
  BY ClientFacts
<1>3. Runs(state[c])
  BY DEF Running, Runs
<1>4. /\ state' = [state EXCEPT ![c] = "ended"] /\ peers' = [peers EXCEPT ![c] = <<>>]
      /\ link' = [link EXCEPT ![c] = LeftBy(link[c])] /\ toClient' = [toClient EXCEPT ![c] = <<>>]
      /\ attempt' = [attempt EXCEPT ![c] = 0] /\ joinedLobby' = [joinedLobby EXCEPT ![c] = 0]
      /\ toServer' = toServer /\ dropped' = dropped
  BY DEF End, LeftBy
<1>5. LeftBy(link[c]) \in Links /\ (link[c] = "server closed" => LeftBy(link[c]) = "server closed")
  BY <1>1 DEF LeftBy, Links
<1>6. ClientsTyped'
  <2>1. "ended" \in States /\ <<>> \in Seq(Identities) /\ <<>> \in Seq(Messages) /\ 0 \in Nat
    BY DEF States
  <2>. QED
    BY <1>1, <1>4, <1>5, <2>1 DEF ClientsTyped
<1>7. /\ link'[c] = LeftBy(link[c]) /\ state'[c] = "ended" /\ peers'[c] = <<>> /\ joinedLobby'[c] = 0
      /\ toClient'[c] = <<>> /\ toServer'[c] = toServer[c]
  BY <1>1, <1>4 DEF ClientsTyped
<1>8. Sound(IdentityOf[c], LeftBy(link[c]), "ended", <<>>, 0, <<>>, toServer[c],
            connections[c], lobby.id, Others(lobby.members, c), lastLobby)
  BY <1>1, <1>3, SoundEnds DEF SoundNow
<1>9. Moves(c)
  BY <1>1, <1>4, <1>5 DEF Moves, ClientsTyped
<1>10. attempt' \in [Connections -> 0..Attempts]
  BY <1>2, <1>4, ClientAssumption
<1>11. \A d \in Connections : state'[d] \in {"off", "keys", "welcome"} => attempt'[d] = 0
  BY <1>1, <1>2, <1>4 DEF ClientsTyped
<1>. QED
  BY <1>2, <1>4, <1>6, <1>7, <1>8, <1>9, <1>10, <1>11, ClientStepKeeps

\* It asks the next thing.
LEMMA ReplyKeeps ==
    ASSUME LobbyInv, NEW c \in Connections, UNCHANGED serverVars, toClient[c] # <<>>,
           NEW m \in Messages, NEW st, Reply(c, m, st), Goes(state[c], Kind(c), st, m.kind),
           attempt' \in [Connections -> 0..Attempts],
           \A d \in Connections : state'[d] \in {"off", "keys", "welcome"} => attempt'[d] = 0
    PROVE  LobbyInv'
<1>1. /\ ClientsTyped /\ SoundNow(c)
      /\ link[c] \in Links /\ state[c] \in States /\ peers[c] \in Seq(Identities)
      /\ joinedLobby[c] \in Nat /\ toClient[c] \in Seq(Messages) /\ toServer[c] \in Seq(Messages)
      /\ connections[c] \in ConnectionTypes /\ lastLobby \in Nat
      /\ ~broken /\ ~dropped
  BY ClientFacts
<1>2. /\ toClient' = [toClient EXCEPT ![c] = Tail(toClient[c])]
      /\ state' = [state EXCEPT ![c] = st]
      /\ Say(c, m) /\ link' = link /\ peers' = peers /\ joinedLobby' = joinedLobby
      /\ broken' = broken /\ dropped' = dropped
  BY DEF Reply
<1>3. PICK q2 : q2 = IF link[c] = "open" THEN Append(toServer[c], m) ELSE toServer[c]
  OBVIOUS
<1>4. q2 \in Seq(Messages)
  BY <1>1, <1>3
<1>5. toServer' = [toServer EXCEPT ![c] = q2]
  BY <1>1, <1>2, <1>3 DEF Say, ClientsTyped
<1>6. /\ Tail(toClient[c]) \in Seq(Messages) /\ toClient[c][1] = Message(c) /\ Len(toClient[c]) > 0
  BY <1>1, RangeOfTail DEF Message
<1>7. toClient[c][1].kind = Kind(c)
  BY <1>6 DEF Kind
<1>8. st \in States
  BY Going DEF States
<1>9. Sound(IdentityOf[c], link[c], st, peers[c], joinedLobby[c], Tail(toClient[c]), q2,
            connections[c], lobby.id, Others(lobby.members, c), lastLobby)
  <2>1. PICK lk, k, others : lk = link[c] /\ k = Kind(c) /\ others = Others(lobby.members, c)
    OBVIOUS
  <2>. QED
    BY <1>1, <1>3, <1>4, <1>6, <1>7, SoundAsks DEF SoundNow
<1>10. ClientsTyped'
  BY <1>1, <1>2, <1>4, <1>5, <1>6, <1>8 DEF ClientsTyped
<1>11. /\ link'[c] = link[c] /\ state'[c] = st /\ peers'[c] = peers[c]
       /\ joinedLobby'[c] = joinedLobby[c]
       /\ toClient'[c] = Tail(toClient[c]) /\ toServer'[c] = q2
  BY <1>1, <1>2, <1>5 DEF ClientsTyped
<1>12. Moves(c)
  BY <1>1, <1>2, <1>5 DEF Moves, ClientsTyped
<1>. QED
  BY <1>1, <1>2, <1>9, <1>10, <1>11, <1>12, ClientStepKeeps

\* It reads the list of members, or news.
LEMMA ReadKeeps ==
    ASSUME LobbyInv, NEW c \in Connections, UNCHANGED serverVars, toClient[c] # <<>>,
           NEW known2, NEW l2, Reads(state[c], peers[c], joinedLobby[c], Message(c), known2, l2),
           toClient' = [toClient EXCEPT ![c] = Tail(@)],
           state' = [state EXCEPT ![c] = "joined"], peers' = [peers EXCEPT ![c] = known2],
           joinedLobby' = [joinedLobby EXCEPT ![c] = l2],
           UNCHANGED <<link, toServer, attempt>>, ~broken', ~dropped'
    PROVE  LobbyInv'
<1>1. /\ ClientsTyped /\ SoundNow(c)
      /\ link[c] \in Links /\ state[c] \in States /\ peers[c] \in Seq(Identities)
      /\ joinedLobby[c] \in Nat /\ toClient[c] \in Seq(Messages) /\ toServer[c] \in Seq(Messages)
      /\ connections[c] \in ConnectionTypes /\ lastLobby \in Nat
      /\ (connections[c].lobby # 0 => lobby.id # 0)
  BY ClientFacts
<1>2. /\ attempt \in [Connections -> 0..Attempts]
      /\ \A d \in Connections : state[d] \in {"off", "keys", "welcome"} => attempt[d] = 0
  BY ClientFacts
<1>3. /\ Tail(toClient[c]) \in Seq(Messages) /\ toClient[c][1] = Message(c) /\ Len(toClient[c]) > 0
      /\ Message(c) \in Messages
  BY <1>1, RangeOfTail DEF Message
<1>4. known2 \in Seq(Identities) /\ l2 \in Nat
  <2>1. known2 = Learn(peers[c], Message(c))
    BY DEF Reads
  <2>2. CASE Message(c).kind = "joined"
    <3>1. l2 = Message(c).lobby
      BY <2>2 DEF Reads
    <3>2. PICK m \in Messages : m = Message(c)
      BY <1>3
    <3>3. m.lobby \in 1..Cardinality(Connections)
      BY <2>2, <3>2, MessageFields
    <3>4. m.lobby \in Nat
      BY <3>3
    <3>5. Learn(peers[c], m) \in Seq(Identities)
      BY <1>1, LearnTyped
    <3>. QED
      BY <2>1, <3>1, <3>2, <3>4, <3>5
  <2>. QED
    BY <1>1, <1>3, <2>1, <2>2, LearnTyped DEF Reads
<1>5. Sound(IdentityOf[c], link[c], "joined", known2, l2, Tail(toClient[c]), toServer[c],
            connections[c], lobby.id, Others(lobby.members, c), lastLobby)
  BY <1>1, <1>3, SoundReads DEF SoundNow
<1>6. ClientsTyped'
  <2>1. "joined" \in States
    BY DEF States
  <2>. QED
    BY <1>1, <1>3, <1>4, <2>1 DEF ClientsTyped
<1>7. /\ link'[c] = link[c] /\ state'[c] = "joined" /\ peers'[c] = known2 /\ joinedLobby'[c] = l2
      /\ toClient'[c] = Tail(toClient[c]) /\ toServer'[c] = toServer[c]
  BY <1>1 DEF ClientsTyped
<1>8. Moves(c)
  BY <1>1 DEF Moves, ClientsTyped
<1>9. /\ attempt' \in [Connections -> 0..Attempts]
      /\ \A d \in Connections : state'[d] \in {"off", "keys", "welcome"} => attempt'[d] = 0
  BY <1>1, <1>2 DEF ClientsTyped
<1>. QED
  BY <1>5, <1>6, <1>7, <1>8, <1>9, ClientStepKeeps

\* What awaits a client.
LEMMA FrontMessage ==
    ASSUME LobbyInv, NEW c \in Connections, Running(c), toClient[c] # <<>>
    PROVE  /\ Message(c) \in Messages /\ Kind(c) \in Answers(state[c]) \cup {"goodbye"}
           /\ Fits(IdentityOf[c], peers[c], Message(c)) /\ peers[c] \in Seq(Identities)
           /\ ~broken /\ ~dropped
<1>1. /\ SoundNow(c)
      /\ link[c] \in Links /\ state[c] \in States /\ peers[c] \in Seq(Identities)
      /\ joinedLobby[c] \in Nat /\ toClient[c] \in Seq(Messages) /\ toServer[c] \in Seq(Messages)
      /\ connections[c] \in ConnectionTypes /\ lastLobby \in Nat
      /\ ~broken /\ ~dropped
  BY ClientFacts
<1>2. Runs(state[c])
  BY DEF Running, Runs
<1>3. Len(toClient[c]) > 0 /\ toClient[c][1] = Message(c)
  BY <1>1, RangeOfTail DEF Message
<1>4. /\ toClient[c][1] \in Messages /\ toClient[c][1].kind \in Answers(state[c]) \cup {"goodbye"}
      /\ Fits(IdentityOf[c], peers[c], toClient[c][1])
  <2>1. Sound(IdentityOf[c], link[c], state[c], peers[c], joinedLobby[c], toClient[c], toServer[c],
              connections[c], lobby.id, Others(lobby.members, c), lastLobby)
    BY <1>1 DEF SoundNow
  <2>. QED
    BY <1>1, <1>2, <1>3, <2>1, FirstMessage
<1>. QED
  BY <1>1, <1>3, <1>4 DEF Kind

\* A client that expected something else was told goodbye.
LEMMA UnexpectedKeeps ==
    ASSUME LobbyInv, NEW c \in Connections, UNCHANGED serverVars, Running(c), Unexpected(c),
           Kind(c) = "goodbye"
    PROVE  LobbyInv'
<1>1. ~broken
  BY ClientFacts
<1>2. End(c) /\ ~broken'
  BY <1>1 DEF Unexpected
<1>. QED
  BY <1>2, EndKeeps

LEMMA FailKeeps ==
    ASSUME LobbyInv, NEW c \in Connections, UNCHANGED serverVars, Running(c), Fail(c)
    PROVE  LobbyInv'
<1>1. ~broken
  BY ClientFacts
<1>2. End(c) /\ ~broken'
  BY <1>1 DEF Fail
<1>. QED
  BY <1>2, EndKeeps

\* The client asks, once more if it may.
LEMMA AskKeeps ==
    ASSUME LobbyInv, NEW c \in Connections, UNCHANGED serverVars, toClient[c] # <<>>,
           attempt[c] < Attempts, Ask(c),
           (state[c] = "welcome" /\ Kind(c) = "welcome")
              \/ (state[c] \in {"created", "listed"} /\ Kind(c) = "refused")
    PROVE  LobbyInv'
<1>1. Plain("query") \in Messages /\ Plain("query").kind = "query"
  BY MessagesMade
<1>2. Reply(c, Plain("query"), "info") /\ attempt' = [attempt EXCEPT ![c] = attempt[c] + 1]
  BY DEF Ask
<1>3. Goes(state[c], Kind(c), "info", "query")
  BY DEF Goes
<1>4. /\ attempt \in [Connections -> 0..Attempts]
      /\ \A d \in Connections : state[d] \in {"off", "keys", "welcome"} => attempt[d] = 0
      /\ ClientsTyped
  BY ClientFacts
<1>5. state' = [state EXCEPT ![c] = "info"]
  BY <1>2 DEF Reply
<1>6. attempt[c] + 1 \in 0..Attempts
  BY <1>4, ClientAssumption
<1>7. attempt' \in [Connections -> 0..Attempts]
  BY <1>2, <1>4, <1>6
<1>8. \A d \in Connections : state'[d] \in {"off", "keys", "welcome"} => attempt'[d] = 0
  BY <1>2, <1>4, <1>5 DEF ClientsTyped
<1>. QED
  BY <1>1, <1>2, <1>3, <1>7, <1>8, ReplyKeeps

\* The client goes on without another attempt.
LEMMA GoOnKeeps ==
    ASSUME LobbyInv, NEW c \in Connections, UNCHANGED serverVars, toClient[c] # <<>>,
           NEW m \in Messages, NEW st, Reply(c, m, st), Goes(state[c], Kind(c), st, m.kind),
           UNCHANGED attempt, state[c] = "keys" \/ st \in {"listed", "created"}
    PROVE  LobbyInv'
<1>1. /\ attempt \in [Connections -> 0..Attempts]
      /\ \A d \in Connections : state[d] \in {"off", "keys", "welcome"} => attempt[d] = 0
      /\ ClientsTyped
  BY ClientFacts
<1>2. state' = [state EXCEPT ![c] = st]
  BY DEF Reply
<1>3. attempt' \in [Connections -> 0..Attempts]
  BY <1>1
<1>4. \A d \in Connections : state'[d] \in {"off", "keys", "welcome"} => attempt'[d] = 0
  <2>1. state \in [Connections -> States]
    BY <1>1 DEF ClientsTyped
  <2>2. SUFFICES ASSUME NEW d \in Connections, state'[d] \in {"off", "keys", "welcome"}
                 PROVE  attempt[d] = 0
    OBVIOUS
  <2>3. CASE d # c
    BY <1>1, <1>2, <2>1, <2>2, <2>3
  <2>4. CASE d = c
    BY <1>1, <1>2, <2>1, <2>2, <2>4
  <2>. QED
    BY <2>3, <2>4
<1>. QED
  BY <1>3, <1>4, ReplyKeeps

LEMMA ConnectKeeps ==
    ASSUME LobbyInv, NEW c \in Connections, Connect(c), UNCHANGED serverVars
    PROVE  LobbyInv'
<1>1. /\ ClientsTyped /\ SoundNow(c)
      /\ link[c] \in Links /\ state[c] \in States /\ peers[c] \in Seq(Identities)
      /\ joinedLobby[c] \in Nat /\ toClient[c] \in Seq(Messages) /\ toServer[c] \in Seq(Messages)
      /\ connections[c] \in ConnectionTypes /\ lastLobby \in Nat
      /\ ~broken /\ ~dropped
  BY ClientFacts
<1>2. /\ attempt \in [Connections -> 0..Attempts]
      /\ \A d \in Connections : state[d] \in {"off", "keys", "welcome"} => attempt[d] = 0
  BY ClientFacts
<1>3. PICK m \in Messages : m = Plain("hello") /\ m.kind = "hello"
  <2>1. Plain("hello") \in Messages /\ Plain("hello").kind = "hello"
    BY MessagesMade
  <2>. QED
    BY <2>1
<1>4. /\ state[c] = "off"
      /\ link' = [link EXCEPT ![c] = "open"] /\ toServer' = [toServer EXCEPT ![c] = <<m>>]
      /\ state' = [state EXCEPT ![c] = "keys"]
      /\ UNCHANGED <<toClient, attempt, peers, joinedLobby, broken, dropped>>
  BY <1>3 DEF Connect
<1>5. Sound(IdentityOf[c], "open", "keys", peers[c], joinedLobby[c], toClient[c], <<m>>,
            connections[c], lobby.id, Others(lobby.members, c), lastLobby)
  BY <1>1, <1>3, <1>4, SoundConnects DEF SoundNow
<1>6. ClientsTyped'
  <2>1. "open" \in Links /\ "keys" \in States /\ <<m>> \in Seq(Messages)
    BY DEF Links, States, Waits
  <2>. QED
    BY <1>1, <1>4, <2>1 DEF ClientsTyped
<1>7. /\ link'[c] = "open" /\ state'[c] = "keys" /\ peers'[c] = peers[c]
      /\ joinedLobby'[c] = joinedLobby[c] /\ toClient'[c] = toClient[c] /\ toServer'[c] = <<m>>
  BY <1>1, <1>4 DEF ClientsTyped
<1>8. Moves(c)
  <2>1. link[c] = "none"
    BY <1>1, <1>4 DEF SoundNow, Sound, Ends
  <2>. QED
    BY <1>1, <1>4, <2>1 DEF Moves, ClientsTyped
<1>9. \A d \in Connections : state'[d] \in {"off", "keys", "welcome"} => attempt'[d] = 0
  BY <1>1, <1>2, <1>4 DEF ClientsTyped
<1>. QED
  BY <1>1, <1>2, <1>4, <1>5, <1>6, <1>7, <1>8, <1>9, ClientStepKeeps

LEMMA SendLobbyKeeps ==
    ASSUME LobbyInv, NEW c \in Connections, SendLobby(c), UNCHANGED serverVars
    PROVE  LobbyInv'
<1>1. /\ ClientsTyped /\ SoundNow(c)
      /\ link[c] \in Links /\ state[c] \in States /\ peers[c] \in Seq(Identities)
      /\ joinedLobby[c] \in Nat /\ toClient[c] \in Seq(Messages) /\ toServer[c] \in Seq(Messages)
      /\ connections[c] \in ConnectionTypes /\ lastLobby \in Nat
      /\ ~broken /\ ~dropped
  BY ClientFacts
<1>2. /\ attempt \in [Connections -> 0..Attempts]
      /\ \A d \in Connections : state[d] \in {"off", "keys", "welcome"} => attempt[d] = 0
  BY ClientFacts
<1>3. PICK m \in Messages : m = Plain("send") /\ m.kind = "send"
  <2>1. Plain("send") \in Messages /\ Plain("send").kind = "send"
    BY MessagesMade
  <2>. QED
    BY <2>1
<1>4. /\ state[c] = "joined" /\ Say(c, m)
      /\ UNCHANGED <<link, toClient, state, attempt, peers, joinedLobby, broken, dropped>>
  BY <1>3 DEF SendLobby
<1>5. PICK q2 : q2 = IF link[c] = "open" THEN Append(toServer[c], m) ELSE toServer[c]
  OBVIOUS
<1>6. q2 \in Seq(Messages)
  BY <1>1, <1>5
<1>7. toServer' = [toServer EXCEPT ![c] = q2]
  BY <1>1, <1>4, <1>5 DEF Say, ClientsTyped
<1>8. Sound(IdentityOf[c], link[c], state[c], peers[c], joinedLobby[c], toClient[c], q2,
            connections[c], lobby.id, Others(lobby.members, c), lastLobby)
  BY <1>1, <1>3, <1>4, <1>5, SoundSays DEF SoundNow
<1>9. ClientsTyped'
  BY <1>1, <1>4, <1>6, <1>7 DEF ClientsTyped
<1>10. toServer'[c] = q2
  BY <1>1, <1>7 DEF ClientsTyped
<1>11. Moves(c)
  BY <1>1, <1>4, <1>7 DEF Moves, ClientsTyped
<1>. QED
  BY <1>1, <1>2, <1>4, <1>8, <1>9, <1>10, <1>11, ClientStepKeeps

LEMMA ReceiveKeysKeeps ==
    ASSUME LobbyInv, NEW c \in Connections, ReceiveKeys(c), UNCHANGED serverVars
    PROVE  LobbyInv'
<1>1. state[c] = "keys" /\ toClient[c] # <<>> /\ Running(c)
  BY DEF ReceiveKeys, Awaits, Running, Waits
<1>2. Kind(c) \in {"keys", "goodbye"}
  BY <1>1, FrontMessage DEF Answers
<1>3. CASE Kind(c) = "keys"
  <2>1. Reply(c, Plain("identity"), "welcome") /\ UNCHANGED attempt
    BY <1>3 DEF ReceiveKeys
  <2>2. Plain("identity") \in Messages /\ Plain("identity").kind = "identity"
    BY MessagesMade
  <2>3. Goes(state[c], Kind(c), "welcome", Plain("identity").kind)
    BY <1>1, <1>3, <2>2 DEF Goes
  <2>. QED
    BY <1>1, <2>1, <2>2, <2>3, GoOnKeeps
<1>4. CASE Kind(c) = "goodbye"
  BY <1>1, <1>4, UnexpectedKeeps DEF ReceiveKeys
<1>. QED
  BY <1>2, <1>3, <1>4

LEMMA ReceiveWelcomeKeeps ==
    ASSUME LobbyInv, NEW c \in Connections, ReceiveWelcome(c), UNCHANGED serverVars
    PROVE  LobbyInv'
<1>1. state[c] = "welcome" /\ toClient[c] # <<>> /\ Running(c)
  BY DEF ReceiveWelcome, Awaits, Running, Waits
<1>2. Kind(c) \in {"welcome", "goodbye"}
  BY <1>1, FrontMessage DEF Answers
<1>3. CASE Kind(c) = "welcome"
  <2>1. Ask(c)
    BY <1>3 DEF ReceiveWelcome
  <2>2. attempt[c] = 0
    BY <1>1, ClientFacts
  <2>3. attempt[c] < Attempts
    BY <2>2, ClientAssumption
  <2>. QED
    BY <1>1, <1>3, <2>1, <2>3, AskKeeps
<1>4. CASE Kind(c) = "goodbye"
  BY <1>1, <1>4, UnexpectedKeeps DEF ReceiveWelcome
<1>. QED
  BY <1>2, <1>3, <1>4

LEMMA ReceiveInfoKeeps ==
    ASSUME LobbyInv, NEW c \in Connections, ReceiveInfo(c), UNCHANGED serverVars
    PROVE  LobbyInv'
<1>1. state[c] = "info" /\ toClient[c] # <<>> /\ Running(c)
  BY DEF ReceiveInfo, Awaits, Running, Waits
<1>2. Kind(c) \in {"info", "goodbye"}
  BY <1>1, FrontMessage DEF Answers
<1>3. CASE Kind(c) = "info"
  <2>1. /\ IF Message(c).what THEN Reply(c, About("join", PasswordOf[c]), "listed")
           ELSE Reply(c, About("create", PasswordOf[c]), "created")
        /\ UNCHANGED attempt
    BY <1>3 DEF ReceiveInfo
  <2>2. PasswordOf[c] \in Passwords
    BY DEF Passwords
  <2>3. CASE Message(c).what
    <3>1. Reply(c, About("join", PasswordOf[c]), "listed")
      BY <2>1, <2>3
    <3>2. About("join", PasswordOf[c]) \in Messages /\ About("join", PasswordOf[c]).kind = "join"
      BY <2>2, MessagesMade
    <3>3. Goes(state[c], Kind(c), "listed", About("join", PasswordOf[c]).kind)
      BY <1>1, <1>3, <3>2 DEF Goes
    <3>. QED
      BY <1>1, <2>1, <3>1, <3>2, <3>3, GoOnKeeps
  <2>4. CASE ~Message(c).what
    <3>1. Reply(c, About("create", PasswordOf[c]), "created")
      BY <2>1, <2>4
    <3>2. About("create", PasswordOf[c]) \in Messages /\ About("create", PasswordOf[c]).kind = "create"
      BY <2>2, MessagesMade
    <3>3. Goes(state[c], Kind(c), "created", About("create", PasswordOf[c]).kind)
      BY <1>1, <1>3, <3>2 DEF Goes
    <3>. QED
      BY <1>1, <2>1, <3>1, <3>2, <3>3, GoOnKeeps
  <2>. QED
    BY <2>3, <2>4
<1>4. CASE Kind(c) = "goodbye"
  BY <1>1, <1>4, UnexpectedKeeps DEF ReceiveInfo
<1>. QED
  BY <1>2, <1>3, <1>4

LEMMA ReceiveAnswerKeeps ==
    ASSUME LobbyInv, NEW c \in Connections, ReceiveAnswer(c), UNCHANGED serverVars
    PROVE  LobbyInv'
<1>1. state[c] \in {"created", "listed"} /\ toClient[c] # <<>> /\ Running(c) /\ Answered(c)
  BY DEF ReceiveAnswer, Awaits, Running, Waits
<1>2. /\ Kind(c) \in {"refused", "joined", "goodbye"} /\ Message(c).kind = Kind(c)
      /\ Fits(IdentityOf[c], peers[c], Message(c)) /\ ~broken /\ ~dropped
  <2>1. Kind(c) \in Answers(state[c]) \cup {"goodbye"}
    BY <1>1, FrontMessage
  <2>2. Kind(c) \in {"refused", "joined", "goodbye"}
    BY <1>1, <2>1 DEF Answers
  <2>. QED
    BY <1>1, <2>2, FrontMessage DEF Kind
<1>3. CASE Kind(c) = "joined"
  <2>1. Acceptable(c, Message(c).members)
    BY <1>2, <1>3 DEF Fits, Acceptable
  <2>2. /\ state' = [state EXCEPT ![c] = "joined"]
        /\ peers' = [peers EXCEPT ![c] = Message(c).members]
        /\ joinedLobby' = [joinedLobby EXCEPT ![c] = Message(c).lobby]
        /\ toClient' = [toClient EXCEPT ![c] = Tail(@)]
        /\ UNCHANGED <<link, toServer, said, attempt, quits, broken, dropped>>
    BY <1>1, <1>2, <1>3, <2>1 DEF Answered
  <2>3. Learn(peers[c], Message(c)) = Message(c).members
    BY <1>2, <1>3 DEF Learn
  <2>4. Reads(state[c], peers[c], joinedLobby[c], Message(c), Message(c).members, Message(c).lobby)
    BY <1>1, <1>2, <1>3, <2>3 DEF Reads
  <2>. QED
    BY <1>1, <1>2, <2>2, <2>4, ReadKeeps
<1>4. CASE Kind(c) = "refused"
  <2>1. CASE Message(c).what = "password"
    <3>1. Fail(c)
      BY <1>1, <1>2, <1>4, <2>1 DEF Answered
    <3>. QED
      BY <1>1, <3>1, FailKeeps
  <2>2. CASE Message(c).what # "password"
    <3>1. IF AskAgain(c) THEN Ask(c) ELSE Fail(c)
      BY <1>1, <1>2, <1>4, <2>2 DEF Answered
    <3>2. CASE AskAgain(c)
      <4>1. attempt[c] < Attempts
        BY <3>2 DEF AskAgain
      <4>. QED
        BY <1>1, <1>4, <3>1, <3>2, <4>1, AskKeeps
    <3>3. CASE ~AskAgain(c)
      BY <1>1, <3>1, <3>3, FailKeeps
    <3>. QED
      BY <3>2, <3>3
  <2>. QED
    BY <2>1, <2>2
<1>5. CASE Kind(c) = "goodbye"
  <2>1. Unexpected(c)
    BY <1>1, <1>2, <1>5 DEF Answered
  <2>. QED
    BY <1>1, <1>5, <2>1, UnexpectedKeeps
<1>. QED
  BY <1>2, <1>3, <1>4, <1>5

\* A member reads news.
LEMMA HandledKeeps ==
    ASSUME LobbyInv, NEW c \in Connections, UNCHANGED serverVars, state[c] = "joined",
           toClient[c] # <<>>, Handled(c), Message(c).kind \in News,
           NEW known2, known2 = Learn(peers[c], Message(c)), peers' = [peers EXCEPT ![c] = known2],
           ~dropped'
    PROVE  LobbyInv'
<1>1. ClientsTyped /\ ~broken
  BY ClientFacts
<1>2. /\ toClient' = [toClient EXCEPT ![c] = Tail(@)]
      /\ state' = [state EXCEPT ![c] = "joined"]
      /\ joinedLobby' = [joinedLobby EXCEPT ![c] = joinedLobby[c]]
      /\ UNCHANGED <<link, toServer, attempt>> /\ ~broken'
  BY <1>1 DEF Handled, ClientsTyped
<1>3. Reads(state[c], peers[c], joinedLobby[c], Message(c), known2, joinedLobby[c])
  <2>1. Message(c).kind # "joined"
    BY DEF News
  <2>. QED
    BY <2>1 DEF Reads
<1>. QED
  BY <1>2, <1>3, ReadKeeps

LEMMA ReceiveMemberKeeps ==
    ASSUME LobbyInv, NEW c \in Connections, ReceiveMember(c), UNCHANGED serverVars
    PROVE  LobbyInv'
<1>1. state[c] = "joined" /\ toClient[c] # <<>> /\ Running(c) /\ Message(c).kind = "member joined"
  BY DEF ReceiveMember, Awaits, Running, Kind
<1>2. Fits(IdentityOf[c], peers[c], Message(c)) /\ peers[c] \in Seq(Identities) /\ ~dropped
  BY <1>1, FrontMessage
<1>3. Message(c).what \notin Range(peers[c]) /\ Message(c).what # IdentityOf[c]
  BY <1>1, <1>2 DEF Fits
<1>4. PICK added : added = Append(peers[c], Message(c).what)
  OBVIOUS
<1>5. AddPeer(c, peers[c], Message(c).what) = added
  BY <1>3, <1>4 DEF AddPeer
<1>6. added # <<>>
  BY <1>2, <1>4
<1>7. Handled(c) /\ peers' = [peers EXCEPT ![c] = added] /\ UNCHANGED dropped
  BY <1>5, <1>6 DEF ReceiveMember
<1>8. added = Learn(peers[c], Message(c)) /\ Message(c).kind \in News
  BY <1>1, <1>4 DEF Learn, News
<1>. QED
  BY <1>1, <1>2, <1>7, <1>8, HandledKeeps

LEMMA ReceiveLeftKeeps ==
    ASSUME LobbyInv, NEW c \in Connections, ReceiveLeft(c), UNCHANGED serverVars
    PROVE  LobbyInv'
<1>1. state[c] = "joined" /\ toClient[c] # <<>> /\ Message(c).kind = "member left"
  BY DEF ReceiveLeft, Awaits, Kind
<1>2. ~dropped
  BY ClientFacts
<1>3. PICK known2 : known2 = Filter(peers[c], LAMBDA id : id # Message(c).what)
  OBVIOUS
<1>4. Handled(c) /\ peers' = [peers EXCEPT ![c] = known2] /\ UNCHANGED dropped
  BY <1>3 DEF ReceiveLeft
<1>5. known2 = Learn(peers[c], Message(c)) /\ Message(c).kind \in News
  BY <1>1, <1>3 DEF Learn, News
<1>. QED
  BY <1>1, <1>2, <1>4, <1>5, HandledKeeps

LEMMA ReceiveMessageKeeps ==
    ASSUME LobbyInv, NEW c \in Connections, ReceiveMessage(c), UNCHANGED serverVars
    PROVE  LobbyInv'
<1>1. state[c] = "joined" /\ toClient[c] # <<>> /\ Running(c) /\ Message(c).kind = "message"
  BY DEF ReceiveMessage, Awaits, Running, Kind
<1>2. Fits(IdentityOf[c], peers[c], Message(c)) /\ ~dropped
  BY <1>1, FrontMessage
<1>3. Message(c).what \in Range(peers[c]) \cup {IdentityOf[c]}
  BY <1>1, <1>2 DEF Fits
<1>4. ClientsTyped
  BY ClientFacts
<1>5. Handled(c) /\ peers' = [peers EXCEPT ![c] = peers[c]] /\ ~dropped'
  BY <1>2, <1>3, <1>4 DEF ReceiveMessage, ClientsTyped
<1>6. peers[c] = Learn(peers[c], Message(c)) /\ Message(c).kind \in News
  BY <1>1 DEF Learn, News
<1>. QED
  BY <1>1, <1>5, <1>6, HandledKeeps

LEMMA ReceiveServerMessageKeeps ==
    ASSUME LobbyInv, NEW c \in Connections, ReceiveServerMessage(c), UNCHANGED serverVars
    PROVE  LobbyInv'
<1>1. state[c] = "joined" /\ toClient[c] # <<>> /\ Message(c).kind = "server message"
  BY DEF ReceiveServerMessage, Awaits, Kind
<1>2. ~dropped /\ ClientsTyped
  BY ClientFacts
<1>3. Handled(c) /\ peers' = [peers EXCEPT ![c] = peers[c]] /\ ~dropped'
  BY <1>2 DEF ReceiveServerMessage, ClientsTyped
<1>4. peers[c] = Learn(peers[c], Message(c)) /\ Message(c).kind \in News
  BY <1>1 DEF Learn, News
<1>. QED
  BY <1>1, <1>3, <1>4, HandledKeeps

LEMMA ReceiveGoodbyeKeeps ==
    ASSUME LobbyInv, NEW c \in Connections, ReceiveGoodbye(c), UNCHANGED serverVars
    PROVE  LobbyInv'
<1>1. state[c] = "joined" /\ toClient[c] # <<>> /\ Running(c) /\ Kind(c) \notin News /\ Unexpected(c)
  BY DEF ReceiveGoodbye, Awaits, Running, News
<1>2. Kind(c) \in News \cup {"goodbye"}
  BY <1>1, FrontMessage DEF Answers
<1>. QED
  BY <1>1, <1>2, UnexpectedKeeps

LEMMA LostKeeps ==
    ASSUME LobbyInv, NEW c \in Connections, Lost(c), UNCHANGED serverVars
    PROVE  LobbyInv'
BY FailKeeps DEF Lost

LEMMA StopKeeps ==
    ASSUME LobbyInv, NEW c \in Connections, Stop(c), UNCHANGED serverVars
    PROVE  LobbyInv'
<1>1. ~broken
  BY ClientFacts
<1>2. Running(c) /\ End(c) /\ ~broken'
  BY <1>1 DEF Stop
<1>. QED
  BY <1>2, EndKeeps

LEMMA ClientStepsKeep ==
    ASSUME LobbyInv, NEW c \in Connections, ClientStep(c)
    PROVE  LobbyInv'
BY ConnectKeeps, ReceiveKeysKeeps, ReceiveWelcomeKeeps, ReceiveInfoKeeps, ReceiveAnswerKeeps,
   ReceiveMemberKeeps, ReceiveLeftKeeps, ReceiveMessageKeeps, ReceiveServerMessageKeeps,
   ReceiveGoodbyeKeeps, LostKeeps, SendLobbyKeeps, StopKeeps DEF ClientStep

-----------------------------------------------------------------------------
(* Each step of the server keeps the invariant                               *)

\* What the invariant says of the server and the wire.
LEMMA ServerNow ==
    ASSUME LobbyInv
    PROVE  /\ ServerInv(Server, Reader, toServer, todo, todo)
           /\ Server \in ServerTypes /\ Reader \in ReaderTypes /\ ClientsTyped
           /\ connections \in [Connections -> ConnectionTypes] /\ lastLobby \in Nat
           /\ (\A c \in todo : connections[c].stage # "none")
           /\ Turns
<1>1. PICK s, r, asks : s = Server /\ r = Reader /\ asks = toServer
  OBVIOUS
<1>2. ServerInv(s, r, asks, todo, todo)
  BY <1>1 DEF LobbyInv
<1>3. /\ s \in ServerTypes /\ r \in ReaderTypes /\ asks \in [Connections -> Seq(Messages)]
      /\ \A c \in todo : s.connections[c].stage # "none"
  BY <1>2 DEF ServerInv, Consistent
<1>4. s.connections \in [Connections -> ConnectionTypes] /\ s.lastLobby \in Nat
  BY <1>3, ServerFields
<1>5. ClientsTyped
  BY <1>1, <1>3, ReaderTyped
<1>6. Turns
  BY DEF LobbyInv
<1>. QED
  BY <1>1, <1>2, <1>3, <1>4, <1>5, <1>6, ServerIs

LEMMA ServerStepKeeps ==
    ASSUME LobbyInv, UNCHANGED clientVars, NEW t \in ServerTypes, Become(t), Turns',
           ServerInv(t, Reader', toServer', todo', todo')
    PROVE  LobbyInv'
<1>1. Server' = t
  BY DEF Become, Server, ServerTypes
<1>2. Tries /\ ~broken /\ ~dropped
  BY DEF LobbyInv
<1>3. Tries' /\ ~broken' /\ ~dropped'
  BY <1>2 DEF Tries, clientVars
<1>. QED
  BY <1>1, <1>3 DEF LobbyInv

\* The server has handled nothing.
LEMMA SameServer ==
    ASSUME LobbyInv, UNCHANGED <<connections, lobby, lastLobby, heard>>
    PROVE  Become(Server) /\ Server \in ServerTypes
BY ServerIs, ServerNow DEF Become

\* Messages that were queued remain for lobbies that have been made.
LEMMA QueueKept ==
    ASSUME Turns, NEW n \in Nat, lastLobby \in Nat, lastLobby <= n
    PROVE  outgoing \in Seq(1..n)
<1>1. outgoing \in Seq(1..lastLobby) /\ 1..lastLobby \subseteq 1..n
  BY DEF Turns
<1>2. \A i \in 1..Len(outgoing) : outgoing[i] \in 1..n
  BY <1>1
<1>3. outgoing \in [1..Len(outgoing) -> 1..n] /\ Len(outgoing) \in Nat
  BY <1>1, <1>2
<1>. QED
  BY <1>3

LEMMA HostSendKeeps ==
    ASSUME LobbyInv, HostSend, UNCHANGED clientVars
    PROVE  LobbyInv'
<1>1. PICK s \in ServerTypes, r \in ReaderTypes : s = Server /\ r = Reader
  BY ServerNow
<1>2. /\ ServerInv(s, r, toServer, todo, todo) /\ Turns
      /\ lastLobby \in Nat
  BY <1>1, ServerNow
<1>3. PICK l \in heard.open : outgoing' = Append(outgoing, l)
  BY DEF HostSend
<1>4. UNCHANGED <<link, toServer, toClient, phase, todo, connections, lobby, lastLobby, heard>>
  BY DEF HostSend
<1>5. l \in 1..lastLobby
  <2>1. s.heard.open = (IF s.lobby.id = 0 THEN {} ELSE {s.lobby.id}) /\ s.lobby.id <= s.lastLobby
    BY <1>2 DEF ServerInv, Consistent, Heard, Counted
  <2>2. l = s.lobby.id /\ s.lobby.id # 0
    BY <1>1, <1>3, <2>1, ServerIs
  <2>3. s.lobby.id \in Nat
    BY ServerFields
  <2>. QED
    BY <1>1, <1>2, <2>1, <2>2, <2>3, ServerIs
<1>6. Turns'
  <2>1. outgoing \in Seq(1..lastLobby)
    BY <1>2 DEF Turns
  <2>2. outgoing' \in Seq(1..lastLobby)
    BY <1>3, <1>5, <2>1
  <2>. QED
    BY <1>2, <1>4, <2>2 DEF Turns
<1>7. Become(s)
  BY <1>1, <1>4, SameServer
<1>8. Reader' = r
  BY <1>1, <1>4 DEF Reader, clientVars
<1>9. ServerInv(s, Reader', toServer', todo', todo')
  BY <1>2, <1>4, <1>8
<1>. QED
  BY <1>6, <1>7, <1>9, ServerStepKeeps

LEMMA PollKeeps ==
    ASSUME LobbyInv, Poll, UNCHANGED clientVars
    PROVE  LobbyInv'
<1>1. PICK s \in ServerTypes, r \in ReaderTypes : s = Server /\ r = Reader
  BY ServerNow
<1>2. /\ ServerInv(s, r, toServer, todo, todo) /\ Turns
      /\ connections \in [Connections -> ConnectionTypes] /\ lastLobby \in Nat
  BY <1>1, ServerNow
<1>3. PICK t : t = Relays(s, outgoing)[Len(outgoing)]
  OBVIOUS
<1>4. /\ phase = "poll" /\ Become(t) /\ outgoing' = <<>> /\ phase' = "receive"
      /\ todo' = {c \in Connections : Readable(c)} /\ UNCHANGED wire
  BY <1>1, <1>3 DEF Poll
<1>5. /\ todo = {} /\ outgoing \in Seq(1..s.lastLobby)
      /\ \A c, d \in Connections : ~Replaced(connections, c, d)
  BY <1>1, <1>2, <1>4, ServerIs DEF Turns
<1>6. ServerInv(s, r, toServer, {}, {})
  BY <1>2, <1>5
<1>7. PICK todo2 : todo2 = {c \in Connections : Readable(c)}
  OBVIOUS
<1>8. \A c, d \in Connections : ~Replaced(s.connections, c, d)
  BY <1>1, <1>5, ServerIs
<1>9. ServerInv(s, r, toServer, todo2, {})
  BY <1>6, <1>8, AllHeard
<1>10. ServerInv(t, r, toServer, todo2, {}) /\ Quieter(s, t)
  <2>1. {} \in SUBSET Connections
    OBVIOUS
  <2>. QED
    BY <1>3, <1>5, <1>9, <2>1, RelaysKeep
<1>11. \A c \in todo2 : t.connections[c].stage # "none"
  BY <1>1, <1>7, <1>10, ServerIs DEF Quieter, Readable
<1>12. ServerInv(t, r, toServer, todo2, todo2)
  <2>1. todo2 \in SUBSET todo2
    OBVIOUS
  <2>. QED
    BY <1>10, <1>11, <2>1, Retabled
<1>13. Reader' = r /\ toServer' = toServer
  BY <1>1, <1>4 DEF Reader, clientVars, wire
<1>14. ServerInv(t, Reader', toServer', todo', todo')
  BY <1>4, <1>7, <1>12, <1>13
<1>15. Turns'
  <2>1. lastLobby' = t.lastLobby /\ <<>> \in Seq(1..t.lastLobby)
    BY <1>4 DEF Become
  <2>. QED
    BY <1>4, <2>1 DEF Turns
<1>16. t \in ServerTypes
  BY <1>12 DEF ServerInv, Consistent
<1>. QED
  BY <1>4, <1>14, <1>15, <1>16, ServerStepKeeps

LEMMA ReceiveKeeps ==
    ASSUME LobbyInv, NEW c \in Connections, Receive(c), UNCHANGED clientVars
    PROVE  LobbyInv'
<1>1. PICK s \in ServerTypes, r \in ReaderTypes : s = Server /\ r = Reader
  BY ServerNow
<1>2. /\ ServerInv(s, r, toServer, todo, todo) /\ Turns /\ ClientsTyped /\ lastLobby \in Nat
      /\ \A d \in todo : connections[d].stage # "none"
  BY <1>1, ServerNow
<1>3. /\ phase = "receive" /\ c \in todo /\ todo' = todo \ {c}
      /\ UNCHANGED <<phase, outgoing, link, toClient, said, quits>>
  BY DEF Receive, Visit
<1>4. Reader' = r
  BY <1>1, <1>3 DEF Reader, clientVars
<1>5. todo \in SUBSET Connections /\ todo \ {c} \in SUBSET todo
  BY <1>2 DEF Turns
<1>6. CASE connections[c].dead
  <2>1. UNCHANGED <<connections, lobby, lastLobby, heard, toServer>>
    BY <1>6 DEF Receive
  <2>2. Become(s)
    BY <1>1, <2>1, SameServer
  <2>3. \A d \in todo \ {c} : s.connections[d].stage # "none"
    BY <1>1, <1>2, ServerIs
  <2>4. ServerInv(s, r, toServer, todo \ {c}, todo \ {c})
    BY <1>2, <1>5, <2>3, Retabled
  <2>5. ServerInv(s, Reader', toServer', todo', todo')
    BY <1>3, <1>4, <2>1, <2>4
  <2>6. Turns'
    BY <1>2, <1>3, <2>1 DEF Turns
  <2>. QED
    BY <2>2, <2>5, <2>6, ServerStepKeeps
<1>7. CASE ~connections[c].dead
  <2>1. PICK t : t = Handlings(s, c, toServer[c])[Len(toServer[c])]
    OBVIOUS
  <2>2. toServer[c] # <<>> /\ Become(t) /\ toServer' = [toServer EXCEPT ![c] = <<>>]
    BY <1>1, <1>7, <2>1 DEF Receive, HandleInput
  <2>3. Len(toServer[c]) > 0
    BY <1>2, <2>2 DEF ClientsTyped
  <2>4. /\ ServerInv(t, r, [toServer EXCEPT ![c] = <<>>], todo \ {c}, todo)
        /\ s.lastLobby <= t.lastLobby
    BY <1>2, <1>3, <1>5, <2>1, <2>3, InputKeeps
  <2>5. t \in ServerTypes /\ \A d \in todo : t.connections[d].stage # "none"
    BY <2>4 DEF ServerInv, Consistent
  <2>6. \A d \in todo \ {c} : t.connections[d].stage # "none"
    BY <2>5
  <2>7. todo \ {c} \in SUBSET (todo \ {c})
    OBVIOUS
  <2>8. ServerInv(t, r, [toServer EXCEPT ![c] = <<>>], todo \ {c}, todo \ {c})
    BY <2>4, <2>6, <2>7, Retabled
  <2>9. ServerInv(t, Reader', toServer', todo', todo')
    BY <1>3, <1>4, <2>2, <2>8
  <2>10. Turns'
    <3>1. lastLobby' = t.lastLobby /\ t.lastLobby \in Nat /\ lastLobby <= t.lastLobby
      BY <1>1, <2>2, <2>4, <2>5, ServerFields, ServerIs DEF Become
    <3>2. outgoing \in Seq(1..lastLobby')
      BY <1>2, <3>1, QueueKept
    <3>. QED
      BY <1>2, <1>3, <3>2 DEF Turns
  <2>. QED
    BY <2>2, <2>5, <2>9, <2>10, ServerStepKeeps
<1>. QED
  BY <1>6, <1>7

\* A connection dies; todo2 are those that the loop visits then.
LEMMA DiesKeeps ==
    ASSUME LobbyInv, NEW c \in Connections, Dies(c), phase = "receive", connections[c].stage # "none",
           NEW todo2 \in SUBSET todo, todo' = todo2, UNCHANGED clientVars
    PROVE  LobbyInv'
<1>1. PICK s \in ServerTypes, r \in ReaderTypes : s = Server /\ r = Reader
  BY ServerNow
<1>2. /\ ServerInv(s, r, toServer, todo, todo) /\ Turns /\ lastLobby \in Nat
      /\ \A d \in todo : connections[d].stage # "none"
  BY <1>1, ServerNow
<1>3. /\ connections' = [connections EXCEPT ![c].dead = TRUE]
      /\ UNCHANGED <<link, toServer, toClient, phase, lobby, lastLobby, outgoing, heard>>
  BY DEF Dies
<1>4. todo \in SUBSET Connections
  BY <1>2 DEF Turns
<1>5. s.connections[c].stage # "none"
  BY <1>1, ServerIs
<1>6. PICK t : t = Dead(s, c)
  OBVIOUS
<1>7. /\ t \in ServerTypes /\ Quieter(s, t)
      /\ t.connections = [s.connections EXCEPT ![c].dead = TRUE]
  BY <1>6, DeadIs
<1>8. ServerInv(t, r, toServer, todo, todo)
  BY <1>2, <1>4, <1>5, <1>6, DeadKeeps
<1>9. \A d \in todo2 : t.connections[d].stage # "none"
  BY <1>8 DEF ServerInv, Consistent
<1>10. ServerInv(t, r, toServer, todo2, todo2)
  BY <1>8, <1>9, Retabled
<1>11. Reader' = r
  BY <1>1, <1>3 DEF Reader, clientVars
<1>12. ServerInv(t, Reader', toServer', todo', todo')
  BY <1>3, <1>10, <1>11
<1>13. Become(t)
  <2>1. t.connections = connections'
    BY <1>1, <1>3, <1>7, ServerIs
  <2>. QED
    BY <1>1, <1>3, <1>7, <2>1, ServerIs DEF Become, Quieter
<1>14. Turns'
  BY <1>2, <1>3 DEF Turns
<1>. QED
  BY <1>7, <1>12, <1>13, <1>14, ServerStepKeeps

LEMMA NoticeKeeps ==
    ASSUME LobbyInv, NEW c \in Connections, Notice(c), UNCHANGED clientVars
    PROVE  LobbyInv'
<1>1. phase = "receive" /\ c \in todo /\ todo' = todo \ {c} /\ Dies(c)
  BY DEF Notice, Visit
<1>2. connections[c].stage # "none"
  BY <1>1, ServerNow
<1>3. todo \ {c} \in SUBSET todo
  OBVIOUS
<1>. QED
  BY <1>1, <1>2, <1>3, DiesKeeps

LEMMA HelloTimeoutKeeps ==
    ASSUME LobbyInv, NEW c \in Connections, HelloTimeout(c), UNCHANGED clientVars
    PROVE  LobbyInv'
<1>1. phase = "receive" /\ todo' = todo /\ Dies(c) /\ connections[c].stage # "none"
  BY DEF HelloTimeout, Unproven
<1>2. todo \in SUBSET todo
  OBVIOUS
<1>. QED
  BY <1>1, <1>2, DiesKeeps

\* A connection that the server has closed, or not accepted, has nothing to send.
LEMMA HasEnd ==
    ASSUME LobbyInv, NEW c \in Connections
    PROVE  /\ connections[c].stage = "none" => connections[c] = NoConnection
           /\ connections[c].stage # "none" => link[c] \in {"open", "client closed"}
           /\ connections[c].output # <<>> => connections[c].stage # "none"
<1>1. SoundNow(c)
  BY ClientFacts
<1>2. Tabled(link[c], connections[c])
  BY <1>1 DEF SoundNow, Sound
<1>3. NoConnection.output = <<>>
  BY DEF NoConnection
<1>. QED
  BY <1>2, <1>3 DEF Tabled

\* The connection x of c when the sockets in taken have taken its output.
Taken(x, c, taken, failed, empty) ==
    [x EXCEPT !.output = IF c \in taken THEN <<>> ELSE @,
              !.dead = @ \/ c \in failed \/ (c \in empty /\ x.closing)]

LEMMA OutputOf ==
    ASSUME NEW x \in ConnectionTypes, NEW c, NEW taken, NEW failed, NEW empty, NEW y,
           y = Taken(x, c, taken, failed, empty)
    PROVE  /\ y \in ConnectionTypes /\ y.stage = x.stage /\ y.lobby = x.lobby
           /\ y.closing = x.closing /\ (x.dead => y.dead)
           /\ y.output = (IF c \in taken THEN <<>> ELSE x.output)
           /\ (c \notin taken /\ c \notin failed /\ ~(c \in empty /\ x.closing) => y = x)
<1>1. x.output \in Seq(Messages) /\ x.dead \in BOOLEAN /\ x.closing \in BOOLEAN
  BY ConnectionFields
<1>2. PICK o : o = IF c \in taken THEN <<>> ELSE x.output
  OBVIOUS
<1>5. o \in Seq(Messages)
  BY <1>1, <1>2
<1>3. CASE c \in failed \/ (c \in empty /\ x.closing)
  <2>1. (x.dead \/ c \in failed \/ (c \in empty /\ x.closing)) = TRUE
    BY <1>3
  <2>2. y = [x EXCEPT !.output = o, !.dead = TRUE]
    BY <1>2, <2>1 DEF Taken
  <2>. QED
    BY <1>2, <1>3, <1>5, <2>2 DEF ConnectionTypes
<1>4. CASE ~(c \in failed \/ (c \in empty /\ x.closing))
  <2>1. (x.dead \/ c \in failed \/ (c \in empty /\ x.closing)) = x.dead
    BY <1>1, <1>4
  <2>2. y = [x EXCEPT !.output = o]
    <3>1. y = [x EXCEPT !.output = o, !.dead = x.dead]
      BY <1>2, <2>1 DEF Taken
    <3>. QED
      BY <1>1, <3>1 DEF ConnectionTypes
  <2>3. c \notin taken => y = x
    BY <1>2, <2>2 DEF ConnectionTypes
  <2>. QED
    BY <1>1, <1>2, <1>5, <2>2, <2>3 DEF ConnectionTypes
<1>. QED
  BY <1>3, <1>4

LEMMA FlushesKeep ==
    ASSUME LobbyInv, Flushes, UNCHANGED clientVars
    PROVE  LobbyInv'
<1>1. PICK s \in ServerTypes, r \in ReaderTypes : s = Server /\ r = Reader
  BY ServerNow
<1>2. /\ ServerInv(s, r, toServer, todo, todo) /\ Turns /\ ClientsTyped
      /\ connections \in [Connections -> ConnectionTypes]
  BY <1>1, ServerNow
<1>3. PICK pending, late, failed :
         /\ pending = {c \in Connections : Pending(c)}
         /\ failed \subseteq {c \in pending \ late : link[c] # "open"}
         /\ Flush((pending \ late) \ failed, failed)
  BY DEF Flushes
<1>4. PICK taken : taken = (pending \ late) \ failed
  OBVIOUS
<1>5. Flush(taken, failed)
  BY <1>3, <1>4
<1>6. PICK empty, reached :
         /\ empty = taken \cup {c \in Connections : connections[c].output = <<>>}
         /\ reached = {c \in taken : link[c] = "open"}
  OBVIOUS
<1>7. /\ todo = {} /\ phase' = "close"
      /\ UNCHANGED <<link, toServer, said, quits, lobby, lastLobby, outgoing, heard>>
  BY <1>5 DEF Flush
<1>8. connections' = [c \in Connections |->
         [connections[c] EXCEPT
            !.output = IF c \in taken THEN <<>> ELSE @,
            !.dead = @ \/ c \in failed \/ (c \in empty /\ connections[c].closing)]]
  BY <1>5, <1>6 DEF Flush
<1>28. todo' = {c \in Connections : connections'[c].dead}
  BY <1>5, <1>6, <1>8 DEF Flush
<1>9. toClient' = [c \in Connections |->
         IF c \in reached THEN toClient[c] \o connections[c].output ELSE toClient[c]]
  BY <1>5, <1>6 DEF Flush
<1>10. \A c \in taken \cup failed : c \in Connections /\ connections[c].output # <<>>
  BY <1>3, <1>4 DEF Pending
<1>11. \A c \in Connections :
         /\ connections'[c] \in ConnectionTypes
         /\ connections'[c].stage = connections[c].stage /\ connections'[c].lobby = connections[c].lobby
         /\ connections'[c].closing = connections[c].closing
         /\ (connections[c].dead => connections'[c].dead)
         /\ connections'[c].output = (IF c \in taken THEN <<>> ELSE connections[c].output)
         /\ (c \notin taken /\ c \notin failed /\ ~(c \in empty /\ connections[c].closing)
               => connections'[c] = connections[c])
  <2>1. SUFFICES ASSUME NEW c \in Connections
                 PROVE  /\ connections'[c] \in ConnectionTypes
                        /\ connections'[c].stage = connections[c].stage
                        /\ connections'[c].lobby = connections[c].lobby
                        /\ connections'[c].closing = connections[c].closing
                        /\ (connections[c].dead => connections'[c].dead)
                        /\ connections'[c].output = (IF c \in taken THEN <<>> ELSE connections[c].output)
                        /\ (c \notin taken /\ c \notin failed /\ ~(c \in empty /\ connections[c].closing)
                              => connections'[c] = connections[c])
    OBVIOUS
  <2>2. PICK x \in ConnectionTypes : x = connections[c]
    BY <1>2
  <2>3. PICK y : y = connections'[c]
    OBVIOUS
  <2>4. y = Taken(x, c, taken, failed, empty)
    BY <1>8, <2>2, <2>3 DEF Taken
  <2>5. /\ y \in ConnectionTypes /\ y.stage = x.stage /\ y.lobby = x.lobby
        /\ y.closing = x.closing /\ (x.dead => y.dead)
        /\ y.output = (IF c \in taken THEN <<>> ELSE x.output)
        /\ (c \notin taken /\ c \notin failed /\ ~(c \in empty /\ x.closing) => y = x)
    BY <2>4, OutputOf
  <2>. QED
    BY <2>2, <2>3, <2>5
<1>12. PICK t : t = [connections |-> connections', lobby |-> lobby, lastLobby |-> lastLobby, heard |-> heard]
  OBVIOUS
<1>13. /\ t.connections = connections' /\ t.lobby = s.lobby /\ t.lastLobby = s.lastLobby
       /\ t.heard = s.heard
  BY <1>1, <1>12, ServerIs
<1>14. connections' \in [Connections -> ConnectionTypes]
  <2>1. connections' = [c \in Connections |-> connections'[c]]
    BY <1>8
  <2>. QED
    BY <1>11, <2>1
<1>15. t \in ServerTypes
  BY <1>1, <1>12, <1>14, ServerFields, ServerIs DEF ServerTypes
<1>16. Quieter(s, t)
  BY <1>1, <1>11, <1>13, ServerIs DEF Quieter
<1>17. PICK r2 : r2 = Reader'
  OBVIOUS
<1>18. /\ r2.link = r.link /\ r2.state = r.state /\ r2.peers = r.peers /\ r2.joined = r.joined
       /\ r2.inbox = toClient'
  BY <1>1, <1>7, <1>17 DEF Reader, clientVars
<1>19. \A c \in Connections : toClient'[c] \in Seq(Messages)
  <2>1. SUFFICES ASSUME NEW c \in Connections PROVE toClient'[c] \in Seq(Messages)
    OBVIOUS
  <2>2. toClient[c] \in Seq(Messages) /\ connections[c].output \in Seq(Messages)
    BY <1>2, ConnectionFields DEF ClientsTyped
  <2>3. toClient[c] \o connections[c].output \in Seq(Messages)
    BY <2>2, ConcatProperties
  <2>. QED
    BY <1>9, <2>2, <2>3
<1>20. toClient' \in [Connections -> Seq(Messages)]
  BY <1>9, <1>19
<1>21. Arrived(r, r2)
  <2>1. r2 \in ReaderTypes
    <3>1. r2 = [link |-> link, state |-> state, peers |-> peers, joined |-> joinedLobby,
                inbox |-> toClient']
      BY <1>7, <1>17 DEF Reader, clientVars
    <3>. QED
      BY <1>2, <1>20, <3>1 DEF ClientsTyped, ReaderTypes
  <2>. QED
    BY <1>18, <2>1 DEF Arrived
<1>22. \A d \in Connections :
          /\ t.connections[d].stage = "none" => t.connections[d] = s.connections[d]
          /\ Flushed(r.link[d], r.inbox[d], s.connections[d].output, r2.inbox[d],
                     t.connections[d].output)
  <2>1. SUFFICES ASSUME NEW d \in Connections
                 PROVE  /\ connections'[d].stage = "none" => connections'[d] = connections[d]
                        /\ Flushed(link[d], toClient[d], connections[d].output, toClient'[d],
                                   connections'[d].output)
    BY <1>1, <1>13, <1>18, ServerIs
  <2>2. /\ connections[d].stage = "none" => connections[d] = NoConnection
        /\ connections[d].stage # "none" => link[d] \in {"open", "client closed"}
        /\ connections[d].output # <<>> => connections[d].stage # "none"
    BY HasEnd
  <2>3. connections'[d].stage = "none" => connections'[d] = connections[d]
    <3>1. ~NoConnection.closing
      BY DEF NoConnection
    <3>2. CASE connections[d].stage # "none"
      BY <1>11, <3>2
    <3>3. CASE connections[d].stage = "none"
      <4>1. ~connections[d].closing /\ d \notin taken /\ d \notin failed
        BY <1>10, <2>2, <3>1, <3>3
      <4>. QED
        BY <1>11, <4>1
    <3>. QED
      BY <3>2, <3>3
  <2>4. toClient[d] \in Seq(Messages) /\ connections[d].output \in Seq(Messages)
    BY <1>2, ConnectionFields DEF ClientsTyped
  <2>5. CASE d \notin taken
    <3>1. toClient'[d] = toClient[d] /\ connections'[d].output = connections[d].output
      BY <1>6, <1>9, <1>11, <2>5
    <3>. QED
      BY <2>3, <3>1 DEF Flushed
  <2>6. CASE d \in taken
    <3>1. connections'[d].output = <<>> /\ link[d] \in {"open", "client closed"}
      BY <1>10, <1>11, <2>2, <2>6
    <3>2. CASE link[d] = "open"
      <4>1. toClient'[d] = toClient[d] \o connections[d].output
        BY <1>6, <1>9, <2>6, <3>2
      <4>2. toClient'[d] \o <<>> = toClient'[d]
        BY <1>19
      <4>. QED
        BY <2>3, <3>1, <3>2, <4>1, <4>2 DEF Flushed
    <3>3. CASE link[d] = "client closed"
      <4>1. toClient'[d] = toClient[d]
        BY <1>6, <1>9, <2>6, <3>3
      <4>. QED
        BY <2>3, <3>1, <3>3, <4>1 DEF Flushed
    <3>. QED
      BY <3>1, <3>2, <3>3
  <2>. QED
    BY <2>5, <2>6
<1>23. ServerInv(s, r, toServer, {}, {})
  BY <1>2, <1>7
<1>24. ServerInv(t, r2, toServer, {}, {})
  <2>1. {} \in SUBSET Connections
    OBVIOUS
  <2>. QED
    BY <1>15, <1>16, <1>21, <1>22, <1>23, <2>1, FlushKeeps
<1>29. PICK todo2 : todo2 = {c \in Connections : t.connections[c].dead}
  OBVIOUS
<1>30. Alone(t.connections, {})
  BY <1>24 DEF ServerInv, Consistent
<1>25. ServerInv(t, Reader', toServer', todo', todo')
  <2>1. \A c, d \in Connections : Replaced(t.connections, c, d) => c \notin todo2
    BY <1>29 DEF Replaced, Silent
  <2>2. ServerInv(t, r2, toServer, todo2, {})
    BY <1>24, <2>1, AllHeard
  <2>3. \A c \in todo2 : t.connections[c].stage # "none"
    <3>1. SUFFICES ASSUME NEW c \in Connections, t.connections[c].dead
                   PROVE  t.connections[c].stage # "none"
      BY <1>29
    <3>2. PICK y : y = t.connections[c]
      OBVIOUS
    <3>3. Tabled(r2.link[c], y)
      BY <1>24, <3>2 DEF ServerInv, Consistent, AllSound, Sound
    <3>4. ~NoConnection.dead
      BY DEF NoConnection
    <3>. QED
      BY <3>1, <3>2, <3>3, <3>4 DEF Tabled
  <2>4. todo2 \in SUBSET todo2
    OBVIOUS
  <2>5. ServerInv(t, r2, toServer, todo2, todo2)
    BY <2>2, <2>3, <2>4, Retabled
  <2>6. todo' = todo2
    BY <1>13, <1>28, <1>29
  <2>. QED
    BY <1>7, <1>17, <2>5, <2>6
<1>26. Become(t)
  BY <1>1, <1>7, <1>13, ServerIs DEF Become
<1>27. Turns'
  <2>1. \A c, d \in Connections : Replaced(connections', c, d) => d \in todo'
    BY <1>13, <1>28, <1>30, ReplacedIsDead
  <2>2. todo' \subseteq Connections
    BY <1>28
  <2>. QED
    BY <1>2, <1>7, <2>1, <2>2 DEF Turns
<1>. QED
  BY <1>15, <1>25, <1>26, <1>27, ServerStepKeeps

LEMMA CloseConnectionKeeps ==
    ASSUME LobbyInv, NEW c \in Connections, CloseConnection(c), UNCHANGED clientVars
    PROVE  LobbyInv'
<1>1. PICK s \in ServerTypes, r \in ReaderTypes : s = Server /\ r = Reader
  BY ServerNow
<1>2. /\ ServerInv(s, r, toServer, todo, todo) /\ Turns /\ ClientsTyped
  BY <1>1, ServerNow
<1>3. PICK t : t = Removed(s, c)
  OBVIOUS
<1>4. /\ phase = "close" /\ connections[c].dead /\ Become(t)
      /\ link' = [link EXCEPT ![c] = "server closed"]
      /\ toServer' = [toServer EXCEPT ![c] = <<>>] /\ todo' = todo \ {c}
      /\ UNCHANGED <<phase, outgoing, toClient, said, quits>>
  BY <1>1, <1>3 DEF CloseConnection
<1>5. /\ todo \in SUBSET Connections
      /\ \A d, e \in Connections : Replaced(connections, d, e) => e \in todo
  BY <1>2, <1>4 DEF Turns
<1>6. PICK r2 : r2 = Reader'
  OBVIOUS
<1>7. r2 = [link |-> link', state |-> state, peers |-> peers, joined |-> joinedLobby, inbox |-> toClient]
  BY <1>4, <1>6 DEF Reader, clientVars
<1>8. r2 \in ReaderTypes
  <2>1. link' \in [Connections -> Links]
    BY <1>2, <1>4 DEF ClientsTyped, Links
  <2>. QED
    BY <1>2, <1>7, <2>1 DEF ClientsTyped, ReaderTypes
<1>9. ClosedFor(r, r2, c)
  BY <1>1, <1>4, <1>7, <1>8, ServerIs DEF ClosedFor
<1>10. \A d \in todo : s.connections[d].stage # "none"
  BY <1>2 DEF ServerInv, Consistent
<1>11. s.connections[c].dead
  BY <1>1, <1>4, ServerIs
<1>12. /\ ServerInv(t, r2, [toServer EXCEPT ![c] = <<>>], todo, {})
       /\ t.lastLobby = s.lastLobby /\ t.connections[c] = NoConnection
       /\ \A d \in Connections : d # c =>
             /\ t.connections[d].stage = s.connections[d].stage
             /\ t.connections[d].lobby \in {0, s.connections[d].lobby}
             /\ s.connections[d].closing => t.connections[d].closing
             /\ s.connections[d].dead => t.connections[d].dead
  BY <1>2, <1>3, <1>5, <1>9, <1>11, CloseKeeps
<1>13. ServerInv(t, Reader', toServer', todo', todo')
  <2>1. PICK todo2 : todo2 = todo \ {c}
    OBVIOUS
  <2>2. todo2 \in SUBSET todo /\ \A d \in todo2 : t.connections[d].stage # "none"
    BY <1>5, <1>10, <1>12, <2>1
  <2>3. ServerInv(t, r2, [toServer EXCEPT ![c] = <<>>], todo2, todo2)
    BY <1>12, <2>2, Retabled
  <2>. QED
    BY <1>4, <1>6, <2>1, <2>3
<1>14. t \in ServerTypes
  BY <1>12 DEF ServerInv, Consistent
<1>15. Turns'
  <2>1. lastLobby' = lastLobby
    BY <1>1, <1>4, <1>12, ServerIs DEF Become
  <2>2. \A d, e \in Connections : Replaced(connections', d, e) => e \in todo'
    <3>1. SUFFICES ASSUME NEW d \in Connections, NEW e \in Connections,
                          Replaced(t.connections, d, e)
                   PROVE  e \in todo \ {c}
      BY <1>4 DEF Become
    <3>2. d # c /\ e # c
      BY <1>12, <3>1 DEF Replaced, NoConnection
    <3>3. Replaced(s.connections, d, e)
      BY <1>12, <3>1, <3>2, ReplacedBefore
    <3>. QED
      BY <1>1, <1>5, <3>2, <3>3, ServerIs
  <2>. QED
    BY <1>2, <1>4, <1>5, <2>1, <2>2 DEF Turns
<1>. QED
  BY <1>4, <1>13, <1>14, <1>15, ServerStepKeeps

LEMMA AcceptConnectionsKeep ==
    ASSUME LobbyInv, AcceptConnections, UNCHANGED clientVars
    PROVE  LobbyInv'
<1>1. PICK s \in ServerTypes, r \in ReaderTypes : s = Server /\ r = Reader
  BY ServerNow
<1>2. /\ ServerInv(s, r, toServer, todo, todo) /\ Turns
      /\ connections \in [Connections -> ConnectionTypes]
  BY <1>1, ServerNow
<1>3. PICK waiting \in SUBSET Connections : waiting = {c \in Connections : Waiting(c)}
  OBVIOUS
<1>4. PICK new : new = [NoConnection EXCEPT !.stage = "hello"]
  OBVIOUS
<1>5. new \in ConnectionTypes /\ ~new.dead
  <2>1. new = [stage |-> "hello", lobby |-> 0, closing |-> FALSE, dead |-> FALSE, output |-> <<>>]
    BY <1>4 DEF NoConnection
  <2>2. <<>> \in Seq(Messages)
    OBVIOUS
  <2>. QED
    BY <2>1, <2>2 DEF ConnectionTypes
<1>6. /\ phase = "close" /\ phase' = "poll" /\ todo = {}
      /\ connections' = [c \in Connections |-> IF c \in waiting THEN new ELSE connections[c]]
      /\ UNCHANGED <<wire, todo, lobby, lastLobby, outgoing, heard>>
  BY <1>3, <1>4 DEF AcceptConnections
<1>7. \A c, d \in Connections : ~Replaced(connections, c, d)
  BY <1>2, <1>6 DEF Turns
<1>8. PICK t : t = [connections |-> connections', lobby |-> lobby, lastLobby |-> lastLobby, heard |-> heard]
  OBVIOUS
<1>9. /\ t.connections = connections' /\ t.lobby = s.lobby /\ t.lastLobby = s.lastLobby
      /\ t.heard = s.heard
  BY <1>1, <1>8, ServerIs
<1>10. connections' \in [Connections -> ConnectionTypes]
  BY <1>2, <1>5, <1>6
<1>11. t \in ServerTypes
  BY <1>1, <1>8, <1>10, ServerFields, ServerIs DEF ServerTypes
<1>12. AcceptedAll(s, t, waiting)
  <2>1. \A d \in Connections :
           t.connections[d] = IF d \in waiting THEN [NoConnection EXCEPT !.stage = "hello"]
                              ELSE s.connections[d]
    BY <1>1, <1>4, <1>6, <1>9, ServerIs
  <2>. QED
    BY <1>9, <2>1 DEF AcceptedAll
<1>13. \A d \in waiting : r.link[d] \in {"open", "client closed"} /\ s.connections[d].stage = "none"
  BY <1>1, <1>3, ServerIs DEF Waiting
<1>14. ServerInv(s, r, toServer, {}, {})
  BY <1>2, <1>6
<1>15. ServerInv(t, r, toServer, {}, {})
  BY <1>11, <1>12, <1>13, <1>14, AcceptKeeps
<1>16. Reader' = r /\ toServer' = toServer
  BY <1>1, <1>6 DEF Reader, clientVars, wire
<1>17. ServerInv(t, Reader', toServer', todo', todo')
  BY <1>6, <1>15, <1>16
<1>18. Become(t)
  BY <1>1, <1>6, <1>9, ServerIs DEF Become
<1>19. Turns'
  <2>1. SUFFICES ASSUME NEW c \in Connections, NEW d \in Connections, Replaced(connections', c, d)
                 PROVE  FALSE
    BY <1>2, <1>6 DEF Turns
  <2>2. new.stage = "hello" /\ new.lobby = 0
    BY <1>4 DEF NoConnection
  <2>3. connections'[c] = connections[c] /\ connections'[d] = connections[d]
    BY <1>6, <2>1, <2>2 DEF Replaced
  <2>4. Replaced(connections, c, d)
    BY <2>1, <2>3 DEF Replaced
  <2>. QED
    BY <1>7, <2>4
<1>. QED
  BY <1>11, <1>17, <1>18, <1>19, ServerStepKeeps

LEMMA StepKeeps ==
    ASSUME LobbyInv, Next
    PROVE  LobbyInv'
<1>1. ASSUME NEW c \in Connections, ServerStep(c) PROVE LobbyInv'
  BY <1>1, ReceiveKeeps, NoticeKeeps, HelloTimeoutKeeps, CloseConnectionKeeps DEF ServerStep
<1>. QED
  BY <1>1, HostSendKeeps, PollKeeps, FlushesKeep, AcceptConnectionsKeep, ClientStepsKeep DEF Next

-----------------------------------------------------------------------------
(* The invariant holds at first, and what it says                            *)

LEMMA SoundAtFirst ==
    ASSUME NEW id, NEW lobbyId, NEW others
    PROVE  Sound(id, "none", "off", <<>>, 0, <<>>, <<>>, NoConnection, lobbyId, others, 0)
<1>1. NoConnection.stage = "none" /\ NoConnection.output = <<>>
  BY DEF NoConnection
<1>2. Len(<<>>) = 0 /\ <<>> \o <<>> = <<>> /\ 0 + 0 <= 1 /\ 0 <= 0 /\ \A i \in 1..0 : FALSE
  OBVIOUS
<1>3. ~Runs("off")
  BY DEF Runs, Waits
<1>4. Ends("none", "off", 0, <<>>, <<>>)
  BY <1>2, <1>3 DEF Ends
<1>5. Tabled("none", NoConnection)
  BY <1>1 DEF Tabled
<1>6. Speaks("none", "off", <<>>, 0, <<>>, NoConnection, <<>>, lobbyId, others)
  BY <1>2 DEF Speaks
<1>7. Flow(id, "none", "off", <<>>, 0, <<>>, NoConnection, <<>>, lobbyId, others, 0)
  BY <1>2, <1>3, <1>6 DEF Flow
<1>. QED
  BY <1>1, <1>2, <1>4, <1>5, <1>7 DEF Sound

LEMMA InitHolds == Init => LobbyInv
<1>. SUFFICES ASSUME Init PROVE LobbyInv
  OBVIOUS
<1>1. /\ link = [c \in Connections |-> "none"] /\ toServer = [c \in Connections |-> <<>>]
      /\ toClient = [c \in Connections |-> <<>>]
      /\ state = [c \in Connections |-> "off"] /\ attempt = [c \in Connections |-> 0]
      /\ peers = [c \in Connections |-> <<>>] /\ joinedLobby = [c \in Connections |-> 0]
      /\ ~broken /\ ~dropped
  BY DEF Init, WireInit, ClientInit
<1>2. /\ phase = "poll" /\ todo = {} /\ connections = [c \in Connections |-> NoConnection]
      /\ lobby = NoLobby /\ lastLobby = 0 /\ outgoing = <<>>
      /\ heard = [open |-> {}, members |-> {}, consistent |-> TRUE]
  BY DEF Init, ServerInit
<1>3. /\ NoConnection.stage = "none" /\ NoConnection.lobby = 0 /\ ~NoConnection.dead
      /\ NoLobby.id = 0 /\ NoLobby.members = <<>>
  BY DEF NoConnection, NoLobby
<1>4. <<>> \in Seq(Messages) /\ <<>> \in Seq(Connections) /\ <<>> \in Seq(Identities)
  OBVIOUS
<1>5. ClientsTyped
  BY <1>1, <1>4 DEF ClientsTyped, Links, States
<1>6. PICK s, r, asks : s = Server /\ r = Reader /\ asks = toServer
  OBVIOUS
<1>7. /\ s.connections = connections /\ s.lobby = lobby /\ s.lastLobby = lastLobby /\ s.heard = heard
      /\ r.link = link /\ r.state = state /\ r.peers = peers /\ r.joined = joinedLobby
      /\ r.inbox = toClient
  BY <1>6, ServerIs
<1>8. r \in ReaderTypes /\ asks \in [Connections -> Seq(Messages)]
  BY <1>5, <1>6, ReaderTyped
<1>9. s \in ServerTypes
  <2>1. NoConnection \in ConnectionTypes
    BY <1>4 DEF NoConnection, ConnectionTypes
  <2>2. NoLobby \in [id : Nat, password : Passwords \cup {0}, members : Seq(Connections)]
    BY <1>4 DEF NoLobby
  <2>. QED
    BY <1>2, <1>6, <2>1, <2>2 DEF Server, ServerTypes
<1>10. Range(s.lobby.members) = {} /\ DOMAIN s.lobby.members = {}
  BY <1>2, <1>3, <1>7 DEF Range
<1>11. Tied(s)
  BY <1>2, <1>3, <1>7, <1>10 DEF Tied
<1>12. Heard(s)
  BY <1>2, <1>3, <1>7, <1>10 DEF Heard
<1>13. Alone(s.connections, {})
  BY <1>2, <1>3, <1>7 DEF Alone
<1>14. AllSound(s, r, asks)
  <2>1. SUFFICES ASSUME NEW c \in Connections
                 PROVE  Sound(IdentityOf[c], "none", "off", <<>>, 0, <<>>, <<>>, NoConnection,
                              s.lobby.id, Others(s.lobby.members, c), 0)
    BY <1>1, <1>2, <1>6, <1>7 DEF AllSound
  <2>. QED
    BY SoundAtFirst
<1>15. Erased(s)
  BY <1>2, <1>7 DEF Erased
<1>16. Counted(s, r.link)
  <2>1. PICK us : us = Users(s.connections, r.link)
    OBVIOUS
  <2>2. us \subseteq Connections
    BY <2>1 DEF Users
  <2>3. Cardinality(us) \in Nat
    BY <2>2, WireAssumption, FS_Subset, FS_CardinalityType
  <2>. QED
    BY <1>2, <1>3, <1>7, <2>1, <2>3 DEF Counted
<1>17. ServerInv(s, r, asks, {}, {})
  BY <1>8, <1>9, <1>11, <1>12, <1>13, <1>14, <1>15, <1>16, Zenon DEF ServerInv, Consistent
<1>18. Turns
  BY <1>2, <1>3 DEF Turns, Replaced
<1>19. Tries
  BY <1>1, ClientAssumption DEF Tries
<1>. QED
  BY <1>1, <1>2, <1>6, <1>17, <1>18, <1>19 DEF LobbyInv

\* What the invariant says of the lobby.
LEMMA LobbyFacts ==
    ASSUME LobbyInv
    PROVE  /\ Tied(Server) /\ Heard(Server) /\ Erased(Server) /\ Counted(Server, link)
           /\ Alone(connections, todo)
           /\ lobby.id \in Nat /\ lobby.members \in Seq(Connections) /\ lastLobby \in Nat
<1>1. PICK s, r : s = Server /\ r = Reader
  OBVIOUS
<1>2. ServerInv(s, r, toServer, todo, todo)
  BY <1>1 DEF LobbyInv
<1>3. /\ Tied(s) /\ Heard(s) /\ Erased(s) /\ Counted(s, r.link) /\ Alone(s.connections, todo)
      /\ s \in ServerTypes
  BY <1>2 DEF ServerInv, Consistent
<1>. QED
  BY <1>1, <1>3, ServerFields, ServerIs

LEMMA TypesHold == LobbyInv => TypeOK
<1>. SUFFICES ASSUME LobbyInv PROVE TypeOK
  OBVIOUS
<1>1. /\ Tied(Server) /\ Counted(Server, link) /\ lobby.id \in Nat /\ lobby.members \in Seq(Connections)
      /\ lastLobby \in Nat
  BY LobbyFacts
<1>2. ClientsTyped /\ Turns /\ connections \in [Connections -> ConnectionTypes]
  BY ServerNow
<1>3. lobby.id \in 0..lastLobby
  BY <1>1, ServerIs DEF Counted
<1>4. lastLobby \in 0..Cardinality(Connections)
  <2>1. PICK us : us = Users(connections, link)
    OBVIOUS
  <2>2. us \subseteq Connections
    BY <2>1 DEF Users
  <2>3. /\ Cardinality(us) \in Nat /\ Cardinality(Connections) \in Nat
        /\ Cardinality(us) <= Cardinality(Connections)
    BY <2>2, WireAssumption, FS_Subset, FS_CardinalityType
  <2>4. lastLobby <= Cardinality(us)
    BY <1>1, <2>1, ServerIs DEF Counted
  <2>. QED
    BY <1>1, <2>3, <2>4
<1>5. \A c \in Connections :
        /\ connections[c].stage \in {"none", "hello", "identity", "ready"}
        /\ connections[c].closing \in BOOLEAN /\ connections[c].dead \in BOOLEAN
        /\ connections[c].lobby \in 0 .. lastLobby
  <2>1. SUFFICES ASSUME NEW c \in Connections
                 PROVE  /\ connections[c].stage \in {"none", "hello", "identity", "ready"}
                        /\ connections[c].closing \in BOOLEAN /\ connections[c].dead \in BOOLEAN
                        /\ connections[c].lobby \in 0 .. lastLobby
    OBVIOUS
  <2>2. connections[c] \in ConnectionTypes
    BY <1>2
  <2>3. connections[c].lobby # 0 => connections[c].lobby = lobby.id
    BY <1>1, ServerIs DEF Tied
  <2>4. connections[c].lobby \in 0 .. lastLobby
    BY <1>1, <1>3, <2>3
  <2>. QED
    BY <2>2, <2>4, ConnectionFields
<1>6. \A c \in Connections : \A m \in Range(toServer[c]) \cup Range(toClient[c])
            \cup Range(connections[c].output) : m \in Messages
  <2>1. SUFFICES ASSUME NEW c \in Connections
                 PROVE  \A m \in Range(toServer[c]) \cup Range(toClient[c])
                           \cup Range(connections[c].output) : m \in Messages
    OBVIOUS
  <2>2. /\ toServer[c] \in Seq(Messages) /\ toClient[c] \in Seq(Messages)
        /\ connections[c].output \in Seq(Messages)
    BY <1>2, ConnectionFields DEF ClientsTyped
  <2>3. \A q \in Seq(Messages) : \A m \in Range(q) : m \in Messages
    BY DEF Range
  <2>. QED
    BY <2>2, <2>3
<1>7. joinedLobby \in [Connections -> 0 .. lastLobby]
  <2>1. \A c \in Connections : joinedLobby[c] \in 0..lastLobby
    <3>1. SUFFICES ASSUME NEW c \in Connections PROVE joinedLobby[c] \in 0..lastLobby
      OBVIOUS
    <3>2. joinedLobby[c] <= lastLobby /\ joinedLobby[c] \in Nat
      BY ClientFacts DEF SoundNow, Sound, Flow
    <3>. QED
      BY <1>1, <3>2
  <2>. QED
    BY <1>2, <2>1 DEF ClientsTyped
<1>8. /\ link \in [Connections -> {"none", "open", "client closed", "server closed"}]
      /\ state \in [Connections -> {"off", "joined", "ended"} \cup Waits]
      /\ peers \in [Connections -> Seq(Identities)]
  BY <1>2 DEF ClientsTyped, Links, States
<1>9. /\ phase \in {"poll", "receive", "close"} /\ todo \subseteq Connections
      /\ outgoing \in Seq(1 .. lastLobby) /\ attempt \in [Connections -> 0 .. Attempts]
  BY <1>2 DEF Turns, LobbyInv, Tries
<1>. QED
  BY <1>1, <1>3, <1>4, <1>5, <1>6, <1>7, <1>8, <1>9 DEF TypeOK

LEMMA MembersHold == LobbyInv => MembersSound
<1>. SUFFICES ASSUME LobbyInv PROVE MembersSound
  OBVIOUS
<1>1. Tied(Server) /\ Alone(connections, todo) /\ lobby.members \in Seq(Connections)
  BY LobbyFacts
<1>2. TypeOK
  BY TypesHold
<1>3. /\ \A i, j \in DOMAIN lobby.members :
            IdentityOf[lobby.members[i]] = IdentityOf[lobby.members[j]] => i = j
      /\ \A c \in Connections : connections[c].lobby # 0 <=> c \in Range(lobby.members)
      /\ \A c \in Connections : connections[c].lobby # 0 =>
            connections[c].lobby = lobby.id /\ connections[c].stage = "ready"
  BY <1>1, ServerIs DEF Tied
<1>4. IsInjective(Roster(lobby.members))
  BY <1>3 DEF IsInjective, Roster
<1>5. Range(lobby.members) \subseteq Connections
  BY <1>1 DEF Range
<1>6. \A c, d \in Connections :
        c # d /\ IdentityOf[c] = IdentityOf[d]
            /\ connections[c].stage = "ready" /\ connections[d].stage = "ready" =>
            Silent(connections[c]) \/ Silent(connections[d])
  BY <1>1 DEF Alone
<1>7. \A c \in Range(lobby.members) :
        connections[c].lobby = lobby.id /\ connections[c].stage = "ready"
  BY <1>3, <1>5
<1>. QED
  BY <1>2, <1>3, <1>4, <1>6, <1>7 DEF MembersSound

LEMMA RosterHolds == LobbyInv => RosterAgrees
<1>. SUFFICES ASSUME LobbyInv PROVE RosterAgrees
  OBVIOUS
<1>1. Tied(Server) /\ lobby.members \in Seq(Connections)
  BY LobbyFacts
<1>2. SUFFICES ASSUME NEW c \in Range(lobby.members), ~Silent(connections[c]), link[c] = "open"
               PROVE  /\ IsInjective(View(c))
                      /\ Range(View(c)) = {IdentityOf[d] : d \in Range(lobby.members) \ {c}}
  BY DEF RosterAgrees
<1>3. c \in Connections
  BY <1>1 DEF Range
<1>4. connections[c].lobby # 0
  BY <1>1, <1>3, ServerIs DEF Tied
<1>5. PICK w : w = Coming(c)
  OBVIOUS
<1>6. Flow(IdentityOf[c], link[c], state[c], peers[c], joinedLobby[c], toServer[c], connections[c],
           w, lobby.id, Others(lobby.members, c), lastLobby)
  <2>1. SoundNow(c)
    BY <1>3, ClientFacts
  <2>. QED
    BY <1>5, <2>1 DEF SoundNow, Sound, Coming
<1>7. Informed(peers[c], joinedLobby[c], w, lobby.id, Others(lobby.members, c))
  BY <1>2, <1>4, <1>6 DEF Flow, Speaks
<1>8. View(c) = Rosters(peers[c], w)[Len(w)]
  BY <1>5 DEF View
<1>. QED
  BY <1>7, <1>8 DEF Informed, Others

LEMMA NewsHold == LobbyInv => NewsSound
<1>. SUFFICES ASSUME LobbyInv PROVE NewsSound
  OBVIOUS
<1>1. /\ Tied(Server) /\ Heard(Server) /\ Erased(Server) /\ lobby.members \in Seq(Connections)
  BY LobbyFacts
<1>2. HostHearsMembership
  <2>1. lobby.members = <<>> => lobby.id = 0
    BY <1>1, ServerIs DEF Erased, NoLobby
  <2>2. lobby.members # <<>> => lobby.id # 0
    <3>1. SUFFICES ASSUME lobby.members # <<>> PROVE lobby.id # 0
      OBVIOUS
    <3>2. 1 \in DOMAIN lobby.members /\ lobby.members[1] \in Connections
      BY <1>1, <3>1
    <3>3. PICK c \in Connections : c \in Range(lobby.members)
      BY <3>2 DEF Range
    <3>4. connections[c].lobby # 0 /\ connections[c].lobby = lobby.id
      BY <1>1, <3>3, ServerIs DEF Tied
    <3>. QED
      BY <3>4
  <2>3. /\ heard.consistent
        /\ heard.open = (IF lobby.id = 0 THEN {} ELSE {lobby.id})
        /\ heard.members = {<<lobby.id, IdentityOf[c]>> : c \in Range(lobby.members)}
    BY <1>1, ServerIs DEF Heard
  <2>. QED
    BY <2>1, <2>2, <2>3 DEF HostHearsMembership
<1>3. NothingRejected
  BY DEF NothingRejected, LobbyInv
<1>4. HostMessagesStay
  <2>1. SUFFICES ASSUME NEW c \in Connections, link[c] = "open", NEW m \in Range(Coming(c)),
                        m.kind = "server message"
                 PROVE  m.what \in {joinedLobby[c]}
                           \cup {n.lobby : n \in {n \in Range(Coming(c)) : n.kind = "joined"}}
    BY DEF HostMessagesStay
  <2>2. PICK w : w = Coming(c)
    OBVIOUS
  <2>3. SoundNow(c) /\ state[c] \in States /\ toClient[c] \in Seq(Messages)
        /\ connections[c] \in ConnectionTypes
    BY ClientFacts
  <2>4. w \in Seq(Messages)
    <3>1. connections[c].output \in Seq(Messages)
      BY <2>3, ConnectionFields
    <3>. QED
      BY <2>2, <2>3, <3>1, ConcatProperties DEF Coming
  <2>5. Runs(state[c])
    <3>1. Ends(link[c], state[c], joinedLobby[c], toClient[c], toServer[c])
      BY <2>3 DEF SoundNow, Sound
    <3>. QED
      BY <2>1, <2>3, <3>1 DEF Ends, Runs, States
  <2>6. Orderly(IdentityOf[c], state[c], peers[c], joinedLobby[c], w)
    BY <2>2, <2>3, <2>5 DEF SoundNow, Sound, Flow, Coming
  <2>7. PICK i \in 1..Len(w) : m = w[i]
    <3>1. DOMAIN w = 1..Len(w)
      BY <2>4
    <3>2. m \in {w[i] : i \in DOMAIN w}
      BY <2>1, <2>2 DEF Range
    <3>. QED
      BY <3>1, <3>2, Zenon
  <2>8. Concerns(m, Entered(joinedLobby[c], w))
    BY <2>6, <2>7 DEF Orderly
  <2>9. m.what \in Entered(joinedLobby[c], w)
    BY <2>1, <2>8 DEF Concerns
  <2>. QED
    BY <2>2, <2>4, <2>9 DEF Entered, Range
<1>. QED
  BY <1>2, <1>3, <1>4 DEF NewsSound

LEMMA Invariance == Spec => []LobbyInv
<1>1. ASSUME LobbyInv, [Next]_vars PROVE LobbyInv'
  <2>1. CASE Next
    BY <1>1, <2>1, StepKeeps
  <2>2. CASE UNCHANGED vars
    BY <1>1, <2>2 DEF vars, wire, serverVars, clientVars, LobbyInv, Server, Reader, Turns, Tries
  <2>. QED
    BY <1>1, <2>1, <2>2
<1>. QED
  BY <1>1, InitHolds, PTL DEF Spec

-----------------------------------------------------------------------------
(* The theorems                                                              *)

\* A lobby and its members' connections point at each other and an identity is a member once and
\* speaks through one connection, in whatever order clients connect again, evict each other, are
\* refused, fall silent and are closed within a turn of the server's loop.
THEOREM MembersAreSound == Spec => []MembersSound
BY Invariance, MembersHold, PTL

\* The list of members, the joins and the leaves under way to a member add up to exactly the other
\* members of its lobby, for every number of clients and every limit on pending output: what
\* Connection::Send, Enter_Lobby and Leave_Lobby queue is enough for a client to keep its peers.
THEOREM RostersAgree == Spec => []RosterAgrees
BY Invariance, RosterHolds, PTL

\* The host's events tell one story of openings, memberships and closings; no client fails on a
\* message out of place or drops a relayed one whose sender it does not know; and no host message
\* reaches the members of a later lobby of the same name.
THEOREM NewsIsSound == Spec => []NewsSound
BY Invariance, NewsHold, PTL

==============================================================================

--------------------------- MODULE Network_proofs ---------------------------
(***************************************************************************)
(* Network, for every number of clients and messages: its type, that no    *)
(* client is dropped while both ends are open, and that it implements      *)
(* Session.                                                                *)
(***************************************************************************)
EXTENDS Network, SequenceLemmas, TLAPS

\* A connection waits to be accepted once, and only before it is.
BacklogInv ==
  /\ IsInjective(backlog)
  /\ \A c \in Clients : c \in Range(backlog) => peer[c] # "away" /\ resource[c] = "none"
  /\ \A c \in Clients : peer[c] = "away" => resource[c] = "none"
  /\ pc = "serve" /\ Server \in re => backlog # <<>>

\* A client is in the list once, with a socket that was opened.
ListInv ==
  /\ IsInjective(clients)
  /\ \A c \in Clients : c \in Range(clients) => resource[c] # "none"

\* What is true of a client while its handlers run.
HandlerInv ==
  handler # Nobody =>
    /\ handler.sig = "connect" =>
         resource[handler.client] # "none" /\ handler.client \notin Range(clients)
    /\ handler.sig = "disconnect" =>
         resource[handler.client] # "none"
    /\ handler.sig = "disconnect" =>
         peer[handler.client] # "open" \/ resource[handler.client] = "closed"

\* No read has been counted.
NoAttempt == \A c \in Clients : attempted[c] = 0

NetworkInv == TypeOK /\ BacklogInv /\ ListInv /\ HandlerInv /\ NoAttempt

LEMMA InitInv == Init => NetworkInv
<1> SUFFICES ASSUME Init PROVE NetworkInv
  OBVIOUS
<1> USE DEF Init
<1>1. <<>> \in Seq(Clients) /\ <<>> \in Seq(Nat)
  OBVIOUS
<1>2. TypeOK
  BY <1>1 DEF TypeOK
<1>3. Range(backlog) = {} /\ Range(clients) = {}
  BY DEF Range
<1>4. BacklogInv
  BY <1>3 DEF BacklogInv, IsInjective
<1>5. ListInv /\ HandlerInv /\ NoAttempt
  BY <1>3 DEF ListInv, HandlerInv, NoAttempt, IsInjective
<1> QED BY <1>2, <1>4, <1>5 DEF NetworkInv

LEMMA SignalsFields ==
  ASSUME NEW h \in Signals
  PROVE  /\ h # Nobody /\ h.client \in Clients
         /\ h.sig \in {"connect", "read", "disconnect"}
BY NetworkType DEF Signals

LEMMA Emitted ==
  ASSUME NEW sig \in {"connect", "read", "disconnect"}, NEW c \in Clients,
         Emits(sig, c)
  PROVE  /\ handler' \in Signals /\ handler' # Nobody
         /\ handler'.sig = sig /\ handler'.client = c
BY NetworkType DEF Emits, Signals

LEMMA FirstListed ==
  ASSUME NEW c, NEW X, First(c, X)
  PROVE  c \in Range(clients) /\ c \in X
BY DEF First, Range

----------------------------------------------------------------------------
(* The peers.                                                              *)

LEMMA ArriveInv ==
  ASSUME NetworkInv, NEW c \in Clients, Arrive(c)
  PROVE  NetworkInv'
<1> USE DEF NetworkInv, Arrive, connection, turn, closers
<1>1. c \notin Range(backlog) /\ resource[c] = "none"
  BY DEF BacklogInv, TypeOK
<1>2. /\ backlog' \in Seq(Clients) /\ IsInjective(backlog')
      /\ Range(backlog') = Range(backlog) \cup {c}
  BY <1>1, QueueAppend DEF TypeOK, BacklogInv
<1>3. TypeOK'
  BY <1>2 DEF TypeOK
<1>4. BacklogInv'
  <2>1. backlog' # <<>>
    <3>1. backlog \in Seq(Clients) /\ backlog' = Append(backlog, c)
      BY DEF TypeOK
    <3>2. Len(Append(backlog, c)) = Len(backlog) + 1 /\ Len(backlog) \in Nat
      BY <3>1
    <3> QED BY <3>1, <3>2
  <2>2. \A d \in Clients : peer'[d] = IF d = c THEN "open" ELSE peer[d]
    BY DEF TypeOK
  <2>3. resource' = resource
    OBVIOUS
  <2> HIDE DEF Arrive
  <2> QED BY <1>1, <1>2, <2>1, <2>2, <2>3 DEF BacklogInv
<1>5. HandlerInv'
  <2>1. \A d \in Clients : resource[d] # "none" => peer'[d] = peer[d]
    BY <1>1 DEF TypeOK
  <2>2. handler # Nobody /\ handler.sig = "disconnect" =>
          handler.client \in Clients /\ resource[handler.client] # "none"
    BY SignalsFields DEF HandlerInv, TypeOK
  <2> QED BY <2>1, <2>2 DEF HandlerInv
<1>6. ListInv' /\ NoAttempt'
  BY DEF ListInv, NoAttempt
<1> QED BY <1>3, <1>4, <1>5, <1>6

LEMMA SendInv ==
  ASSUME NetworkInv, NEW c \in Clients, Send(c)
  PROVE  NetworkInv'
<1> USE DEF NetworkInv, Send, connection, turn, closers
<1>1. sent'[c] \in Nat /\ sent' \in [Clients -> Nat]
  BY DEF TypeOK
<1>2. inbox' \in [Clients -> Seq(Nat)]
  BY <1>1 DEF TypeOK
<1>3. TypeOK'
  BY <1>1, <1>2 DEF TypeOK
<1>4. BacklogInv' /\ ListInv' /\ HandlerInv' /\ NoAttempt'
  BY DEF BacklogInv, ListInv, HandlerInv, NoAttempt
<1> QED BY <1>3, <1>4

LEMMA BreakInv ==
  ASSUME NetworkInv, NEW c \in Clients, Shut(c) \/ Reset(c)
  PROVE  NetworkInv'
<1> USE DEF NetworkInv, Shut, Reset, connection, turn, closers
<1>1. <<>> \in Seq(Nat)
  OBVIOUS
<1>2. TypeOK'
  BY <1>1 DEF TypeOK
<1>3. \A d \in Clients : (peer[d] # "away" <=> peer'[d] # "away")
                        /\ (peer[d] # "open" => peer'[d] # "open")
  BY DEF TypeOK
<1>4. BacklogInv'
  BY <1>3 DEF BacklogInv
<1>5. HandlerInv'
  BY <1>3, SignalsFields DEF HandlerInv, TypeOK
<1>6. ListInv' /\ NoAttempt'
  BY DEF ListInv, NoAttempt
<1> QED BY <1>2, <1>4, <1>5, <1>6

----------------------------------------------------------------------------
(* The turn.                                                               *)

LEMMA TurnInv ==
  ASSUME NetworkInv, TurnStart \/ Select \/ TurnEnd \/ AcceptFails
  PROVE  NetworkInv'
<1> USE DEF NetworkInv, peers, connection, closers
<1>1. /\ UNCHANGED <<peer, backlog, sent, inbox, resource, read_buffer, attempted,
                     clients, handler, closing, closes, guarded, got>>
      /\ pc' \in {"loop", "check", "serve", "dead"}
  BY DEF TurnStart, Select, TurnEnd, AcceptFails
<1>2. todo' \subseteq Clients /\ re' \subseteq Clients \cup {Server}
  <2>1. Range(clients) \subseteq Clients
    BY DEF TypeOK, Range
  <2> QED BY <2>1 DEF TurnStart, Select, TurnEnd, AcceptFails, TypeOK
<1>3. TypeOK'
  BY <1>1, <1>2 DEF TypeOK
<1>4. pc' = "serve" /\ Server \in re' => backlog # <<>>
  BY DEF TurnStart, Select, TurnEnd, AcceptFails, Ready
<1>5. BacklogInv' /\ ListInv' /\ HandlerInv' /\ NoAttempt'
  BY <1>1, <1>4 DEF BacklogInv, ListInv, HandlerInv, NoAttempt
<1> QED BY <1>3, <1>5

LEMMA CheckConnectedInv ==
  ASSUME NetworkInv, NEW c \in Clients, CheckConnected(c)
  PROVE  NetworkInv'
<1> USE DEF NetworkInv, peers, closers
<1>1. UNCHANGED <<peer, backlog, sent, resource, clients, pc, handler, closing, closes, guarded, got>>
  BY DEF CheckConnected
<1>2. attempted' = [attempted EXCEPT ![c] = Attempted(c)] /\ Attempted(c) = 0
  BY DEF CheckConnected, Attempted, NoAttempt
<1>3. /\ read_buffer' \in [Clients -> Seq(Nat) \cup {NULL}]
      /\ inbox' \in [Clients -> Seq(Nat)]
  <2>1. inbox[c] \in Seq(Nat) /\ <<>> \in Seq(Nat)
    BY DEF TypeOK
  <2> QED BY <2>1 DEF CheckConnected, TypeOK
<1>4. todo' \subseteq Clients /\ re' \subseteq Clients \cup {Server}
  BY DEF CheckConnected, TypeOK
<1>5. TypeOK' /\ NoAttempt'
  BY <1>1, <1>2, <1>3, <1>4 DEF TypeOK, NoAttempt
<1>6. BacklogInv'
  BY <1>1 DEF BacklogInv, CheckConnected
<1>7. ListInv' /\ HandlerInv'
  BY <1>1 DEF ListInv, HandlerInv
<1> QED BY <1>5, <1>6, <1>7

\* A client that is looked at is in the list, so its socket was opened: when it
\* is not connected one of the ends is closed, since no read was counted.
LEMMA CheckGoneInv ==
  ASSUME NetworkInv, NEW c \in Clients, CheckGone(c)
  PROVE  NetworkInv'
<1> USE DEF NetworkInv, peers, connection, closers
<1>1. UNCHANGED <<peer, backlog, sent, inbox, resource, read_buffer, attempted,
                  clients, pc, re, closing, closes, guarded, got>>
  BY DEF CheckGone
<1>2. handler' \in Signals /\ handler'.sig = "disconnect" /\ handler'.client = c
  BY Emitted DEF CheckGone
<1>3. resource[c] # "none"
  BY FirstListed DEF CheckGone, ListInv
<1>4. peer[c] # "open" \/ resource[c] = "closed"
  <2>1. ~is_connected(c) /\ attempted[c] = 0 /\ Attempts \in Nat \ {0}
    BY NetworkType DEF CheckGone, NoAttempt
  <2>2. resource[c] = "open" => Gone(c)
    BY <2>1 DEF is_connected, ReadFails
  <2> QED BY <1>3, <2>2 DEF Gone, TypeOK
<1>5. HandlerInv'
  BY <1>1, <1>2, <1>3, <1>4 DEF HandlerInv
<1>6. TypeOK'
  BY <1>1, <1>2 DEF CheckGone, TypeOK
<1>7. BacklogInv' /\ ListInv' /\ NoAttempt'
  BY <1>1 DEF BacklogInv, ListInv, NoAttempt
<1> QED BY <1>5, <1>6, <1>7

\* The connection that is accepted was not, until now.
LEMMA ServeConnectFacts ==
  ASSUME NetworkInv, ServeConnect
  PROVE  /\ Head(backlog) \in Clients /\ resource[Head(backlog)] = "none"
         /\ Head(backlog) \notin Range(clients)
         /\ peer[Head(backlog)] # "away"
         /\ backlog' \in Seq(Clients) /\ IsInjective(backlog')
         /\ Range(backlog') \subseteq Range(backlog) \ {Head(backlog)}
<1> USE DEF NetworkInv
<1>1. backlog # <<>> /\ backlog \in Seq(Clients) /\ IsInjective(backlog)
  BY DEF ServeConnect, BacklogInv, TypeOK
<1>2. Head(backlog) \in Clients /\ Tail(backlog) \in Seq(Clients)
  BY <1>1, HeadTailType
<1>3. /\ IsInjective(Tail(backlog)) /\ Range(Tail(backlog)) \subseteq Range(backlog)
      /\ Head(backlog) \in Range(backlog) /\ Head(backlog) \notin Range(Tail(backlog))
  BY <1>1, QueueTail
<1>4. resource[Head(backlog)] = "none" /\ peer[Head(backlog)] # "away"
  BY <1>2, <1>3 DEF BacklogInv
<1>5. Head(backlog) \notin Range(clients)
  BY <1>2, <1>4 DEF ListInv
<1>6. backlog' = Tail(backlog)
  BY DEF ServeConnect
<1> QED BY <1>2, <1>3, <1>4, <1>5, <1>6

LEMMA ServeConnectInv ==
  ASSUME NetworkInv, ServeConnect
  PROVE  NetworkInv'
<1> DEFINE h == Head(backlog)
<1> USE DEF NetworkInv
<1>1. /\ h \in Clients /\ resource[h] = "none" /\ h \notin Range(clients)
      /\ peer[h] # "away"
      /\ backlog' \in Seq(Clients) /\ IsInjective(backlog')
      /\ Range(backlog') \subseteq Range(backlog) \ {h}
  BY ServeConnectFacts
<1>2. /\ UNCHANGED <<peer, inbox, read_buffer, attempted, clients, pc, todo, closing, closes, guarded,
                     sent, got>>
      /\ resource' = [resource EXCEPT ![h] = "open"]
      /\ Emits("connect", h)
      /\ re' = re \ {Server}
  BY DEF ServeConnect, closers
<1> HIDE DEF h
<1>3. handler' \in Signals /\ handler'.sig = "connect" /\ handler'.client = h
  BY <1>1, <1>2, Emitted
<1>4. \A c \in Clients : resource'[c] = IF c = h THEN "open" ELSE resource[c]
  BY <1>1, <1>2 DEF TypeOK
<1>5. TypeOK'
  BY <1>1, <1>2, <1>3 DEF TypeOK
<1>6. BacklogInv'
  BY <1>1, <1>2, <1>4 DEF BacklogInv
<1>7. ListInv'
  BY <1>2, <1>4 DEF ListInv
<1>8. HandlerInv'
  BY <1>1, <1>2, <1>3, <1>4 DEF HandlerInv
<1>9. NoAttempt'
  BY <1>2 DEF NoAttempt
<1> QED BY <1>5, <1>6, <1>7, <1>8, <1>9

LEMMA ServeReadInv ==
  ASSUME NetworkInv, NEW c \in Clients, ServeRead(c)
  PROVE  NetworkInv'
<1> USE DEF NetworkInv, peers, connection, closers
<1>1. UNCHANGED <<peer, backlog, sent, inbox, resource, read_buffer, attempted,
                  clients, pc, todo, closing, closes, guarded, got>>
  BY DEF ServeRead
<1>2. handler' \in Signals /\ handler'.sig = "read"
  BY Emitted DEF ServeRead
<1>3. TypeOK' /\ HandlerInv'
  BY <1>1, <1>2 DEF ServeRead, TypeOK, HandlerInv
<1>4. BacklogInv' /\ ListInv' /\ NoAttempt'
  BY <1>1 DEF ServeRead, BacklogInv, ListInv, NoAttempt
<1> QED BY <1>3, <1>4

\* What a return does to the list, in the terms of Session.
LEMMA ReturnFacts ==
  ASSUME NetworkInv, Return
  PROVE  /\ clients' \in Seq(Clients) /\ IsInjective(clients')
         /\ handler \in Signals
         /\ handler.sig = "connect" => Range(clients') = Range(clients) \cup {handler.client}
         /\ handler.sig = "read" => Range(clients') = Range(clients)
         /\ handler.sig = "disconnect" => Range(clients') = Range(clients) \ {handler.client}
<1> USE DEF NetworkInv
<1>1. /\ handler \in Signals /\ handler.client \in Clients
      /\ handler.sig \in {"connect", "read", "disconnect"}
      /\ clients \in Seq(Clients) /\ IsInjective(clients)
  BY SignalsFields DEF Return, TypeOK, ListInv
<1>2. CASE handler.sig = "connect"
  <2>1. clients' = Append(clients, handler.client)
    BY <1>2 DEF Return
  <2>2. handler.client \notin Range(clients)
    BY <1>2 DEF HandlerInv, Return
  <2>3. /\ IsInjective(Append(clients, handler.client))
        /\ Range(Append(clients, handler.client)) = Range(clients) \cup {handler.client}
    BY <1>1, <2>2, QueueAppend
  <2> QED BY <1>1, <1>2, <2>1, <2>3
<1>3. CASE handler.sig = "read"
  <2>1. clients' = clients
    BY <1>3 DEF Return
  <2> QED BY <1>1, <1>3, <2>1
<1>4. CASE handler.sig = "disconnect"
  <2>1. PICK i \in DOMAIN clients : clients[i] = handler.client /\ clients' = RemoveAt(clients, i)
    BY <1>4 DEF Return
  <2>2. /\ RemoveAt(clients, i) \in Seq(Clients) /\ IsInjective(RemoveAt(clients, i))
        /\ Range(RemoveAt(clients, i)) = Range(clients) \ {clients[i]}
    BY <1>1, <2>1, QueueRemove
  <2> QED BY <1>1, <1>4, <2>1, <2>2
<1> QED BY <1>1, <1>2, <1>3, <1>4

LEMMA ReturnInv ==
  ASSUME NetworkInv, Return
  PROVE  NetworkInv'
<1> USE DEF NetworkInv, peers, connection, closers
<1>1. UNCHANGED <<peer, backlog, sent, inbox, resource, read_buffer, attempted, pc,
                  todo, re, closing, closes, guarded, got>> /\ handler' = Nobody
  BY DEF Return
<1>2. clients' \in Seq(Clients) /\ IsInjective(clients')
  BY ReturnFacts
<1>3. \A c \in Range(clients') : c \in Range(clients) \/ resource[c] # "none"
  BY ReturnFacts, SignalsFields DEF HandlerInv
<1>4. TypeOK'
  BY <1>1, <1>2 DEF TypeOK
<1>5. ListInv'
  BY <1>1, <1>2, <1>3 DEF ListInv
<1>6. BacklogInv' /\ HandlerInv' /\ NoAttempt'
  BY <1>1 DEF BacklogInv, HandlerInv, NoAttempt
<1> QED BY <1>4, <1>5, <1>6

----------------------------------------------------------------------------
(* User code.                                                              *)

LEMMA ReadInv ==
  ASSUME NetworkInv, NEW c \in Clients, Read(c) \/ ReadNothing(c)
  PROVE  NetworkInv'
<1> USE DEF NetworkInv, peers, turn, closers
<1>1. UNCHANGED <<peer, backlog, sent, resource, read_buffer, clients, pc, todo, re,
                  handler, closing, closes, guarded>>
  BY DEF Read, ReadNothing
<1>2. attempted' = [attempted EXCEPT ![c] = Attempted(c)] /\ Attempted(c) = 0
  BY DEF Read, ReadNothing, Attempted, NoAttempt
<1>3. inbox' \in [Clients -> Seq(Nat)] /\ got' \in [Clients -> Seq(Nat)]
  <2>1. inbox[c] \in Seq(Nat) /\ <<>> \in Seq(Nat) /\ got[c] \o inbox[c] \in Seq(Nat)
    BY DEF TypeOK
  <2>2. \/ UNCHANGED <<inbox, got>>
        \/ /\ inbox' = [inbox EXCEPT ![c] = <<>>]
           /\ got' = [got EXCEPT ![c] = @ \o inbox[c]]
    BY DEF Read, ReadNothing
  <2>3. inbox \in [Clients -> Seq(Nat)] /\ got \in [Clients -> Seq(Nat)]
    BY DEF TypeOK
  <2>4. CASE UNCHANGED <<inbox, got>>
    BY <2>3, <2>4
  <2>5. CASE /\ inbox' = [inbox EXCEPT ![c] = <<>>]
             /\ got' = [got EXCEPT ![c] = @ \o inbox[c]]
    <3>1. inbox' \in [Clients -> Seq(Nat)]
      BY <2>1, <2>3, <2>5
    <3>2. got' = [got EXCEPT ![c] = got[c] \o inbox[c]]
      BY <2>5
    <3>3. got' \in [Clients -> Seq(Nat)]
      BY <2>1, <2>3, <3>2
    <3> QED BY <3>1, <3>3
  <2> QED BY <2>2, <2>4, <2>5
<1>4. TypeOK' /\ NoAttempt'
  BY <1>1, <1>2, <1>3 DEF TypeOK, NoAttempt
<1>5. BacklogInv' /\ ListInv' /\ HandlerInv'
  BY <1>1 DEF BacklogInv, ListInv, HandlerInv
<1> QED BY <1>4, <1>5

LEMMA disconnectInv ==
  ASSUME NetworkInv, NEW c \in Clients, disconnect(c)
  PROVE  NetworkInv'
<1> USE DEF NetworkInv, peers, closers
<1>1. /\ UNCHANGED <<peer, backlog, sent, read_buffer, attempted, clients, todo, re,
                     pc, handler, guarded, got>>
      /\ resource[c] # "none" /\ resource' = [resource EXCEPT ![c] = "closed"]
      /\ closing' = Append(closing, c) /\ closes' = closes + 1
  BY DEF disconnect, turn
<1>2. inbox' \in [Clients -> Seq(Nat)]
  <2>1. <<>> \in Seq(Nat)
    OBVIOUS
  <2> QED BY <2>1 DEF disconnect, TypeOK
<1>3. \A d \in Clients : resource'[d] = IF d = c THEN "closed" ELSE resource[d]
  BY <1>1 DEF TypeOK
<1>4. TypeOK'
  <2>1. closing' \in Seq(Clients) /\ closes' \in Nat
    BY <1>1 DEF TypeOK
  <2> QED BY <1>1, <1>2, <2>1 DEF TypeOK
<1>5. BacklogInv'
  BY <1>1, <1>3 DEF BacklogInv
<1>6. ListInv'
  BY <1>1, <1>3 DEF ListInv
<1>7. HandlerInv'
  <2>1. handler # Nobody => handler.client \in Clients
    BY SignalsFields DEF TypeOK
  <2> QED BY <1>1, <1>3, <2>1 DEF HandlerInv
<1>8. NoAttempt'
  BY <1>1 DEF NoAttempt
<1> QED BY <1>4, <1>5, <1>6, <1>7, <1>8

----------------------------------------------------------------------------
(* The theorems.                                                           *)

LEMMA DisconnectedInv ==
  ASSUME NetworkInv, Disconnected \/ DisconnectFails
  PROVE  NetworkInv'
<1> USE DEF NetworkInv, peers, connection, turn, closers
<1>1. /\ UNCHANGED <<peer, backlog, sent, inbox, resource, read_buffer, attempted,
                     clients, todo, re, handler, closes, guarded, got>>
      /\ pc' \in {pc, "dead"}
  BY DEF Disconnected, DisconnectFails
<1>2. closing' \in Seq(Clients)
  <2>1. closing # <<>> /\ closing \in Seq(Clients)
    BY DEF Disconnected, DisconnectFails, TypeOK
  <2>2. SubSeq(closing, 1, Len(closing) - 1) \in Seq(Clients)
    BY <2>1
  <2> QED BY <2>1, <2>2 DEF Disconnected, DisconnectFails, Front
<1>3. TypeOK'
  BY <1>1, <1>2 DEF TypeOK
<1>4. BacklogInv' /\ ListInv' /\ HandlerInv' /\ NoAttempt'
  BY <1>1 DEF BacklogInv, ListInv, HandlerInv, NoAttempt
<1> QED BY <1>3, <1>4

LEMMA StutterInv ==
  ASSUME NetworkInv, UNCHANGED vars
  PROVE  NetworkInv'
BY DEF vars, peers, connection, turn, closers, NetworkInv, TypeOK, BacklogInv, ListInv,
       HandlerInv, NoAttempt

\* The type of the state, with what is true of the backlog, of the list of
\* clients and of a client while its handlers run, through every turn, whatever
\* the peers and the handlers do.
THEOREM NetworkCorrect == Spec => []NetworkInv
<1>1. Init => NetworkInv
  BY InitInv
<1>2. NetworkInv /\ [Next]_vars => NetworkInv'
  <2> SUFFICES ASSUME NetworkInv, [Next]_vars PROVE NetworkInv'
    OBVIOUS
  <2>1. CASE UNCHANGED vars
    BY <2>1, StutterInv
  <2>2. CASE Step
    <3>1. CASE TurnStart \/ Select \/ TurnEnd
      BY <3>1, TurnInv
    <3>2. CASE ServeConnect
      BY <3>2, ServeConnectInv
    <3>3. CASE Return
      BY <3>3, ReturnInv
    <3>4. ASSUME NEW c \in Clients, CheckConnected(c) \/ CheckGone(c) \/ ServeRead(c)
          PROVE  NetworkInv'
      BY <3>4, CheckConnectedInv, CheckGoneInv, ServeReadInv
    <3>5. CASE Disconnected \/ DisconnectFails
      BY <3>5, DisconnectedInv
    <3> QED BY <2>2, <3>1, <3>2, <3>3, <3>4, <3>5 DEF Step
  <2>3. CASE AcceptFails
    BY <2>3, TurnInv
  <2>4. CASE User
    BY <2>4, ReadInv, disconnectInv DEF User
  <2>5. CASE Peers
    BY <2>5, ArriveInv, SendInv, BreakInv DEF Peers
  <2> QED BY <2>1, <2>2, <2>3, <2>4, <2>5 DEF Next
<1> QED BY <1>1, <1>2, PTL DEF Spec

\* Every reachable state has its type (the variables of Network).
THEOREM NetworkTypeCorrect == Spec => []TypeOK
<1>1. NetworkInv => TypeOK
  BY DEF NetworkInv
<1> QED BY <1>1, NetworkCorrect, PTL

LEMMA ListChanges ==
  ASSUME NetworkInv, [Next]_vars, clients' # clients
  PROVE  Return
BY DEF Next, Step, User, Peers, vars, turn, peers, connection, TurnStart, Select,
       ServeConnect, TurnEnd, CheckConnected, CheckGone, ServeRead, AcceptFails, Read,
       ReadNothing, disconnect, Disconnected, DisconnectFails, Arrive, Send, Shut, Reset

\* However many peers there are and however long they say nothing, a client
\* leaves the list only when its peer or its own socket is closed
\* (Connection::read, is_connected).
THEOREM ClientsKept == Spec => KeptWhileOpen
<1>1. NetworkInv /\ [Next]_vars =>
        [\A c \in Range(clients) \ Range(clients') :
           peer[c] # "open" \/ resource[c] = "closed"]_vars
  <2> SUFFICES ASSUME NetworkInv, [Next]_vars,
                      NEW c \in Range(clients) \ Range(clients')
               PROVE  peer[c] # "open" \/ resource[c] = "closed"
    OBVIOUS
  <2>1. Return
    BY ListChanges
  <2>2. handler \in Signals /\ handler.sig = "disconnect" /\ handler.client = c
    BY <2>1, ReturnFacts, SignalsFields
  <2>3. handler # Nobody
    BY <2>2, SignalsFields
  <2> QED BY <2>2, <2>3 DEF NetworkInv, HandlerInv
<1> QED BY <1>1, NetworkCorrect, PTL DEF Spec, KeptWhileOpen

----------------------------------------------------------------------------
(* The refinement.                                                         *)

\* Only while the handlers of a socket's signal run, or between two turns, is a
\* connection being closed: the idle function emits nothing meanwhile.
ClosingInv == closing # <<>> => handler # Nobody \/ pc \in {"loop", "dead"}

LEMMA ClosingNext ==
  ASSUME ClosingInv, [Next]_vars
  PROVE  ClosingInv'
<1> USE DEF ClosingInv
<1>1. CASE UNCHANGED <<closing, handler>> /\ pc' \in {pc, "loop", "dead"}
  BY <1>1
<1>2. CASE closing' = <<>>
  BY <1>2
<1>3. CASE TurnStart \/ Return
  BY <1>2, <1>3 DEF TurnStart, Return, closers
<1>4. ASSUME NEW c \in Clients, disconnect(c)
      PROVE  ClosingInv'
  BY <1>4 DEF disconnect, turn
<1>5. CASE Disconnected \/ DisconnectFails
  BY <1>5 DEF Disconnected, DisconnectFails, turn, closers
<1>6. CASE \/ ServeConnect
           \/ \E c \in Clients : CheckGone(c) \/ ServeRead(c)
  <2>1. closing = <<>> /\ closing' = closing
    BY <1>6 DEF ServeConnect, CheckGone, ServeRead, closers
  <2> QED BY <2>1
<1>7. CASE Select
  BY <1>7 DEF Select, closers
<1>8. CASE \/ TurnEnd \/ AcceptFails \/ UNCHANGED vars \/ Peers
           \/ \E c \in Clients : CheckConnected(c) \/ Read(c) \/ ReadNothing(c)
  BY <1>1, <1>8 DEF TurnEnd, AcceptFails, vars, CheckConnected, Read, ReadNothing, Peers,
                    Arrive, Send, Shut, Reset, turn, closers
<1> QED BY <1>3, <1>4, <1>5, <1>6, <1>7, <1>8 DEF Next, Step, User

\* The clients of which select() is asked are in the list and have been looked
\* at; the one whose SIG_Disconnect handlers run meanwhile is not among them.
SelectedInv ==
  /\ pc = "loop" => handler = Nobody
  /\ pc = "check" =>
       /\ re \subseteq Range(clients) \cup {Server} /\ todo \cap re = {}
       /\ handler # Nobody => handler.sig = "disconnect" /\ handler.client \notin re

LEMMA SelectedNext ==
  ASSUME NetworkInv, SelectedInv, [Next]_vars
  PROVE  SelectedInv'
<1>1. TypeOK
  BY DEF NetworkInv
<1>2. CASE TurnStart
  <2>1. Range(clients) \subseteq Clients
    BY <1>1 DEF TypeOK, Range
  <2>2. /\ pc' = "check" /\ re' = {Server} /\ todo' = Range(clients)
        /\ clients' = clients /\ handler' = Nobody
    BY <1>2 DEF TurnStart, SelectedInv
  <2> QED BY <2>1, <2>2, NetworkType DEF SelectedInv
<1>3. ASSUME NEW c \in Clients, CheckConnected(c)
      PROVE  SelectedInv'
  <2>1. /\ c \in Range(clients) /\ c \in todo
        /\ pc = "check" /\ pc' = pc /\ handler = Nobody /\ handler' = handler
        /\ todo' = todo \ {c} /\ re' = re \cup {c} /\ clients' = clients
    BY <1>3, FirstListed DEF CheckConnected
  <2> QED BY <2>1 DEF SelectedInv
<1>4. ASSUME NEW c \in Clients, CheckGone(c)
      PROVE  SelectedInv'
  <2>1. /\ c \in todo /\ pc = "check" /\ pc' = pc /\ todo' = todo \ {c}
        /\ UNCHANGED <<re, clients>>
        /\ handler'.sig = "disconnect" /\ handler'.client = c
    BY <1>4, FirstListed, Emitted DEF CheckGone
  <2> QED BY <2>1 DEF SelectedInv
<1>5. CASE Return
  <2>1. handler # Nobody /\ handler' = Nobody /\ UNCHANGED <<pc, re, todo>>
    BY <1>5 DEF Return
  <2>2. handler.sig = "disconnect" => Range(clients') = Range(clients) \ {handler.client}
    BY <1>5, ReturnFacts
  <2>3. CASE pc = "check"
    <3>1. re \subseteq Range(clients') \cup {Server}
      BY <2>1, <2>2, <2>3 DEF SelectedInv
    <3> QED BY <2>1, <2>3, <3>1 DEF SelectedInv
  <2> QED BY <2>1, <2>3 DEF SelectedInv
<1>6. CASE Select \/ TurnEnd \/ AcceptFails \/ ServeConnect \/ DisconnectFails
           \/ \E c \in Clients : ServeRead(c)
  <2>1. pc' # "check" /\ (pc' = "loop" => handler' = Nobody)
    BY <1>6 DEF Select, TurnEnd, AcceptFails, ServeConnect, DisconnectFails, ServeRead
  <2> QED BY <2>1 DEF SelectedInv
<1>7. CASE \/ Disconnected \/ UNCHANGED vars \/ Peers
           \/ \E c \in Clients : Read(c) \/ ReadNothing(c) \/ disconnect(c)
  <2>1. UNCHANGED <<pc, todo, re, clients, handler>>
    BY <1>7 DEF Disconnected, vars, Peers, Arrive, Send, Shut, Reset, Read, ReadNothing,
                disconnect, turn
  <2> QED BY <2>1 DEF SelectedInv
<1> QED BY <1>2, <1>3, <1>4, <1>5, <1>6, <1>7 DEF Next, Step, User

SessionInv == NetworkInv /\ ClosingInv /\ SelectedInv

\* The variables of Session that are defined from those of Network.
LEMMA SessionSame ==
  ASSUME UNCHANGED resource
  PROVE  seen' = seen /\ closed' = closed
BY DEF seen, closed

LEMMA AnnouncedSame ==
  ASSUME re' \ {Server} = re \ {Server}, pc' = pc
  PROVE  announced' = announced
BY DEF announced

LEMMA SessionReturn ==
  ASSUME NetworkInv, Return
  PROVE  S!Return
<1>1. /\ handler # Nobody /\ handler' = Nobody /\ closing = <<>> /\ closing' = closing
      /\ seen' = seen /\ closed' = closed
  BY SessionSame DEF Return, connection, closers
<1>2. /\ handler.sig \in {"connect", "read", "disconnect"}
      /\ handler.sig = "connect" => connected' = connected \cup {handler.client}
      /\ handler.sig = "read" => connected' = connected
      /\ handler.sig = "disconnect" => connected' = connected \ {handler.client}
  BY ReturnFacts, SignalsFields DEF connected
<1>3. announced' = announced
  BY AnnouncedSame DEF Return
<1> QED BY <1>1, <1>2, <1>3 DEF S!Return

LEMMA SessionConnect ==
  ASSUME SessionInv, ServeConnect
  PROVE  S!Connect(Head(backlog))
<1> DEFINE h == Head(backlog)
<1>1. h \in Clients /\ resource[h] = "none"
  BY ServeConnectFacts DEF SessionInv
<1>2. /\ handler = Nobody /\ handler' = [sig |-> "connect", client |-> h]
      /\ resource' = [resource EXCEPT ![h] = "open"] /\ clients' = clients
      /\ closing = <<>> /\ closing' = closing
  BY DEF ServeConnect, Emits, SessionInv, ClosingInv, closers
<1>3. resource \in [Clients -> {"none", "open", "closed"}]
  BY DEF SessionInv, NetworkInv, TypeOK
<1>4. announced' = announced
  BY AnnouncedSame DEF ServeConnect
<1> HIDE DEF h
<1>5. h \notin seen /\ seen' = seen \cup {h} /\ closed' = closed
  BY <1>1, <1>2, <1>3 DEF seen, closed
<1>6. connected' = connected
  BY <1>2 DEF connected
<1>7. S!Connect(h)
  BY <1>2, <1>4, <1>5, <1>6 DEF S!Connect, S!Signal, S!Silent
<1> QED BY <1>7 DEF h

\* What select() announces is open, and was found connected in this turn.
LEMMA SessionAnnounce ==
  ASSUME SessionInv, Select
  PROVE  S!Announce(announced')
<1>1. /\ handler = Nobody /\ pc = "check" /\ pc' = "serve"
      /\ re' = {r \in re : Ready(r)}
      /\ UNCHANGED <<resource, clients, handler, closing>>
  BY DEF Select, connection, closers
<1>2. closing = <<>>
  BY <1>1 DEF SessionInv, ClosingInv
<1>3. announced = {} /\ announced' = {r \in re : Ready(r)} \ {Server}
  BY <1>1 DEF announced
<1>4. announced' \subseteq connected \ closed
  BY <1>1, <1>3 DEF SessionInv, SelectedInv, connected, closed, Ready
<1>5. seen' = seen /\ closed' = closed /\ connected' = connected
  BY <1>1, SessionSame DEF connected
<1> QED BY <1>1, <1>2, <1>3, <1>4, <1>5 DEF S!Announce, S!Silent

LEMMA SessionStep ==
  ASSUME SessionInv, [Next]_vars
  PROVE  [S!Next]_S!session
<1>0. NetworkInv /\ resource \in [Clients -> {"none", "open", "closed"}]
  BY DEF SessionInv, NetworkInv, TypeOK
<1>1. CASE Return
  BY <1>0, <1>1, SessionReturn DEF S!Next
<1>2. CASE ServeConnect
  <2>1. Head(backlog) \in Clients
    BY <1>0, <1>2, ServeConnectFacts
  <2> QED BY <1>2, <2>1, SessionConnect DEF S!Next
<1>3. CASE Select
  <2>1. announced' \in SUBSET Clients
    <3>1. re \subseteq Clients \cup {Server}
      BY <1>0 DEF NetworkInv, TypeOK
    <3> QED BY <1>3, <3>1 DEF Select, announced
  <2> QED BY <1>3, <2>1, SessionAnnounce DEF S!Next
<1>4. ASSUME NEW c \in Clients, CheckGone(c) \/ ServeRead(c)
      PROVE  S!Next
  <2>1. /\ c \in connected /\ handler = Nobody
        /\ UNCHANGED <<resource, clients, closing, pc>>
    BY <1>4, FirstListed DEF CheckGone, ServeRead, connected, connection, closers
  <2>2. closing = <<>> /\ closing' = <<>>
    BY <1>4, <2>1 DEF CheckGone, ServeRead, SessionInv, ClosingInv
  <2>3. seen' = seen /\ connected' = connected /\ closed' = closed
    BY <2>1, SessionSame DEF connected
  <2>4. CASE CheckGone(c)
    <3>1. announced = {} /\ announced' = {}
      BY <2>1, <2>4 DEF CheckGone, announced
    <3>2. S!Disconnect(c)
      BY <2>1, <2>2, <2>3, <2>4, <3>1
         DEF CheckGone, Emits, S!Disconnect, S!Signal, S!Silent
    <3> QED BY <3>2 DEF S!Next
  <2>5. CASE ServeRead(c)
    <3>1. c \in announced /\ announced' = announced \ {c}
      BY <2>1, <2>5, FirstListed, NetworkType DEF ServeRead, announced
    <3>2. S!Read(c)
      BY <2>1, <2>2, <2>3, <2>5, <3>1 DEF ServeRead, Emits, S!Read, S!Signal, S!Silent
    <3> QED BY <3>2 DEF S!Next
  <2> QED BY <1>4, <2>4, <2>5
<1>5. ASSUME NEW c \in Clients, disconnect(c)
      PROVE  S!Next
  <2>1. /\ resource[c] # "none" /\ resource' = [resource EXCEPT ![c] = "closed"]
        /\ closing' = Append(closing, c)
        /\ UNCHANGED <<clients, handler, re, pc>>
    BY <1>5 DEF disconnect, turn
  <2>2. c \in seen /\ seen' = seen /\ closed' = closed \cup {c}
    BY <1>0, <2>1 DEF seen, closed
  <2>3. announced' = announced /\ connected' = connected
    BY <2>1, AnnouncedSame DEF connected
  <2>4. S!Close(c)
    BY <2>1, <2>2, <2>3 DEF S!Close
  <2> QED BY <2>4 DEF S!Next
<1>6. CASE Disconnected
  <2>1. /\ closing # <<>> /\ closing' = SubSeq(closing, 1, Len(closing) - 1)
        /\ UNCHANGED <<resource, clients, handler, re, pc>>
    BY <1>6 DEF Disconnected, Front, connection, turn
  <2>2. UNCHANGED <<seen, closed, connected, announced>>
    BY <2>1, SessionSame, AnnouncedSame DEF connected
  <2>3. S!Closed
    BY <2>1, <2>2 DEF S!Closed
  <2> QED BY <2>3 DEF S!Next
<1>7. CASE AcceptFails \/ DisconnectFails
  <2>1. pc' = "dead" /\ UNCHANGED <<resource, clients, handler, closing>>
    BY <1>7 DEF AcceptFails, DisconnectFails, connection, closers
  <2>2. announced' = {} /\ UNCHANGED <<seen, closed, connected>>
    BY <2>1, SessionSame DEF connected, announced
  <2>3. S!End
    BY <2>1, <2>2 DEF S!End
  <2> QED BY <2>3 DEF S!Next
<1>8. CASE \/ TurnStart \/ TurnEnd \/ UNCHANGED vars \/ Peers
           \/ \E c \in Clients : CheckConnected(c) \/ Read(c) \/ ReadNothing(c)
  <2>1. UNCHANGED <<resource, clients, handler, closing>>
    BY <1>8 DEF TurnStart, TurnEnd, vars, CheckConnected, Read, ReadNothing, Peers, Arrive,
                Send, Shut, Reset, connection, turn, closers
  <2>2. announced' = announced
    <3>1. CASE TurnStart
      BY <3>1 DEF TurnStart, announced
    <3>2. CASE TurnEnd
      BY <3>2 DEF TurnEnd, announced
    <3>3. ASSUME NEW c \in Clients, CheckConnected(c)
          PROVE  announced' = announced
      BY <3>3 DEF CheckConnected, announced
    <3>4. CASE \/ UNCHANGED vars \/ Peers
               \/ \E c \in Clients : Read(c) \/ ReadNothing(c)
      BY <3>4, AnnouncedSame
         DEF vars, Read, ReadNothing, Peers, Arrive, Send, Shut, Reset, turn
    <3> QED BY <1>8, <3>1, <3>2, <3>3, <3>4
  <2>3. UNCHANGED <<seen, closed, connected>>
    BY <2>1, SessionSame DEF connected
  <2> QED BY <2>1, <2>2, <2>3 DEF S!session
<1> QED
  BY <1>1, <1>2, <1>3, <1>4, <1>5, <1>6, <1>7, <1>8 DEF Next, Step, User

\* The idle function, with its two loops and with handlers that close clients in
\* any of them, nested in each other, emits what Session promises: a client's own
\* signals one at a time, SIG_Connect and SIG_Disconnect once, SIG_Read when it
\* was announced open; and in the middle of them the SIG_Disconnect that every
\* disconnect() emits.
THEOREM NetworkImplementsSession == Spec => SessionSpec
<1>1. Init => S!Init /\ ClosingInv /\ SelectedInv
  BY DEF Init, S!Init, seen, connected, closed, announced, Range, ClosingInv, SelectedInv
<1>2. NetworkInv /\ ClosingInv /\ SelectedInv /\ [Next]_vars => [S!Next]_S!session
  BY SessionStep DEF SessionInv
<1>3. ClosingInv /\ [Next]_vars => ClosingInv'
  BY ClosingNext
<1>4. NetworkInv /\ SelectedInv /\ [Next]_vars => SelectedInv'
  BY SelectedNext
<1> QED BY <1>1, <1>2, <1>3, <1>4, NetworkCorrect, PTL DEF Spec, SessionSpec, S!Spec

----------------------------------------------------------------------------
(* What the peers have sent.                                               *)

Numbers(n) == [m \in 1..n |-> m]

\* The handlers have read a and then b, and between the two the turn took what
\* is in the buffer.
Split(c, a, b) ==
  /\ got[c] = a \o b
  /\ (a \o Buffered(c)) \o (b \o inbox[c]) = Numbers(sent[c])

Unbroken(c) == resource[c] # "closed" /\ peer[c] # "reset"

StreamInv == \A c \in Clients : Unbroken(c) => \E a, b \in Seq(Nat) : Split(c, a, b)

LEMMA StreamTypes ==
  ASSUME TypeOK, NEW c \in Clients
  PROVE  /\ got[c] \in Seq(Nat) /\ inbox[c] \in Seq(Nat) /\ Buffered(c) \in Seq(Nat)
         /\ sent[c] \in Nat
BY EmptySeq DEF TypeOK, Buffered

\* A client whose messages did not move is split as it was.
LEMMA StreamSame ==
  ASSUME StreamInv, NEW c \in Clients, Unbroken(c)' => Unbroken(c),
         got'[c] = got[c], inbox'[c] = inbox[c], read_buffer'[c] = read_buffer[c],
         sent'[c] = sent[c]
  PROVE  Unbroken(c)' => \E a, b \in Seq(Nat) : Split(c, a, b)'
<1>1. Buffered(c)' = Buffered(c)
  BY DEF Buffered
<1>2. \A a, b : Split(c, a, b) => Split(c, a, b)'
  BY <1>1 DEF Split
<1> QED
  BY <1>2 DEF StreamInv

\* Messages that follow each other.
LEMMA StreamsFollow == \A s, t, u \in Seq(Nat) : (s \o t) \o u = s \o (t \o u)
BY ConcatAssociative

LEMMA StreamsType == \A s, t \in Seq(Nat) : s \o t \in Seq(Nat)
BY ConcatProperties

LEMMA StreamsEmpty ==
  <<>> \in Seq(Nat) /\ \A s \in Seq(Nat) : s \o <<>> = s /\ <<>> \o s = s
BY ConcatEmptySeq, EmptySeq

\* What is sent comes after everything else.
LEMMA StreamSend ==
  ASSUME NEW t \in Seq(Nat), NEW b \in Seq(Nat), NEW i \in Seq(Nat), NEW n \in Nat,
         t \o (b \o i) = Numbers(n)
  PROVE  t \o (b \o Append(i, n + 1)) = Numbers(n + 1)
<1> DEFINE last == <<n + 1>>
<1>1. last \in Seq(Nat) /\ n + 1 \in Nat
  OBVIOUS
<1>2. Append(i, n + 1) = i \o last
  BY <1>1, AppendIsConcat
<1>3. Numbers(n) \in Seq(Nat) /\ Len(Numbers(n)) = n
  BY DEF Numbers
<1>4. Append(Numbers(n), n + 1) = Numbers(n) \o last
  BY <1>1, <1>3, AppendIsConcat
<1>5. Append(Numbers(n), n + 1) = Numbers(n + 1)
  <2>1. /\ Append(Numbers(n), n + 1) \in Seq(Nat) /\ Len(Append(Numbers(n), n + 1)) = n + 1
        /\ \A j \in 1..n : Append(Numbers(n), n + 1)[j] = Numbers(n)[j]
        /\ Append(Numbers(n), n + 1)[n + 1] = n + 1
    BY <1>1, <1>3, AppendProperties
  <2>2. Numbers(n + 1) \in Seq(Nat) /\ Len(Numbers(n + 1)) = n + 1
    BY DEF Numbers
  <2>3. \A j \in 1..(n + 1) : Append(Numbers(n), n + 1)[j] = Numbers(n + 1)[j]
    BY <2>1 DEF Numbers
  <2> QED
    BY <2>1, <2>2, <2>3, SeqEqual
<1> HIDE DEF last
<1>6. b \o i \in Seq(Nat)
  BY StreamsType, Zenon
<1>7. (b \o i) \o last = b \o (i \o last)
  BY <1>1, StreamsFollow, Zenon
<1>8. (t \o (b \o i)) \o last = t \o ((b \o i) \o last)
  BY <1>1, <1>6, StreamsFollow, Zenon
<1> QED
  BY <1>2, <1>4, <1>5, <1>8, <1>7, Zenon

LEMMA StreamInit == Init => StreamInv
<1> SUFFICES ASSUME Init, NEW c \in Clients PROVE Split(c, <<>>, <<>>)
  BY EmptySeq DEF StreamInv
<1>1. got[c] = <<>> /\ inbox[c] = <<>> /\ Buffered(c) = <<>> /\ sent[c] = 0
  BY DEF Init, Buffered
<1>2. Numbers(0) = <<>>
  BY DEF Numbers
<1>3. <<>> \o <<>> = <<>>
  BY EmptySeq, ConcatEmptySeq
<1> QED
  BY <1>1, <1>2, <1>3 DEF Split

\* One message moves at a time: a step is a send, a read, a turn that takes what
\* is there into the buffer, or moves none.
LEMMA StreamNext ==
  ASSUME NetworkInv, StreamInv, [Next]_vars
  PROVE  StreamInv'
<1> SUFFICES ASSUME NEW c \in Clients
             PROVE  Unbroken(c)' => \E a, b \in Seq(Nat) : Split(c, a, b)'
  BY DEF StreamInv
<1>1. TypeOK /\ got[c] \in Seq(Nat) /\ inbox[c] \in Seq(Nat) /\ Buffered(c) \in Seq(Nat) /\ sent[c] \in Nat
  BY StreamTypes DEF NetworkInv
<1>2. Unbroken(c) => \E a, b \in Seq(Nat) : Split(c, a, b)
  BY DEF StreamInv
<1>3. ASSUME NEW d \in Clients, Send(d)
      PROVE  Unbroken(c)' => \E a, b \in Seq(Nat) : Split(c, a, b)'
  <2>1. UNCHANGED <<peer, resource, read_buffer, got>>
    BY <1>3 DEF Send, connection
  <2>2. CASE d # c
    <3>1. inbox'[c] = inbox[c] /\ sent'[c] = sent[c]
      BY <1>1, <1>3, <2>2 DEF Send, TypeOK
    <3> QED
      BY <2>1, <3>1, StreamSame DEF Unbroken
  <2>3. CASE d = c
    <3> SUFFICES ASSUME Unbroken(c)' PROVE \E a, b \in Seq(Nat) : Split(c, a, b)'
      OBVIOUS
    <3>1. sent'[c] = sent[c] + 1 /\ inbox'[c] = Append(inbox[c], sent[c] + 1)
      BY <1>1, <1>3, <2>3 DEF Send, TypeOK
    <3>2. PICK a \in Seq(Nat), b \in Seq(Nat) : Split(c, a, b)
      BY <1>2, <2>1 DEF Unbroken
    <3>3. a \o Buffered(c) \in Seq(Nat)
      BY <1>1, StreamsFollow, StreamsType, StreamsEmpty, Zenon
    <3>4. (a \o Buffered(c)) \o (b \o Append(inbox[c], sent[c] + 1)) = Numbers(sent[c] + 1)
      <4> DEFINE t == a \o Buffered(c)
                 i == inbox[c]
                 n == sent[c]
      <4>1. t \in Seq(Nat) /\ i \in Seq(Nat) /\ n \in Nat /\ t \o (b \o i) = Numbers(n)
        BY <1>1, <3>2, <3>3, Zenon DEF Split
      <4> HIDE DEF t, i, n
      <4>2. t \o (b \o Append(i, n + 1)) = Numbers(n + 1)
        BY <4>1, StreamSend
      <4> QED
        BY <4>2, Zenon DEF t, i, n
    <3>5. Buffered(c)' = Buffered(c)
      BY <2>1 DEF Buffered
    <3>6. Split(c, a, b)'
      BY <2>1, <3>1, <3>2, <3>4, <3>5, Zenon DEF Split
    <3> QED
      BY <3>6
  <2> QED
    BY <2>2, <2>3
<1>4. ASSUME NEW d \in Clients, Read(d)
      PROVE  Unbroken(c)' => \E a, b \in Seq(Nat) : Split(c, a, b)'
  <2>1. UNCHANGED <<peer, resource, read_buffer, sent>>
    BY <1>4 DEF Read, peers
  <2>2. CASE d # c
    <3>1. inbox'[c] = inbox[c] /\ got'[c] = got[c]
      BY <1>1, <1>4, <2>2 DEF Read, TypeOK
    <3> QED
      BY <2>1, <3>1, StreamSame DEF Unbroken
  <2>3. CASE d = c
    <3> SUFFICES ASSUME Unbroken(c)' PROVE \E a, b \in Seq(Nat) : Split(c, a, b)'
      OBVIOUS
    <3>1. got'[c] = got[c] \o inbox[c] /\ inbox'[c] = <<>>
      BY <1>1, <1>4, <2>3 DEF Read, TypeOK
    <3>2. PICK a \in Seq(Nat), b \in Seq(Nat) : Split(c, a, b)
      BY <1>2, <2>1 DEF Unbroken
    <3>3. b \o inbox[c] \in Seq(Nat) /\ (a \o b) \o inbox[c] = a \o (b \o inbox[c])
      <4>1. (a \o b) \o inbox[c] = a \o (b \o inbox[c])
        BY <1>1, StreamsFollow, Zenon
      <4>2. b \o inbox[c] \in Seq(Nat)
        BY <1>1, StreamsType, Zenon
      <4> QED
        BY <4>1, <4>2, Zenon
    <3>4. PICK e \in Seq(Nat) : e = b \o inbox[c]
      BY <3>3, Zenon
    <3>5. e \o <<>> = e
      BY StreamsEmpty, Zenon
    <3>6. Buffered(c)' = Buffered(c)
      BY <2>1 DEF Buffered
    <3>7. Split(c, a, e)'
      BY <2>1, <3>1, <3>2, <3>3, <3>4, <3>5, <3>6, Zenon DEF Split
    <3> QED
      BY <3>7
  <2> QED
    BY <2>2, <2>3
<1>5. ASSUME NEW d \in Clients, CheckConnected(d)
      PROVE  Unbroken(c)' => \E a, b \in Seq(Nat) : Split(c, a, b)'
  <2>1. UNCHANGED <<peer, resource, sent, got>>
    BY <1>5 DEF CheckConnected, peers
  <2>2. CASE d # c \/ ~Swallows(d)
    <3>1. inbox'[c] = inbox[c] /\ read_buffer'[c] = read_buffer[c]
      BY <1>1, <1>5, <2>2 DEF CheckConnected, TypeOK
    <3> QED
      BY <2>1, <3>1, StreamSame DEF Unbroken
  <2>3. CASE d = c /\ Swallows(c)
    <3> SUFFICES ASSUME Unbroken(c)' PROVE \E a, b \in Seq(Nat) : Split(c, a, b)'
      OBVIOUS
    <3>1. read_buffer'[c] = inbox[c] /\ inbox'[c] = <<>>
      BY <1>1, <1>5, <2>3 DEF CheckConnected, TypeOK
    <3>2. Buffered(c) = <<>> /\ Buffered(c)' = inbox[c]
      BY <1>1, <2>3, <3>1, NetworkType DEF Buffered, Swallows
    <3>3. PICK a \in Seq(Nat), b \in Seq(Nat) : Split(c, a, b)
      BY <1>2, <2>1 DEF Unbroken
    <3> DEFINE e == a \o b
    <3>4. /\ e \in Seq(Nat) /\ <<>> \in Seq(Nat) /\ e \o inbox[c] = a \o (b \o inbox[c])
          /\ a \o <<>> = a
      <4>1. e \in Seq(Nat)
        BY StreamsType, Zenon
      <4>2. e \o inbox[c] = a \o (b \o inbox[c])
        BY <1>1, StreamsFollow, Zenon
      <4> QED
        BY <4>1, <4>2, StreamsEmpty, Zenon
    <3>5. e \o inbox[c] \in Seq(Nat)
      BY <1>1, <3>4, StreamsFollow, StreamsType, StreamsEmpty, Zenon
    <3>6. /\ (e \o inbox[c]) \o (<<>> \o <<>>) = (a \o <<>>) \o (b \o inbox[c])
          /\ e \o <<>> = e
      BY <3>4, <3>5, StreamsFollow, StreamsType, StreamsEmpty, Zenon
    <3>7. Split(c, e, <<>>)'
      BY <2>1, <3>1, <3>2, <3>3, <3>6, Zenon DEF Split
    <3> HIDE DEF e
    <3> QED
      BY <3>7, <3>4
  <2> QED
    BY <2>2, <2>3
<1>6. ASSUME NEW d \in Clients, Reset(d) \/ disconnect(d)
      PROVE  Unbroken(c)' => \E a, b \in Seq(Nat) : Split(c, a, b)'
  <2>1. UNCHANGED <<read_buffer, sent, got>>
    BY <1>6 DEF Reset, disconnect, peers, connection
  <2>2. CASE d # c
    <3>1. inbox'[c] = inbox[c] /\ peer'[c] = peer[c] /\ resource'[c] = resource[c]
      BY <1>1, <1>6, <2>2 DEF Reset, disconnect, peers, connection, TypeOK
    <3> QED
      BY <2>1, <3>1, StreamSame DEF Unbroken
  <2>3. CASE d = c
    <3>1. ~Unbroken(c)'
      BY <1>1, <1>6, <2>3 DEF Reset, disconnect, Unbroken, TypeOK
    <3> QED
      BY <3>1
  <2> QED
    BY <2>2, <2>3
<1>7. CASE \/ TurnStart \/ Select \/ ServeConnect \/ TurnEnd \/ Return \/ AcceptFails
           \/ Disconnected \/ DisconnectFails
           \/ \E d \in Clients : \/ CheckGone(d) \/ ServeRead(d) \/ ReadNothing(d)
                                 \/ Arrive(d) \/ Shut(d)
           \/ UNCHANGED vars
  <2>1. UNCHANGED <<inbox, read_buffer, sent, got>>
    BY <1>7 DEF TurnStart, Select, ServeConnect, TurnEnd, Return, AcceptFails, CheckGone,
                Disconnected, DisconnectFails, ServeRead, ReadNothing, Arrive, Shut, vars, peers, connection, turn
  <2>2. Unbroken(c)' => Unbroken(c)
    <3>1. CASE ServeConnect
      <4>1. resource[Head(backlog)] = "none" /\ UNCHANGED peer
            /\ resource' = [resource EXCEPT ![Head(backlog)] = "open"]
        BY <3>1, ServeConnectFacts DEF ServeConnect
      <4> QED
        BY <1>1, <4>1 DEF Unbroken, TypeOK
    <3>2. ASSUME NEW d \in Clients, Arrive(d) \/ Shut(d)
          PROVE  Unbroken(c)' => Unbroken(c)
      BY <1>1, <3>2 DEF Arrive, Shut, Unbroken, TypeOK, connection
    <3>3. CASE ~(ServeConnect \/ \E d \in Clients : Arrive(d) \/ Shut(d))
      <4>1. UNCHANGED <<peer, resource>>
        BY <1>7, <3>3 DEF TurnStart, Select, TurnEnd, Return, AcceptFails, CheckGone,
                Disconnected, DisconnectFails, ServeRead, ReadNothing, vars, peers, connection, turn
      <4> QED
        BY <4>1 DEF Unbroken
    <3> QED
      BY <3>1, <3>2, <3>3
  <2> QED
    BY <2>1, <2>2, StreamSame
<1> QED
  BY <1>3, <1>4, <1>5, <1>6, <1>7 DEF Next, Step, User, Peers

\* Of what a peer has sent, the handlers read everything, in order and once, but
\* for one stretch that a turn takes into a buffer, as long as the connection is
\* not broken: is_connected() never swallows a second time.
THEOREM SwallowedOnce == Spec => []OneSwallow
<1>1. TypeOK /\ StreamInv => OneSwallow
  <2> SUFFICES ASSUME TypeOK, StreamInv, NEW c \in Clients, Unbroken(c)
               PROVE  \E k \in 0..Len(got[c]) :
                        SubSeq(got[c], 1, k) \o Buffered(c) \o SubSeq(got[c], k + 1, Len(got[c]))
                          \o inbox[c] = [n \in 1..sent[c] |-> n]
    BY DEF OneSwallow, Unbroken
  <2>1. PICK a \in Seq(Nat), b \in Seq(Nat) : Split(c, a, b)
    BY DEF StreamInv
  <2>2. /\ Len(a) \in Nat /\ Len(b) \in Nat /\ Len(a \o b) = Len(a) + Len(b)
        /\ a \o b \in Seq(Nat)
        /\ \A i \in 1..(Len(a) + Len(b)) :
             (a \o b)[i] = IF i <= Len(a) THEN a[i] ELSE b[i - Len(a)]
    BY ConcatProperties, LenProperties
  <2>3. SubSeq(a \o b, 1, Len(a)) = a
    <3>1. /\ SubSeq(a \o b, 1, Len(a)) \in Seq(Nat)
          /\ Len(SubSeq(a \o b, 1, Len(a))) = Len(a)
          /\ \A i \in 1..Len(a) : SubSeq(a \o b, 1, Len(a))[i] = (a \o b)[i]
      BY <2>2
    <3> QED
      BY <2>2, <3>1, SeqEqual
  <2>4. SubSeq(a \o b, Len(a) + 1, Len(a \o b)) = b
    <3> DEFINE u == SubSeq(a \o b, Len(a) + 1, Len(a \o b))
    <3>1. /\ u \in Seq(Nat) /\ Len(u) = Len(b)
          /\ \A i \in 1..Len(b) : u[i] = (a \o b)[Len(a) + i]
      BY <2>2
    <3> HIDE DEF u
    <3>2. \A i \in 1..Len(b) : u[i] = b[i]
      BY <2>2, <3>1
    <3>3. u = b
      BY <3>1, <3>2, SeqEqual
    <3> QED
      BY <3>3 DEF u
  <2>5. a \o Buffered(c) \in Seq(Nat) /\ inbox[c] \in Seq(Nat)
    BY StreamTypes, ConcatProperties
  <2>6. ((a \o Buffered(c)) \o b) \o inbox[c] = (a \o Buffered(c)) \o (b \o inbox[c])
    BY <2>1, <2>5, StreamsFollow, Zenon
  <2>7. ((a \o Buffered(c)) \o b) \o inbox[c] = [n \in 1..sent[c] |-> n] /\ got[c] = a \o b
    BY <2>1, <2>6 DEF Split, Numbers
  <2>8. Len(a) \in 0..Len(got[c])
    BY <2>2, <2>7
  <2> QED
    BY <2>3, <2>4, <2>7, <2>8
<1>2. NetworkInv => TypeOK
  BY DEF NetworkInv
<1>3. NetworkInv /\ StreamInv /\ [Next]_vars => StreamInv'
  BY StreamNext
<1> QED
  BY <1>1, <1>2, <1>3, StreamInit, NetworkCorrect, PTL DEF Spec
=============================================================================

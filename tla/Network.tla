------------------------------ MODULE Network ------------------------------
(***************************************************************************)
(* A network\Socket and its clients: the idle function of the socket, that *)
(* the loop calls when it has nothing else to do (WaitLoop), the           *)
(* connections it keeps, and the peers at the other end.  A turn looks for *)
(* clients that are gone, asks select() for those that can be read, and    *)
(* emits a signal for each; the handlers are user code.                    *)
(*                                                                         *)
(* What the peers do and what the kernel keeps of it is outside the code:  *)
(* it is modelled by what socket_recv, socket_select and socket_accept     *)
(* answer.  A peer connects once.  Messages are numbered.                  *)
(***************************************************************************)
EXTENDS Integers, SequencesExt

CONSTANTS Clients,   \* the clients there may be
          Server,    \* the listening connection
          Nobody,    \* no handler runs
          NULL,
          Attempts,  \* empty reads after which read() gives up: 10
          MaxSent,   \* bound: messages each peer sends
          MaxCloses  \* bound: calls of disconnect()

ASSUME NetworkType == /\ Server \notin Clients /\ NULL \notin Seq(Nat)
                      /\ Attempts \in Nat \ {0} /\ MaxSent \in Nat /\ MaxCloses \in Nat
                      /\ Nobody \notin [sig : {"connect", "read", "disconnect"},
                                        client : Clients]

VARIABLES peer,        \* the other end of each client
          backlog,     \* connections that wait to be accepted
          inbox,       \* messages the kernel keeps of each client
          resource,    \* Connection::$_socket of each client
          read_buffer, \* Connection::$_read_buffer
          attempted,   \* Connection::$_read_attempted
          clients,     \* Socket::$_clients, in the order they were added
          pc,          \* where the idle function is; "loop" between two turns
          todo,        \* clients of this turn still to look at
          re,          \* resources still to select, then to serve
          handler,     \* the socket's signal in emission, while its handlers run
          closing,     \* connections in disconnect(), whose handlers run in those
          closes,      \* calls of disconnect() made so far
          guarded,     \* a process on every SIG_Disconnect returns FALSE
          sent,        \* history: messages sent by each peer
          got          \* history: messages each client was read for

peers      == <<peer, backlog, sent>>
connection == <<resource, read_buffer, attempted>>
turn       == <<clients, pc, todo, re>>
closers    == <<closing, closes, guarded>>
vars       == <<peers, inbox, connection, turn, handler, closers, got>>

Signals == [sig : {"connect", "read", "disconnect"}, client : Clients]

\* The application may have put a process of its own on the SIG_Disconnect of
\* every disconnect() before that of the module.
Init ==
  /\ peer = [c \in Clients |-> "away"] /\ backlog = <<>>
  /\ inbox = [c \in Clients |-> <<>>]
  /\ resource = [c \in Clients |-> "none"]
  /\ read_buffer = [c \in Clients |-> NULL]
  /\ attempted = [c \in Clients |-> 0]
  /\ clients = <<>> /\ pc = "loop" /\ todo = {} /\ re = {}
  /\ handler = Nobody /\ closing = <<>> /\ closes = 0
  /\ guarded \in BOOLEAN
  /\ sent = [c \in Clients |-> 0] /\ got = [c \in Clients |-> <<>>]

----------------------------------------------------------------------------
(* The peers, and the kernel between.                                      *)

Arrive(c) ==
  /\ peer[c] = "away"
  /\ peer' = [peer EXCEPT ![c] = "open"]
  /\ backlog' = Append(backlog, c)
  /\ UNCHANGED <<inbox, connection, turn, handler, closers, sent, got>>

\* Also before the connection is accepted.
Send(c) ==
  /\ peer[c] = "open" /\ resource[c] # "closed" /\ sent[c] < MaxSent
  /\ sent' = [sent EXCEPT ![c] = @ + 1]
  /\ inbox' = [inbox EXCEPT ![c] = Append(@, sent'[c])]
  /\ UNCHANGED <<peer, backlog, connection, turn, handler, closers, got>>

\* The peer closes its end: what it has sent can still be read.
Shut(c) ==
  /\ peer[c] = "open"
  /\ peer' = [peer EXCEPT ![c] = "shut"]
  /\ UNCHANGED <<backlog, inbox, connection, turn, handler, closers, sent, got>>

\* The connection breaks: what was not read is lost.
Reset(c) ==
  /\ peer[c] \in {"open", "shut"}
  /\ peer' = [peer EXCEPT ![c] = "reset"]
  /\ inbox' = [inbox EXCEPT ![c] = <<>>]
  /\ UNCHANGED <<backlog, connection, turn, handler, closers, sent, got>>

\* socket_recv() has an end of file or an error, and not "would block".
Gone(c) == inbox[c] = <<>> /\ peer[c] # "open"

\* Nothing to read yet: "would block".
Waiting(c) == inbox[c] = <<>> /\ peer[c] = "open"

\* select() returns the resource: it can be read without blocking.
Ready(r) == IF r = Server THEN backlog # <<>>
                          ELSE resource[r] = "open" /\ ~Waiting(r)

----------------------------------------------------------------------------
(* Connection.                                                             *)

\* read() returns FALSE.
ReadFails(c) == Gone(c) \/ (Waiting(c) /\ attempted[c] >= Attempts)

\* (Mutant) an empty read is counted in $_read_attempted.
Attempted_Counted(c) == IF Waiting(c) THEN attempted[c] + 1
                        ELSE IF Gone(c) THEN attempted[c] ELSE 0

\* $_read_attempted after read(): an empty read counts in a property of
\* another name, $_read_attemped.
Attempted(c) == IF inbox[c] # <<>> THEN 0 ELSE attempted[c]

\* (Mutant) the buffer is asked for before the socket is.
is_connected_Buffered(c) ==
  resource[c] = "open" /\ (read_buffer[c] # NULL \/ ~ReadFails(c))

\* What the peer does between the two reads of is_connected() it may as well
\* have done before them.
is_connected(c) == resource[c] = "open" /\ ~ReadFails(c)

\* (Mutant) the buffer is not asked for before it is filled.
Swallows_Again(c) == is_connected(c) /\ inbox[c] # <<>>

\* is_connected() reads what there is into $_read_buffer, the first time.
Swallows(c) == is_connected(c) /\ read_buffer[c] = NULL /\ inbox[c] # <<>>

----------------------------------------------------------------------------
(* A turn: the idle function of the socket.                                *)

\* foreach over S, clients in the order of $_clients: it is the turn of c.
First(c, S) ==
  \E i \in DOMAIN clients :
    /\ clients[i] = c /\ c \in S
    /\ \A j \in 1..(i - 1) : clients[j] \notin S

Emits(sig, c) == handler' = [sig |-> sig, client |-> c]

TurnStart ==
  /\ pc = "loop" /\ closing = <<>>
  /\ pc' = "check" /\ todo' = Range(clients) /\ re' = {Server}
  /\ UNCHANGED <<peers, inbox, connection, clients, handler, closers, got>>

CheckConnected(c) ==
  /\ pc = "check" /\ handler = Nobody /\ First(c, todo)
  /\ is_connected(c)
  /\ IF Swallows(c)
       THEN /\ read_buffer' = [read_buffer EXCEPT ![c] = inbox[c]]
            /\ inbox' = [inbox EXCEPT ![c] = <<>>]
       ELSE UNCHANGED <<read_buffer, inbox>>
  /\ attempted' = [attempted EXCEPT ![c] = Attempted(c)]
  /\ todo' = todo \ {c} /\ re' = re \cup {c}
  /\ UNCHANGED <<peers, resource, clients, pc, handler, closers, got>>

\* The handlers of this client's own SIG_Disconnect run, and then it goes.
CheckGone(c) ==
  /\ pc = "check" /\ handler = Nobody /\ First(c, todo)
  /\ ~is_connected(c)
  /\ Emits("disconnect", c)
  /\ todo' = todo \ {c}
  /\ UNCHANGED <<peers, inbox, connection, clients, pc, re, closers, got>>

\* socket_select(): none is ready when its time is over.
Select ==
  /\ pc = "check" /\ handler = Nobody /\ todo = {}
  /\ re' = {r \in re : Ready(r)}
  /\ pc' = "serve"
  /\ UNCHANGED <<peers, inbox, connection, clients, todo, handler, closers, got>>

\* A resource that is not a key of $_clients is the listening one.  A new Client
\* accepts one connection, and its handlers run before it is added.
ServeConnect ==
  /\ pc = "serve" /\ handler = Nobody /\ Server \in re
  /\ Emits("connect", Head(backlog))
  /\ resource' = [resource EXCEPT ![Head(backlog)] = "open"]
  /\ backlog' = Tail(backlog)
  /\ re' = re \ {Server}
  /\ UNCHANGED <<peer, inbox, read_buffer, attempted, clients, pc, todo, closers, sent, got>>

\* socket_accept() fails: the exception leaves the loop for good, since the
\* Routine object keeps the socket's idle and refuses the next one.
AcceptFails ==
  /\ pc = "serve" /\ handler = Nobody /\ Server \in re
  /\ pc' = "dead"
  /\ UNCHANGED <<peers, inbox, connection, clients, todo, re, handler, closers, got>>

\* Also for a client that a handler of this turn has closed.
ServeRead(c) ==
  /\ pc = "serve" /\ handler = Nobody /\ Server \notin re /\ First(c, re)
  /\ Emits("read", c)
  /\ re' = re \ {c}
  /\ UNCHANGED <<peers, inbox, connection, clients, pc, todo, closers, got>>

TurnEnd ==
  /\ pc = "serve" /\ handler = Nobody /\ re = {}
  /\ pc' = "loop"
  /\ UNCHANGED <<peers, inbox, connection, clients, todo, re, handler, closers, got>>

\* (Mutant) the client that is gone is not unset.
Return_Keeps ==
  /\ pc # "dead" /\ handler # Nobody /\ closing = <<>>
  /\ handler' = Nobody
  /\ clients' = IF handler.sig = "connect" THEN Append(clients, handler.client)
                                          ELSE clients
  /\ UNCHANGED <<peers, inbox, connection, pc, todo, re, closers, got>>

\* The handlers have returned, and the idle function goes on.
Return ==
  /\ pc # "dead" /\ handler # Nobody /\ closing = <<>>
  /\ handler' = Nobody
  /\ CASE handler.sig = "connect" -> clients' = Append(clients, handler.client)
       [] handler.sig = "read"    -> UNCHANGED clients
       [] handler.sig = "disconnect" ->
            \E i \in DOMAIN clients :
              clients[i] = handler.client /\ clients' = RemoveAt(clients, i)
  /\ UNCHANGED <<peers, inbox, connection, pc, todo, re, closers, got>>

----------------------------------------------------------------------------
(* User code: handlers, and what runs between two turns.                   *)

\* A handler reads from the client its signal is about.
Read(c) ==
  /\ pc # "dead" /\ closing = <<>>
  /\ handler \in {[sig |-> "connect", client |-> c], [sig |-> "read", client |-> c]}
  /\ resource[c] = "open" /\ inbox[c] # <<>>
  /\ got' = [got EXCEPT ![c] = @ \o inbox[c]]
  /\ inbox' = [inbox EXCEPT ![c] = <<>>]
  /\ attempted' = [attempted EXCEPT ![c] = Attempted(c)]
  /\ UNCHANGED <<peers, resource, read_buffer, turn, handler, closers>>

\* A read that would block, or that fails.
ReadNothing(c) ==
  /\ pc # "dead" /\ closing = <<>>
  /\ handler \in {[sig |-> "connect", client |-> c], [sig |-> "read", client |-> c]}
  /\ resource[c] = "open" /\ inbox[c] = <<>>
  /\ attempted' = [attempted EXCEPT ![c] = Attempted(c)]
  /\ UNCHANGED <<peers, inbox, resource, read_buffer, turn, handler, closers, got>>

\* (Mutant) the resource is set to NULL.
disconnect_Null(c) ==
  /\ pc = "loop" \/ (pc # "dead" /\ handler # Nobody)
  /\ resource[c] # "none" /\ closes < MaxCloses
  /\ resource' = [resource EXCEPT ![c] = NULL]
  /\ inbox' = [inbox EXCEPT ![c] = <<>>]
  /\ closing' = Append(closing, c)
  /\ closes' = closes + 1
  /\ UNCHANGED <<peers, read_buffer, attempted, turn, handler, guarded, got>>

\* User code closes a connection, which may be closed already, and emits the
\* SIG_Disconnect of no connection in particular.  The processes on that one run
\* in the middle of the handlers that are running, and may do the same.
disconnect(c) ==
  /\ pc = "loop" \/ (pc # "dead" /\ handler # Nobody)
  /\ resource[c] # "none" /\ closes < MaxCloses
  /\ resource' = [resource EXCEPT ![c] = "closed"]
  /\ inbox' = [inbox EXCEPT ![c] = <<>>]
  /\ closing' = Append(closing, c)
  /\ closes' = closes + 1
  /\ UNCHANGED <<peers, read_buffer, attempted, turn, handler, guarded, got>>

\* A process returns FALSE, which halts the signal, and disconnect() returns.
Disconnected ==
  /\ pc # "dead" /\ closing # <<>> /\ guarded
  /\ closing' = Front(closing)
  /\ UNCHANGED <<peers, inbox, connection, turn, handler, closes, guarded, got>>

\* The module's own process is the last one, and its function does not exist.
DisconnectFails ==
  /\ pc # "dead" /\ closing # <<>> /\ ~guarded
  /\ pc' = "dead"
  /\ UNCHANGED <<peers, inbox, connection, clients, todo, re, handler, closers, got>>

Step == \/ TurnStart \/ Select \/ ServeConnect \/ TurnEnd \/ Return
        \/ Disconnected \/ DisconnectFails
        \/ \E c \in Clients : CheckConnected(c) \/ CheckGone(c) \/ ServeRead(c)

User == \E c \in Clients : Read(c) \/ ReadNothing(c) \/ disconnect(c)

Peers == pc # "dead" /\ \E c \in Clients : Arrive(c) \/ Send(c) \/ Shut(c) \/ Reset(c)

Next == Step \/ AcceptFails \/ User \/ Peers

Spec == Init /\ [][Next]_vars

\* PHP executes and handlers return; of a client that can be read again and
\* again, the handlers of SIG_Read read some time.
FairSpec == Spec /\ WF_vars(Step) /\ \A c \in Clients : SF_vars(Read(c))

----------------------------------------------------------------------------

TypeOK ==
  /\ peer \in [Clients -> {"away", "open", "shut", "reset"}]
  /\ backlog \in Seq(Clients)
  /\ inbox \in [Clients -> Seq(Nat)]
  /\ resource \in [Clients -> {"none", "open", "closed"}]
  /\ read_buffer \in [Clients -> Seq(Nat) \cup {NULL}]
  /\ attempted \in [Clients -> Nat]
  /\ clients \in Seq(Clients)
  /\ pc \in {"loop", "check", "serve", "dead"}
  /\ todo \subseteq Clients /\ re \subseteq Clients \cup {Server}
  /\ handler \in Signals \cup {Nobody}
  /\ closing \in Seq(Clients) /\ closes \in Nat /\ guarded \in BOOLEAN
  /\ sent \in [Clients -> Nat] /\ got \in [Clients -> Seq(Nat)]

Buffered(c) == IF read_buffer[c] = NULL THEN <<>> ELSE read_buffer[c]

\* Of what a client has sent, its handlers read everything, in order and once,
\* but for one stretch at most: what a turn found before its handlers did and
\* took into the buffer that nobody reads (Connection::is_connected).
OneSwallow ==
  \A c \in Clients :
    resource[c] # "closed" /\ peer[c] # "reset" =>
      \E k \in 0..Len(got[c]) :
        SubSeq(got[c], 1, k) \o Buffered(c) \o SubSeq(got[c], k + 1, Len(got[c]))
          \o inbox[c] = [n \in 1..sent[c] |-> n]

\* A client leaves the list only when one of the two ends is closed, however
\* long it says nothing (Connection::read, is_connected): ten empty reads would
\* do it, were they counted.
KeptWhileOpen ==
  [][\A c \in Range(clients) \ Range(clients') :
       peer[c] # "open" \/ resource[c] = "closed"]_vars

seen      == {c \in Clients : resource[c] # "none"}
connected == Range(clients)
closed    == {c \in Clients : resource[c] = "closed"}
announced == IF pc = "serve" THEN re \ {Server} ELSE {}

S == INSTANCE Session WITH handled <- handler

\* The two loops of the idle function, with handlers that close any client in
\* any of them and handlers of those closings that close others, emit to each
\* client what a server is promised, with the SIG_Disconnect that disconnect()
\* emits nested in them: a client closed by a handler is read from once more at
\* most, in the same turn, and gets a SIG_Disconnect of its own besides.
SessionSpec == S!Spec

\* A client whose peer has gone, or that a handler has closed, is taken off the
\* list in the end, also when it has left something to be read or was added
\* when it was closed already.
GoneNoticed ==
  \A c \in Clients :
    ((peer[c] # "open" \/ resource[c] = "closed") /\ c \in connected)
      ~> (c \notin connected \/ pc = "dead")
=============================================================================

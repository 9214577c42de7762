------------------------------ MODULE Session ------------------------------
(***************************************************************************)
(* What a server on a socket is promised (network\Socket::on_connect,      *)
(* on_read, on_disconnect).  Each client connects once.  It is read from   *)
(* when the socket has announced it, which it does only of clients that    *)
(* are connected and open: a closed one is read from once more at most.    *)
(* Its own SIG_Disconnect is emitted once, and it is disconnected then.    *)
(* These signals come one at a time; in the middle of the handlers of any  *)
(* of them, of other SIG_Disconnects of this kind, or between two signals, *)
(* closing a connection emits the SIG_Disconnect that is nobody's own.     *)
(***************************************************************************)
EXTENDS Integers, Sequences

CONSTANTS Clients, Nobody

VARIABLES seen,       \* clients that have connected, ever
          connected,  \* clients that are connected
          closed,     \* clients whose connection the program has closed
          announced,  \* clients to be read from
          handled,    \* the client's own signal whose handlers run: [sig, client]
          closing     \* connections whose common SIG_Disconnect is handled

session == <<seen, connected, closed, announced, handled, closing>>

Init == /\ seen = {} /\ connected = {} /\ closed = {} /\ announced = {}
        /\ handled = Nobody /\ closing = <<>>

Silent == handled = Nobody /\ closing = <<>>

Signal(sig, c) ==
  /\ Silent
  /\ handled' = [sig |-> sig, client |-> c]
  /\ UNCHANGED <<connected, closed, closing>>

Connect(c) ==
  /\ Signal("connect", c)
  /\ c \notin seen /\ seen' = seen \cup {c}
  /\ UNCHANGED announced

Announce(C) ==
  /\ Silent /\ announced = {}
  /\ C \subseteq connected \ closed
  /\ announced' = C
  /\ UNCHANGED <<seen, connected, closed, handled, closing>>

Read(c) ==
  /\ Signal("read", c)
  /\ c \in announced /\ announced' = announced \ {c}
  /\ UNCHANGED seen

Disconnect(c) ==
  /\ Signal("disconnect", c)
  /\ c \in connected /\ announced = {}
  /\ UNCHANGED <<seen, announced>>

Return ==
  /\ handled # Nobody /\ closing = <<>>
  /\ handled' = Nobody
  /\ connected' = CASE handled.sig = "connect"    -> connected \cup {handled.client}
                    [] handled.sig = "disconnect" -> connected \ {handled.client}
                    [] OTHER                      -> connected
  /\ UNCHANGED <<seen, closed, announced, closing>>

\* Closing a connection again emits the signal again.
Close(c) ==
  /\ c \in seen /\ closed' = closed \cup {c}
  /\ closing' = Append(closing, c)
  /\ UNCHANGED <<seen, connected, announced, handled>>

Closed ==
  /\ closing # <<>>
  /\ closing' = SubSeq(closing, 1, Len(closing) - 1)
  /\ UNCHANGED <<seen, connected, closed, announced, handled>>

\* The program ends, and reads no more.
End == announced' = {} /\ UNCHANGED <<seen, connected, closed, handled, closing>>

Next ==
  \/ Return \/ Closed \/ End
  \/ \E c \in Clients : Connect(c) \/ Read(c) \/ Disconnect(c) \/ Close(c)
  \/ \E C \in SUBSET Clients : Announce(C)

Spec == Init /\ [][Next]_session
=============================================================================

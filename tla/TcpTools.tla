------------------------------ MODULE TcpTools ------------------------------
(***************************************************************************)
(* The TCP tools of robot programs, DR_tcp_server2.py and                  *)
(* DR_tcp_client2.py: one program, single-threaded, with connections it    *)
(* accepted as a server and connections it made as a client.               *)
(*                                                                         *)
(* A connection is known by its socket object.  A module keeps those that  *)
(* are open in CONN_LIST, and in CONN_STATE_LIST whether the peer is       *)
(* thought to be there.                                                    *)
(*                                                                         *)
(* The peers and the network are the environment: a peer sends at any      *)
(* time, reads or does not, closes its end, or the connection breaks.      *)
(* Bytes are counted, not told apart.  All servers here have the same      *)
(* port: on different ports they have nothing to do with each other.  A    *)
(* socket is passed to the functions of the module that opened it, but for *)
(* the two that close one.                                                 *)
(***************************************************************************)
EXTENDS Integers

CONSTANTS
  Servers, Clients,  \* socket objects that server_socket_open and client_socket_open make
  NoSock,            \* something that is no socket
  MaxBytes,          \* bound on what waits in a socket's buffer
  Tries              \* time limits of a read in units of COMM_TIMEOUT (0.01 s); 0 and 1 are alike

ASSUME TcpAssumption ==
  /\ Servers \cap Clients = {} /\ NoSock \notin Servers \cup Clients
  /\ MaxBytes \in Nat \ {0} /\ Tries \subseteq Nat

Socks == Servers \cup Clients
Forever == -1  \* no time limit, no length

VARIABLES
  conn,     \* the keys of CONN_LIST
  state,    \* CONN_STATE_LIST: connection to 1 or 0
  socket,   \* each connection is "none", "open" or "closed"
  halfOpen, \* open sockets beside: a server's to listen, a client's before it is connected
  peer,     \* a connection's other end is "open", "closed" or "broken"
  buffer,   \* the bytes that have arrived and have not been read
  full,     \* the connections that take no more bytes until the peer reads
  op,       \* the function that is under way
  result,   \* what the last one returned, or raised: "DR_Error" or another "exception"
  emptied,  \* history: connections from which a read of no bytes was asked
  torn      \* history: entries of CONN_LIST on which a close ended with an exception

lists == <<conn, state, torn>>
network == <<socket, halfOpen, peer, buffer, full>>
tcpVars == <<lists, network, op, result, emptied>>

Op(name, s, length, limit) == [name |-> name, sock |-> s, length |-> length, limit |-> limit, tries |-> 0]
NoOp == Op("none", NoSock, 0, 0)

TcpInit ==
  /\ conn = {} /\ state = [s \in {} |-> 0]
  /\ socket = [s \in Socks |-> "none"] /\ halfOpen = {}
  /\ peer = [s \in Socks |-> "open"]
  /\ buffer = [s \in Socks |-> 0] /\ full = {}
  /\ op = NoOp /\ result = "none" /\ emptied = {} /\ torn = {}

-----------------------------------------------------------------------------
(* How a function begins and ends                                          *)

Begin(o) == op = NoOp /\ op' = o /\ result' = "none" /\ UNCHANGED <<lists, network, emptied>>
Return(r) == op' = NoOp /\ result' = r

\* A function that is over at once, without a change
Immediate(r) == op = NoOp /\ Return(r) /\ UNCHANGED <<lists, network, emptied>>

Forget(S) ==
  /\ conn' = conn \ S
  /\ state' = [s \in conn' |-> state[s]]

\* What has not been read is lost.
CloseSockets(S) ==
  /\ socket' = [s \in Socks |-> IF s \in S THEN "closed" ELSE socket[s]]
  /\ buffer' = [s \in Socks |-> IF s \in S THEN 0 ELSE buffer[s]]
  /\ peer' = [s \in Socks |-> IF s \in S THEN "closed" ELSE peer[s]]
  /\ full' = full \ S

SetState(s, x) == state' = [state EXCEPT ![s] = x]

-----------------------------------------------------------------------------
(* open and close                                                          *)

\* NoSock stands for a port that is refused, of a wrong type, negative or the
\* TP's, and for one that is too large, which bind and connect raise at.
server_socket_open(s) ==
  \/ s = NoSock /\ (Immediate("DR_Error") \/ Immediate("exception"))
  \/ s \in Servers /\ socket[s] = "none" /\ Begin(Op("open", s, 0, 0))

client_socket_open(s) ==
  \/ s = NoSock /\ (Immediate("DR_Error") \/ Immediate("exception"))
  \/ s \in Clients /\ socket[s] = "none" /\ Begin(Op("open", s, 0, 0))

\* A try makes a socket to listen or to connect with.
SocketMade ==
  /\ op.name = "open"
  /\ op' = [op EXCEPT !.name = "connecting"] /\ halfOpen' = halfOpen \cup {op.sock}
  /\ UNCHANGED <<lists, socket, peer, buffer, full, result, emptied>>

\* Without one, the handler of the first error has no socket to print.
NoneMade ==
  /\ op.name = "open" /\ op.tries = 0 /\ Return("exception")
  /\ UNCHANGED <<lists, network, emptied>>

\* The socket is left to the next try.
InVainVariant ==
  /\ op.name = "connecting"
  /\ op' = [op EXCEPT !.name = "open", !.tries = 1]
  /\ UNCHANGED <<lists, network, result, emptied>>

\* The port is not free, or nobody is at the other end: the socket is closed and
\* the next try begins, for ever.
InVain ==
  /\ op.name = "connecting"
  /\ op' = [op EXCEPT !.name = "open", !.tries = 1] /\ halfOpen' = halfOpen \ {op.sock}
  /\ UNCHANGED <<lists, socket, peer, buffer, full, result, emptied>>

\* The port is another listening socket's until that is closed.
PortIsFree == halfOpen \cap Servers \subseteq {op.sock}

\* A server's listening socket stays open beside the connection.
Established ==
  /\ op.name = "connecting" /\ (op.sock \in Servers => PortIsFree)
  /\ socket' = [socket EXCEPT ![op.sock] = "open"]
  /\ halfOpen' = halfOpen \ Clients
  /\ peer' = [peer EXCEPT ![op.sock] = "open"]
  /\ buffer' = [buffer EXCEPT ![op.sock] = 0]
  /\ conn' = conn \cup {op.sock}
  /\ state' = [s \in conn' |-> IF s = op.sock THEN 1 ELSE state[s]]
  /\ Return("socket")
  /\ UNCHANGED <<full, emptied, torn>>

\* The entries of done, each with its one or two sockets
Closed(done) ==
  /\ CloseSockets(done) /\ halfOpen' = halfOpen \ done
  /\ Forget(done) /\ torn' = torn \ done /\ emptied' = emptied \ done

\* Those of done are closed, then the system reports an error for s: the close
\* of the connection raises, or that of the listening socket after it.  Either is
\* closed all the same, and the entry stays.
CloseRaises(done, s) ==
  /\ s \in conn \ done
  /\ \/ socket[s] = "open" /\ halfOpen' = halfOpen \ done
     \/ s \in halfOpen /\ halfOpen' = halfOpen \ (done \cup {s})
  /\ CloseSockets(done \cup {s})
  /\ Forget(done) /\ torn' = (torn \ done) \cup {s} /\ emptied' = emptied \ done

server_socket_close(s) ==
  \/ s = NoSock /\ Immediate("DR_Error")
  \/ s \in Socks \ (conn \cap Servers) /\ Immediate("-1")
  \/ /\ s \in Servers \cap conn /\ op = NoOp
     /\ \/ Closed({s}) /\ Return("0")
        \/ CloseRaises({}, s) /\ Return("DR_Error")

\* The list is looked at only after the socket is closed: one that a server
\* accepted, too, is closed before its entry is missed.
client_socket_close(s) ==
  \/ s = NoSock /\ Immediate("DR_Error")
  \/ s \in Socks \ conn /\ Immediate("exception")
  \/ /\ s \in Clients \cap conn /\ op = NoOp
     /\ \/ Closed({s}) /\ Return("0")
        \/ CloseRaises({}, s) /\ Return("DR_Error")
  \/ /\ s \in Servers \cap conn /\ op = NoOp
     /\ CloseSockets({s}) /\ torn' = torn \cup {s}
     /\ Return("exception") \/ (socket[s] = "open" /\ Return("DR_Error"))
     /\ UNCHANGED <<conn, state, halfOpen, emptied>>

\* A close that raises ends the loop.
CloseAll(S, error) ==
  /\ op = NoOp
  /\ \/ Closed(S \cap conn) /\ Return("None")
     \/ \E done \in SUBSET (S \cap conn), s \in S : CloseRaises(done, s) /\ Return(error)

clean_server_socket == CloseAll(Servers, "exception")
clean_client_socket == CloseAll(Clients, "DR_Error")

\* The program drops a socket that is closed; unless CONN_LIST holds it, its id
\* is free for a new one.
Drop(s) ==
  /\ op = NoOp /\ socket[s] = "closed" /\ s \notin conn
  /\ socket' = [socket EXCEPT ![s] = "none"]
  /\ UNCHANGED <<lists, halfOpen, peer, buffer, full, op, result, emptied>>

-----------------------------------------------------------------------------
(* The state, and the end of a message                                     *)

socket_state(s) ==
  Immediate(IF s \in conn THEN (IF state[s] = 1 THEN "connected" ELSE "disconnected")
            ELSE "disconnected")

\* END_DATA, where the text is kept, is left out: write never finds it, as the
\* server stores it under another key and the client does not look for it.
socket_end_data(s) == Immediate(IF s = NoSock THEN "DR_Error" ELSE "0")

-----------------------------------------------------------------------------
(* write, read and flush                                                   *)

\* A write may succeed when the peer has closed already, and leave no room for
\* more; it fails with part of the data sent when there is no room for
\* COMM_TIMEOUT, and on a socket that is closed.
socket_write(s) ==
  \/ s = NoSock /\ Immediate("DR_Error")
  \/ s \in Socks \ conn /\ Immediate("-1")
  \/ s \in conn /\ socket[s] = "closed" /\ Immediate("-2")
  \/ /\ s \in conn /\ socket[s] = "open" /\ op = NoOp
     /\ \/ /\ peer[s] # "broken" /\ UNCHANGED peer
           /\ \/ full' \in {full, full \cup {s}} /\ Return("0")
              \/ full' = full \cup {s} /\ Return("-2")
        \/ /\ peer[s] = "broken" /\ peer' = [peer EXCEPT ![s] = "closed"]
           /\ UNCHANGED full /\ Return("-2")
     /\ UNCHANGED <<lists, socket, halfOpen, buffer, emptied>>

\* Here, too, NoSock stands for any argument that is refused.  recv raises on a
\* socket that is closed, unless it is asked for nothing.
socket_read(s, length, limit) ==
  \/ s = NoSock /\ Immediate("DR_Error")
  \/ s \in Socks \ conn /\ Immediate("-1")
  \/ s \in conn /\ socket[s] = "closed" /\ length # 0 /\ Immediate("-2")
  \/ s \in conn /\ (socket[s] = "open" \/ length = 0) /\ Begin(Op("read", s, length, limit))

Reading == op.name = "read"
Flushing == op.name = "flush"

\* recv with something to read
Received ==
  /\ Reading /\ buffer[op.sock] > 0 /\ op.length # 0
  /\ \E n \in 1..(IF op.length = Forever THEN buffer[op.sock] ELSE op.length) :
       /\ n <= buffer[op.sock]
       /\ buffer' = [buffer EXCEPT ![op.sock] = @ - n]
  /\ Return("data")
  /\ UNCHANGED <<lists, socket, halfOpen, peer, full, emptied>>

\* Nothing to read is taken for the end.
NothingReceivedVariant ==
  /\ Reading /\ buffer[op.sock] = 0 /\ op.limit # Forever
  /\ SetState(op.sock, 0) /\ Return("-1")
  /\ UNCHANGED <<conn, torn, network, emptied>>

\* recv returns nothing: the peer has closed its end, or nothing was asked for.
NothingReceived ==
  /\ Reading
  /\ \/ op.length = 0 /\ emptied' = emptied \cup {op.sock}
     \/ buffer[op.sock] = 0 /\ peer[op.sock] = "closed" /\ UNCHANGED emptied
  /\ SetState(op.sock, 0) /\ Return("-1")
  /\ UNCHANGED <<conn, torn, network>>

\* The error of a flush is not caught, and the loop goes on.
BrokenVariant ==
  /\ Reading /\ op.length # 0 /\ peer[op.sock] = "broken"
  /\ peer' = [peer EXCEPT ![op.sock] = "closed"]
  /\ Return("-2")
  /\ UNCHANGED <<lists, socket, halfOpen, buffer, full, emptied>>

\* An error is reported once; after it the peer is gone.
Broken ==
  /\ Flushing \/ (Reading /\ op.length # 0)
  /\ peer[op.sock] = "broken"
  /\ peer' = [peer EXCEPT ![op.sock] = "closed"]
  /\ Return("-2")
  /\ UNCHANGED <<lists, socket, halfOpen, buffer, full, emptied>>

Silent(s) == buffer[s] = 0 /\ peer[s] = "open"

\* The limit is compared without having counted the try.
TimedOutVariant ==
  /\ Reading /\ op.length # 0 /\ Silent(op.sock) /\ op.limit # Forever
  /\ op.tries >= op.limit /\ Return("-3")
  /\ UNCHANGED <<lists, network, emptied>>

\* COMM_TIMEOUT passes.  Without a limit it is tried again, for ever.
TimedOut ==
  /\ Reading /\ op.length # 0 /\ Silent(op.sock) /\ op.limit # Forever
  /\ IF op.tries + 1 >= op.limit
     THEN Return("-3")
     ELSE op' = [op EXCEPT !.tries = @ + 1] /\ UNCHANGED result
  /\ UNCHANGED <<lists, network, emptied>>

socket_flush(s) ==
  \/ s = NoSock /\ Immediate("DR_Error")
  \/ s \in Socks \ conn /\ Immediate("-1")
  \/ s \in conn /\ socket[s] = "closed" /\ Immediate("exception")
  \/ s \in conn /\ socket[s] = "open" /\ Begin(Op("flush", s, 0, 0))

\* A socket whose peer has closed its end is always ready to be read.
Discard ==
  /\ Flushing /\ buffer[op.sock] > 0
  /\ buffer' = [buffer EXCEPT ![op.sock] = 0]
  /\ UNCHANGED <<lists, socket, halfOpen, peer, full, op, result, emptied>>

\* select reports a condition that is neither: urgent data.
SelectError ==
  /\ Flushing /\ peer[op.sock] = "open" /\ Return("-3")
  /\ UNCHANGED <<lists, network, emptied>>

\* Nothing is there to be read and there is room to write: until then the loop
\* goes on.
Flushed ==
  /\ Flushing /\ Silent(op.sock) /\ op.sock \notin full /\ Return("0")
  /\ UNCHANGED <<lists, network, emptied>>

-----------------------------------------------------------------------------
(* The other ends                                                          *)

Send(s) ==
  /\ socket[s] = "open" /\ peer[s] = "open" /\ buffer[s] < MaxBytes
  /\ \E n \in 1..MaxBytes - buffer[s] : buffer' = [buffer EXCEPT ![s] = @ + n]
  /\ UNCHANGED <<lists, socket, halfOpen, peer, full, op, result, emptied>>

\* The peer, or its buffer, takes what was written.
Drains(s) ==
  /\ s \in full /\ peer[s] # "broken"
  /\ full' = full \ {s}
  /\ UNCHANGED <<lists, socket, halfOpen, peer, buffer, op, result, emptied>>

PeerCloses(s) ==
  /\ socket[s] = "open" /\ peer[s] = "open"
  /\ peer' = [peer EXCEPT ![s] = "closed"]
  /\ UNCHANGED <<lists, socket, halfOpen, buffer, full, op, result, emptied>>

\* What has not been read is lost.
Breaks(s) ==
  /\ socket[s] = "open" /\ peer[s] # "broken"
  /\ peer' = [peer EXCEPT ![s] = "broken"]
  /\ buffer' = [buffer EXCEPT ![s] = 0]
  /\ UNCHANGED <<lists, socket, halfOpen, full, op, result, emptied>>

-----------------------------------------------------------------------------
Lengths == {Forever} \cup 0..1
Limits == {Forever} \cup Tries

Calls ==
  \/ \E s \in Servers \cup {NoSock} : server_socket_open(s)
  \/ \E s \in Clients \cup {NoSock} : client_socket_open(s)
  \/ \E s \in Socks \cup {NoSock} : server_socket_close(s) \/ client_socket_close(s)
  \/ clean_server_socket \/ clean_client_socket
  \/ \E s \in Socks : Drop(s)
  \/ \E s \in Socks \cup {NoSock} :
       \/ socket_state(s) \/ socket_end_data(s) \/ socket_write(s) \/ socket_flush(s)
       \/ \E length \in Lengths, limit \in Limits : socket_read(s, length, limit)

\* The steps of a function that is under way and can go on without the network
Progress == Received \/ NothingReceived \/ Broken \/ TimedOut \/ Discard \/ Flushed

Opening == SocketMade \/ NoneMade \/ InVain \/ Established

Environment == \E s \in Socks : Send(s) \/ Drains(s) \/ PeerCloses(s) \/ Breaks(s)

TcpNext == Calls \/ Opening \/ Progress \/ SelectError \/ Environment

TcpSpec == TcpInit /\ [][TcpNext]_tcpVars

\* The program is never held up for good.  Nobody need connect, send or close.
TcpFairSpec == TcpSpec /\ WF_tcpVars(Progress)

-----------------------------------------------------------------------------
(* Properties                                                              *)

TcpTypeOK ==
  /\ conn \subseteq Socks /\ torn \subseteq conn /\ emptied \subseteq Socks
  /\ state \in [conn -> {0, 1}]
  /\ socket \in [Socks -> {"none", "open", "closed"}]
  /\ halfOpen \subseteq Socks /\ full \subseteq Socks
  /\ peer \in [Socks -> {"open", "closed", "broken"}]
  /\ buffer \in [Socks -> 0..MaxBytes]
  /\ op \in [name : {"none", "open", "connecting", "read", "flush"}, sock : Socks \cup {NoSock},
             length : Lengths, limit : Limits \cup {0}, tries : Nat]
  /\ op.name # "none" => op.sock \in Socks
  /\ op.name \in {"read", "flush"} => op.sock \in conn
  /\ result \in {"none", "socket", "data", "connected", "disconnected", "None",
                 "0", "-1", "-2", "-3", "DR_Error", "exception"}

(***************************************************************************)
(* The lists and the sockets agree.  An open connection is in CONN_LIST,   *)
(* so that clean finds it.  A socket to listen or to connect with is that  *)
(* of a connection in the list, or of the try that is under way: none is   *)
(* left over that nobody can close, whose port no server can ever bind.    *)
(* And what is in the list is open, so that no function works on a closed  *)
(* socket - except where a close raised, which leaves the entry to be      *)
(* closed again, or was asked of the client's module for a server's        *)
(* socket.                                                                 *)
(***************************************************************************)
ListsTellSockets ==
  /\ \A s \in Socks : socket[s] = "open" => s \in conn
  /\ \A s \in halfOpen : s \in conn \/ (op.name = "connecting" /\ s = op.sock)
  /\ \A s \in conn : socket[s] = "open" \/ s \in torn

(***************************************************************************)
(* A connection is never reported as gone while the peer is there, unless  *)
(* it was asked for no bytes, which recv answers as it does a close.       *)
(***************************************************************************)
GoneIsGone ==
  \A s \in conn : state[s] = 0 /\ s \notin emptied => peer[s] # "open"

(***************************************************************************)
(* A read with a time limit ends whatever the peer does, and one without   *)
(* ends when there is something to read or the peer is gone.               *)
(***************************************************************************)
ReadEnds ==
  (Reading /\ (op.limit # Forever \/ ~ Silent(op.sock))) ~> ~ Reading

(***************************************************************************)
(* A flush ends once the peer has stopped sending, if the peer stays and   *)
(* there is room to write, or if the connection breaks.  Two exceptions    *)
(* remain: when the peer closes its end the socket is ready to be read for *)
(* ever, and when it stays without reading, a full socket is never ready   *)
(* to be written to.                                                       *)
(***************************************************************************)
FlushEnds ==
  (<>[][\A s \in Socks : ~ Send(s)]_tcpVars) =>
    [](Flushing => <>(~ Flushing \/ peer[op.sock] = "closed" \/ op.sock \in full))

=============================================================================

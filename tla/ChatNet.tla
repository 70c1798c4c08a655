---- MODULE ChatNet ----
(***************************************************************************)
(* The sockets between the chat's server and its clients: what the kernel  *)
(* does for the calls of chat_server.c and chat_client.c.  Only the way to *)
(* the server carries data, because the server never writes.               *)
(***************************************************************************)
EXTENDS Integers, Sequences, FiniteSets, SequencesExt

CONSTANTS
    Conns,       \* the connections that may be made
    Foreign,     \* of them, those made by programs that are not this client
    Ports,       \* the ports the server may be asked to listen on, 0 excepted
    Bytes,       \* the values of a byte
    MaxBytes     \* bound: how many bytes a connection carries

Listeners == 1..2            \* bound: chat_server_listen() is called twice
NoSocket == 0
NoPort == 0

ASSUME NetAssumption ==
    /\ Conns \intersect Listeners = {}
    /\ Foreign \subseteq Conns
    /\ NoPort \notin Ports
    /\ MaxBytes \in Nat

VARIABLES
    port,        \* of a listening socket, or NoPort
    backlog,     \* the connections that wait to be accepted by a listening socket
    conn,        \* "free", "queued", "accepted" or "dead"
    sent,        \* all the client has written to a connection
    wire,        \* of that, what the server has not read
    hup          \* the connections whose client has closed them

net == <<port, backlog, conn, sent, wire, hup>>

Strings(bytes, n) == UNION {[1..k -> bytes] : k \in 0..n}

NetInit ==
    /\ port = [l \in Listeners |-> NoPort]
    /\ backlog = [l \in Listeners |-> <<>>]
    /\ conn = [k \in Conns |-> "free"]
    /\ sent = [k \in Conns |-> <<>>]
    /\ wire = [k \in Conns |-> <<>>]
    /\ hup = {}

(* connect() to port p. *)
Connects(k, p) ==
    /\ conn[k] = "free"
    /\ \E l \in Listeners :
          /\ port[l] = p
          /\ backlog' = [backlog EXCEPT ![l] = Append(@, k)]
          /\ conn' = [conn EXCEPT ![k] = "queued"]
    /\ UNCHANGED <<port, sent, wire, hup>>

(* A connection in progress that nobody will accept. *)
Refused(k, p) ==
    /\ conn[k] = "free"
    /\ \A l \in Listeners : port[l] # p
    /\ conn' = [conn EXCEPT ![k] = "dead"]
    /\ UNCHANGED <<port, backlog, sent, wire, hup>>

Sends(k, data) ==
    /\ conn[k] \in {"queued", "accepted"}
    /\ k \notin hup
    /\ Len(sent[k]) + Len(data) <= MaxBytes
    /\ sent' = [sent EXCEPT ![k] = @ \o data]
    /\ wire' = [wire EXCEPT ![k] = @ \o data]
    /\ UNCHANGED <<port, backlog, conn, hup>>

Closes(k) ==
    /\ hup' = hup \union {k}
    /\ UNCHANGED <<port, backlog, conn, sent, wire>>

(* The listening socket l is closed: nobody accepts what is in its queue. *)
CloseListener(l) ==
    /\ port' = [port EXCEPT ![l] = NoPort]
    /\ conn' = [k \in Conns |-> IF k \in ToSet(backlog[l]) THEN "dead" ELSE conn[k]]
    /\ backlog' = [backlog EXCEPT ![l] = <<>>]
    /\ UNCHANGED <<sent, wire, hup>>

(* The server's process ends, and its sockets with it. *)
CloseAll ==
    /\ port' = [l \in Listeners |-> NoPort]
    /\ conn' = [k \in Conns |-> IF conn[k] = "free" THEN "free" ELSE "dead"]
    /\ backlog' = [l \in Listeners |-> <<>>]
    /\ UNCHANGED <<sent, hup>>
====

---- MODULE ChatServer ----
(***************************************************************************)
(* The chat server (chat_server.c): it accepts connections, reads what     *)
(* they carry and cuts it into messages, each with its length before it.   *)
(* chat_server_update() is one step for poll(), one for accept() and one   *)
(* for each read(), so that clients may act in between.                    *)
(***************************************************************************)
EXTENDS ChatNet

CONSTANTS
    PrefixSize,  \* sizeof(uint32_t)
    ReadSize,    \* the size of the buffer of line 240
    FirstPeers   \* how many peers there is room for at first, line 85

ASSUME SizesAssumption ==
    PrefixSize \in Nat \ {0} /\ ReadSize \in Nat \ {0} /\ FirstPeers \in Nat \ {0}

VARIABLES
    server,      \* "live", "deleted" or "crashed"
    server_socket, is_started, peers, peer_size,
    messages, total_messages,
    pc,          \* "idle", "accept" or "scan": where chat_server_update() is
    revents      \* the indices of peers whose revents has POLLIN

serverVars ==
    <<server, server_socket, is_started, peers, peer_size, messages, total_messages, pc, revents>>

(* chat_server_new(), lines 72-94: room for no message is recorded. *)
ServerInit ==
    /\ server = "live"
    /\ server_socket = NoSocket
    /\ is_started = FALSE
    /\ peers = <<>> /\ peer_size = FirstPeers
    /\ messages = <<>>
    /\ total_messages = 0
    /\ pc = "idle"
    /\ revents = {}

(* chat_server_delete(), lines 96-109: the peers' sockets stay open. *)
chat_server_delete ==
    /\ server = "live" /\ pc = "idle"
    /\ server' = "deleted"
    /\ IF server_socket = NoSocket THEN UNCHANGED net ELSE CloseListener(server_socket)
    /\ UNCHANGED <<server_socket, is_started, peers, peer_size, messages, total_messages, pc,
                   revents>>

Crash ==
    /\ server' = "crashed"
    /\ CloseAll
    /\ pc' = "idle"
    /\ revents' = {}
    /\ UNCHANGED <<server_socket, is_started, peer_size, messages, total_messages>>

(* chat_server_listen(), lines 111-154.  Nothing asks whether the server   *)
(* listens already; the socket is replaced even when bind() fails, and     *)
(* peer 0 stays what it was.  Nor does anything ask for room for the peer. *)
chat_server_listen(p) ==
    /\ server = "live" /\ pc = "idle"
    /\ server_socket + 1 \in Listeners
    /\ server_socket' = server_socket + 1
    /\ IF \E l \in Listeners : port[l] = p
       THEN UNCHANGED <<net, is_started, peers>>
       ELSE /\ port' = [port EXCEPT ![server_socket + 1] = p]
            /\ peers' = Append(peers, [socket |-> server_socket + 1,
                                       input |-> <<>>, input_size |-> 1])
            /\ is_started' = TRUE
            /\ UNCHANGED <<backlog, conn, sent, wire, hup>>
    /\ UNCHANGED <<server, peer_size, messages, total_messages, pc, revents>>

(* poll()'s POLLIN for socket s. *)
Readable(s) ==
    IF s \in Listeners THEN backlog[s] # <<>>
    ELSE wire[s] # <<>> \/ s \in hup

(* Lines 183-209, up to the return of poll().  When nothing is ready the   *)
(* call waits or times out, and nothing changes.                           *)
updatePoll ==
    /\ server = "live" /\ pc = "idle" /\ is_started
    /\ revents' = {i \in 1..Len(peers) : Readable(peers[i].socket)}
    /\ revents' # {}
    /\ pc' = IF 1 \in revents' THEN "accept" ELSE "scan"
    /\ UNCHANGED <<net, server, server_socket, is_started, peers, peer_size, messages,
                   total_messages>>

(* Line 189 writes one entry past the array.  malloc() rounds up, so that  *)
(* the entry is spare memory, but for odd counts from 3: there it is the   *)
(* header of the next block, and a later call of the allocator may abort.  *)
updateOverrun ==
    /\ server = "live" /\ pc = "idle" /\ is_started
    /\ Len(peers) >= 3 /\ Len(peers) % 2 = 1
    /\ Crash
    /\ UNCHANGED <<wire, peers>>

(* Lines 141-150 fill the entry after the last even when the array is full,*)
(* and then lines 221-232 do so, too: they only make room when the array   *)
(* is full to the last entry.  What lies there may be spare, and the       *)
(* server goes on; or a later call of the allocator may abort.             *)
peersOverrun ==
    /\ server = "live"
    /\ \/ /\ pc = "idle"
          /\ server_socket + 1 \in Listeners
          /\ \E p \in Ports : \A l \in Listeners : port[l] # p
          /\ Len(peers) >= peer_size
       \/ /\ pc = "accept"
          /\ port[server_socket] # NoPort /\ backlog[server_socket] # <<>>
          /\ Len(peers) > peer_size
    /\ Crash
    /\ UNCHANGED <<wire, peers>>

BugSpareSet(ready, n) == ready \union {n + 1}

(* The spare entry was cleared by calloc(): line 238 finds no event for a  *)
(* peer that was accepted by this very call.                               *)
AfterAccept(ready, n) == ready

(* Lines 221-232. *)
WithPeer(p, k) == Append(p, [socket |-> k, input |-> <<>>, input_size |-> 0])

(* Lines 211-234.  The socket that was ready is that of peer 0, the one    *)
(* that is accepted from is server->socket: accept() waits if it has a     *)
(* port and no connection, and fails if it has no port.                    *)
updateAccept ==
    /\ server = "live" /\ pc = "accept"
    /\ IF port[server_socket] = NoPort
       THEN UNCHANGED <<net, peers, peer_size, revents>>
       ELSE /\ backlog[server_socket] # <<>>
            /\ LET k == Head(backlog[server_socket])
               IN  /\ conn' = [conn EXCEPT ![k] = "accepted"]
                   /\ peers' = WithPeer(peers, k)
            /\ peer_size' = IF Len(peers) = peer_size THEN 2 * peer_size ELSE peer_size
            /\ backlog' = [backlog EXCEPT ![server_socket] = Tail(@)]
            /\ revents' = AfterAccept(revents, Len(peers))
            /\ UNCHANGED <<port, sent, wire, hup>>
    /\ pc' = "scan"
    /\ UNCHANGED <<server, server_socket, is_started, messages, total_messages>>

(* The little-endian number in the prefix that starts after position pos. *)
PrefixValue(data, pos) ==
    LET value[i \in 0..PrefixSize] ==
            IF i = 0 THEN 0
            ELSE Cardinality(Bytes) * value[i - 1] + data[pos + PrefixSize + 1 - i]
    IN  value[PrefixSize]

(* The values of bytes_parsed at the top of the loop of line 253.          *)
Starts(data) ==
    LET from[pos \in 0..Len(data)] ==
            IF Len(data) - pos < PrefixSize THEN <<pos>>
            ELSE LET next == pos + PrefixSize + PrefixValue(data, pos)
                 IN  <<pos>> \o IF next <= Len(data) THEN from[next] ELSE <<>>
    IN  from[0]

(* Lines 252-285: bytes_parsed, counted, and the lengths of the messages.  *)
(* A prefix is consumed before line 265 asks whether its message is there. *)
Parsed(data) ==
    LET starts == Starts(data)
        last == starts[Len(starts)]
        end == IF Len(data) - last < PrefixSize THEN last ELSE last + PrefixSize
    IN  [bytes |-> Cardinality({j \in 1..Len(data) : j <= end}),
         found |-> [m \in 1..Len(starts) - 1 |-> starts[m + 1] - starts[m] - PrefixSize]]

BugNoMemmove(data, parsed) == SubSeq(data, 1, Len(data) - parsed)

(* Lines 289-293. *)
Rest(data, parsed) == SubSeq(data, parsed + 1, Len(data))

BugGrowsToRead(size, count, n) == IF count + n > size THEN n ELSE size

(* Lines 244-248. *)
Grown(size, count, n) == IF count + n > size THEN count + n ELSE size

(* Lines 277-284: the array doubles when it is full.  Its recorded size is *)
(* 0, twice that is 0: realloc() frees it and the message is written to    *)
(* address 0.                                                              *)
Room(m) == m < total_messages \/ 2 * total_messages > m

(* One read(), lines 239-295, of at most ReadSize bytes of what arrived. *)
readPeer(i, n) ==
    LET k == peers[i].socket
        data == peers[i].input \o SubSeq(wire[k], 1, n)
        p == Parsed(data)
        grown == Grown(peers[i].input_size, Len(peers[i].input), n)
    IN  IF p.found # <<>> /\ ~Room(Len(messages))
        THEN Crash /\ wire' = [wire EXCEPT ![k] = SubSeq(@, n + 1, Len(@))] /\ UNCHANGED peers
        ELSE /\ wire' = [wire EXCEPT ![k] = SubSeq(@, n + 1, Len(@))]
             /\ peers' = [peers EXCEPT ![i].input = Rest(data, p.bytes),
                                       ![i].input_size = grown]
             /\ messages' = messages \o p.found
             /\ revents' = revents \ {i}
             /\ UNCHANGED <<port, backlog, conn, sent, hup, server, server_socket, is_started,
                            peer_size, total_messages, pc>>

BugSkipsLast(ready, n) == ready \ {n}

(* The peers the loop of line 237 reads. *)
Visited(ready, n) == ready

(* The loop goes on with the next peer that has an event; of a listening   *)
(* socket nothing can be read.                                             *)
updateScan ==
    /\ server = "live" /\ pc = "scan"
    /\ \E i \in Visited(revents, Len(peers)) :
          /\ \A j \in Visited(revents, Len(peers)) : i <= j
          /\ IF peers[i].socket \in Listeners
             THEN /\ revents' = revents \ {i}
                  /\ UNCHANGED <<net, server, server_socket, is_started, peers, messages,
                                 peer_size, total_messages, pc>>
             ELSE /\ Readable(peers[i].socket)
                  /\ LET k == peers[i].socket
                     IN  IF wire[k] = <<>> THEN readPeer(i, 0)
                         ELSE \E n \in 1..ReadSize : n <= Len(wire[k]) /\ readPeer(i, n)

(* Lines 299-300: the call returns 0. *)
updateReturn ==
    /\ server = "live" /\ pc = "scan"
    /\ Visited(revents, Len(peers)) = {}
    /\ pc' = "idle"
    /\ revents' = {}
    /\ UNCHANGED <<net, server, server_socket, is_started, peers, peer_size, messages,
                   total_messages>>

updateStep == updatePoll \/ updateAccept \/ updateScan \/ updateReturn
====

---- MODULE ChatProps ----
(***************************************************************************)
(* What can be relied on between the chat's clients and its server.        *)
(***************************************************************************)
EXTENDS Chat

(* The shape of the state.  A client is fed and popped at most MaxMessages *)
(* times in all, because feed() and pop_next() share one index.            *)
TypeOK ==
    /\ server \in {"live", "deleted", "crashed"}
    /\ server_socket \in Listeners \union {NoSocket}
    /\ pc \in {"idle", "accept", "scan"}
    /\ \A i \in 1..Len(peers) : peers[i].socket \in Listeners \union Conns
    /\ conn \in [Conns -> {"free", "queued", "accepted", "dead"}]
    /\ \A k \in Conns : IsSuffix(wire[k], sent[k])
    /\ \A c \in Clients : current_message_index[c] \in 0..MaxMessages

Received(k) == SubSeq(sent[k], 1, Len(sent[k]) - Len(wire[k]))

(* A connection that was accepted has one peer for as long as the server   *)
(* lives, and one that was not has none: the entry that is filled on line  *)
(* 225 is the one that line 232 counts.  What the peer's buffer holds is   *)
(* the end of what its own connection has carried, in order, whatever the  *)
(* sizes of the reads and whichever other peers were read in between       *)
(* (lines 241-293).                                                        *)
StreamKept ==
    /\ TypeOK
    /\ server = "live" =>
          \A k \in Conns :
              LET mine == {i \in 1..Len(peers) : peers[i].socket = k}
              IN  /\ Cardinality(mine) = IF conn[k] = "accepted" THEN 1 ELSE 0
                  /\ \A i \in mine : IsSuffix(peers[i].input, Received(k))

Arrived(k) == Len(wire[k]) - Len(wire'[k])

(* memcpy() on line 249 stays inside the buffer: when n bytes are read,    *)
(* the buffer is as large as what it held and these together.              *)
ReadFits ==
    [][server' = "live" =>
          \A i \in 1..Len(peers) :
              peers[i].socket \in Conns =>
                  Len(peers[i].input) + Arrived(peers[i].socket) <= peers'[i].input_size]_vars

Relistened == server_socket # 1

(* The sockets block, yet the server waits only in poll(): an event that   *)
(* poll() reported is still there when its peer's turn comes, and a peer   *)
(* without events is not read.  accept() keeps to this as long as          *)
(* chat_server_listen() was called once.                                   *)
NeverBlocks ==
    server = "live" =>
        /\ pc = "accept" /\ ~Relistened => backlog[server_socket] # <<>>
        /\ pc = "scan" =>
              \A i \in revents \ {1} :
                  \/ i <= Len(peers) /\ peers[i].socket \in Listeners
                  \/ i <= Len(peers) /\ Readable(peers[i].socket)

(* What arrives is read, and who connects is accepted, unless the server   *)
(* crashes, is deleted or has listened twice: no peer is starved by the    *)
(* others (lines 211-296).                                                 *)
EverybodyServed ==
    \A k \in Conns :
        (conn[k] = "queued" \/ (conn[k] = "accepted" /\ wire[k] # <<>>)) ~>
            \/ conn[k] = "accepted" /\ wire[k] = <<>>
            \/ server # "live"
            \/ Relistened
====

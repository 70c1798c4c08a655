---- MODULE ChatClient ----
(***************************************************************************)
(* The chat clients (chat_client.c), as the client program and the tests   *)
(* use them.  Nothing a client is fed is sent, and nothing comes back.     *)
(***************************************************************************)
EXTENDS ChatNet

CONSTANTS
    Clients,
    MaxMessages  \* total_messages_count, line 109

ASSUME ClientAssumption == MaxMessages \in Nat

VARIABLES
    client,      \* "live", "deleted", "aborted" or "killed"
    client_socket, current_message_index

clientVars == <<client, client_socket, current_message_index>>

None == "none"

(* chat_client_new(), lines 101-127. *)
ClientInit ==
    /\ client = [c \in Clients |-> "live"]
    /\ client_socket = [c \in Clients |-> None]
    /\ current_message_index = [c \in Clients |-> 0]

(* The client is no more, and its socket is closed. *)
Ends(c, how) ==
    /\ client' = [client EXCEPT ![c] = how]
    /\ client_socket' = [client_socket EXCEPT ![c] = None]
    /\ current_message_index' = [current_message_index EXCEPT ![c] = 0]
    /\ IF client_socket[c] = None THEN UNCHANGED net ELSE Closes(client_socket[c])

(* chat_client_delete(), lines 129-141. *)
chat_client_delete(c) == client[c] = "live" /\ Ends(c, "deleted")

(* chat_client_connect(), lines 143-213.  The socket does not block, so    *)
(* that a connection in progress is a success.  A client may connect       *)
(* again: the first socket is forgotten and stays open.                    *)
chat_client_connect(c, k, p) ==
    /\ client[c] = "live"
    /\ Connects(k, p) \/ Refused(k, p)
    /\ client_socket' = [client_socket EXCEPT ![c] = k]
    /\ UNCHANGED <<client, current_message_index>>

(* Lines 217-220 and 314-316. *)
HasSpace(c) == current_message_index[c] < MaxMessages

(* chat_client_feed(), lines 308-329.  The message is written after the    *)
(* end of the array, over the client's name, which nothing reads.          *)
chat_client_feed(c) ==
    /\ client[c] = "live"
    /\ HasSpace(c)
    /\ current_message_index' = [current_message_index EXCEPT ![c] = @ + 1]
    /\ UNCHANGED <<net, client, client_socket>>

(* chat_client_pop_next(), lines 215-229, and chat_message_delete(),       *)
(* chat.c:6-11, of what it returned: the first element is the block of the *)
(* array itself, any other is no block, and free() aborts.                 *)
popDelete(c) ==
    /\ client[c] = "live"
    /\ HasSpace(c)
    /\ IF current_message_index[c] = 0
       THEN /\ current_message_index' = [current_message_index EXCEPT ![c] = 1]
            /\ UNCHANGED <<net, client, client_socket>>
       ELSE Ends(c, "aborted")

(* chat_client_update(), lines 231-291, of a connection that is up: what   *)
(* write_buffer happens to hold is sent, up to its first zero byte.        *)
updateWrites(c) ==
    /\ client[c] = "live" /\ client_socket[c] # None
    /\ \E data \in Strings(Bytes \ {0}, MaxBytes) : Sends(client_socket[c], data)
    /\ UNCHANGED clientVars

(* The same when there is no server: the write may raise SIGPIPE. *)
updateBroken(c) ==
    /\ client[c] = "live" /\ client_socket[c] # None
    /\ conn[client_socket[c]] = "dead"
    /\ Ends(c, "killed")

(* A program that is not this client speaks to the server. *)
foreign ==
    \E k \in Foreign :
        \/ \E p \in Ports : Connects(k, p)
        \/ \E b \in Bytes : Sends(k, <<b>>)
        \/ conn[k] # "free" /\ k \notin hup /\ Closes(k)

clientStep(c) ==
    \/ chat_client_delete(c)
    \/ \E k \in Conns \ Foreign, p \in Ports : chat_client_connect(c, k, p)
    \/ chat_client_feed(c)
    \/ popDelete(c)
    \/ updateWrites(c)
    \/ updateBroken(c)
====

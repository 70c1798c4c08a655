---- MODULE Chat ----
(***************************************************************************)
(* The server, its clients and the sockets between them.  The server is    *)
(* driven by a loop that calls chat_server_update() again and again        *)
(* (chat_server_exe.c, lines 56-71), the clients by anybody.               *)
(***************************************************************************)
EXTENDS ChatServer, ChatClient

vars == <<net, serverVars, clientVars>>

Init == NetInit /\ ServerInit /\ ClientInit

serverStep ==
    \/ chat_server_delete
    \/ \E p \in Ports : chat_server_listen(p)
    \/ updateOverrun \/ peersOverrun
    \/ updateStep

Next ==
    \/ serverStep /\ UNCHANGED clientVars
    \/ (\E c \in Clients : clientStep(c)) /\ UNCHANGED serverVars
    \/ foreign /\ UNCHANGED <<serverVars, clientVars>>

(* The server's loop goes on; nothing is asked of the clients. *)
Fairness == WF_vars(updateStep /\ UNCHANGED clientVars)

Spec == Init /\ [][Next]_vars /\ Fairness
====

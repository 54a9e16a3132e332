-------------------------- MODULE SessionDirectory --------------------------
(***************************************************************************)
(* Session implements NameDirectory: the table of sessions is a directory  *)
(* of the open connections, whatever the queues, the sockets and the loop  *)
(* are doing.                                                              *)
(***************************************************************************)
EXTENDS Session

Directory == INSTANCE NameDirectory WITH
    Client <- Conn,
    online <- {c \in Conn : fd[c] = "open"},
    gone   <- {c \in Conn : mem[c] # "none" /\ fd[c] = "closed"},
    held   <- nodes

\* The table of sessions (client()->sessions, kept by p2p.c:292 and
\* moniclient_callback.c:41-81) behaves as NameDirectory says.
IsDirectory == Directory!Spec
=============================================================================

-------------------------- MODULE MCRpcTransport --------------------------
(***************************************************************************)
(* One window and a server of two client slots, two workspaces, buffers    *)
(* shorter than what is pushed while a connection is away.                 *)
(***************************************************************************)
EXTENDS RpcTransport

SocketSlots == 1 .. 2
=============================================================================

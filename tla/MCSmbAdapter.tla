---------------------------- MODULE MCSmbAdapter ----------------------------
(***************************************************************************)
(* RemoteSmb in its three parts: the operations, the upload of a file and the *)
(* connection of its SmbHandle.  They are used one after the other and share  *)
(* no state that is modelled, so that in a behaviour one of them works.       *)
(***************************************************************************)
EXTENDS MCRemoteSmb, SmbPut, SmbConnect

VARIABLE part   \* that works

(* Up to five addresses of two families, and one of a family that is not known. *)
MCFound ==
  UNION {[1 .. k -> {"inet", "inet6"}] : k \in 1 .. 5} \cup {<<"other">>, <<"other", "inet", "other">>}

-----------------------------------------------------------------------------
(* A part that does not work: nothing on the share, a file that is not opened,   *)
(* and nobody to connect to.                                                *)
NoOperation == ShareInit /\ share = <<>>
NoUpload == PutInit /\ size = 0 /\ remote = <<>> /\ max_write_size = ChunkLimit /\ credits = 1
NoConnection == Init /\ families = <<"other">>

MCInit ==
  \/ part = "operations" /\ ShareInit /\ NoUpload /\ NoConnection
  \/ part = "upload" /\ PutInit /\ NoOperation /\ NoConnection
  \/ part = "connection" /\ Init /\ NoOperation /\ NoUpload

Connection(A) == part = "connection" /\ A /\ UNCHANGED <<part, sharevars, putvars>>

MCNext ==
  \/ part = "operations" /\ ShareNext /\ UNCHANGED <<part, putvars, vars>>
  \/ part = "upload" /\ PutNext /\ UNCHANGED <<part, sharevars, vars>>
  \/ Connection(Next)

everything == <<part, sharevars, putvars, vars>>
MCSpec ==
  /\ MCInit /\ [][MCNext]_everything
  /\ WF_everything(Connection(Call)) /\ WF_everything(Connection(Service))
  /\ WF_everything(Connection(Server)) /\ WF_everything(Connection(Tick))
=============================================================================

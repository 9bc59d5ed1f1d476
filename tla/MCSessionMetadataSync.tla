----------------------- MODULE MCSessionMetadataSync -----------------------
(* Metadata synchronisation on small instances. *)
EXTENDS SessionMetadataSync
=============================================================================

---------------------------- MODULE MCHttpReader ----------------------------
(***************************************************************************)
(* The HTTP and the Swift reader for TLC; the .cfg file chooses the file,  *)
(* the buffer and how often a transfer may break.                          *)
(***************************************************************************)
EXTENDS SwiftReader

CONSTANTS u1, u2

(* Catalogs of up to two services with up to two endpoints.                *)
MCEndpoints == [interface : {"public", "internal"}, url : {u1, u2, NULL}]
MCServices ==
  [type : {"object-store", "compute"},
   endpoints : {<<>>} \cup {<<e>> : e \in MCEndpoints}
               \cup {<<e, [interface |-> "public", url |-> u2]>> : e \in MCEndpoints}]
MCCatalogs ==
  {<<>>} \cup {<<s>> : s \in MCServices} \cup {<<s, t>> : s, t \in MCServices}
=============================================================================

---------------------------- MODULE MCSchemaInit ----------------------------
(***************************************************************************)
(* Three of the tables, one with two indexes and one with none, and three  *)
(* of the columns; from an empty file, from a release without the columns  *)
(* or the newer table, and from one that had the first column.             *)
(***************************************************************************)
EXTENDS SchemaInit

MCIndexesOf ==
  [t \in TableNames |->
     CASE t = "samples"      -> {"samples.device_id", "samples.timestamp"}
       [] t = "switch_ports" -> {"switch_ports.device_id"}
       [] OTHER              -> {}]

MCColumns == <<"mac_address", "mac_vendor", "in_errors">>

Release(T, C) ==
  [tables |-> T, indexes |-> UNION {MCIndexesOf[t] : t \in T}, columns |-> C]

MCReleases ==
  {Release({}, {}),
   Release({"samples", "switch_ports"}, {}),
   Release({"samples", "switch_ports"}, {"mac_address"}),
   Release({"samples"}, {})}
=============================================================================

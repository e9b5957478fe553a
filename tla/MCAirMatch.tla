----------------------------- MODULE MCAirMatch -----------------------------
(***************************************************************************)
(* Small instances of AirMatch: every combination of a few readings over   *)
(* two or three access points of one or two sites.                         *)
(***************************************************************************)
EXTENDS AirMatch, TLC

Read(c, u, n) == [channel |-> c, util |-> u, noise |-> n]

AccessPoint(site) == [active |-> TRUE, site |-> site]

(* The radios of one band, with the given readings, of the devices at sites.*)
Installed(sites, band, readings) ==
  {[devices |-> [d \in DOMAIN sites |-> AccessPoint(sites[d])],
    radios  |-> [x \in (DOMAIN sites) \X {band} |-> f[x[1]]],
    passes  |-> 1, edits |-> 0] :
     f \in [DOMAIN sites -> readings]}

-----------------------------------------------------------------------------
(* 2.4 GHz: three access points that hear each other, or two and one apart;*)
(* channel 3 is beside both 1 and 6.                                       *)
Readings24 ==
  {Read(c, u, None) : c \in {1, 3, 6, 11}, u \in {0, 20, 90}}
    \cup {Read(6, 5, -80), Read(None, None, None)}

Installations24 ==
  Installed(<<"lab", "lab", "lab">>, "2.4", Readings24)
    \cup Installed(<<"lab", "lab", "house">>, "2.4", Readings24)

Asks24 == {[band |-> "2.4", dfs |-> FALSE]}

-----------------------------------------------------------------------------
(* 5 GHz with and without DFS channels: neighbouring channels interfere.   *)
Readings5 ==
  {Read(36, 60, None), Read(40, 2, None), Read(44, 60, -70), Read(52, 2, None),
   Read(161, 38, None), Read(165, 60, None)}

Installations5 == Installed(<<"lab", "lab", "lab">>, "5", Readings5)

Asks5 == [band : {"5"}, dfs : BOOLEAN]

-----------------------------------------------------------------------------
(* Edits of the inventory: one access point with radios, one without, and  *)
(* one that is disabled and has radios.                                    *)
ReadingsEdit == {Read(1, 20, None)}  \* what reseeding writes

InstallationsEdit ==
  {[devices |-> [d \in 1 .. 3 |-> [active |-> d < 3, site |-> "lab"]],
    radios  |-> [x \in {<<1, "2.4">>, <<1, "5">>, <<3, "2.4">>} |->
                   Read(1, 20, None)],
    passes  |-> 2, edits |-> 2]}

AllInstallations == Installations24 \cup Installations5 \cup InstallationsEdit
AllAsks          == Asks24 \cup Asks5 \cup {[band |-> "6", dfs |-> FALSE]}
=============================================================================

------------------------------- MODULE MCJaamWs -------------------------------
(* Instances of JaamWs small enough for TLC. *)
EXTENDS JaamWs

\* A city that is its own district and state (Kyiv), and a district of a state.
Kyiv == <<"kyiv", "kyiv", "kyiv">>
District == <<"district", "district", "state">>

OneHome == {"district"}
OneChain == [h \in OneHome |-> District]
TwoHomes == {"kyiv", "district"}
TwoChains == [h \in TwoHomes |-> IF h = "kyiv" THEN Kyiv ELSE District]

OneLevel == {{}, {"air"}}
TwoLevels == {{}, {"air"}, {"air", "drones"}}
MCNotifFlags == {{"ballistic"}}

\* A frame of n events, and the ways a snapshot can come: in one event; in one frame
\* larger than the library's buffer; in two frames, of which the first does not fit
\* rx_bin_buf_.
Frame(n, last) == [i \in 1..n |-> [pos |-> i, of |-> n, fin |-> last]]
FramedSnapshot == {Frame(1, TRUE), Frame(2, TRUE)}
FragmentedSnapshot == {Frame(1, TRUE), Frame(3, FALSE) \o Frame(1, TRUE)}

\* 1400 entries, 5605 bytes.
BulkSnapshot == {Frame(3, TRUE)}
=============================================================================

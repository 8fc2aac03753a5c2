------------------------------ MODULE MCDevice ------------------------------
(* The device for TLC: an oblast's id below 27 and the capital's, two towns,   *)
(* two networks of which one is out of reach, two pages of assets. Each budget *)
(* lets those events meet that have something to do with each other.           *)
EXTENDS Device

MCLights == {{"red"}}

Budget(r) == [k \in Kinds |-> IF k \in DOMAIN r THEN r[k] ELSE 0]

MCBudgets ==
  { Budget([settings |-> 2, cut |-> 1]),
    Budget([settings |-> 1, mishap |-> 1]),
    Budget([settings |-> 1, reboot |-> 1]),
    Budget([network |-> 2, cut |-> 1]),
    Budget([network |-> 1, update |-> 1, cut |-> 1]),
    Budget([network |-> 1, reboot |-> 1]),
    Budget([button |-> 3]),
    Budget([button |-> 1, mishap |-> 1]),
    Budget([button |-> 1, light |-> 1]),
    Budget([button |-> 1, assets |-> 1]),
    Budget([light |-> 2, mishap |-> 1]),
    Budget([light |-> 1, assets |-> 1, mishap |-> 1]),
    Budget([assets |-> 1, update |-> 1, cut |-> 1]),
    Budget([update |-> 1, mishap |-> 1]),
    Budget([air |-> 3, mishap |-> 1]),
    Budget([power |-> 2, button |-> 1, cut |-> 1]) }

MCOneSetting == { Budget([settings |-> 1, cut |-> 1]) }
=============================================================================

------------------------------ MODULE Humifier ------------------------------
(***************************************************************************)
(* The Venta air humidifier, seen through its HTTP interface.  It is not   *)
(* part of the repository; this model is what network.c and the call-scene *)
(* handler of vdsd.c take for granted about it:                            *)
(*                                                                         *)
(*   - POST /api/data answers with the current value of every quantity, or *)
(*     of some;                                                            *)
(*   - POST /api/btn {"btn": b} acts like a finger on button b of the      *)
(*     panel.  Buttons 5 and 6 toggle sleep and automatic mode, so that    *)
(*     network.c reads the mode before it presses (network.c:399, 433).    *)
(*     Buttons 3 and 4 move the fan one level up and down between 1 and 3: *)
(*     vdsd.c presses 4 twice for level 1, 3 twice for level 3, and for    *)
(*     level 2 one of them depending on where the fan is (vdsd.c:177-189). *)
(***************************************************************************)
EXTENDS Naturals, Sequences

CONSTANTS
  KeyOrder,   \* the keys of its answer in the order it lists them: the three
              \* controls and what it measures, "temp", "hum", ... (README table 3)
  Readings,   \* the values a measured quantity takes
  OtherTyped, \* those of them it sends as neither an integer nor a boolean: 21.5
  Starts      \* the control settings it may have when the vDC starts

Controls == {"fan", "sleep", "auto"}

Keys == {KeyOrder[p] : p \in DOMAIN KeyOrder}

Quantities == Keys \ Controls

ASSUME KeyOrderAssumption == KeyOrder \in Seq(STRING) /\ Controls \subseteq Keys
ASSUME ReadingsAssumption == Readings \subseteq Nat /\ Readings # {}
ASSUME OtherTypedAssumption == OtherTyped \subseteq Readings \ (0 .. 3)
ASSUME StartsAssumption   == Starts \subseteq [fan : 1 .. 3, sleep : 0 .. 1, auto : 0 .. 1]

BtnFanUp == 3
BtnFanDown == 4
BtnSleep == 5
BtnAuto == 6
Buttons == {BtnFanUp, BtnFanDown, BtnSleep, BtnAuto}

Vals == (0 .. 3) \cup Readings

DeviceType ==
  {d \in [Keys -> Vals] : d["fan"] \in 1 .. 3
                      /\ d["sleep"] \in 0 .. 1 /\ d["auto"] \in 0 .. 1}

Started(d) ==
  /\ \E start \in Starts : \A c \in Controls : d[c] = start[c]
  /\ \A q \in Quantities : d[q] \in Readings

Pressed(d, btn) ==
  CASE btn = BtnFanUp   -> [d EXCEPT !["fan"] = IF @ < 3 THEN @ + 1 ELSE @]
    [] btn = BtnFanDown -> [d EXCEPT !["fan"] = IF @ > 1 THEN @ - 1 ELSE @]
    [] btn = BtnSleep   -> [d EXCEPT !["sleep"] = 1 - @]
    [] btn = BtnAuto    -> [d EXCEPT !["auto"] = 1 - @]

=============================================================================

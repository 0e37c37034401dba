------------------------- MODULE MCVehicleInventory -------------------------
(***************************************************************************)
(* Two vehicles whose identifiers meet in different fields and in the same *)
(* one, spelt with and without surplus blanks.                             *)
(***************************************************************************)
EXTENDS VehicleInventory

Spelling == [t \in Texts |-> CASE t = " 7" -> "7" [] t = " " -> "" [] OTHER -> t]

Car(garage, id, plate, ip) ==
    [garage_number |-> garage, vehicle_id |-> id, plate |-> plate, ip |-> ip]

SomeInventories ==
    { <<Car("8", "7", " ", "valid"), Car(" 7", "", "", "valid")>>,
      <<Car("7", "", "8", "valid"), Car(" 7", "8", "", "valid")>>,
      <<Car("", "", "7", "invalid"), Car("8", "", "", "valid")>>,
      <<Car("7", "", "", "valid"), Car(" ", "", "", "valid")>>,
      <<Car("7", "", "", "empty")>> }
=============================================================================

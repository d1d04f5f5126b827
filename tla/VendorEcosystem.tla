--------------------------- MODULE VendorEcosystem ---------------------------
(***************************************************************************)
(* VendorEcosystemRegistry: the catalogue of device models and the look-ups*)
(* in it.  A result is the set of the positions of the models found; "the  *)
(* first" is the first in the order of registration.                       *)
(***************************************************************************)
EXTENDS Integers, Sequences

CONSTANTS
  Models, \* what populateAuthoritativeEcosystem registers, in order
  Within  \* <<part, whole>>: a text is part of another, in whatever case

ASSUME ModelsAssumption == Models \in Seq({Models[i] : i \in 1..Len(Models)})

\* The catalogue gives no identifier twice.
ASSUME IdentifiersAssumption == \A i, j \in 1..Len(Models) : Models[i].id = Models[j].id => i = j

Positions == 1..Len(Models)
Firsts(I) == {i \in I : \A j \in I : i <= j}
Occurs(part, whole) == part = "" \/ part = whole \/ <<part, whole>> \in Within

\* registerModel: the index keeps the last model of an identifier.
FindById(id) ==
  LET registered == {i \in Positions : Models[i].id = id} IN
  {i \in registered : \A j \in registered : j <= i}

\* findModelByHardware: by what the USB bus says, by the address the unit
\* answers at, by its name; each only if the ones before found nothing.
NoUsb == <<"", "">>
ByUsb(usb)      == {i \in Positions : usb # NoUsb /\ usb \in Models[i].usb}
ByAddress(at)   == {i \in Positions : Models[i].ip # "" /\ at # "" /\ Occurs(Models[i].ip, at)}
ByName(name)    == {i \in Positions : name # "" /\ (Occurs(Models[i].id, name) \/ Occurs(name, Models[i].id))}
\* Mutant: the address comes before the bus.
FindByAddressFirst(usb, name, at) ==
  Firsts(IF ByAddress(at) # {} THEN ByAddress(at) ELSE IF ByUsb(usb) # {} THEN ByUsb(usb) ELSE ByName(name))
FindByHardware(usb, name, at) ==
  Firsts(IF ByUsb(usb) # {} THEN ByUsb(usb) ELSE IF ByAddress(at) # {} THEN ByAddress(at) ELSE ByName(name))

ByVendor(vendor) == {i \in Positions : vendor # "" /\ Occurs(vendor, Models[i].vendor)}

\* What the dialog offers, and what it lists: getManufacturers, getModels and
\* searchModels.
Manufacturers == {Models[i].vendor : i \in Positions} \ {"Generic"}
Filtered(vendor, type) ==
  {i \in Positions : Occurs(vendor, Models[i].vendor) /\ Occurs(type, Models[i].type)}
Haystack(m)   == {m.id, m.vendor, m.type, m.revision}
Search(query) == {i \in Positions : \E text \in Haystack(Models[i]) : Occurs(query, text)}
=============================================================================

--------------------------- MODULE CatalogueDialog ---------------------------
(***************************************************************************)
(* The catalogue tab of the "Configure sensors" dialog: filters by vendor  *)
(* and type, a search, the list, and the model whose details are shown.    *)
(***************************************************************************)
EXTENDS VendorEcosystem

CONSTANTS Types, Queries \* the types there are buttons for, what may be searched for

VARIABLE tab \* filters, list, and the selected model with its details

Opening == [vendor |-> "All", type |-> "All", query |-> "", listed |-> {}, selected |-> "", details |-> {}]
DialogInit == tab = Opening

\* getEcosystemModels
Wanted(choice) == IF choice = "All" THEN "" ELSE choice
Listed(x) ==
  LET all == Filtered(Wanted(x.vendor), Wanted(x.type)) IN
  IF x.query = "" THEN all ELSE all \cap Search(x.query)

\* getModelDetails
Details(id) == FindById(id)

\* refreshCatalog
Showing(x, id) == [x EXCEPT !.listed = Listed(x), !.selected = id, !.details = Details(id)]
Refreshed(x) ==
  IF Listed(x) = {} THEN {[x EXCEPT !.listed = {}, !.selected = "", !.details = {}]}
  ELSE IF \E i \in Listed(x) : Models[i].id = x.selected THEN {Showing(x, x.selected)}
  ELSE {Showing(x, Models[i].id) : i \in Firsts(Listed(x))}

Open          == tab' \in Refreshed(tab)
PickVendor(v) == tab' \in Refreshed([tab EXCEPT !.vendor = v])
PickType(t)   == tab' \in Refreshed([tab EXCEPT !.type = t])
Type(query)   == tab' \in Refreshed([tab EXCEPT !.query = query])
PickModel(i)  == tab' = [tab EXCEPT !.selected = Models[i].id, !.details = Details(Models[i].id)]

DialogNext ==
  \/ Open
  \/ \E v \in {"All"} \cup Manufacturers : PickVendor(v)
  \/ \E t \in {"All"} \cup Types : PickType(t)
  \/ \E q \in {""} \cup Queries : Type(q)
  \/ \E i \in tab.listed : PickModel(i)
DialogSpec == DialogInit /\ [][DialogNext]_tab

-----------------------------------------------------------------------------
(* Properties *)

\* The model whose details are shown - and of which "create a template" makes
\* a profile - is one of the list; its details, found through the index by
\* identifier, are those of a model of the vendor and type that were chosen
\* (refreshCatalog and findModelById).
ShownIsListed ==
  tab.selected # "" =>
    /\ \E i \in tab.listed : Models[i].id = tab.selected
    /\ tab.details # {} /\ \A i \in tab.details :
         /\ i \in tab.listed
         /\ tab.vendor # "All" => Occurs(tab.vendor, Models[i].vendor)
=============================================================================

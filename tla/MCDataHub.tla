----------------------------- MODULE MCDataHub -----------------------------
(***************************************************************************)
(* A key the worker alone publishes, the catalog, two directories, one     *)
(* change of each kind: enough for a reading to be overtaken by a change   *)
(* on disk, by a change of directory, and by another thread's publish.     *)
(***************************************************************************)
EXTENDS DataHub

CONSTANTS installed, catalog, loader

CatalogKey    == {catalog}
InstalledKey  == {installed}
BothKeys      == {installed, catalog}
MCCatalog     == catalog
OneLoader     == {loader}
NoLoader      == {}
CatalogFails  == {catalog}
NothingFails  == {}

=============================================================================

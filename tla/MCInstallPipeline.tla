------------------------- MODULE MCInstallPipeline -------------------------
(* InstallPipeline for TLC: the methods a run offers and the catalogs. *)
EXTENDS InstallPipeline

BundledCatalog == Methods \ {"assisted"}   \* assisted.yaml asks for `name`
IpiOnly == {"ipi"}
AssistedOnly == {"assisted"}
=============================================================================

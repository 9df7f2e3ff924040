--------------------------- MODULE RetrievalPackage ---------------------------
(***************************************************************************)
(* The retrieval build directory a turn reads (runtime/retrieval/          *)
(* package.py, package_verification.py).  The directory belongs to nobody: *)
(* an operator may replace its artifacts between any two steps of a turn,  *)
(* so a turn keeps the identity it loaded and compares it with what the    *)
(* paths hold.                                                             *)
(***************************************************************************)
EXTENDS RuntimeStore

CONSTANT Describes   \* pairs of a catalog and a build whose facts it states

VARIABLE disk   \* the artifacts the package paths hold now

(* The catalog states the facts observed in the build.  Builds with the    *)
(* same facts share their catalogs, and a build has one per set of         *)
(* descriptions.                                                           *)
Coherent(pkg) == <<pkg.catalog, pkg.build>> \in Describes

DiskInit == disk \in {pkg \in Package : Coherent(pkg)}

(* A rebuilt substrate and vectors, or a catalog copied or generated into  *)
(* place, one at a time and in either order.                               *)
ReplaceBuild(v) == disk' = [disk EXCEPT !.build = v]
ReplaceCatalog(v) == disk' = [disk EXCEPT !.catalog = v]

(* require_current_package_identity: the paths hold the artifacts loaded.  *)
SamePackage(pkg) == disk = pkg

(* verify_retrieval_package: current identity, and a catalog that matches  *)
(* the facts observed in the build.  The code compares the identity before *)
(* and after it observes; a build replaced and put back in between is the  *)
(* one thing this single step leaves out.                                  *)
Verifies(pkg) == SamePackage(pkg) /\ Coherent(pkg)
===============================================================================

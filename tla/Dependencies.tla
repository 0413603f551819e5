------------------------------ MODULE Dependencies ------------------------------
(***************************************************************************)
(* What comes from outside the workspace: the vendored packages and the    *)
(* versions that are locked.  They share no state.                         *)
(***************************************************************************)
EXTENDS VendorStore, DependencyVersions

(* Builds see the packages that are locked, and a check passes only if the projects
   agree (dependency_vendor.rs, dependency_versions.rs). *)
DependenciesSafety == VnSafety /\ DpSafety
================================================================================

---------------------------- MODULE RestoreArchive ----------------------------
(***************************************************************************)
(* The archives of the bootstrap volume and the gates restorebootstrap     *)
(* puts them through before it wipes the store: src/src/api/errors.js,     *)
(* src/src/api/errors/archive_identity.js and                              *)
(* src/src/bootstrap/restore_validation.js.                                *)
(*                                                                         *)
(* The bytes of an archive are a record of what the gates and the          *)
(* extraction can tell apart; a digest is that record, so two files have   *)
(* one digest exactly when their bytes agree.                              *)
(***************************************************************************)

CONSTANTS
    AllowUnsigned,      \* BOOTSTRAP_RESTORE_ALLOW_UNSIGNED
    AllowUnverified     \* BOOTSTRAP_RESTORE_ALLOW_UNVERIFIED

ASSUME RestoreOptionsAssumption ==
    /\ AllowUnsigned \in BOOLEAN
    /\ AllowUnverified \in BOOLEAN

None == [none |-> TRUE]
Malformed == [none |-> FALSE]

(***************************************************************************)
(* layout  the BootstrapService wrapper, or one tar of the store itself    *)
(* root    CURRENT and MANIFEST-<n> lie at the root of the store's tar     *)
(* whole   nothing is cut off                                              *)
(* meta    what a wrapper's bootstrap.json declares, against this tracker  *)
(* marker  the store inside carries the halt marker                        *)
(***************************************************************************)
Bytes == [layout : {"wrapper", "store"}, root : BOOLEAN, whole : BOOLEAN,
          meta : {"ours", "other", "undeclared"}, marker : BOOLEAN]

\* A file of the volume with its detached signature and its .sha256 sidecar,
\* each the digest it was made from. A sidecar may hold no digest at all.
Archives == [bytes : Bytes \cup {None}, sig : Bytes \cup {None},
             sidecar : Bytes \cup {None, Malformed}]

-----------------------------------------------------------------------------
\* The signature, where there is one, must verify; without one only the
\* operator's opt-out lets the archive pass.
ProvenanceOk(a) ==
    IF a.sig # None THEN a.sig = a.bytes ELSE AllowUnsigned

\* A wrapper is unpacked and its payload compared with the digest packed with
\* it: both come with the archive, so only a cut or damaged one fails.
WrapperOk(a) == a.bytes.whole

\* bootstrap.json must not name another module, coin or network; a field it
\* leaves out is not compared.
IdentityOk(a) == a.bytes.meta # "other"

\* Mutant: a sidecar that is merely there is taken for a verified one.
SidecarExists(a) == a.sidecar # None \/ AllowUnverified

\* A single-layer archive is compared with the sidecar beside it.
SidecarOk(a) ==
    IF a.sidecar # None
    THEN a.sidecar = a.bytes
    ELSE AllowUnverified

\* The full member list shows a store at the root of the tar.
ContentOk(a) == a.bytes.root

\* validateBootstrapArchiveOrThrow
ArchiveAccepted(a) ==
    /\ ProvenanceOk(a)
    /\ IF a.bytes.layout = "wrapper"
       THEN WrapperOk(a) /\ IdentityOk(a)
       ELSE SidecarOk(a)
    /\ ContentOk(a)

\* Unpacking can succeed and leave a store where the tracker looks for it
\* (tar exits 0, then assertExtractedStoreOrThrow).
Extractable(a) == a.bytes.whole /\ a.bytes.root
=============================================================================

----------------------------- MODULE MCLifecycle -----------------------------
(* Lifecycle with the archives an operator may meet on the volume. *)
EXTENDS Lifecycle

Tar(layout, root, whole, meta) ==
    [layout |-> layout, root |-> root, whole |-> whole, meta |-> meta, marker |-> FALSE]

\* A published archive; one of another network; one cut off on its way here;
\* a store packed one directory too high beside a valid sidecar.
MCPublished ==
    LET good   == Tar("wrapper", TRUE, TRUE, "ours")
        cut    == Tar("store", TRUE, FALSE, "undeclared")
        nested == Tar("store", FALSE, TRUE, "undeclared")
    IN  { [bytes |-> good, sig |-> good, sidecar |-> None],
          [bytes |-> Tar("wrapper", TRUE, TRUE, "other"), sig |-> None, sidecar |-> None],
          [bytes |-> cut, sig |-> None, sidecar |-> Tar("store", TRUE, TRUE, "undeclared")],
          [bytes |-> nested, sig |-> None, sidecar |-> nested] }
=============================================================================

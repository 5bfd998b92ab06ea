--------------------------- MODULE MCGcsStateStore ---------------------------
(***************************************************************************)
(* Instances of GcsStateStore for TLC.  Two plugin processes p1 and p2     *)
(* share the bucket; a, b talk to p1 and c to p2.                          *)
(***************************************************************************)
EXTENDS GcsStateStore, TLC

CONSTANTS p1, p2, a, b, c, cfgA, slash, other, nm, nmOther, nmEmpty, ready, failed, empty

\* a and b share process p1, c talks to p2.
MCProcessOf == [s \in Session |-> IF s = c THEN p2 ELSE p1]

\* Every host has one iac.state module; both name the same bucket and prefix.
MCDelivers == [p \in Process |-> {cfgA}]

\* Every ID has a sanitized name of its own.
MCSanitizeID == [id \in Id |-> CASE id = slash -> nm
                                 [] id = other -> nmOther
                                 [] OTHER      -> nmEmpty]

\* A filter on an honoured field, and one on a field that is ignored: it filters nothing.
MCFilter == {[status |-> ready], [owner |-> ready]}
MCUndecodable == {<<cfgA, nmOther>>}
MCNoFilter == {<<>>}

\* Sessions of one process are interchangeable (used for safety properties only).
MCSymmetry == Permutations({a, b})

=============================================================================

--------------------------- MODULE MCConnLifecycle ---------------------------
(* Small instances of ConnLifecycle: more connections than descriptors, so *)
(* that descriptors are reused.                                            *)
EXTENDS ConnLifecycle

CONSTANTS c1, c2, c3, f1, f2

TwoConns == {c1, c2}
ThreeConns == {c1, c2, c3}
TwoFds == {f1, f2}
=============================================================================

----------------------------- MODULE MCSessions -----------------------------
(***************************************************************************)
(* A small instance of Sessions: two pages of one device, one call each.    *)
(***************************************************************************)
EXTENDS Sessions

CONSTANTS p1, p2, d1, k1, k2

OneCallEach == [k \in {k1, k2} |-> IF k = k2 THEN p2 ELSE p1]
\* Until one of them reloads, the pages are as good as on two devices.
OneDevice == [p \in {p1, p2} |-> d1]
\* Both pages sign in and use their sessions; one signs out, changes the
\* password or deletes the account while the other signs out everywhere.
OpsApart ==
    [k \in {k1, k2} |->
        {"use", "login"} \cup
            (IF k = k2 THEN {"logoutAll"} ELSE {"logout", "password", "delete"})]
=============================================================================

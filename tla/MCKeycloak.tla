----------------------------- MODULE MCKeycloak -----------------------------
(* Instances of Keycloak for TLC: tables of step commands.                  *)
EXTENDS Keycloak, TLC

CONSTANTS create, again, other, verify, activate, suspend, change, back, end, renew,
          e1, e2, n1, n2

\* Two requests create an account for the same employee, a second employee asks
\* for the first one's username; the account is verified, activated with a link,
\* suspended or changed.
AllOps ==
  (create :> "create_disabled" @@ again :> "create_disabled" @@
   other :> "create_disabled" @@ verify :> "verify" @@ activate :> "activate" @@
   suspend :> "suspend" @@ change :> "update" @@ back :> "reactivate" @@
   end :> "terminate" @@ renew :> "rotate_credentials")

TableEmp  == [c \in Commands |-> IF c = other THEN e2 ELSE e1]
TableOp   == [c \in Commands |-> AllOps[c]]
TableName == [c \in Commands |-> IF c = again THEN n2 ELSE n1]
TableLink == [c \in Commands |-> IF c = activate THEN "other" ELSE "none"]
TableMax  == [c \in Commands |-> IF c = create THEN 2 ELSE 1]
=============================================================================

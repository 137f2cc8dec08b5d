---------------------------- MODULE MCClientAuth ----------------------------
(* Values of the constants of ClientAuth for model checking.               *)
EXTENDS ClientAuth, TLC

CONSTANTS k1, k2

MCScope == [k \in {k1, k2} |-> "proxy"]

Ask(path, cred, plain) == [path |-> path, cred |-> cred, plain |-> plain]

(* A proxied request, a page without a credential, and a forged call with  *)
(* the browser's password.                                                 *)
(* The other key is only there: with it, the table is not empty when the  *)
(* first is revoked.                                                       *)
MCRequests ==
  {Ask("v1", k1, FALSE), Ask("dashboard", NoCredential, FALSE), Ask("api", DashboardPassword, TRUE)}

(* A first run, and keys beside a password.                                *)
MCDeployments ==
  {[password |-> FALSE, keys |-> "new"],
   [password |-> TRUE, keys |-> "active"]}

Symmetry == Permutations(Tasks)
=============================================================================

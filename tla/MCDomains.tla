------------------------------ MODULE MCDomains ------------------------------
EXTENDS Domains, TLC

CONSTANTS user, admin

\* The owner and an analyst verify, the admins decide
OwnerAndAdmin ==
    (user :> {"add", "show", "verify"}) @@ (admin :> Operations \ {"show"})

=============================================================================

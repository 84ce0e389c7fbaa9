------------------------- MODULE MCIssuerController -------------------------
(* Small instances of the issuer controller.                                 *)
EXTENDS IssuerController

CONSTANTS i1, m1

=============================================================================

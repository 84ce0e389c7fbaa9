------------------------ MODULE CertificateAuthority ------------------------
(***************************************************************************)
(* The certificate authority of internal/issuer/signer/authority.go with     *)
(* its one signing policy (policies.go).  The program carries it and does    *)
(* not call it.  Signing is a function of the clock, the authority, the      *)
(* request and the policy; times are seconds on one clock, of any size.      *)
(***************************************************************************)
EXTENDS Integers

-----------------------------------------------------------------------------
(* Usages.                                                                   *)

KeyUsageDict ==
    [UsageSigning |-> "DigitalSignature", UsageDigitalSignature |-> "DigitalSignature",
     UsageContentCommitment |-> "ContentCommitment",
     UsageKeyEncipherment |-> "KeyEncipherment", UsageKeyAgreement |-> "KeyAgreement",
     UsageDataEncipherment |-> "DataEncipherment", UsageCertSign |-> "CertSign",
     UsageCRLSign |-> "CRLSign", UsageEncipherOnly |-> "EncipherOnly",
     UsageDecipherOnly |-> "DecipherOnly"]

ExtKeyUsageDict ==
    [UsageAny |-> "ExtAny", UsageServerAuth |-> "ExtServerAuth",
     UsageClientAuth |-> "ExtClientAuth", UsageCodeSigning |-> "ExtCodeSigning",
     UsageEmailProtection |-> "ExtEmailProtection", UsageSMIME |-> "ExtEmailProtection",
     UsageIPsecEndSystem |-> "ExtIPSECEndSystem", UsageIPsecTunnel |-> "ExtIPSECTunnel",
     UsageIPsecUser |-> "ExtIPSECUser", UsageTimestamping |-> "ExtTimeStamping",
     UsageOCSPSigning |-> "ExtOCSPSigning",
     UsageMicrosoftSGC |-> "ExtMicrosoftServerGatedCrypto",
     UsageNetscapeSGC |-> "ExtNetscapeServerGatedCrypto"]

Unrecognized(usages) == usages \ (DOMAIN KeyUsageDict \cup DOMAIN ExtKeyUsageDict)

\* keyUsagesFromStrings: the bits, and the extended usages, each once.
KeyUsage(usages) == {KeyUsageDict[u] : u \in usages \cap DOMAIN KeyUsageDict}
ExtKeyUsage(usages) ==
    {ExtKeyUsageDict[u] : u \in (usages \ DOMAIN KeyUsageDict) \cap DOMAIN ExtKeyUsageDict}

-----------------------------------------------------------------------------
(* Signing.                                                                  *)

\* What is signed: the request's names and key, and for how long and for what.
\* Subject, names and key stay one value, extensions are a set.
Template(request, nbf) ==
    [subject |-> request.subject, extensions |-> request.extensions,
     notBefore |-> nbf, notAfter |-> nbf, keyUsage |-> {}, extKeyUsage |-> {},
     isCA |-> FALSE]

\* PermissiveSigningPolicy: the policy's usages and life time, no extension.
Apply(policy, template) ==
    [template EXCEPT !.keyUsage = KeyUsage(policy.usages),
                     !.extKeyUsage = ExtKeyUsage(policy.usages),
                     !.notAfter = template.notBefore + policy.ttl,
                     !.extensions = {},
                     !.isCA = FALSE]

\* A certificate ends with the authority at the latest.
Clamp(ca, template) ==
    IF template.notAfter < ca.notAfter THEN template
    ELSE [template EXCEPT !.notAfter = ca.notAfter]

NotBefore(ca, now) == now - ca.backdate

\* The error Sign returns, "none" when it returns a certificate.  The errors of
\* the random source and of x509.CreateCertificate are left out.
Refusal(ca, now, request, policy) ==
    IF NotBefore(ca, now) >= ca.notAfter         THEN "SignerExpired"
    ELSE IF ~request.parses                      THEN "Unparsable"
    ELSE IF ~request.signed                      THEN "BadSignature"
    ELSE IF Unrecognized(policy.usages) # {}     THEN "UnrecognizedUsage"
    ELSE IF now >= ca.notAfter                   THEN "ExpiredInThePast"
    ELSE                                              "none"

Certificate(ca, now, request, policy) ==
    Clamp(ca, Apply(policy, Template(request, NotBefore(ca, now))))

\* Sign's result: a set with the certificate, or none.
Sign(ca, now, request, policy) ==
    IF Refusal(ca, now, request, policy) = "none"
    THEN {Certificate(ca, now, request, policy)} ELSE {}

=============================================================================

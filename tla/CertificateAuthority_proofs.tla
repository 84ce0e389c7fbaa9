--------------------- MODULE CertificateAuthority_proofs ---------------------
(***************************************************************************)
(* Theorems about signing: the validity of the certificates an authority     *)
(* signs, whatever its clock, its end, its backdating and the policy's life  *)
(* time are.                                                                 *)
(***************************************************************************)
EXTENDS CertificateAuthority, TLAPS

Authorities == [notAfter : Int, backdate : Int]
Policies == [usages : SUBSET STRING, ttl : Int]
Signable == [subject : STRING, extensions : SUBSET STRING, parses : BOOLEAN, signed : BOOLEAN]

\* The validity Sign gives: from the backdated start, until the policy's life time
\* or the authority's ends.
LEMMA Validity ==
    ASSUME NEW ca \in Authorities, NEW now \in Int, NEW policy \in Policies,
           NEW request \in Signable,
           NEW certificate \in Sign(ca, now, request, policy)
    PROVE  /\ NotBefore(ca, now) \in Int
           /\ NotBefore(ca, now) < ca.notAfter
           /\ now < ca.notAfter
           /\ certificate.notBefore = NotBefore(ca, now)
           /\ certificate.notAfter =
                IF NotBefore(ca, now) + policy.ttl < ca.notAfter
                THEN NotBefore(ca, now) + policy.ttl ELSE ca.notAfter
<1>1. NotBefore(ca, now) \in Int /\ ca.notAfter \in Int
  BY DEF NotBefore, Authorities
<1>2. /\ Refusal(ca, now, request, policy) = "none"
      /\ certificate = Certificate(ca, now, request, policy)
  BY DEF Sign
<1>3. NotBefore(ca, now) < ca.notAfter /\ now < ca.notAfter
  BY <1>1, <1>2 DEF Refusal
<1> DEFINE t == Apply(policy, Template(request, NotBefore(ca, now)))
<1>4. /\ t.notBefore = NotBefore(ca, now)
      /\ t.notAfter = NotBefore(ca, now) + policy.ttl
      /\ [t EXCEPT !.notAfter = ca.notAfter].notAfter = ca.notAfter
      /\ [t EXCEPT !.notAfter = ca.notAfter].notBefore = NotBefore(ca, now)
  BY DEF Apply, Template
<1>5. certificate = Clamp(ca, t)
  BY <1>2 DEF Certificate
<1> HIDE DEF t
<1>6. QED
  BY <1>1, <1>3, <1>4, <1>5 DEF Clamp

\* No certificate outlives the authority that signed it, and an authority that
\* has ended signs nothing, however far certificates are backdated or postdated.
THEOREM CertificatesEndWithTheAuthority ==
    ASSUME NEW ca \in Authorities, NEW now \in Int, NEW policy \in Policies,
           NEW request \in Signable
    PROVE  /\ \A certificate \in Sign(ca, now, request, policy) :
                 certificate.notAfter <= ca.notAfter
           /\ now >= ca.notAfter => Sign(ca, now, request, policy) = {}
<1>1. ca.notAfter \in Int /\ policy.ttl \in Int
  BY DEF Authorities, Policies
<1>2. ASSUME NEW certificate \in Sign(ca, now, request, policy)
      PROVE  certificate.notAfter <= ca.notAfter /\ now < ca.notAfter
  BY <1>1, <1>2, Validity
<1>3. QED
  BY <1>1, <1>2

\* Sign refuses "to sign a certificate that expired in the past" by the end of the
\* authority alone: a certificate it signs is still valid at that moment exactly
\* when the policy's life time is longer than the backdating.
THEOREM SignedCertificatesMayHaveExpired ==
    ASSUME NEW ca \in Authorities, NEW now \in Int, NEW policy \in Policies,
           NEW request \in Signable,
           NEW certificate \in Sign(ca, now, request, policy)
    PROVE  now < certificate.notAfter <=> policy.ttl > ca.backdate
<1>1. ca.notAfter \in Int /\ ca.backdate \in Int /\ policy.ttl \in Int
  BY DEF Authorities, Policies
<1>2. QED
  BY <1>1, Validity DEF NotBefore

\* A certificate has each usage of the policy, whichever dictionary knows it, and
\* nothing the request asked for by its extensions.
THEOREM UsagesAreThePolicys ==
    ASSUME NEW ca \in Authorities, NEW now \in Int, NEW policy \in Policies,
           NEW request \in Signable,
           NEW certificate \in Sign(ca, now, request, policy)
    PROVE  /\ \A u \in policy.usages :
                 \/ u \in DOMAIN KeyUsageDict /\ KeyUsageDict[u] \in certificate.keyUsage
                 \/ u \in DOMAIN ExtKeyUsageDict /\ ExtKeyUsageDict[u] \in certificate.extKeyUsage
           /\ certificate.extensions = {} /\ ~certificate.isCA
<1>1. /\ Refusal(ca, now, request, policy) = "none"
      /\ certificate = Certificate(ca, now, request, policy)
  BY DEF Sign
<1>2. Unrecognized(policy.usages) = {}
  BY <1>1 DEF Refusal
<1> DEFINE t == Apply(policy, Template(request, NotBefore(ca, now)))
<1>3. /\ t.keyUsage = KeyUsage(policy.usages) /\ t.extKeyUsage = ExtKeyUsage(policy.usages)
      /\ t.extensions = {} /\ t.isCA = FALSE
  BY DEF Apply, Template
<1>4. LET e == [t EXCEPT !.notAfter = ca.notAfter]
      IN  /\ e.keyUsage = t.keyUsage /\ e.extKeyUsage = t.extKeyUsage
          /\ e.extensions = t.extensions /\ e.isCA = t.isCA
  BY DEF Apply, Template
<1>5. certificate = Clamp(ca, t)
  BY <1>1 DEF Certificate
<1> HIDE DEF t
<1>6. /\ certificate.keyUsage = KeyUsage(policy.usages)
      /\ certificate.extKeyUsage = ExtKeyUsage(policy.usages)
      /\ certificate.extensions = {} /\ certificate.isCA = FALSE
  BY <1>3, <1>4, <1>5 DEF Clamp
<1>7. ASSUME NEW u \in policy.usages
      PROVE  \/ u \in DOMAIN KeyUsageDict /\ KeyUsageDict[u] \in KeyUsage(policy.usages)
             \/ /\ u \in DOMAIN ExtKeyUsageDict
                /\ ExtKeyUsageDict[u] \in ExtKeyUsage(policy.usages)
  BY <1>2, <1>7, Zenon DEF Unrecognized, KeyUsage, ExtKeyUsage
<1>8. QED
  BY <1>6, <1>7

=============================================================================

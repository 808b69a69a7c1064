------------------------------- MODULE Certs --------------------------------
(***************************************************************************)
(* The certificate manager (internal/certs/manager.go): the names of       *)
(* domains are normalised, the request becomes a command of certbot, and   *)
(* certbot does the rest.  certbot is not part of the repository.          *)
(*                                                                         *)
(* A text is a sequence of characters, and a character is a class: "a" for *)
(* lower-case letters and digits, "A" for what ToLower makes one of them,  *)
(* "hyphen", "dot", "space" for white space, "other" for everything else.  *)
(***************************************************************************)
EXTENDS Operation, FiniteSetsExt

CONSTANTS
  Requests,      \* the certificate requests, some of CertOps
  MaxDomain,     \* the longest domain, 253
  MaxLabel       \* the longest label, 63

VARIABLE
  live           \* /etc/letsencrypt/live: certificates, each with its name and domains

Chars == {"a", "A", "hyphen", "dot", "space", "other"}

RevokeReasons == {"keycompromise", "affiliationchanged", "superseded", "cessationofoperation"}

\* "none" stands for a field that is missing.
CertOps ==
  [kind : {"certificate"}, form : Forms, action : {"issue", "renew", "revoke", "delete"},
   domain : Seq(Chars), domains : Seq(Seq(Chars)), email : {"none", "ops"},
   method : {"none", "standalone", "webroot", "dns"}, webroot : {"none", "relative", "absolute"},
   reason : RevokeReasons \cup {"none", "other"}]

ASSUME CertsAssumption ==
  /\ MaxDomain \in Nat /\ MaxLabel \in Nat
  /\ Requests \subseteq CertOps
  /\ None \notin Seq(Chars) /\ None \notin Seq(Seq(Chars))
-----------------------------------------------------------------------------
TrimSpace(s) ==
  LET solid == {i \in DOMAIN s : s[i] # "space"}
  IN  IF solid = {} THEN <<>> ELSE SubSeq(s, Min(solid), Max(solid))

TrimSuffix(s) == IF s # <<>> /\ Last(s) = "dot" THEN Front(s) ELSE s

ToLower(s) == [i \in DOMAIN s |-> IF s[i] = "A" THEN "a" ELSE s[i]]

\* The labels of the first n characters.
Labels(s) ==
  LET labels[n \in 0 .. Len(s)] ==
        IF n = 0 THEN << <<>> >>
        ELSE LET before == labels[n - 1]
             IN  IF s[n] = "dot" THEN Append(before, <<>>)
                 ELSE [before EXCEPT ![Len(before)] = Append(@, s[n])]
  IN  labels

Split(s) == Labels(s)[Len(s)]

BadLabel(l) ==
  \/ l = <<>> \/ Len(l) > MaxLabel
  \/ l[1] = "hyphen" \/ Last(l) = "hyphen"
  \/ \E i \in DOMAIN l : l[i] \notin {"a", "hyphen"}

\* Mutant: the dot goes before the white space does.
TrimDotFirst(raw) ==
  LET domain == ToLower(TrimSpace(TrimSuffix(raw)))
      labels == Split(domain)
      bad    == \/ domain = <<>> \/ Len(domain) > MaxDomain \/ Len(labels) < 2
                \/ \E i \in DOMAIN labels : BadLabel(labels[i])
  IN  IF bad THEN None ELSE domain

\* None stands for an error.
normalizeDomain(raw) ==
  LET domain == ToLower(TrimSuffix(TrimSpace(raw)))
      labels == Split(domain)
      bad    == \/ domain = <<>> \/ Len(domain) > MaxDomain \/ Len(labels) < 2
                \/ \E i \in DOMAIN labels : BadLabel(labels[i])
  IN  IF bad THEN None ELSE domain

\* Mutant: a domain that is not valid is left out.
SkipInvalid(domains, d) ==
  IF d = None \/ Contains(domains, d) THEN domains ELSE Append(domains, d)

\* Mutant: only neighbours are compared.
CompareNeighbours(domains, d) ==
  IF domains = None \/ d = None THEN None
  ELSE IF Last(domains) = d THEN domains ELSE Append(domains, d)

\* Adding a domain to the list so far, None after an error.
AddDomain(domains, d) ==
  IF domains = None \/ d = None THEN None
  ELSE IF Contains(domains, d) THEN domains ELSE Append(domains, d)

\* The list after the first n of the extra domains.
Collected(primary, extra) ==
  LET list[n \in 0 .. Len(extra)] ==
        IF n = 0 THEN <<primary>> ELSE AddDomain(list[n - 1], normalizeDomain(extra[n]))
  IN  list

normalizeDomains(primary, extra) == Collected(primary, extra)[Len(extra)]
-----------------------------------------------------------------------------
\* challengeArgs refuses a path without webroot and webroot without an absolute path.
challengeOK(r) ==
  \/ r.method \in {"none", "standalone"} /\ r.webroot = "none"
  \/ r.method = "webroot" /\ r.webroot = "absolute"

validRevokeReason(reason) == reason \in RevokeReasons

\* The command for a request, None for one that is refused.
buildCertbotCommand(r) ==
  LET domain  == normalizeDomain(r.domain)
      domains == normalizeDomains(domain, r.domains)
      accepted == CASE r.action = "issue"  -> r.email # "none" /\ challengeOK(r)
                    [] r.action = "renew"  -> r.webroot # "relative"
                    [] r.action = "revoke" -> r.reason = "none" \/ validRevokeReason(r.reason)
                    [] OTHER               -> FALSE
  IN  IF domain = None \/ domains = None \/ ~accepted
      THEN None
      ELSE [action |-> r.action, name |-> domain,
            domains |-> IF r.action = "issue" THEN domains ELSE <<>>]

RefuseCertificate ==
  /\ pc = "certificate"
  /\ \/ op.form = "garbled" /\ Error
     \/ op.form = "good" /\ buildCertbotCommand(op) = None /\ Fail
  /\ UNCHANGED live

Has(name)    == \E c \in live : c.name = name
Others(name) == {c \in live : c.name # name}

\* What certbot is asked to do; it renews and revokes only what there is.
Effect(cmd) ==
  \/ /\ cmd.action = "issue"
     /\ live' = Others(cmd.name) \cup {[name |-> cmd.name, domains |-> Range(cmd.domains)]}
  \/ cmd.action = "renew" /\ Has(cmd.name) /\ UNCHANGED live
  \/ cmd.action = "revoke" /\ Has(cmd.name) /\ live' = Others(cmd.name)

Certbot ==
  /\ pc = "certificate" /\ op.form = "good" /\ ~expired
  /\ buildCertbotCommand(op) # None
  /\ Effect(buildCertbotCommand(op))
  /\ Succeed("outcome", "certificate_report")

\* certbot exits with an error or is killed, at times after it has done its work.
CertbotFails ==
  /\ pc = "certificate" /\ op.form = "good"
  /\ buildCertbotCommand(op) # None
  /\ Effect(buildCertbotCommand(op)) \/ UNCHANGED live
  /\ Fail

Manage == RefuseCertificate \/ Certbot \/ CertbotFails

\* The operator removes a certificate.
CertificateRemoved ==
  /\ \E c \in live : live' = live \ {c}
  /\ UNCHANGED frame

certVars == <<frame, live>>

CertsTypeOK ==
  /\ FrameTypeOK({"certificate"}, CertOps)
  /\ live \subseteq [name : Seq(Chars), domains : SUBSET Seq(Chars)]

CertsInit == FrameInit /\ live = {}

CertsNext ==
  \/ pc = "idle" /\ (\E r \in Requests : Begin(r, "certificate")) /\ UNCHANGED live
  \/ Manage
  \/ Expire /\ UNCHANGED live
  \/ Complete /\ UNCHANGED live
  \/ CertificateRemoved

CertsSpec == CertsInit /\ [][CertsNext]_certVars
-----------------------------------------------------------------------------
\* A normal domain, told from the neighbours of its characters.
IsNormal(d) ==
  /\ d # <<>> /\ Len(d) <= MaxDomain
  /\ Range(d) \subseteq {"a", "hyphen", "dot"} /\ "dot" \in Range(d)
  /\ d[1] = "a" /\ Last(d) = "a"
  /\ \A i \in 1 .. Len(d) - 1 : d[i] = "dot" => d[i + 1] = "a"
  /\ \A i \in 1 .. Len(d) - 1 : d[i + 1] = "dot" => d[i] = "a"
  /\ \A i \in 1 .. Len(d) - MaxLabel : \E j \in i .. i + MaxLabel : d[j] = "dot"

\* A text names the normal domains that it is without white space around it and
\* without a dot at its end.
NamedBy(raw) ==
  {d \in {ToLower(SubSeq(raw, i, j)) : i \in 1 .. Len(raw), j \in 1 .. Len(raw)} :
     /\ IsNormal(d)
     /\ \E i \in 1 .. Len(raw), j \in 1 .. Len(raw) :
          /\ d = ToLower(SubSeq(raw, i, j))
          /\ \A k \in 1 .. i - 1 : raw[k] = "space"
          /\ \A k \in j + 1 .. Len(raw) : raw[k] = "space" \/ (k = j + 1 /\ raw[k] = "dot")}

\* normalizeDomain accepts a text if and only if it names a domain, and returns the
\* one it names; a domain in that form it leaves as it is.
NormalizationIsCorrect ==
  op # None =>
    LET d == normalizeDomain(op.domain)
    IN  /\ NamedBy(op.domain) = IF d = None THEN {} ELSE {d}
        /\ d # None => normalizeDomain(d) = d

\* normalizeDomains refuses a list with a text that names no domain; of any other list
\* it keeps every domain once, the primary one first.
DomainsAreDistinct ==
  op # None /\ NamedBy(op.domain) # {} =>
    LET primary == CHOOSE d \in NamedBy(op.domain) : TRUE
        domains == normalizeDomains(primary, op.domains)
    IN  IF \E t \in Range(op.domains) : NamedBy(t) = {}
        THEN domains = None
        ELSE /\ domains[1] = primary
             /\ Range(domains) = {primary} \cup UNION {NamedBy(t) : t \in Range(op.domains)}
             /\ Len(domains) = Cardinality(Range(domains))

\* All or nothing, whether certbot succeeds, fails or is killed after it has done its work:
\* either the operation is not a success and no certificate has changed, or there is what
\* was asked for and the certificates of other names are as they were.  What was asked for
\* is a certificate under the name, an issued one for every domain of the request, and
\* none after a revocation.
CertificateIsThere ==
  [][Manage =>
       \/ result'.status # "success" /\ UNCHANGED live
       \/ \E name \in NamedBy(op.domain) :
            /\ Others(name)' = Others(name)
            /\ Has(name)' = (op.action # "revoke")
            /\ op.action = "issue" =>
                 \E c \in live' : c.name = name /\
                   \A raw \in {op.domain} \cup Range(op.domains) :
                     NamedBy(raw) # {} /\ NamedBy(raw) \subseteq c.domains]_certVars
=============================================================================

------------------------------ MODULE MCCerts -------------------------------
EXTENDS Certs

CONSTANT MaxText     \* bound on the texts that are tried as a domain

\* A domain, another way to write it, a second domain, and a text that is none.
Plain   == <<"a", "dot", "a">>
Untidy  == <<"space", "A", "dot", "a", "dot">>
Hyphen  == <<"a", "hyphen", "a", "dot", "a">>
Single  == <<"a">>
Texts   == {Plain, Untidy, Hyphen, Single}

\* Every short text, and every longer one of letters and dots, as long as the limits need.
AllTexts ==
  BoundedSeq(Chars, MaxText) \cup [1 .. MaxDomain + 1 -> {"a", "dot"}]

Issue == [kind |-> "certificate", form |-> "good", action |-> "issue", domain |-> Untidy,
          domains |-> <<>>, email |-> "ops", method |-> "none", webroot |-> "none", reason |-> "none"]

\* Requests that differ from a plain one in their domain, in their other domains, in
\* the challenge, in their action or in what that action looks at.
MCRequests ==
  {[Issue EXCEPT !.domain = t, !.action = "renew"] : t \in AllTexts}
  \cup {[Issue EXCEPT !.domains = ts] : ts \in BoundedSeq(Texts, 3)}
  \cup {[Issue EXCEPT !.method = m, !.webroot = w] :
          m \in {"none", "standalone", "webroot", "dns"}, w \in {"none", "relative", "absolute"}}
  \cup {[Issue EXCEPT !.action = a, !.webroot = w, !.reason = r] :
          a \in {"renew", "revoke"}, w \in {"none", "relative", "absolute"},
          r \in {"none", "superseded", "other"}}
  \cup {[Issue EXCEPT !.email = "none"], [Issue EXCEPT !.action = "delete"],
        [Issue EXCEPT !.form = "garbled"]}
=============================================================================

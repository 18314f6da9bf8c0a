------------------------------ MODULE MCWorker ------------------------------
(* One execution, by the Codex Adapter or by another; h1 is a rootful daemon, *)
(* h2 a rootless one.                                                         *)
EXTENDS Worker

CONSTANTS e1, h1, h2

MCRun(adapter, harness, route, provenance, exposure, title) ==
    [adapter |-> adapter, harness |-> harness, route |-> route, autonomy |-> "verify",
     provenance |-> provenance, allowExternal |-> TRUE, exposure |-> exposure,
     maxExposure |-> "account", title |-> title]

MCInputs ==
    {MCRun("codex", "codex", "native", "internal", "none", TRUE),
     MCRun("codex", "codex", "brokered", "external", "none", TRUE),
     MCRun("port", "port", "brokered", "external", "scoped", TRUE),
     MCRun("port", "port", "brokered", "internal", "none", FALSE),
     MCRun("codex", "port", "brokered", "internal", "none", TRUE)}

MCPortCapabilities ==
    {[exposure |-> "unresolved", supported |-> {"verify"}, boundary |-> TRUE,
      reportsModel |-> TRUE, fresh |-> TRUE],
     [exposure |-> "none", supported |-> {}, boundary |-> TRUE,
      reportsModel |-> FALSE, fresh |-> TRUE]}

MCLacks        == [h \in {h1, h2} |-> {}]
MCFingerprints == {h1, h2}
MCRootless     == {h2}

(* The cross-check against its reference, for every order of up to three      *)
(* claims and two observations; and the matrix never takes from a stronger    *)
(* Isolation, or from a smaller Exposure, what it gives a weaker one.         *)
Short(n) == UNION {[1..k -> {"a", "b"}] : k \in 0..n}

ASSUME CrossCheckCounts ==
    \A claims \in Short(3), observed \in Short(2) :
        CrossCheck(claims, observed, {"a", "b"})
            <=> CrossCheckReference(claims, observed, {"a", "b"})

ASSUME MatrixIsMonotone ==
    \A x, y \in Exposures, allow \in BOOLEAN :
        /\ PermittedProvenance(x, "container", allow)
               \subseteq PermittedProvenance(x, "container-rootless", allow)
        /\ \A i \in Isolations :
               Rung(x) <= Rung(y) =>
                   PermittedProvenance(y, i, allow) \subseteq PermittedProvenance(x, i, allow)
=============================================================================

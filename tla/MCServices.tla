----------------------------- MODULE MCServices -----------------------------
(***************************************************************************)
(* One model for the services that share no state with one another: in     *)
(* each behaviour one of them runs, so that the states explored are the    *)
(* sum of theirs and every property is checked over its own component.     *)
(* Their constants are given values here and in Services.cfg.              *)
(***************************************************************************)
EXTENDS FeedManager, BlockClaims, TrustAnchors, DecisionRecorder, Observation,
        ProviderEngine, Recursion, Validator, QueryDecision, Credentials, Outbox

\* The feeds, the sources they start with and what these publish.
CONSTANTS f1, f2, u1, u2, k1
StartUrls == [f \in Feeds |-> IF f = f1 THEN u1 ELSE u2]
Published == [u \in Urls |-> IF u = u1 THEN 2 ELSE 1]

\* A domain and a name below it, claimed by feeds of three categories.
BlockedNames == {<<"evil", "com">>, <<"login", "evil", "com">>}
CategorySeverity == [c \in Categories |-> CASE c = "malware" -> 0 [] c = "c2" -> 1 [] OTHER -> 2]

\* Networks and policies.  alice's unrelated /32 is longer than bob's /16, which
\* lies inside her /8; carol is not yet stored; others may be moved or emptied.
NetworkNames == [n_default |-> 3, alice |-> 1, bob |-> 2, carol |-> 4]
Lengths == [ten8 |-> 8, ten16 |-> 16, far32 |-> 32]
Inside == [ten8 |-> {"laptop"}, ten16 |-> {"laptop"}, far32 |-> {"phone"}]
Network(ranges, policy, enabled) == [ranges |-> ranges, policy |-> policy, enabled |-> enabled]
Rules(allow, block, categories) == [allow |-> allow, block |-> block, categories |-> categories]
FirstNetworks ==
    [n_default |-> Network({}, "standard", TRUE),
     alice |-> Network({"ten8", "far32"}, "standard", TRUE),
     bob |-> Network({"ten16"}, "monitor", TRUE),
     carol |-> Absent]
FirstPolicies ==
    [standard |-> Rules({}, {"evil"}, {"malware"}), monitor |-> Rules({}, {}, {})]
NetworkEdits ==
    {[network |-> "n_default", row |-> r] :
        r \in {Network({}, "monitor", TRUE), Network({"ten16"}, "standard", TRUE),
               Network({}, "standard", FALSE)}}
    \cup {[network |-> "alice", row |-> r] :
        r \in {Network({"ten8"}, "standard", FALSE), Network({"ten16"}, "monitor", TRUE)}}
    \cup {[network |-> "bob", row |-> r] :
        r \in {Network({"ten16"}, "standard", TRUE), Network({}, "monitor", TRUE)}}
    \cup {[network |-> "carol", row |-> Network({"ten16"}, "standard", TRUE)]}
PolicyEdits ==
    {[policy |-> "standard", row |-> Rules({"login"}, {"evil"}, {"malware"})],
     [policy |-> "standard", row |-> Rules({}, {}, {})],
     [policy |-> "monitor", row |-> Rules({}, {"login"}, {"malware"})]}
Ancestors == [login |-> {"login", "evil"}, other |-> {"other"}]
FiledUnder == [login |-> {}, evil |-> {"malware"}, other |-> {"malware"}]

\* The world of names.  root, uk and org are signed and couk is not; org has a
\* wildcard, and beside it hole, which like ent exists only through a name below
\* it; x, ghost and nx do not exist; la is an alias of itself; a and b have only
\* each other's nameservers.
WorldUp ==
    [root |-> "root", uk |-> "root", org |-> "root", a |-> "root", b |-> "root",
     nroot |-> "root", couk |-> "uk", nuk |-> "uk", alias |-> "uk", la |-> "uk",
     lc |-> "uk", ghost |-> "uk", x |-> "ghost", ent |-> "uk", host |-> "ent",
     ncouk |-> "couk", sub |-> "couk", www |-> "sub",
     worg |-> "org", star |-> "org", nx |-> "org", hole |-> "org", inhole |-> "hole",
     na |-> "a", nb |-> "b"]
WorldTree == DOMAIN WorldUp
WorldAbove[n \in WorldTree] ==
    IF n = "root" THEN {n} ELSE {n} \cup WorldAbove[WorldUp[n]]
WorldCuts == {"root", "uk", "couk", "org", "a", "b"}
WorldSigned == {"root", "uk", "org"}
WorldHeld ==
    [owner : {"www", "worg", "star", "inhole", "host", "nroot", "nuk", "ncouk", "na", "nb"},
     type : {"A"}]
      \cup [owner : {"uk", "org"}, type : {"DS"}]
WorldAlias == [alias |-> "worg", la |-> "la", lc |-> "alias"]
WorldStar == [org |-> "star"]
WorldNameservers ==
    [root |-> {"nroot"}, uk |-> {"nuk"}, couk |-> {"ncouk", "nb"}, org |-> {"nuk"},
     a |-> {"nb"}, b |-> {"na"}]

\* The canonical order of the names but star, which comes after org.
WorldOrder ==
    <<"root", "a", "na", "b", "nb", "nroot", "org", "hole", "inhole", "nx", "worg", "uk",
      "alias", "couk", "ncouk", "sub", "www", "ent", "host", "ghost", "x", "la", "lc", "nuk">>
WorldRank ==
    LET place(n) == CHOOSE i \in DOMAIN WorldOrder : WorldOrder[i] = n
    IN [n \in WorldTree |-> IF n = "star" THEN 3 * place("org") + 1 ELSE 3 * place(n)]

ASSUME WorldAssumption == OneZoneEach /\ OldHaveNoDS

WorldQuestions ==
    [owner : {"www", "alias", "x", "nuk", "la"}, type : {"A"}] \cup {Question("couk", "DS")}
WorldExamined ==
    [owner : {"alias", "lc", "la", "www", "ncouk", "x", "ent", "nx", "worg", "hole", "star"},
     type : {"A"}]
      \cup {Question("couk", "DS"), Question("uk", "DS"), Question("org", "DS"), Question("nx", "NS"),
            Question("uk", "NS")}

-----------------------------------------------------------------------------
VARIABLE focus      \* the service that runs

feeds == vars
others == <<claimVars, anchorVars, recorderVars, observationVars, providerVars,
            recursionVars, validatorVars, decisionVars, credentialVars, outboxVars>>

ServicesInit ==
    /\ focus \in {"feeds", "claims", "anchors", "recorder", "observation", "providers",
                  "recursion", "validator", "decision", "credentials", "outbox"}
    /\ Init /\ ClaimsInit /\ AnchorsInit /\ RecorderInit /\ ObservationInit
    /\ ProviderInit /\ RecursionInit /\ ValidatorInit /\ DecisionInit
    /\ CredentialInit /\ (focus = "credentials" \/ BootstrapPending)
    /\ OutboxInit

ServicesNext ==
    /\ UNCHANGED focus
    /\ \/ /\ focus = "feeds"
          /\ UNCHANGED others
          /\ Next
       \/ /\ focus = "claims"
          /\ UNCHANGED <<feeds, anchorVars, recorderVars, observationVars,
                         providerVars, recursionVars, validatorVars, decisionVars,
                         credentialVars, outboxVars>>
          /\ ClaimsNext
       \/ /\ focus = "anchors"
          /\ UNCHANGED <<feeds, claimVars, recorderVars, observationVars,
                         providerVars, recursionVars, validatorVars, decisionVars,
                         credentialVars, outboxVars>>
          /\ AnchorsNext
       \/ /\ focus = "recorder"
          /\ UNCHANGED <<feeds, claimVars, anchorVars, observationVars, providerVars,
                         recursionVars, validatorVars, decisionVars, credentialVars,
                         outboxVars>>
          /\ RecorderNext
       \/ /\ focus = "observation"
          /\ UNCHANGED <<feeds, claimVars, anchorVars, recorderVars, providerVars,
                         recursionVars, validatorVars, decisionVars, credentialVars,
                         outboxVars>>
          /\ ObservationNext
       \/ /\ focus = "providers"
          /\ UNCHANGED <<feeds, claimVars, anchorVars, recorderVars, observationVars,
                         recursionVars, validatorVars, decisionVars, credentialVars,
                         outboxVars>>
          /\ ProviderNext
       \/ /\ focus = "recursion"
          /\ UNCHANGED <<feeds, claimVars, anchorVars, recorderVars, observationVars,
                         providerVars, validatorVars, decisionVars, credentialVars,
                         outboxVars>>
          /\ RecursionNext
       \/ /\ focus = "validator"
          /\ UNCHANGED <<feeds, claimVars, anchorVars, recorderVars, observationVars,
                         providerVars, recursionVars, decisionVars, credentialVars,
                         outboxVars>>
          /\ ValidatorNext
       \/ /\ focus = "decision"
          /\ UNCHANGED <<feeds, claimVars, anchorVars, recorderVars, observationVars,
                         providerVars, recursionVars, validatorVars, credentialVars,
                         outboxVars>>
          /\ DecisionNext
       \/ /\ focus = "credentials"
          /\ UNCHANGED <<feeds, claimVars, anchorVars, recorderVars, observationVars,
                         providerVars, recursionVars, validatorVars, decisionVars,
                         outboxVars>>
          /\ CredentialNext
       \/ /\ focus = "outbox"
          /\ UNCHANGED <<feeds, claimVars, anchorVars, recorderVars, observationVars,
                         providerVars, recursionVars, validatorVars, decisionVars,
                         credentialVars>>
          /\ OutboxNext

ServicesSpec == ServicesInit /\ [][ServicesNext]_<<focus, feeds, others>>

\* Every variable of the service that runs holds a value of its kind, within its
\* bounds.
ServicesTypeOK ==
    /\ focus = "feeds" => TypeOK
    /\ focus = "claims" => ClaimsTypeOK
    /\ focus = "anchors" => AnchorsTypeOK
    /\ focus = "recorder" => RecorderTypeOK
    /\ focus = "observation" => ObservationTypeOK
    /\ focus = "providers" => ProviderTypeOK
    /\ focus = "recursion" => RecursionTypeOK
    /\ focus = "validator" => ValidatorTypeOK
    /\ focus = "decision" => DecisionTypeOK
    /\ focus = "credentials" => CredentialTypeOK
    /\ focus = "outbox" => OutboxTypeOK
=============================================================================

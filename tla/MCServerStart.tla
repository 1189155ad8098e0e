--------------------------- MODULE MCServerStart ---------------------------
(***************************************************************************)
(* Small instances of ServerStart for TLC: what the server is configured   *)
(* with.                                                                   *)
(***************************************************************************)
EXTENDS ServerStart

M(api, config) == [api |-> api, config |-> config]
Service == M(FALSE, "good")
Api == M(TRUE, "good")

\* The API server after a service, before one; and plans that the deployer
\* cannot complete.
SomePlans ==
    {<<Service, Api>>, <<Api, Service>>,
     <<M(FALSE, "noFlag"), Api>>, <<Api, M(FALSE, "noFlag")>>,
     <<M(FALSE, "missing"), Api>>}

\* The API server alone.
ApiOnly == {<<Api>>}
============================================================================

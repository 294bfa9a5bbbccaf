--------------------------- MODULE MCRdfValidation ---------------------------
(* RdfValidation for TLC: flows that between them take every branch.        *)
EXTENDS RdfValidation, TLC

NoFile == [found |-> TRUE, service |-> TRUE, destination |-> TRUE, path |-> "absent",
           exists |-> FALSE, rdf |-> FALSE, asset |-> TRUE, shacl |-> TRUE,
           outcome |-> "conforms"]
File(outcome) == [NoFile EXCEPT !.path = "given", !.exists = TRUE, !.rdf = TRUE, !.outcome = outcome]

\* Every way the subscriber can end, each as one landing place.
Landings ==
    {NoFile} \cup {File(o) : o \in {"conforms", "violates", "throws"}} \cup
    {[NoFile EXCEPT !.found = FALSE], [NoFile EXCEPT !.path = "given"],
     [NoFile EXCEPT !.path = "malformed"],
     [File("conforms") EXCEPT !.service = FALSE], [File("conforms") EXCEPT !.destination = FALSE],
     [File("conforms") EXCEPT !.rdf = FALSE], [File("conforms") EXCEPT !.asset = FALSE],
     [File("conforms") EXCEPT !.shacl = FALSE]}

\* A push transfer: the provider's data plane writes for the consumer.
Push(consumerLanding) ==
    [side |-> "provider", kafka |-> FALSE, participant |-> "unset", service |-> TRUE,
     shacl |-> TRUE, parts |-> {"conforms"}, callback |-> TRUE, consumerId |-> TRUE,
     correlates |-> TRUE,
     landing |-> [s \in Sides |-> IF s = "consumer" THEN consumerLanding ELSE NoFile]]

ManyFlows ==
    LET keys == {<<TRUE, TRUE>>, <<FALSE, TRUE>>, <<FALSE, FALSE>>} IN
    {Push(l) : l \in Landings}
    \cup {[Push(NoFile) EXCEPT !.consumerId = k[1], !.correlates = k[2]] : k \in keys}
    \cup {[Push(NoFile) EXCEPT !.participant = w, !.parts = ps] :
             w \in {"unset", "own", "other"},
             ps \in {{"plain"}, {"conforms", "plain"}, {"conforms", "violates"},
                     {"conforms", "throws"}, {"violates", "throws"}}}
    \cup {[Push(File("violates")) EXCEPT !.kafka = TRUE], [Push(NoFile) EXCEPT !.callback = FALSE],
          [Push(NoFile) EXCEPT !.service = FALSE], [Push(NoFile) EXCEPT !.shacl = FALSE],
          [Push(File("violates")) EXCEPT !.side = "consumer"]}

\* A transfer that is pushed and mirrored, or one that is validated where it lands.
FewFlows ==
    {[Push(NoFile) EXCEPT !.parts = {"violates"}],
     [Push(File("conforms")) EXCEPT !.side = "consumer", !.callback = FALSE, !.parts = {"plain"}]}
=============================================================================

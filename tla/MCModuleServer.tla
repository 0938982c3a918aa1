-------------------------- MODULE MCModuleServer --------------------------
(* ModuleServer on small instances.                                        *)
EXTENDS ModuleServer, Identifiers

CONSTANTS h1, h2, h3

\* Two handlers of service 1 and one of service 2, as in the example modules.
MCKey == [h \in {h1, h2, h3} |-> toServiceIdentifier(IF h = h2 THEN 2 ELSE 1)]

\* One handler.
OneKey == [h \in {h1} |-> toServiceIdentifier(1)]

\* No handlers.
NoKey == [h \in {} |-> 0]

ModulesAtEdges == {toModuleIdentifier(n) : n \in Edge}

\* Types::toServiceIdentifier and toModuleIdentifier keep modules and services
\* apart at every number where a byte overflows or a sign changes; so a handler
\* in the events cache, which is filed under a service, is never found by the
\* identifier of a module.
ServicesApart ==
    /\ IdentifiersApart
    /\ \A h \in Range(eventsCache) : Key[h] \notin ModulesAtEdges
===========================================================================

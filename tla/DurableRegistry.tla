--------------------------- MODULE DurableRegistry ---------------------------
(***************************************************************************)
(* What the border router's device registry promises of its table of       *)
(* nodes, whatever task runs when and whenever the power fails:            *)
(*   - a node, once known, is forgotten by nothing but a power cut;        *)
(*   - a node whose record has reached the flash is never forgotten;       *)
(*   - a power cut brings back no node that was not known;                 *)
(*   - the table never holds more than MaxNodes nodes.                     *)
(***************************************************************************)
EXTENDS Naturals, FiniteSets

CONSTANTS Euis,      \* the EUI-64 identities of the sensor nodes
          MaxNodes   \* DEVICE_REGISTRY_MAX_NODES

VARIABLES known,     \* the nodes the registry answers for
          durable    \* those no power cut can take away

Init == known = {} /\ durable = {}

Learn == \E e \in Euis : /\ Cardinality(known \cup {e}) <= MaxNodes
                         /\ known' = known \cup {e}
                         /\ UNCHANGED durable

Persist == \E kept \in SUBSET known : /\ durable \subseteq kept
                                      /\ durable' = kept
                                      /\ UNCHANGED known

PowerCut == \E kept \in SUBSET known : /\ durable \subseteq kept
                                       /\ known' = kept
                                       /\ durable' = kept

Next == Learn \/ Persist \/ PowerCut

Spec == Init /\ [][Next]_<<known, durable>>
==============================================================================

------------------------- MODULE MCClusterResources -------------------------
EXTENDS ClusterResources

\* A changed spec, a lost label, a label with another cluster's name, no owner.
SomeEdits ==
    { [owned |-> TRUE,  spec |-> FALSE, label |-> "own"],
      [owned |-> TRUE,  spec |-> FALSE, label |-> "none"],
      [owned |-> TRUE,  spec |-> TRUE,  label |-> "other"],
      [owned |-> FALSE, spec |-> TRUE,  label |-> "own"] }
=============================================================================
